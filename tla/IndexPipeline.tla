--------------------------- MODULE IndexPipeline ---------------------------
(***************************************************************************)
(* The concurrent read pipeline of graphoxide-index-runtime: fixed I/O     *)
(* workers read the requested files under a byte-credit ledger and send    *)
(* them through a matrix of bounded rings to fixed compute workers; the    *)
(* calling thread joins them and returns one outcome per request, or an    *)
(* error when the run was cancelled or a worker panicked. Meanwhile other  *)
(* programs rewrite and replace the files.                                 *)
(*                                                                         *)
(* A request is its source ordinal. A file is an inode at the request's    *)
(* path and a generation per inode; the metadata identity the code         *)
(* compares is the pair of both. Sizes are counted in ticket credits       *)
(* (MIN_POOL_BUFFER_BYTES). Rings are used through the interface SpscRing  *)
(* implements (BoundedFifo). A worker that spins takes no step.            *)
(***************************************************************************)
EXTENDS Integers, Sequences, FiniteSetsExt, Functions

CONSTANTS
  Batches,          \* request lists a caller may pass, in identity order
  IoWorkers,        \* number of I/O workers of the layout
  ComputeWorkers,   \* number of compute workers of the layout
  QueueCapacity,    \* READY_QUEUE_CAPACITY
  Attempts,         \* FILE_READ_ATTEMPTS
  ReadBatches,      \* read_batch calls that read a whole file, by request
  Budget,           \* ready-input credits
  Class,            \* credits a request's file needs, by generation
  MaxClass,         \* credits of the largest size the request admits
  Bound,            \* requests that carry an expected identity
  Changing,         \* requests whose files other programs change
  MaxChanges        \* bound on file changes by other programs

Requests == UNION { Range(b) : b \in Batches }

ASSUME PipelineAssumption ==
  /\ \A b \in Batches : b \in Seq(Nat)
  /\ {IoWorkers, ComputeWorkers, QueueCapacity, Attempts, Budget} \subseteq Nat \ {0}
  /\ MaxChanges \in Nat /\ MaxClass \in Nat
  /\ ReadBatches \in [Requests -> Nat \ {0}]
  /\ Class \in [Requests -> [0 .. MaxChanges -> Nat \ {0}]]
  /\ Bound \subseteq Requests /\ Changing \subseteq Requests

VARIABLES
  batch, result,       \* the caller's requests and what it got back
  terminal,            \* RunControl::terminal
  ioPc, todo, attempt, endTo,
  read,                \* per request: the read in progress or delivered
  lease, reserved,     \* per request: its ByteCreditLease; the ledger counter
  ring,
  cpuPc, first, offset, ended, current,
  completed, failed,   \* per request: times reported completed, failed
  path, gen,           \* the files
  changes              \* how often other programs changed one

ioVars   == <<ioPc, todo, attempt, endTo, read>>
cpuVars  == <<cpuPc, first, offset, ended, current, completed>>
fileVars == <<path, gen, changes>>
vars == <<batch, result, terminal, ioVars, lease, reserved, ring, cpuVars, failed, fileVars>>

Io  == 0 .. IoWorkers - 1
Cpu == 0 .. ComputeWorkers - 1
Generations == 0 .. MaxChanges
End == -1     \* ComputeWork::End; every other ring entry is a request
Nobody == -1

NoRead == [before |-> <<0, 0>>, handle |-> 0, bytes |-> {}, batches |-> 0,
           same |-> FALSE]

Running == terminal = "running"

(* RunControl: the effect of the compare-and-swap loops.                   *)
TerminalStates == {"running", "cancelled", "io_panicked", "compute_panicked"}

AfterCancel(state) == IF state = "running" THEN "cancelled" ELSE state

AfterFailLastWins(state, failure) == failure
AfterFail(state, failure) == IF state = "compute_panicked" THEN state ELSE failure

-----------------------------------------------------------------------------
Init ==
  /\ batch \in Batches
  /\ result = "none"
  /\ terminal = "running"
  /\ ioPc = [w \in Io |-> "unspawned"]
  /\ todo = [w \in Io |-> {}]
  /\ attempt = [w \in Io |-> 0]
  /\ endTo = [w \in Io |-> 0]
  /\ read = [r \in Requests |-> NoRead]
  /\ lease = [r \in Requests |-> 0]
  /\ reserved = 0
  /\ ring = [w \in Io |-> [c \in Cpu |-> <<>>]]
  /\ cpuPc = [c \in Cpu |-> "unspawned"]
  /\ first = [c \in Cpu |-> 0]
  /\ offset = [c \in Cpu |-> 0]
  /\ ended = [c \in Cpu |-> {}]
  /\ current = [c \in Cpu |-> Nobody]
  /\ completed = [r \in Requests |-> 0]
  /\ failed = [r \in Requests |-> 0]
  /\ path = [r \in Requests |-> 0]
  /\ gen = [r \in Requests |-> [i \in Generations |-> 0]]
  /\ changes = 0

-----------------------------------------------------------------------------
(* Other programs, and the holder of the cancellation handle. *)

Change ==
  /\ result = "none" /\ changes < MaxChanges
  /\ changes' = changes + 1

(* A program rewrites the file in place. *)
Rewrite(r) ==
  /\ Change
  /\ gen' = [gen EXCEPT ![r][path[r]] = @ + 1]
  /\ UNCHANGED <<batch, result, terminal, ioVars, lease, reserved, ring, cpuVars, failed, path>>

(* A program renames a new file over the path; open handles keep the old. *)
Replace(r) ==
  /\ Change
  /\ path' = [path EXCEPT ![r] = @ + 1]
  /\ UNCHANGED <<batch, result, terminal, ioVars, lease, reserved, ring, cpuVars, failed, gen>>

Cancel ==
  /\ result = "none"
  /\ terminal' = AfterCancel(terminal)
  /\ terminal' # terminal
  /\ UNCHANGED <<batch, result, ioVars, lease, reserved, ring, cpuVars, failed, fileVars>>

-----------------------------------------------------------------------------
(* The calling thread. *)

(* bounded_layout: never more workers than requests. *)
IoCount  == Min({IoWorkers, Len(batch)})
CpuCount == Min({ComputeWorkers, Len(batch)})
IoSpawned  == 0 .. IoCount - 1
CpuSpawned == 0 .. CpuCount - 1

IoOwner(r)  == r % IoCount
CpuOwner(r) == r % CpuCount

(* Nothing to do, already cancelled, or a request named twice. *)
Refuse ==
  /\ result = "none" /\ \A w \in Io : ioPc[w] = "unspawned"
  /\ \/ batch = <<>> /\ result' = "ok"
     \/ batch # <<>> /\ ~Running /\ result' = terminal
     \/ Running /\ ~IsInjective(batch) /\ result' = "duplicate"
  /\ UNCHANGED <<batch, terminal, ioVars, lease, reserved, ring, cpuVars, failed, fileVars>>

Spawn ==
  /\ result = "none" /\ \A w \in Io : ioPc[w] = "unspawned"
  /\ batch # <<>> /\ Running /\ IsInjective(batch)
  /\ ioPc' = [w \in Io |-> IF w \in IoSpawned THEN "next" ELSE "done"]
  /\ cpuPc' = [c \in Cpu |-> IF c \in CpuSpawned THEN "poll" ELSE "done"]
  /\ todo' = [w \in Io |-> { r \in Range(batch) : IoOwner(r) = w }]
  /\ UNCHANGED <<batch, result, terminal, attempt, endTo, read, lease, reserved, ring,
                 first, offset, ended, current, completed, failed, fileVars>>

IoLeft  == { w \in Io : ioPc[w] \in {"done", "failed"} }
CpuLeft == { c \in Cpu : cpuPc[c] \in {"done", "failed"} }

(* Both pools joined. *)
Return ==
  /\ result = "none"
  /\ IoLeft = Io /\ CpuLeft = Cpu
  /\ result' = IF Running THEN "ok" ELSE terminal
  /\ UNCHANGED <<batch, terminal, ioVars, lease, reserved, ring, cpuVars, failed, fileVars>>

-----------------------------------------------------------------------------
(* Byte credits. *)

FitsOffByOne(n) == reserved + n <= Budget + 1

Fits(n) == reserved + n <= Budget

Acquire(r, n) ==
  /\ lease' = [lease EXCEPT ![r] = n]
  /\ reserved' = reserved + n

Release(r) ==
  /\ lease' = [lease EXCEPT ![r] = 0]
  /\ reserved' = reserved - lease[r]

(* The credits the requests rs hold under the leases l, one by one.        *)
Credits(l, rs) == UNION { {r} \X (1 .. l[r]) : r \in rs }

(* The credits of everything left in rings whose last endpoint goes away.  *)
ReleaseAll(gone) ==
  /\ lease' = [r \in Requests |-> IF r \in gone THEN 0 ELSE lease[r]]
  /\ reserved' = reserved - Cardinality(Credits(lease, gone))

-----------------------------------------------------------------------------
(* I/O worker w. *)

(* The worker goes through its requests in the order of the batch. *)
Now(w) == batch[Min({ i \in DOMAIN batch : batch[i] \in todo[w] })]
Finished(w) == todo' = [todo EXCEPT ![w] = @ \ {Now(w)}]

Target(w) == CpuOwner(Now(w))

IoGoto(w, pc) == ioPc' = [ioPc EXCEPT ![w] = pc]

IoUnchanged == UNCHANGED <<batch, result, terminal, ring, cpuVars, fileVars>>

(* Every loop of the worker, and every read batch, first looks whether the *)
(* run is over; the read in progress is then a failure that is not kept.   *)
IoStop(w) ==
  /\ ~Running
  /\ ioPc[w] \in {"next", "slot", "ticket", "grow", "open", "read", "send", "end"}
  /\ IoGoto(w, "leave")
  /\ IF ioPc[w] \in {"open", "read", "send"} THEN Release(Now(w)) ELSE UNCHANGED <<lease, reserved>>
  /\ UNCHANGED <<todo, attempt, endTo, read, failed>>
  /\ IoUnchanged

NextRequest(w) ==
  /\ ioPc[w] = "next" /\ Running
  /\ IoGoto(w, IF todo[w] = {} THEN "end" ELSE "slot")
  /\ UNCHANGED <<todo, attempt, endTo, read, lease, reserved, failed>>
  /\ IoUnchanged

ReserveSlot(w) ==
  /\ ioPc[w] = "slot" /\ Running
  /\ Len(ring[w][Target(w)]) < QueueCapacity
  /\ IoGoto(w, "ticket")
  /\ attempt' = [attempt EXCEPT ![w] = 1]
  /\ UNCHANGED <<todo, endTo, read, lease, reserved, failed>>
  /\ IoUnchanged

(* read_ready_input, one attempt: a minimum credit before the probe. *)
TakeTicket(w) ==
  /\ ioPc[w] = "ticket" /\ Running
  /\ Fits(1)
  /\ Acquire(Now(w), 1)
  /\ IoGoto(w, "probe")
  /\ UNCHANGED <<todo, attempt, endTo, read, failed>>
  /\ IoUnchanged

(* Going on with the next request without a record. *)
SkipRequest(w) ==
  /\ Release(Now(w))
  /\ Finished(w)
  /\ IoGoto(w, "next")
  /\ UNCHANGED failed

(* The request ends in a recorded failure. *)
FailRequest(w) ==
  /\ failed' = [failed EXCEPT ![Now(w)] = @ + 1]
  /\ Release(Now(w))
  /\ Finished(w)
  /\ IoGoto(w, "next")

PathId(r) == <<path[r], gen[r][path[r]]>>
Needs(r, id) == Class[r][id[2]]

(* Not the identity the caller bound, or larger than the caller allows. *)
Inadmissible(r) == (r \in Bound /\ PathId(r) # <<0, 0>>) \/ Needs(r, PathId(r)) > MaxClass

(* Growing the ticket without giving it back first. *)
ProbeKeepingTicket(w) ==
  LET r == Now(w) IN
  /\ ioPc[w] = "probe"
  /\ IF Inadmissible(r)
     THEN FailRequest(w) /\ UNCHANGED read
     ELSE /\ read' = [read EXCEPT ![r] = [NoRead EXCEPT !.before = PathId(r)]]
          /\ IoGoto(w, IF Needs(r, PathId(r)) > lease[r] THEN "grow" ELSE "open")
          /\ UNCHANGED <<lease, reserved, todo, failed>>
  /\ UNCHANGED <<attempt, endTo>>
  /\ IoUnchanged

Probe(w) ==
  LET r == Now(w) IN
  /\ ioPc[w] = "probe"
  /\ IF Inadmissible(r)
     THEN FailRequest(w) /\ UNCHANGED read
     ELSE /\ read' = [read EXCEPT ![r] = [NoRead EXCEPT !.before = PathId(r)]]
          /\ IF Needs(r, PathId(r)) > lease[r]
             THEN Release(r) /\ IoGoto(w, "grow")
             ELSE UNCHANGED <<lease, reserved>> /\ IoGoto(w, "open")
          /\ UNCHANGED <<todo, failed>>
  /\ UNCHANGED <<attempt, endTo>>
  /\ IoUnchanged

(* The file needs more than the ticket: wait for its exact class, or fail  *)
(* when no amount of waiting can help.                                     *)
Grow(w) ==
  LET r == Now(w)
      n == Needs(r, read[r].before) IN
  /\ ioPc[w] = "grow" /\ Running
  /\ \/ /\ n > Budget
        /\ FailRequest(w)
     \/ /\ n <= Budget /\ Fits(n)
        /\ Acquire(r, n)
        /\ IoGoto(w, "open")
        /\ UNCHANGED <<todo, failed>>
  /\ UNCHANGED <<attempt, endTo, read>>
  /\ IoUnchanged

(* The attempt saw the file change: give the credit back and start over.   *)
Retry(w) ==
  IF attempt[w] < Attempts
  THEN /\ attempt' = [attempt EXCEPT ![w] = @ + 1]
       /\ Release(Now(w))
       /\ IoGoto(w, "ticket")
       /\ UNCHANGED <<todo, failed>>
  ELSE FailRequest(w) /\ UNCHANGED attempt

Open(w) ==
  LET r == Now(w) IN
  /\ ioPc[w] = "open" /\ Running
  /\ IF PathId(r) # read[r].before
     THEN Retry(w) /\ UNCHANGED read
     ELSE /\ read' = [read EXCEPT ![r].handle = path[r]]
          /\ IoGoto(w, "read")
          /\ UNCHANGED <<todo, attempt, lease, reserved, failed>>
  /\ UNCHANGED endTo
  /\ IoUnchanged

(* One read_batch: bytes of whatever the open file holds now, or the end   *)
(* of a file that a program truncated.                                     *)
ReadBatch(w) ==
  LET r == Now(w)
      g == gen[r][read[r].handle] IN
  /\ ioPc[w] = "read" /\ Running
  /\ \/ /\ read' = [read EXCEPT ![r].bytes = @ \union {g}, ![r].batches = @ + 1]
        /\ IoGoto(w, IF read[r].batches + 1 = ReadBatches[r] THEN "verify" ELSE "read")
     \/ /\ g # read[r].before[2]
        /\ IoGoto(w, "verify")
        /\ UNCHANGED read
  /\ UNCHANGED <<todo, attempt, endTo, lease, reserved, failed>>
  /\ IoUnchanged

HandleId(r) == <<read[r].handle, gen[r][read[r].handle]>>

(* The identity of the open file, then that of the path. *)
SameFile(r) == read[r].batches = ReadBatches[r] /\ HandleId(r) = read[r].before

VerifyFile(w) ==
  LET r == Now(w) IN
  /\ ioPc[w] = "verify"
  /\ read' = [read EXCEPT ![r].same = SameFile(r)]
  /\ IoGoto(w, "confirm")
  /\ UNCHANGED <<todo, attempt, endTo, lease, reserved, failed>>
  /\ IoUnchanged

VerifyLengthOnly(w) ==
  LET r == Now(w) IN
  /\ ioPc[w] = "confirm"
  /\ IF read[r].batches = ReadBatches[r]
     THEN IoGoto(w, "send") /\ UNCHANGED <<todo, attempt, lease, reserved, failed>>
     ELSE Retry(w)
  /\ UNCHANGED <<endTo, read>>
  /\ IoUnchanged

VerifyPath(w) ==
  LET r == Now(w) IN
  /\ ioPc[w] = "confirm"
  /\ IF read[r].same /\ PathId(r) = read[r].before
     THEN IoGoto(w, "send") /\ UNCHANGED <<todo, attempt, lease, reserved, failed>>
     ELSE Retry(w)
  /\ UNCHANGED <<endTo, read>>
  /\ IoUnchanged

(* Any I/O call of an attempt may report an error. *)
IoError(w) ==
  /\ ioPc[w] \in {"probe", "open", "read", "verify", "confirm"}
  /\ ioPc[w] \in {"open", "read"} => Running
  /\ FailRequest(w)
  /\ UNCHANGED <<attempt, endTo, read>>
  /\ IoUnchanged

(* send_reserved_work: the check, then the send. A full ring would end the *)
(* worker's loop.                                                          *)
CheckSend(w) ==
  /\ ioPc[w] = "send" /\ Running
  /\ IoGoto(w, "push")
  /\ UNCHANGED <<todo, attempt, endTo, read, lease, reserved, failed>>
  /\ IoUnchanged

RingFull(w) == Len(ring[w][Target(w)]) = QueueCapacity

Push(w) ==
  /\ ioPc[w] = "push"
  /\ IF RingFull(w)
     THEN IoGoto(w, "end") /\ Release(Now(w)) /\ UNCHANGED <<ring, todo>>
     ELSE /\ ring' = [ring EXCEPT ![w][Target(w)] = Append(@, Now(w))]
          /\ Finished(w)
          /\ IoGoto(w, "next")
          /\ UNCHANGED <<lease, reserved>>
  /\ UNCHANGED <<batch, result, terminal, attempt, endTo, read, cpuVars, failed, fileVars>>

(* send_terminal_work, for each compute worker in turn. *)
SendEnd(w) ==
  LET c == endTo[w] IN
  /\ ioPc[w] = "end" /\ Running
  /\ Len(ring[w][c]) < QueueCapacity
  /\ ring' = [ring EXCEPT ![w][c] = Append(@, End)]
  /\ IF c + 1 \in CpuSpawned
     THEN endTo' = [endTo EXCEPT ![w] = c + 1] /\ UNCHANGED ioPc
     ELSE IoGoto(w, "leave") /\ UNCHANGED endTo
  /\ UNCHANGED <<batch, result, terminal, todo, attempt, read, lease, reserved, cpuVars,
                 failed, fileVars>>

(* The backend panics: unwinding gives the credit back, and with it the    *)
(* failures this worker had recorded are lost.                             *)
IoPanic(w) ==
  /\ ioPc[w] \in {"probe", "open", "read", "verify", "confirm"}
  /\ ioPc[w] \in {"open", "read"} => Running
  /\ Release(Now(w))
  /\ failed' = [r \in Requests |-> IF IoOwner(r) = w THEN 0 ELSE failed[r]]
  /\ IoGoto(w, "panicked")
  /\ UNCHANGED <<todo, attempt, endTo, read>>
  /\ IoUnchanged

(* The worker's senders are dropped, and with each the ring whose receiver *)
(* is already gone. A panicking worker reports its panic.                  *)
IoLeave(w) ==
  /\ ioPc[w] \in {"leave", "panicked"}
  /\ IoGoto(w, IF ioPc[w] = "panicked" THEN "failed" ELSE "done")
  /\ terminal' = IF ioPc[w] = "panicked" THEN AfterFail(terminal, "io_panicked") ELSE terminal
  /\ ReleaseAll(UNION { Range(ring[w][c]) \ {End} : c \in CpuLeft })
  /\ ring' = [ring EXCEPT ![w] = [c \in Cpu |-> IF c \in CpuLeft THEN <<>> ELSE ring[w][c]]]
  /\ UNCHANGED <<batch, result, todo, attempt, endTo, read, cpuVars, failed, fileVars>>

IoStep(w) ==
  \/ IoStop(w) \/ NextRequest(w) \/ ReserveSlot(w) \/ TakeTicket(w) \/ Probe(w) \/ Grow(w)
  \/ Open(w) \/ ReadBatch(w) \/ VerifyFile(w) \/ VerifyPath(w) \/ IoError(w)
  \/ CheckSend(w) \/ Push(w) \/ SendEnd(w)
  \/ IoPanic(w) \/ IoLeave(w)

-----------------------------------------------------------------------------
(* Compute worker c. *)

CpuGoto(c, pc) == cpuPc' = [cpuPc EXCEPT ![c] = pc]

Receiver(c) == (first[c] + offset[c]) % IoCount

(* The next ring of this scan, or the start of the next scan. *)
Advance(c) ==
  IF offset[c] + 1 = IoCount
  THEN /\ offset' = [offset EXCEPT ![c] = 0]
       /\ first' = [first EXCEPT ![c] = (@ + 1) % IoCount]
  ELSE /\ offset' = [offset EXCEPT ![c] = @ + 1]
       /\ UNCHANGED first

CpuUnchanged == UNCHANGED <<batch, result, ioVars, failed, fileVars>>

(* The loop condition, looked at once per scan of the rings. *)
CpuStop(c) ==
  /\ cpuPc[c] = "poll" /\ offset[c] = 0
  /\ ended[c] = IoSpawned \/ ~Running
  /\ CpuGoto(c, "leave")
  /\ UNCHANGED <<first, offset, ended, current, completed, terminal, lease, reserved, ring>>
  /\ CpuUnchanged

Poll(c) ==
  LET w == Receiver(c)
      q == ring[w][c] IN
  /\ cpuPc[c] = "poll"
  /\ offset[c] = 0 => ended[c] # IoSpawned /\ Running
  /\ IF w \in ended[c] \/ q = <<>>
     THEN /\ Advance(c) /\ UNCHANGED <<ring, ended, current, cpuPc>>
     ELSE /\ ring' = [ring EXCEPT ![w][c] = Tail(@)]
          /\ IF Head(q) = End
             THEN /\ ended' = [ended EXCEPT ![c] = @ \union {w}]
                  /\ Advance(c) /\ UNCHANGED <<current, cpuPc>>
             ELSE /\ current' = [current EXCEPT ![c] = Head(q)]
                  /\ CpuGoto(c, "compute") /\ UNCHANGED <<first, offset, ended>>
  /\ UNCHANGED <<completed, terminal, lease, reserved>>
  /\ CpuUnchanged

Compute(c) ==
  /\ cpuPc[c] = "compute"
  /\ completed' = [completed EXCEPT ![current[c]] = @ + 1]
  /\ Release(current[c])
  /\ current' = [current EXCEPT ![c] = Nobody]
  /\ CpuGoto(c, "poll")
  /\ Advance(c)
  /\ UNCHANGED <<ended, terminal, ring>>
  /\ CpuUnchanged

(* The computation panics: reported first, then the input is dropped. *)
ComputePanic(c) ==
  /\ cpuPc[c] = "compute"
  /\ terminal' = AfterFail(terminal, "compute_panicked")
  /\ CpuGoto(c, "panicked")
  /\ UNCHANGED <<first, offset, ended, current, completed, lease, reserved, ring>>
  /\ CpuUnchanged

(* The inputs left in rings keep their credits. *)
CpuLeaveOnly(c) ==
  /\ cpuPc[c] \in {"leave", "panicked"}
  /\ CpuGoto(c, IF cpuPc[c] = "panicked" THEN "failed" ELSE "done")
  /\ ReleaseAll({current[c]} \ {Nobody})
  /\ current' = [current EXCEPT ![c] = Nobody]
  /\ UNCHANGED <<ring, first, offset, ended, completed, terminal>>
  /\ CpuUnchanged

(* The worker's receivers are dropped, and with each the ring whose sender *)
(* is already gone.                                                        *)
CpuLeave(c) ==
  /\ cpuPc[c] \in {"leave", "panicked"}
  /\ CpuGoto(c, IF cpuPc[c] = "panicked" THEN "failed" ELSE "done")
  /\ ReleaseAll(({current[c]} \ {Nobody})
                \union UNION { Range(ring[w][c]) \ {End} : w \in IoLeft })
  /\ ring' = [w \in Io |-> IF w \in IoLeft THEN [ring[w] EXCEPT ![c] = <<>>] ELSE ring[w]]
  /\ current' = [current EXCEPT ![c] = Nobody]
  /\ UNCHANGED <<first, offset, ended, completed, terminal>>
  /\ CpuUnchanged

CpuStep(c) == CpuStop(c) \/ Poll(c) \/ Compute(c) \/ ComputePanic(c) \/ CpuLeave(c)

Main == Refuse \/ Spawn \/ Return

Environment == Cancel \/ \E r \in Changing \intersect Range(batch) : Rewrite(r) \/ Replace(r)

(* Nothing is left to do after the call returned. *)
Returned == result # "none" /\ UNCHANGED vars

Next ==
  \/ Main
  \/ Returned
  \/ Environment
  \/ \E w \in Io : IoStep(w)
  \/ \E c \in Cpu : CpuStep(c)

Spec == Init /\ [][Next]_vars

(* The scheduler runs every thread; nothing is assumed of the environment. *)
FairSpec ==
  /\ Spec
  /\ WF_vars(Main)
  /\ \A w \in Io : WF_vars(IoStep(w))
  /\ \A c \in Cpu : WF_vars(CpuStep(c))
-----------------------------------------------------------------------------
(* Properties. *)

(* Requests whose input left its I/O worker and is not dropped yet. *)
InRing == UNION { UNION { Range(ring[w][c]) \ {End} : c \in Cpu } : w \in Io }
InCpu  == Range(current) \ {Nobody}
Delivered == InRing \union InCpu \union { r \in Requests : completed[r] > 0 }

(* Requests whose bytes may be in memory. *)
Buffered ==
  InRing \union InCpu
    \union { Now(w) : w \in { v \in Io : ioPc[v] \in {"read", "verify", "confirm", "send", "push"} } }

IoStates == {"unspawned", "next", "slot", "ticket", "probe", "grow", "open", "read", "verify",
             "confirm", "send", "push", "end", "leave", "panicked", "done", "failed"}
CpuStates == {"unspawned", "poll", "compute", "leave", "panicked", "done", "failed"}

(* A call that returns results accounts for every request exactly once: one *)
(* computed input or one recorded failure. Nothing is lost in a ring whose  *)
(* consumer stopped early, and no retry delivers twice.                     *)
ExactlyOneOutcome ==
  result = "ok" => \A r \in Range(batch) : completed[r] + failed[r] = 1

(* An input handed to a compute worker holds the bytes of one generation of *)
(* the file, the one its metadata names, and for a bound request the one    *)
(* the caller asked for, whatever other programs did during the read.       *)
NoTornInput ==
  \A r \in Delivered :
    /\ read[r].bytes = {read[r].before[2]}
    /\ r \in Bound => read[r].before = <<0, 0>>

(* The ledger never promises more than the ready budget, and every buffer   *)
(* in memory is covered by a lease of at least its own class: the bytes of  *)
(* all source buffers together stay within the budget.                      *)
MemoryBounded ==
  /\ reserved <= Budget
  /\ reserved = Cardinality(Credits(lease, Requests))
  /\ \A r \in Buffered : lease[r] >= Needs(r, read[r].before)

(* Whatever ends the run, every credit is back when the call returns: also  *)
(* those of inputs left in rings by a consumer that stopped first.          *)
CreditsReturned == result # "none" => reserved = 0 /\ InRing = {}

(* A worker that panicked is what the caller hears of, and a compute panic  *)
(* before any other: no later cancellation or failure hides it.             *)
PanicReported ==
  /\ result \notin {"none", "compute_panicked"} => \A c \in Cpu : cpuPc[c] # "failed"
  /\ result \notin {"none", "compute_panicked", "io_panicked"} => \A w \in Io : ioPc[w] # "failed"

(* The call returns, whatever fails: no worker waits forever for a slot,    *)
(* for a credit others hold, or for an end marker that never comes.         *)
Termination == <>(result # "none")
=============================================================================
