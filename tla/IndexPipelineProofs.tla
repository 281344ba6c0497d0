------------------------ MODULE IndexPipelineProofs ------------------------
(***************************************************************************)
(* Theorems about IndexPipeline, for any number of workers, requests, ring *)
(* slots, attempts and file changes. The first invariant follows a read    *)
(* from the identity of its file to the hands of a compute worker, the     *)
(* second one a panic to the caller, the third one a request from the      *)
(* batch to its outcome, and the last one its credit to where its bytes    *)
(* are.                                                                    *)
(***************************************************************************)
EXTENDS IndexPipeline, TLAPS, FiniteSetTheorems, WellFoundedInduction

Reads ==
  [before : Generations \X Generations, handle : Generations, bytes : SUBSET Generations,
   batches : Nat, same : BOOLEAN]

Types ==
  /\ batch \in Seq(Requests)
  /\ ioPc \in [Io -> IoStates] /\ cpuPc \in [Cpu -> CpuStates]
  /\ todo \in [Io -> SUBSET Range(batch)]
  /\ read \in [Requests -> Reads]
  /\ ring \in [Io -> [Cpu -> Seq(Requests \union {End})]]
  /\ first \in [Cpu -> Nat] /\ offset \in [Cpu -> Nat]
  /\ current \in [Cpu -> Requests \union {Nobody}]
  /\ completed \in [Requests -> Nat]

(* A file has no generation that no program made.                          *)
Files ==
  /\ changes \in Generations
  /\ path \in [Requests -> 0 .. changes]
  /\ gen \in [Requests -> [Generations -> 0 .. changes]]

(* An I/O worker reads its own requests, and none before the spawn.        *)
Shares ==
  /\ \A w \in Io : \A r \in todo[w] : IoOwner(r) = w
  /\ \A c \in Cpu : cpuPc[c] # "unspawned" => batch # <<>>

(* No worker has done anything before it was spawned.                      *)
Before ==
  (\A w \in Io : ioPc[w] = "unspawned") =>
    /\ \A c \in Cpu : cpuPc[c] = "unspawned" /\ current[c] = Nobody
    /\ \A w \in Io, c \in Cpu : ring[w][c] = <<>>
    /\ \A r \in Requests : completed[r] = 0

Admitted(r) == r \in Bound => read[r].before = <<0, 0>>

(* The input holds one generation of its file, the one that was admitted.  *)
Whole(r) == Admitted(r) /\ read[r].bytes = {read[r].before[2]}

Fresh(r) == Admitted(r) /\ read[r].bytes = {} /\ read[r].batches = 0

(* The bytes read so far lie between the identity seen before the open and *)
(* what the open file holds now.                                           *)
Opened(r) ==
  LET now == gen[r][read[r].handle] IN
  /\ Admitted(r)
  /\ read[r].handle = read[r].before[1]
  /\ read[r].before[2] <= now
  /\ \A b \in read[r].bytes : read[r].before[2] <= b /\ b <= now
  /\ read[r].batches > 0 => read[r].bytes # {}

Working == {"slot", "ticket", "probe", "grow", "open", "read", "verify", "confirm", "send", "push"}

Reading(w) ==
  /\ ioPc[w] \in Working => todo[w] # {}
  /\ ioPc[w] \in {"grow", "open"} => Fresh(Now(w))
  /\ ioPc[w] \in {"read", "verify"} => Opened(Now(w))
  /\ ioPc[w] = "confirm" => (read[Now(w)].same => Whole(Now(w)))
  /\ ioPc[w] \in {"send", "push"} => Whole(Now(w))

(* A request that left its I/O worker is whole and not read again.         *)
Out(r) == r \in Requests /\ Whole(r) /\ \A w \in Io : r \notin todo[w]

Handed ==
  /\ \A w \in Io, c \in Cpu : \A i \in 1 .. Len(ring[w][c]) :
       ring[w][c][i] = End \/ Out(ring[w][c][i])
  /\ \A c \in Cpu : current[c] = Nobody \/ Out(current[c])
  /\ \A r \in Requests : completed[r] > 0 => Out(r)

InputInv == Types /\ Files /\ Shares /\ Before /\ (\A w \in Io : Reading(w)) /\ Handed

-----------------------------------------------------------------------------
LEMMA Constants ==
  /\ Requests \subseteq Nat /\ End \notin Requests /\ Nobody \notin Requests
  /\ Io \subseteq Nat /\ Cpu \subseteq Nat /\ 0 \in Io /\ 0 \in Cpu
  /\ 0 \in Generations /\ Generations \subseteq Nat
  /\ \A r \in Requests : ReadBatches[r] > 0 /\ ReadBatches[r] \in Nat
<1>1. ASSUME NEW b \in Batches PROVE Range(b) \subseteq Nat
  BY PipelineAssumption DEF Range
<1>2. Requests \subseteq Nat
  BY <1>1 DEF Requests
<1> QED BY <1>2, PipelineAssumption DEF End, Nobody, Io, Cpu, Generations

(* Of the sets of numbers below a member of S one is smallest.             *)
LEMMA LeastIndex ==
  ASSUME NEW S \in SUBSET Nat, S # {}
  PROVE  Min(S) \in S /\ \A y \in S : Min(S) <= y
<1> DEFINE Below(x) == { y \in S : y < x }
           T == { Below(x) : x \in S }
<1>0. \A x \in S : x \in Nat
  OBVIOUS
<1>1. ASSUME NEW x \in S PROVE Below(x) \in FiniteSubsetsOf(S)
  <2>1. IsFiniteSet(Below(x))
    <3>1. Below(x) \in SUBSET Nat /\ x \in Nat
      BY <1>0
    <3>2. \A y \in Below(x) : y <= x
      BY <1>0
    <3> QED BY <3>1, <3>2, FS_BoundedSetOfNaturals, Zenon
  <2> QED BY <2>1 DEF FiniteSubsetsOf
<1>2. T \subseteq FiniteSubsetsOf(S) /\ T # {}
  BY <1>1
<1>3. PICK t \in T : \A u \in T : ~ (<<u, t>> \in StrictSubsetOrdering(S))
  <2> HIDE DEF T
  <2> QED BY <1>2, FS_StrictSubsetOrderingWellFounded, WFMin
<1>4. PICK x \in S : t = Below(x)
  BY <1>3
<1>5. ASSUME NEW y \in S, y < x PROVE FALSE
  <2>1. Below(y) \subseteq Below(x) /\ y \in Below(x) /\ y \notin Below(y)
    <3>1. y \in Nat /\ x \in Nat /\ ~ (y < y)
      BY <1>0
    <3>2. \A z \in S : z < y => z < x
      BY <1>0, <1>5, <3>1
    <3> QED BY <1>5, <3>1, <3>2
  <2>2. Below(y) \in SUBSET S /\ Below(x) \in SUBSET S
    OBVIOUS
  <2>3. <<Below(y), Below(x)>> \in StrictSubsetOrdering(S)
    BY <2>1, <2>2 DEF StrictSubsetOrdering
  <2>4. Below(y) \in T
    OBVIOUS
  <2> QED BY <1>3, <1>4, <2>3, <2>4
<1>6. \A y \in S : x <= y
  BY <1>5
<1> QED BY <1>6 DEF Min

(* The request a worker reads is one of its requests.                      *)
LEMMA NowIsOwn ==
  ASSUME Types, NEW w \in Io, todo[w] # {}
  PROVE  Now(w) \in todo[w] /\ Now(w) \in Requests
<1> DEFINE I == { i \in DOMAIN batch : batch[i] \in todo[w] }
<1>1. DOMAIN batch = 1 .. Len(batch) /\ Len(batch) \in Nat
  BY DEF Types
<1>2. I \subseteq Nat
  BY <1>1
<1>3. I # {}
  BY DEF Types, Range
<1>4. Min(I) \in I
  BY <1>2, <1>3, LeastIndex
<1>5. Now(w) = batch[Min(I)]
  BY DEF Now
<1> QED BY <1>1, <1>4, <1>5 DEF Types

LEMMA WorkersInRange ==
  ASSUME Types, batch # <<>>
  PROVE  IoCount \in Nat \ {0} /\ IoCount <= IoWorkers
<1>1. Len(batch) \in Nat \ {0}
  BY DEF Types
<1>2. {IoWorkers, Len(batch)} \in SUBSET Nat /\ {IoWorkers, Len(batch)} # {}
  BY <1>1, PipelineAssumption
<1>3. IoCount \in {IoWorkers, Len(batch)} /\ IoCount <= IoWorkers
  BY <1>2, LeastIndex DEF IoCount
<1> QED BY <1>1, <1>3, PipelineAssumption

-----------------------------------------------------------------------------
LEMMA InitInputs == Init => InputInv
<1> SUFFICES ASSUME Init PROVE InputInv
  OBVIOUS
<1> USE Constants
<1>1. batch \in Seq(Requests)
  <2>1. batch \in Seq(Nat) /\ Range(batch) \subseteq Requests
    BY PipelineAssumption DEF Init, Requests
  <2>2. \A i \in 1 .. Len(batch) : batch[i] \in Requests
    BY <2>1 DEF Range
  <2> QED BY <2>1, <2>2
<1>2. read \in [Requests -> Reads]
  BY DEF Init, Reads, NoRead
<1>3. Types
  BY <1>1, <1>2 DEF Init, Types, IoStates, CpuStates
<1>4. Files /\ Shares /\ Before
  BY DEF Init, Files, Shares, Before
<1>5. (\A w \in Io : Reading(w)) /\ Handed
  BY DEF Init, Reading, Handed, Working
<1> QED BY <1>3, <1>4, <1>5 DEF InputInv

LEMMA IdentityType ==
  ASSUME InputInv, NEW r \in Requests
  PROVE  PathId(r) \in Generations \X Generations
<1>1. path[r] \in 0 .. changes /\ changes \in Generations
      /\ gen[r] \in [Generations -> 0 .. changes]
  BY DEF InputInv, Files
<1>2. 0 .. changes \subseteq Generations
  BY <1>1, PipelineAssumption DEF Generations
<1> QED BY <1>1, <1>2 DEF PathId

(* What another thread relies on stays true while reads and shares do.     *)
LEMMA OutKept ==
  ASSUME InputInv, NEW r, Out(r),
         \A q \in Requests : (\A w \in Io : q \notin todo[w]) => read'[q] = read[q],
         \A w \in Io : todo'[w] \subseteq todo[w]
  PROVE  Out(r)'
BY DEF Out, Whole, Admitted

LEMMA ReadingKept ==
  ASSUME InputInv, NEW w \in Io, UNCHANGED <<batch, gen>>,
         ioPc'[w] = ioPc[w], todo'[w] = todo[w], todo[w] # {} => read'[Now(w)] = read[Now(w)]
  PROVE  Reading(w)'
<1>1. Now(w)' = Now(w)
  BY DEF Now
<1>2. Reading(w)
  BY DEF InputInv
<1>3. CASE todo[w] = {}
  BY <1>2, <1>3 DEF Reading, Working
<1>4. CASE todo[w] # {}
  BY <1>1, <1>2, <1>4 DEF Reading, Fresh, Opened, Whole, Admitted
<1> QED BY <1>3, <1>4

(* A step of an I/O worker touches its own request and no other.           *)
LEMMA IoTouches ==
  ASSUME InputInv, NEW w \in Io, IoStep(w)
  PROVE  /\ UNCHANGED <<batch, cpuPc, current, completed, first, offset, fileVars>>
         /\ todo' = todo \/ todo' = [todo EXCEPT ![w] = @ \ {Now(w)}]
         /\ read' = read \/ (todo[w] # {} /\ \E e : read' = [read EXCEPT ![Now(w)] = e])
         /\ ioPc' = ioPc \/ \E pc : ioPc' = [ioPc EXCEPT ![w] = pc]
<1> USE DEF IoUnchanged, cpuVars, IoGoto, FailRequest, Retry, Finished, SkipRequest
<1>1. CASE IoStop(w) \/ NextRequest(w) \/ ReserveSlot(w) \/ TakeTicket(w) \/ Grow(w)
  BY <1>1 DEF IoStop, NextRequest, ReserveSlot, TakeTicket, Grow
<1>2. CASE Probe(w) \/ Open(w) \/ ReadBatch(w) \/ VerifyFile(w)
  <2>1. todo[w] # {}
    BY <1>2 DEF InputInv, Reading, Working, Probe, Open, ReadBatch, VerifyFile
  <2>2. read' = read \/ \E e : read' = [read EXCEPT ![Now(w)] = e]
    BY <1>2 DEF Probe, Open, ReadBatch, VerifyFile
  <2>3. /\ UNCHANGED <<batch, cpuPc, current, completed, first, offset, fileVars>>
        /\ todo' = todo \/ todo' = [todo EXCEPT ![w] = @ \ {Now(w)}]
        /\ ioPc' = ioPc \/ \E pc : ioPc' = [ioPc EXCEPT ![w] = pc]
    BY <1>2 DEF Probe, Open, ReadBatch, VerifyFile
  <2> QED BY <2>1, <2>2, <2>3
<1>3. CASE VerifyPath(w) \/ IoError(w)
  BY <1>3 DEF VerifyPath, IoError
<1>5. CASE CheckSend(w) \/ SendEnd(w)
  BY <1>5 DEF CheckSend, SendEnd
<1>6. CASE Push(w)
  <2>1. todo' = todo \/ todo' = [todo EXCEPT ![w] = @ \ {Now(w)}]
    BY <1>6 DEF Push
  <2>2. ioPc' = ioPc \/ \E pc : ioPc' = [ioPc EXCEPT ![w] = pc]
    BY <1>6 DEF Push
  <2> QED BY <1>6, <2>1, <2>2 DEF Push
<1>4. CASE IoPanic(w) \/ IoLeave(w)
  BY <1>4 DEF IoPanic, IoLeave
<1> QED BY <1>1, <1>2, <1>3, <1>4, <1>5, <1>6 DEF IoStep

(* Requests already handed over, and the reads of the other workers.       *)
LEMMA IoSpares ==
  ASSUME InputInv, NEW w \in Io, IoStep(w)
  PROVE  /\ \A r : Out(r) => Out(r)'
         /\ \A v \in Io \ {w} : Reading(v)'
         /\ Shares' /\ Files'
<1>1. /\ UNCHANGED <<batch, cpuPc, fileVars>>
      /\ \A v \in Io : todo'[v] \subseteq todo[v]
      /\ \A v \in Io \ {w} : todo'[v] = todo[v] /\ ioPc'[v] = ioPc[v]
  <2>1. UNCHANGED <<batch, cpuPc, fileVars>>
    BY IoTouches
  <2>2. todo' = todo \/ todo' = [todo EXCEPT ![w] = @ \ {Now(w)}]
    BY IoTouches
  <2>3. ioPc' = ioPc \/ \E pc : ioPc' = [ioPc EXCEPT ![w] = pc]
    BY IoTouches
  <2>4. todo \in [Io -> SUBSET Range(batch)] /\ ioPc \in [Io -> IoStates]
    BY DEF InputInv, Types
  <2> QED BY <2>1, <2>2, <2>3, <2>4
<1>2. \A q \in Requests : q # Now(w) \/ todo[w] = {} => read'[q] = read[q]
  BY IoTouches DEF InputInv, Types
<1>3. ASSUME NEW r, Out(r) PROVE Out(r)'
  <2>1. \A q \in Requests : (\A v \in Io : q \notin todo[v]) => read'[q] = read[q]
    BY <1>2, NowIsOwn DEF InputInv
  <2> QED BY <1>1, <1>3, <2>1, OutKept
<1>4. ASSUME NEW v \in Io \ {w} PROVE Reading(v)'
  <2>1. ASSUME todo[v] # {} PROVE read'[Now(v)] = read[Now(v)]
    <3>1. Now(v) \in todo[v] /\ Now(v) \in Requests
      BY <2>1, NowIsOwn DEF InputInv
    <3>2. CASE todo[w] = {}
      BY <1>2, <3>1, <3>2
    <3>3. CASE todo[w] # {}
      <4>1. Now(w) \in todo[w]
        BY <3>3, NowIsOwn DEF InputInv
      <4>2. Now(v) # Now(w)
        BY <3>1, <4>1 DEF InputInv, Shares
      <4> QED BY <1>2, <3>1, <4>2
    <3> QED BY <3>2, <3>3
  <2> QED BY <1>1, <2>1, ReadingKept DEF fileVars
<1>5. Shares' /\ Files'
  BY <1>1 DEF InputInv, Shares, Files, fileVars, IoOwner, IoCount
<1> QED BY <1>3, <1>4, <1>5

(* The own read of the worker, when its next step needs nothing of it.     *)
LEMMA ReadingDropped ==
  ASSUME InputInv, NEW w \in Io,
         ioPc'[w] \notin {"grow", "open", "read", "verify", "confirm", "send", "push"},
         ioPc'[w] \in {"slot", "ticket", "probe"} => todo'[w] # {}
  PROVE  Reading(w)'
BY DEF Reading, Working

LEMMA OwnReading ==
  ASSUME InputInv, NEW w \in Io, IoStep(w)
  PROVE  Reading(w)' /\ read' \in [Requests -> Reads]
<1> PICK r : r = Now(w)
  OBVIOUS
<1>0. /\ UNCHANGED <<batch, fileVars>> /\ todo \in [Io -> SUBSET Range(batch)]
      /\ ioPc \in [Io -> IoStates] /\ read \in [Requests -> Reads] /\ Reading(w)
  BY IoTouches DEF InputInv, Types
<1>1. ASSUME todo' = todo PROVE Now(w)' = r
  BY <1>0, <1>1 DEF Now
<1>2. ASSUME todo[w] # {} PROVE r \in Requests
  BY <1>2, NowIsOwn DEF InputInv
<1> USE DEF IoUnchanged, IoGoto
<1>3. CASE IoStop(w) \/ IoError(w) \/ IoPanic(w) \/ IoLeave(w) \/ CheckSend(w) \/ SendEnd(w)
  <2>1. read' = read
    BY <1>3 DEF IoStop, IoError, IoPanic, IoLeave, CheckSend, SendEnd
  <2>2. CASE CheckSend(w)
    BY <1>0, <1>1, <2>1, <2>2 DEF CheckSend, Reading, Working, Whole, Admitted
  <2>3. CASE IoStop(w) \/ IoError(w) \/ IoPanic(w) \/ IoLeave(w)
    <3>1. ioPc'[w] \in {"leave", "next", "panicked", "failed", "done"}
      BY <1>0, <2>3 DEF IoStop, IoError, IoPanic, IoLeave, FailRequest
    <3> QED BY <1>0, <2>1, <3>1, ReadingDropped
  <2>4. CASE SendEnd(w)
    <3>1. ioPc'[w] \in {"end", "leave"}
      BY <1>0, <2>4 DEF SendEnd
    <3> QED BY <1>0, <2>1, <3>1, ReadingDropped
  <2> QED BY <1>3, <2>2, <2>3, <2>4
<1>4. CASE NextRequest(w) \/ ReserveSlot(w) \/ TakeTicket(w)
  <2>1. read' = read /\ todo' = todo
    BY <1>4 DEF NextRequest, ReserveSlot, TakeTicket
  <2>2. ioPc'[w] \in {"end", "slot", "ticket", "probe"}
    BY <1>0, <1>4 DEF NextRequest, ReserveSlot, TakeTicket
  <2>3. ioPc'[w] \in {"slot", "ticket", "probe"} => todo'[w] # {}
    BY <1>0, <1>4, <2>1 DEF NextRequest, ReserveSlot, TakeTicket, Reading, Working
  <2> QED BY <1>0, <2>1, <2>2, <2>3, ReadingDropped
<1>5. CASE Probe(w)
  <2>1. todo[w] # {} /\ r \in Requests
    BY <1>0, <1>2, <1>5 DEF Probe, Reading, Working
  <2>2. CASE Inadmissible(r)
    <3>1. read' = read /\ ioPc'[w] = "next"
      BY <1>0, <1>5, <2>2 DEF Probe, FailRequest
    <3> QED BY <1>0, <3>1, ReadingDropped
  <2>3. CASE ~ Inadmissible(r)
    <3>1. /\ read' = [read EXCEPT ![r] = [NoRead EXCEPT !.before = PathId(r)]]
          /\ todo' = todo /\ ioPc'[w] \in {"grow", "open"}
      BY <1>0, <1>5, <2>3 DEF Probe
    <3>2. PathId(r) \in Generations \X Generations
      BY <2>1, IdentityType
    <3> DEFINE e == [NoRead EXCEPT !.before = PathId(r)]
    <3>3. /\ e.before = PathId(r) /\ e.bytes = {} /\ e.batches = 0
          /\ e \in Reads
      BY <3>2, Constants DEF NoRead, Reads
    <3> HIDE DEF e
    <3>4. read' \in [Requests -> Reads] /\ read'[r] = e
      BY <1>0, <2>1, <3>1, <3>3 DEF e
    <3>5. Fresh(r)'
      <4>1. r \in Bound => e.before = <<0, 0>>
        BY <2>3, <3>3 DEF Inadmissible
      <4>2. read'[r].before = e.before /\ read'[r].bytes = {} /\ read'[r].batches = 0
        BY <3>3, <3>4
      <4> QED BY <4>1, <4>2 DEF Fresh, Admitted
    <3>6. Now(w)' = r
      BY <1>1, <3>1
    <3>7. Fresh(Now(w))'
      BY <3>5, <3>6 DEF Fresh, Admitted
    <3>8. Reading(w)'
      BY <2>1, <3>1, <3>7 DEF Reading, Working
    <3> QED BY <3>4, <3>8
  <2> QED BY <2>2, <2>3
<1>6. CASE Grow(w)
  <2>1. read' = read
    BY <1>6 DEF Grow
  <2>2. CASE ioPc'[w] = "next"
    BY <1>0, <2>1, <2>2, ReadingDropped
  <2>3. CASE ioPc'[w] # "next"
    <3>1. ioPc[w] = "grow" /\ ioPc'[w] = "open" /\ todo' = todo
      BY <1>0, <1>6, <2>3 DEF Grow, FailRequest
    <3> QED BY <1>0, <1>1, <2>1, <3>1 DEF Reading, Working, Fresh, Admitted
  <2> QED BY <2>2, <2>3
<1>7. CASE Open(w)
  <2>1. todo[w] # {} /\ r \in Requests /\ Fresh(r)
    BY <1>0, <1>2, <1>7 DEF Open, Reading, Working
  <2>2. CASE PathId(r) # read[r].before
    <3>1. read' = read /\ ioPc'[w] \in {"ticket", "next"}
      BY <1>0, <1>7, <2>2 DEF Open, Retry, FailRequest
    <3>2. ioPc'[w] = "ticket" => todo'[w] # {}
      BY <1>0, <1>7, <2>1, <2>2 DEF Open, Retry, FailRequest
    <3> QED BY <1>0, <3>1, <3>2, ReadingDropped
  <2>3. CASE PathId(r) = read[r].before
    <3>1. /\ read' = [read EXCEPT ![r].handle = path[r]]
          /\ todo' = todo /\ ioPc'[w] = "read"
      BY <1>0, <1>7, <2>3 DEF Open
    <3>2. path[r] \in Generations /\ read[r].before[1] = path[r]
          /\ read[r].before[2] = gen[r][path[r]] /\ gen[r][path[r]] \in Generations
      BY <2>1, <2>3, IdentityType DEF PathId
    <3>3. read' \in [Requests -> Reads]
      BY <1>0, <2>1, <3>1, <3>2 DEF Reads
    <3>4. /\ read'[r].handle = path[r] /\ read'[r].before = read[r].before
          /\ read'[r].bytes = {} /\ read'[r].batches = 0
      BY <1>0, <2>1, <3>1 DEF Reads, Fresh
    <3>5. gen[r][path[r]] <= gen[r][path[r]] /\ gen' = gen
      <4>1. gen[r][path[r]] \in Nat
        BY <3>2, Constants
      <4> QED BY <1>0, <4>1 DEF fileVars
    <3>6. Opened(r)'
      BY <2>1, <3>2, <3>4, <3>5 DEF Opened, Admitted, Fresh
    <3>7. Now(w)' = r
      BY <1>1, <3>1
    <3>8. Opened(Now(w))'
      BY <3>6, <3>7 DEF Opened, Admitted
    <3>9. Reading(w)'
      BY <2>1, <3>1, <3>8 DEF Reading, Working
    <3> QED BY <3>3, <3>9
  <2> QED BY <2>2, <2>3
<1>8. CASE ReadBatch(w)
  <2> PICK g : g = gen[r][read[r].handle]
    OBVIOUS
  <2>1. todo[w] # {} /\ r \in Requests /\ Opened(r) /\ ioPc[w] = "read"
    BY <1>0, <1>2, <1>8 DEF ReadBatch, Reading, Working
  <2>2. /\ todo' = todo /\ ioPc'[w] \in {"read", "verify"}
        /\ \/ read' = [read EXCEPT ![r].bytes = @ \union {g}, ![r].batches = @ + 1]
           \/ read' = read
    BY <1>0, <1>8, <2>1 DEF ReadBatch
  <2>3. g \in Generations /\ g \in Nat /\ read[r].before[2] <= g /\ g <= g
    <3>1. read[r].handle \in Generations /\ gen[r] \in [Generations -> 0 .. changes]
          /\ changes \in Generations
      BY <1>0, <2>1 DEF InputInv, Files, Reads
    <3>2. g \in 0 .. changes /\ changes \in 0 .. MaxChanges
      BY <3>1 DEF Generations
    <3>3. g \in Generations /\ g \in Nat /\ g <= g
      BY <3>2, PipelineAssumption DEF Generations
    <3> QED BY <2>1, <3>3 DEF Opened
  <2>4. read' \in [Requests -> Reads]
    BY <1>0, <2>1, <2>2, <2>3 DEF Reads
  <2>5. Opened(r)'
    <3>1. gen' = gen
      BY <1>0 DEF fileVars
    <3>2. CASE read' = read
      BY <2>1, <3>1, <3>2 DEF Opened, Admitted
    <3>3. CASE read' = [read EXCEPT ![r].bytes = @ \union {g}, ![r].batches = @ + 1]
      <4>1. /\ read'[r].bytes = read[r].bytes \union {g} /\ read'[r].before = read[r].before
            /\ read'[r].handle = read[r].handle
        BY <1>0, <2>1, <3>3 DEF Reads
      <4> QED BY <2>1, <2>3, <3>1, <4>1 DEF Opened, Admitted
    <3> QED BY <2>2, <3>2, <3>3
  <2>6. Now(w)' = r
    BY <1>1, <2>2
  <2>7. Opened(Now(w))'
    BY <2>5, <2>6 DEF Opened, Admitted
  <2>8. Reading(w)'
    BY <2>1, <2>2, <2>7 DEF Reading, Working
  <2> QED BY <2>4, <2>8
<1>9. CASE VerifyFile(w)
  <2>1. todo[w] # {} /\ r \in Requests /\ Opened(r)
    BY <1>0, <1>2, <1>9 DEF VerifyFile, Reading, Working
  <2>2. /\ todo' = todo /\ ioPc'[w] = "confirm"
        /\ read' = [read EXCEPT ![r].same = SameFile(r)]
    BY <1>0, <1>9 DEF VerifyFile
  <2>3. SameFile(r) \in BOOLEAN
    BY DEF SameFile
  <2>4. read' \in [Requests -> Reads]
    BY <1>0, <2>1, <2>2, <2>3 DEF Reads
  <2>5. /\ read'[r].same = SameFile(r) /\ read'[r].before = read[r].before
        /\ read'[r].bytes = read[r].bytes
    BY <1>0, <2>1, <2>2 DEF Reads
  <2>6. ASSUME SameFile(r) PROVE read[r].bytes = {read[r].before[2]}
    <3>1. read[r].batches > 0
      BY <2>1, <2>6, Constants DEF SameFile
    <3>2. gen[r][read[r].handle] = read[r].before[2]
      BY <2>6 DEF SameFile, HandleId
    <3>3. read[r].bytes # {} /\ read[r].bytes \subseteq Nat /\ read[r].before[2] \in Nat
      BY <1>0, <2>1, <3>1, Constants DEF Opened, Reads
    <3>4. \A b \in read[r].bytes : b = read[r].before[2]
      BY <2>1, <3>2, <3>3 DEF Opened
    <3> QED BY <3>3, <3>4
  <2>7. read'[r].same => Whole(r)'
    BY <2>1, <2>5, <2>6 DEF Whole, Admitted, Opened
  <2>8. Now(w)' = r
    BY <1>1, <2>2
  <2>9. read'[Now(w)'].same => Whole(Now(w))'
    BY <2>7, <2>8 DEF Whole, Admitted
  <2>10. Reading(w)'
    BY <2>1, <2>2, <2>9 DEF Reading, Working
  <2> QED BY <2>4, <2>10
<1>10. CASE VerifyPath(w)
  <2>1. todo[w] # {} /\ read' = read
    BY <1>0, <1>10 DEF VerifyPath, Reading, Working
  <2>2. CASE ioPc'[w] # "send"
    <3>1. ioPc'[w] \in {"ticket", "next"}
      BY <1>0, <1>10, <2>2 DEF VerifyPath, Retry, FailRequest
    <3>2. ioPc'[w] = "ticket" => todo'[w] # {}
      BY <1>0, <1>10, <2>1, <2>2 DEF VerifyPath, Retry, FailRequest
    <3> QED BY <1>0, <2>1, <3>1, <3>2, ReadingDropped
  <2>3. CASE ioPc'[w] = "send"
    <3>1. todo' = todo /\ read[r].same /\ ioPc[w] = "confirm"
      BY <1>0, <1>10, <2>3 DEF VerifyPath, Retry, FailRequest
    <3>2. Whole(r)
      BY <1>0, <3>1 DEF Reading
    <3>3. Now(w)' = r
      BY <1>1, <3>1
    <3>4. Whole(Now(w))'
      BY <2>1, <3>2, <3>3 DEF Whole, Admitted
    <3>5. Reading(w)'
      BY <2>1, <2>3, <3>1, <3>4 DEF Reading, Working
    <3> QED BY <1>0, <2>1, <3>5
  <2> QED BY <2>2, <2>3
<1>11. CASE Push(w)
  <2>1. read' = read /\ ioPc'[w] \in {"next", "end"}
    BY <1>0, <1>11 DEF Push
  <2> QED BY <1>0, <2>1, ReadingDropped
<1> QED BY <1>3, <1>4, <1>5, <1>6, <1>7, <1>8, <1>9, <1>10, <1>11 DEF IoStep

-----------------------------------------------------------------------------
(* What rings hold.                                                        *)

Queues == [Io -> [Cpu -> Seq(Requests \union {End})]]

(* One entry more at the end of one ring, and where its entries are from.  *)
More(q, w, d, x) == [q EXCEPT ![w][d] = Append(@, x)]

Extended(p, q, x) ==
  /\ p \in Queues
  /\ \A v \in Io, c \in Cpu : p[v][c] = q[v][c] \/ p[v][c] = Append(q[v][c], x)

Drawn(p, q, x) ==
  \A v \in Io, c \in Cpu : \A i \in 1 .. Len(p[v][c]) :
    p[v][c][i] = x \/ \E j \in 1 .. Len(q[v][c]) : p[v][c][i] = q[v][c][j]

(* Rings gain nothing but an end marker or a whole input.                  *)
LEMMA HandedKept ==
  ASSUME InputInv, \A r : Out(r) => Out(r)', NEW x, x = End \/ Out(x)',
         Drawn(ring', ring, x),
         \A c \in Cpu : current'[c] = Nobody \/ Out(current[c])',
         \A r \in Requests : completed'[r] > 0 => Out(r)'
  PROVE  Handed'
<1>1. ASSUME NEW v \in Io, NEW c \in Cpu, NEW i \in 1 .. Len(ring'[v][c])
      PROVE  ring'[v][c][i] = End \/ Out(ring[v][c][i])'
  <2>1. CASE ring'[v][c][i] = x
    BY <2>1 DEF Out, Whole, Admitted
  <2>2. ASSUME NEW j \in 1 .. Len(ring[v][c]), ring'[v][c][i] = ring[v][c][j]
        PROVE  ring'[v][c][i] = End \/ Out(ring[v][c][i])'
    <3> PICK e : e = ring[v][c][j]
      OBVIOUS
    <3>1. e = End \/ Out(e)'
      BY DEF InputInv, Handed
    <3> QED BY <2>2, <3>1 DEF Out, Whole, Admitted
  <2> QED BY <1>1, <2>1, <2>2 DEF Drawn
<1> QED BY <1>1 DEF Handed

(* What compute workers hold and have completed stays whole.               *)
LEMMA CarriedKept ==
  ASSUME InputInv, \A r : Out(r) => Out(r)'
  PROVE  /\ \A c \in Cpu : current'[c] = current[c] => current'[c] = Nobody \/ Out(current[c])'
         /\ \A r \in Requests : completed'[r] = completed[r] /\ completed'[r] > 0 => Out(r)'
<1>1. ASSUME NEW c \in Cpu, current'[c] = current[c]
      PROVE  current'[c] = Nobody \/ Out(current[c])'
  <2> PICK e : e = current[c]
    OBVIOUS
  <2>1. e = Nobody \/ Out(e)'
    BY DEF InputInv, Handed
  <2> QED BY <1>1, <2>1 DEF Out, Whole, Admitted
<1>2. ASSUME NEW r \in Requests, completed'[r] = completed[r], completed'[r] > 0
      PROVE  Out(r)'
  BY <1>2 DEF InputInv, Handed
<1> QED BY <1>1, <1>2

LEMMA OneMore ==
  ASSUME NEW q \in Queues, NEW w \in Io, NEW d, NEW x \in Requests \union {End}
  PROVE  Extended(More(q, w, d, x), q, x)
<1> DEFINE p == [q EXCEPT ![w][d] = Append(@, x)]
<1>1. \A v \in Io, c \in Cpu : p[v][c] = IF v = w /\ c = d THEN Append(q[v][c], x) ELSE q[v][c]
  BY DEF Queues
<1>2. p \in Queues
  <2>1. p = [v \in Io |-> IF v = w THEN [q[w] EXCEPT ![d] = Append(@, x)] ELSE q[v]]
    BY DEF Queues
  <2>2. [q[w] EXCEPT ![d] = Append(@, x)] \in [Cpu -> Seq(Requests \union {End})]
    <3>1. \A c \in Cpu : q[w][c] \in Seq(Requests \union {End})
                         /\ Append(q[w][c], x) \in Seq(Requests \union {End})
      BY DEF Queues
    <3>2. [q[w] EXCEPT ![d] = Append(@, x)]
            = [c \in Cpu |-> IF c = d THEN Append(q[w][c], x) ELSE q[w][c]]
      BY DEF Queues
    <3> QED BY <3>1, <3>2
  <2> QED BY <2>1, <2>2 DEF Queues
<1> QED BY <1>1, <1>2 DEF More, Extended

LEMMA Appended ==
  ASSUME NEW q \in Queues, NEW p, NEW x, Extended(p, q, x)
  PROVE  Drawn(p, q, x)
<1>1. \A v \in Io, c \in Cpu : q[v][c] \in Seq(Requests \union {End})
  BY DEF Queues
<1>2. ASSUME NEW v \in Io, NEW c \in Cpu, NEW i \in 1 .. Len(p[v][c])
      PROVE  p[v][c][i] = x \/ \E j \in 1 .. Len(q[v][c]) : p[v][c][i] = q[v][c][j]
  <2>1. CASE p[v][c] = q[v][c]
    BY <2>1
  <2>2. CASE p[v][c] = Append(q[v][c], x)
    <3>1. Len(p[v][c]) = Len(q[v][c]) + 1 /\ Len(q[v][c]) \in Nat
      BY <1>1, <2>2
    <3>2. CASE i \in 1 .. Len(q[v][c])
      BY <1>1, <2>2, <3>2
    <3>3. CASE i = Len(q[v][c]) + 1
      BY <1>1, <2>2, <3>3
    <3> QED BY <3>1, <3>2, <3>3
  <2> QED BY <2>1, <2>2 DEF Extended
<1> QED BY <1>2 DEF Drawn

LEMMA HandedSame ==
  ASSUME InputInv, \A r : Out(r) => Out(r)', UNCHANGED <<ring, current, completed>>
  PROVE  Handed'
<1>1. Drawn(ring', ring, End)
  BY DEF Drawn
<1>2. /\ \A d \in Cpu : current'[d] = Nobody \/ Out(current[d])'
      /\ \A r \in Requests : completed'[r] > 0 => Out(r)'
  BY CarriedKept
<1> QED BY <1>1, <1>2, HandedKept

(* The steps of an I/O worker, its delivery included.                      *)
LEMMA IoKeeps ==
  ASSUME InputInv, NEW w \in Io, IoStep(w)
  PROVE  InputInv'
<1> USE DEF IoUnchanged
<1>1. Shares' /\ Files' /\ (\A v \in Io : Reading(v)')
  BY IoSpares, OwnReading
<1>2. read' \in [Requests -> Reads]
  BY OwnReading
<1>3. UNCHANGED <<batch, cpuPc, current, completed, first, offset>>
      /\ todo' \in [Io -> SUBSET Range(batch)]
  <2>1. UNCHANGED <<batch, cpuPc, current, completed, first, offset>>
    BY IoTouches
  <2>2. todo' = todo \/ todo' = [todo EXCEPT ![w] = @ \ {Now(w)}]
    BY IoTouches
  <2> QED BY <2>1, <2>2 DEF InputInv, Types
<1>4. ioPc' \in [Io -> IoStates] /\ Before'
  <2>0. ioPc \in [Io -> IoStates]
    BY DEF InputInv, Types
  <2>1. ASSUME IoStop(w) \/ NextRequest(w) \/ ReserveSlot(w) \/ TakeTicket(w) \/ Probe(w) \/ Grow(w)
        PROVE  ioPc' \in [Io -> IoStates] /\ ioPc'[w] # "unspawned"
    BY <2>0, <2>1 DEF IoStop, NextRequest, ReserveSlot, TakeTicket, Probe, Grow, FailRequest, IoGoto,
                      IoStates
  <2>2. ASSUME Open(w) \/ ReadBatch(w) \/ VerifyFile(w) \/ VerifyPath(w) \/ IoError(w)
        PROVE  ioPc' \in [Io -> IoStates] /\ ioPc'[w] # "unspawned"
    BY <2>0, <2>2 DEF Open, ReadBatch, VerifyFile, VerifyPath, IoError, Retry, FailRequest, IoGoto,
                      IoStates
  <2>3. ASSUME CheckSend(w) \/ Push(w) \/ SendEnd(w) \/ IoPanic(w) \/ IoLeave(w)
        PROVE  ioPc' \in [Io -> IoStates] /\ ioPc'[w] # "unspawned"
    BY <2>0, <2>3 DEF CheckSend, Push, SendEnd, IoPanic, IoLeave, IoGoto, IoStates
  <2>4. ioPc' \in [Io -> IoStates] /\ ioPc'[w] # "unspawned"
    BY <2>1, <2>2, <2>3 DEF IoStep
  <2> QED BY <2>4 DEF Before
<1>5. \A r : Out(r) => Out(r)'
  BY IoSpares
<1>6. ring \in Queues
  BY DEF InputInv, Types, Queues
<1>7. /\ \A c \in Cpu : current'[c] = Nobody \/ Out(current[c])'
      /\ \A r \in Requests : completed'[r] > 0 => Out(r)'
  BY <1>3, <1>5, CarriedKept
<1>8. ring' \in Queues /\ Handed'
  <2>1. CASE ring' = ring
    BY <1>5, <1>6, <1>7, <2>1, HandedKept DEF Drawn
  <2>2. CASE IoLeave(w)
    <3>1. ring' = [ring EXCEPT ![w] = [c \in Cpu |-> IF c \in CpuLeft THEN <<>> ELSE ring[w][c]]]
      BY <2>2 DEF IoLeave
    <3>2. ring' \in Queues
      BY <1>6, <3>1 DEF Queues
    <3>3. \A v \in Io, c \in Cpu : ring'[v][c] = ring[v][c] \/ ring'[v][c] = <<>>
      BY <1>6, <3>1 DEF Queues
    <3>4. Drawn(ring', ring, End)
      <4> SUFFICES ASSUME NEW v \in Io, NEW c \in Cpu, NEW i \in 1 .. Len(ring'[v][c])
                   PROVE  \E j \in 1 .. Len(ring[v][c]) : ring'[v][c][i] = ring[v][c][j]
        BY DEF Drawn
      <4>1. CASE ring'[v][c] = <<>>
        BY <4>1
      <4> QED BY <3>3, <4>1
    <3> QED BY <1>5, <1>7, <3>2, <3>4, HandedKept
  <2>3. CASE SendEnd(w)
    <3>1. PICK d : ring' = More(ring, w, d, End)
      BY <2>3 DEF SendEnd, More
    <3>2. Extended(ring', ring, End)
      BY <1>6, <3>1, OneMore
    <3>3. Drawn(ring', ring, End)
      BY <1>6, <3>2, Appended
    <3> QED BY <1>5, <1>7, <3>2, <3>3, HandedKept DEF Extended
  <2>4. CASE Push(w) /\ ring' # ring
    <3> PICK r : r = Now(w)
      OBVIOUS
    <3>1. PICK d : ring' = More(ring, w, d, r)
      BY <2>4 DEF Push, More
    <3>2. /\ todo' = [todo EXCEPT ![w] = @ \ {r}] /\ read' = read
          /\ ioPc[w] = "push"
      BY <2>4 DEF Push, Finished
    <3>3. r \in Requests /\ r \in todo[w] /\ Whole(r)
      BY <3>2, NowIsOwn DEF InputInv, Reading, Working
    <3>4. \A v \in Io \ {w} : r \notin todo[v]
      BY <3>3 DEF InputInv, Shares
    <3>5. Out(r)'
      BY <3>2, <3>3, <3>4 DEF Out, Whole, Admitted, InputInv, Types
    <3>6. Extended(ring', ring, r)
      BY <1>6, <3>1, <3>3, OneMore
    <3>7. Drawn(ring', ring, r)
      BY <1>6, <3>6, Appended
    <3> QED BY <1>5, <1>7, <3>5, <3>6, <3>7, HandedKept DEF Extended
  <2>5. ring' = ring \/ IoLeave(w) \/ SendEnd(w) \/ Push(w)
    BY DEF IoStep, IoStop, NextRequest, ReserveSlot, TakeTicket, Probe, Grow, Open, ReadBatch,
           VerifyFile, VerifyPath, IoError, CheckSend, IoPanic
  <2> QED BY <2>1, <2>2, <2>3, <2>4, <2>5
<1> QED BY <1>1, <1>2, <1>3, <1>4, <1>8 DEF InputInv, Types, Queues

(* The steps of a compute worker: it takes an input, completes it or drops *)
(* it, and drops the rings nobody sends on.                                *)
LEMMA CpuKeeps ==
  ASSUME InputInv, NEW c \in Cpu, CpuStep(c)
  PROVE  InputInv'
<1> USE DEF CpuGoto
<1>1. UNCHANGED <<batch, ioPc, todo, read, path, gen, changes>>
  BY DEF CpuStep, CpuStop, Poll, Compute, ComputePanic, CpuLeave, CpuUnchanged, ioVars, fileVars
<1>2. Files' /\ (\A w \in Io : Reading(w)')
  <2>1. Files'
    BY <1>1 DEF InputInv, Files
  <2>2. ASSUME NEW w \in Io PROVE Reading(w)'
    BY <1>1, ReadingKept
  <2> QED BY <2>1, <2>2
<1>3. \A r : Out(r) => Out(r)'
  BY <1>1 DEF Out, Whole, Admitted
<1>4. cpuPc' \in [Cpu -> CpuStates] /\ cpuPc[c] # "unspawned"
      /\ \A d \in Cpu : cpuPc'[d] # "unspawned" => cpuPc[d] # "unspawned"
  BY DEF CpuStep, CpuStop, Poll, Compute, ComputePanic, CpuLeave, CpuStates, InputInv, Types
<1>5. Shares' /\ Before'
  BY <1>1, <1>4 DEF InputInv, Shares, Before, IoOwner, IoCount
<1>6. IoCount \in Nat \ {0} /\ IoCount <= IoWorkers
  BY <1>4, WorkersInRange DEF InputInv, Shares
<1>7. first' \in [Cpu -> Nat] /\ offset' \in [Cpu -> Nat]
  <2>1. first \in [Cpu -> Nat] /\ offset \in [Cpu -> Nat]
    BY DEF InputInv, Types
  <2>2. (first[c] + 1) % IoCount \in Nat
    BY <1>6, <2>1
  <2>3. CASE Advance(c)
    BY <2>1, <2>2, <2>3 DEF Advance
  <2>4. CASE UNCHANGED <<first, offset>>
    BY <2>1, <2>4
  <2>5. Advance(c) \/ UNCHANGED <<first, offset>>
    BY DEF CpuStep, CpuStop, Poll, Compute, ComputePanic, CpuLeave
  <2> QED BY <2>3, <2>4, <2>5
<1>8. ring \in Queues /\ current \in [Cpu -> Requests \union {Nobody}]
      /\ completed \in [Requests -> Nat]
  BY DEF InputInv, Types, Queues
<1> DEFINE Kept == /\ ring' \in Queues /\ current' \in [Cpu -> Requests \union {Nobody}]
                   /\ completed' \in [Requests -> Nat] /\ Handed'
<1>9. ASSUME ring' = ring, current' = current, completed' = completed PROVE Kept
  <2>1. Drawn(ring', ring, End)
    BY <1>9 DEF Drawn
  <2>2. /\ \A d \in Cpu : current'[d] = Nobody \/ Out(current[d])'
        /\ \A r \in Requests : completed'[r] > 0 => Out(r)'
    BY <1>3, <1>9, CarriedKept
  <2> QED BY <1>3, <1>8, <1>9, <2>1, <2>2, HandedKept
<1>10. ASSUME CpuStop(c) \/ ComputePanic(c) PROVE Kept
  BY <1>9, <1>10 DEF CpuStop, ComputePanic
<1>11. ASSUME Compute(c) PROVE Kept
  <2>1. /\ ring' = ring /\ current' = [current EXCEPT ![c] = Nobody]
        /\ completed' = [completed EXCEPT ![current[c]] = @ + 1]
    BY <1>11 DEF Compute
  <2>2. Drawn(ring', ring, End)
    BY <2>1 DEF Drawn
  <2>3. \A d \in Cpu : current'[d] = Nobody \/ Out(current[d])'
    <3>1. \A d \in Cpu : current'[d] = Nobody \/ current'[d] = current[d]
      BY <1>8, <2>1
    <3> QED BY <1>3, <3>1, CarriedKept
  <2>4. ASSUME NEW r \in Requests, completed'[r] > 0 PROVE Out(r)'
    <3>1. CASE r = current[c]
      <4>1. Out(r)
        BY <3>1, Constants DEF InputInv, Handed
      <4> QED BY <1>3, <4>1
    <3>2. CASE r # current[c]
      BY <1>3, <1>8, <2>1, <2>4, <3>2, CarriedKept
    <3> QED BY <3>1, <3>2
  <2>5. completed' \in [Requests -> Nat] /\ current' \in [Cpu -> Requests \union {Nobody}]
    <3>1. \A r \in Requests : completed[r] \in Nat /\ completed[r] + 1 \in Nat
      BY <1>8
    <3>2. completed' = [r \in Requests |-> IF r = current[c] THEN completed[r] + 1 ELSE completed[r]]
      BY <1>8, <2>1
    <3> QED BY <1>8, <2>1, <3>1, <3>2
  <2> QED BY <1>3, <1>8, <2>1, <2>2, <2>3, <2>4, <2>5, HandedKept
<1>12. ASSUME CpuLeave(c) PROVE Kept
  <2>1. /\ ring' = [w \in Io |-> IF w \in IoLeft THEN [ring[w] EXCEPT ![c] = <<>>] ELSE ring[w]]
        /\ current' = [current EXCEPT ![c] = Nobody] /\ completed' = completed
    BY <1>12 DEF CpuLeave
  <2>2. ring' \in Queues
    BY <1>8, <2>1 DEF Queues
  <2>3. \A v \in Io, d \in Cpu : ring'[v][d] = ring[v][d] \/ ring'[v][d] = <<>>
    BY <1>8, <2>1 DEF Queues
  <2>4. Drawn(ring', ring, End)
    <3> SUFFICES ASSUME NEW v \in Io, NEW d \in Cpu, NEW i \in 1 .. Len(ring'[v][d])
                 PROVE  \E j \in 1 .. Len(ring[v][d]) : ring'[v][d][i] = ring[v][d][j]
      BY DEF Drawn
    <3>1. CASE ring'[v][d] = <<>>
      BY <3>1
    <3> QED BY <2>3, <3>1
  <2>5. \A d \in Cpu : current'[d] = Nobody \/ Out(current[d])'
    <3>1. \A d \in Cpu : current'[d] = Nobody \/ current'[d] = current[d]
      BY <1>8, <2>1
    <3> QED BY <1>3, <3>1, CarriedKept
  <2>6. \A r \in Requests : completed'[r] > 0 => Out(r)'
    BY <1>3, <2>1, CarriedKept
  <2> QED BY <1>3, <1>8, <2>1, <2>2, <2>4, <2>5, <2>6, HandedKept
<1>13. ASSUME Poll(c) PROVE Kept
  <2> PICK w : w = Receiver(c)
    OBVIOUS
  <2>1. w \in Io
    <3>1. first[c] + offset[c] \in Nat
      BY DEF InputInv, Types
    <3>2. w \in 0 .. IoCount - 1
      BY <1>6, <3>1 DEF Receiver
    <3> QED BY <1>6, <3>2, PipelineAssumption DEF Io
  <2>2. CASE ring' = ring /\ current' = current
    BY <1>9, <1>13, <2>2 DEF Poll
  <2>3. CASE ~ (ring' = ring /\ current' = current)
    <3>1. /\ ring[w][c] # <<>>
          /\ ring' = [ring EXCEPT ![w][c] = Tail(@)] /\ completed' = completed
          /\ \/ current' = current
             \/ Head(ring[w][c]) # End /\ current' = [current EXCEPT ![c] = Head(ring[w][c])]
      BY <1>13, <2>3 DEF Poll
    <3> DEFINE q == ring[w][c]
    <3>2. q \in Seq(Requests \union {End}) /\ q # <<>>
      BY <1>8, <2>1, <3>1 DEF Queues
    <3>3. /\ Tail(q) \in Seq(Requests \union {End}) /\ Len(Tail(q)) = Len(q) - 1
          /\ Len(q) \in Nat \ {0}
          /\ \A i \in 1 .. Len(q) - 1 : Tail(q)[i] = q[i + 1]
          /\ Head(q) = q[1] /\ Head(q) \in Requests \union {End}
      BY <3>2
    <3>4. \A v \in Io, d \in Cpu :
            ring'[v][d] = IF v = w /\ d = c THEN Tail(q) ELSE ring[v][d]
      BY <1>8, <2>1, <3>1 DEF Queues
    <3>5. ring' \in Queues
      <4>1. ring' = [v \in Io |-> IF v = w THEN [ring[w] EXCEPT ![c] = Tail(q)] ELSE ring[v]]
        BY <1>8, <2>1, <3>1 DEF Queues
      <4>2. [ring[w] EXCEPT ![c] = Tail(q)] \in [Cpu -> Seq(Requests \union {End})]
        BY <1>8, <2>1, <3>3 DEF Queues
      <4> QED BY <1>8, <4>1, <4>2 DEF Queues
    <3>6. Drawn(ring', ring, End)
      <4> SUFFICES ASSUME NEW v \in Io, NEW d \in Cpu, NEW i \in 1 .. Len(ring'[v][d])
                   PROVE  \E j \in 1 .. Len(ring[v][d]) : ring'[v][d][i] = ring[v][d][j]
        BY DEF Drawn
      <4>1. CASE v = w /\ d = c
        <5>1. i \in 1 .. Len(q) - 1 /\ ring'[v][d][i] = q[i + 1] /\ i + 1 \in 1 .. Len(q)
          <6>1. ring'[v][d] = Tail(q)
            BY <3>4, <4>1
          <6>2. i \in 1 .. Len(q) - 1
            BY <3>3, <6>1
          <6> QED BY <3>3, <6>1, <6>2
        <5> QED BY <4>1, <5>1
      <4>2. CASE ~ (v = w /\ d = c)
        BY <3>4, <4>2
      <4> QED BY <4>1, <4>2
    <3>7. Head(q) = End \/ Out(Head(q))
      <4>1. 1 \in 1 .. Len(q) /\ Head(q) = q[1]
        BY <3>3
      <4> QED BY <2>1, <4>1 DEF InputInv, Handed
    <3> PICK h : h = Head(q)
      OBVIOUS
    <3>8. \A d \in Cpu : current'[d] = Nobody \/ Out(current[d])'
      <4>1. CASE current' = current
        BY <1>3, <4>1, CarriedKept
      <4>2. CASE h # End /\ current' = [current EXCEPT ![c] = h]
        <5>1. Out(h)'
          BY <1>3, <3>7, <4>2
        <5>2. ASSUME NEW d \in Cpu PROVE current'[d] = Nobody \/ Out(current[d])'
          <6>1. CASE d = c
            <7>1. current'[d] = h
              BY <1>8, <4>2, <6>1
            <7> QED BY <5>1, <7>1 DEF Out, Whole, Admitted
          <6>2. CASE d # c
            <7>1. current'[d] = current[d]
              BY <1>8, <4>2, <6>2
            <7> QED BY <1>3, <7>1, CarriedKept
          <6> QED BY <6>1, <6>2
        <5> QED BY <5>2
      <4> QED BY <3>1, <4>1, <4>2
    <3>9. current' \in [Cpu -> Requests \union {Nobody}]
      BY <1>8, <3>1, <3>3
    <3>10. \A r \in Requests : completed'[r] > 0 => Out(r)'
      BY <1>3, <3>1, CarriedKept
    <3> QED BY <1>3, <1>8, <3>1, <3>5, <3>6, <3>8, <3>9, <3>10, HandedKept
  <2> QED BY <2>2, <2>3
<1>14. Kept
  BY <1>10, <1>11, <1>12, <1>13 DEF CpuStep
<1> QED BY <1>1, <1>2, <1>4, <1>5, <1>7, <1>14 DEF InputInv, Types, Queues

(* Other programs change files; no open handle ever goes back.             *)
LEMMA EnvironmentKeeps ==
  ASSUME InputInv, Environment
  PROVE  InputInv'
<1>1. /\ UNCHANGED <<batch, ioPc, todo, read, ring, cpuPc, first, offset, current, completed>>
      /\ changes' \in Generations /\ path' \in [Requests -> 0 .. changes']
      /\ gen' \in [Requests -> [Generations -> 0 .. changes']]
      /\ \A r \in Requests, h \in Generations : gen[r][h] <= gen'[r][h]
  <2>0. /\ changes \in Nat /\ changes <= MaxChanges /\ MaxChanges \in Nat
        /\ path \in [Requests -> 0 .. changes]
        /\ gen \in [Requests -> [Generations -> 0 .. changes]]
    BY PipelineAssumption DEF InputInv, Files, Generations
  <2>1. \A r \in Requests, h \in Generations : gen[r][h] \in Nat /\ gen[r][h] <= changes
    BY <2>0
  <2>2. CASE Cancel
    BY <2>0, <2>1, <2>2 DEF Cancel, ioVars, cpuVars, fileVars, Generations
  <2>3. ASSUME NEW r \in Requests, Rewrite(r)
        PROVE  /\ UNCHANGED <<batch, ioPc, todo, read, ring, cpuPc, first, offset, current, completed>>
               /\ changes' \in Generations /\ path' \in [Requests -> 0 .. changes']
               /\ gen' \in [Requests -> [Generations -> 0 .. changes']]
               /\ \A q \in Requests, h \in Generations : gen[q][h] <= gen'[q][h]
    <3>1. /\ UNCHANGED <<batch, ioPc, todo, read, ring, cpuPc, first, offset, current, completed>>
          /\ path' = path /\ changes' = changes + 1 /\ changes < MaxChanges
          /\ gen' = [gen EXCEPT ![r][path[r]] = @ + 1]
      BY <2>3 DEF Rewrite, Change, ioVars, cpuVars
    <3>2. changes' \in Generations /\ path' \in [Requests -> 0 .. changes']
      BY <2>0, <3>1 DEF Generations
    <3>3. \A q \in Requests, h \in Generations :
            gen'[q][h] = IF q = r /\ h = path[r] THEN gen[q][h] + 1 ELSE gen[q][h]
      BY <2>0, <3>1
    <3>4. \A q \in Requests, h \in Generations : gen'[q][h] \in 0 .. changes'
      BY <2>0, <2>1, <3>1, <3>3
    <3>5. gen' \in [Requests -> [Generations -> 0 .. changes']]
      <4>1. gen' = [q \in Requests |-> gen'[q]]
        BY <2>0, <3>1
      <4>2. \A q \in Requests : gen'[q] = [h \in Generations |-> gen'[q][h]]
        BY <2>0, <3>1
      <4> QED BY <3>4, <4>1, <4>2
    <3> QED BY <2>1, <3>1, <3>2, <3>3, <3>5
  <2>4. ASSUME NEW r \in Requests, Replace(r)
        PROVE  /\ UNCHANGED <<batch, ioPc, todo, read, ring, cpuPc, first, offset, current, completed>>
               /\ changes' \in Generations /\ path' \in [Requests -> 0 .. changes']
               /\ gen' \in [Requests -> [Generations -> 0 .. changes']]
               /\ \A q \in Requests, h \in Generations : gen[q][h] <= gen'[q][h]
    <3>1. /\ UNCHANGED <<batch, ioPc, todo, read, ring, cpuPc, first, offset, current, completed>>
          /\ path' = [path EXCEPT ![r] = @ + 1] /\ changes' = changes + 1 /\ changes < MaxChanges
          /\ gen' = gen
      BY <2>4 DEF Replace, Change, ioVars, cpuVars
    <3>2. changes' \in Generations /\ 0 .. changes \subseteq 0 .. changes'
      BY <2>0, <3>1 DEF Generations
    <3>3. path' \in [Requests -> 0 .. changes']
      BY <2>0, <3>1
    <3>4. gen' \in [Requests -> [Generations -> 0 .. changes']]
      BY <2>0, <3>1, <3>2
    <3> QED BY <2>1, <3>1, <3>2, <3>3, <3>4
  <2>5. Cancel \/ \E r \in Requests : Rewrite(r) \/ Replace(r)
    BY PipelineAssumption DEF Environment
  <2> QED BY <2>2, <2>3, <2>4, <2>5
<1>2. Types' /\ Files' /\ Shares' /\ Before'
  BY <1>1 DEF InputInv, Types, Files, Shares, Before, IoOwner, IoCount
<1>3. ASSUME NEW w \in Io PROVE Reading(w)'
  <2>1. Now(w)' = Now(w)
    BY <1>1 DEF Now
  <2>2. CASE ioPc[w] \in {"read", "verify"}
    <3> PICK r : r = Now(w)
      OBVIOUS
    <3>1. r \in Requests /\ Opened(r) /\ todo[w] # {}
      BY <2>2, NowIsOwn DEF InputInv, Reading, Working
    <3>2. /\ read[r].handle \in Generations /\ read[r].before[2] \in Nat
          /\ read[r].bytes \subseteq Nat
      BY <3>1, Constants DEF InputInv, Types, Reads
    <3>3. gen[r][read[r].handle] \in Nat /\ gen'[r][read[r].handle] \in Nat
          /\ gen[r][read[r].handle] <= gen'[r][read[r].handle]
      <4>1. changes \in Nat /\ changes' \in Nat
        BY <1>1, Constants DEF InputInv, Files
      <4>2. gen[r][read[r].handle] \in 0 .. changes /\ gen'[r][read[r].handle] \in 0 .. changes'
        BY <1>1, <3>1, <3>2 DEF InputInv, Files
      <4>3. \A q \in Requests, h \in Generations : gen[q][h] <= gen'[q][h]
        BY <1>1
      <4> QED BY <3>1, <3>2, <4>1, <4>2, <4>3
    <3>4. Opened(r)'
      BY <1>1, <3>1, <3>2, <3>3 DEF Opened, Admitted
    <3>5. Opened(Now(w))'
      BY <2>1, <3>4 DEF Opened, Admitted
    <3> QED BY <1>1, <2>2, <3>1, <3>5 DEF Reading
  <2>3. CASE ioPc[w] \notin {"read", "verify"}
    BY <1>1, <2>1, <2>3 DEF InputInv, Reading, Fresh, Whole, Admitted
  <2> QED BY <2>2, <2>3
<1>4. Handed'
  <2>1. \A r : Out(r) => Out(r)'
    BY <1>1 DEF Out, Whole, Admitted
  <2> QED BY <1>1, <2>1, HandedSame
<1> QED BY <1>2, <1>3, <1>4 DEF InputInv

(* The calling thread hands out shares only before any worker exists.      *)
LEMMA MainKeeps ==
  ASSUME InputInv, Main
  PROVE  InputInv'
<1>1. CASE Refuse \/ Return
  <2>1. UNCHANGED <<batch, ioPc, todo, read, ring, cpuPc, first, offset, current, completed,
                    path, gen, changes>>
    BY <1>1 DEF Refuse, Return, ioVars, cpuVars, fileVars
  <2>2. ASSUME NEW w \in Io PROVE Reading(w)'
    BY <2>1, ReadingKept
  <2>3. \A r : Out(r) => Out(r)'
    BY <2>1 DEF Out, Whole, Admitted
  <2>4. Handed'
    BY <2>1, <2>3, HandedSame
  <2>5. Types' /\ Files' /\ Shares' /\ Before'
    BY <2>1 DEF InputInv, Types, Files, Shares, Before, IoOwner, IoCount
  <2> QED BY <2>2, <2>4, <2>5 DEF InputInv
<1>2. CASE Spawn
  <2>1. /\ UNCHANGED <<batch, read, ring, first, offset, current, completed, path, gen, changes>>
        /\ ioPc' = [w \in Io |-> IF w \in IoSpawned THEN "next" ELSE "done"]
        /\ cpuPc' = [c \in Cpu |-> IF c \in CpuSpawned THEN "poll" ELSE "done"]
        /\ todo' = [w \in Io |-> { r \in Range(batch) : IoOwner(r) = w }]
        /\ batch # <<>> /\ \A w \in Io : ioPc[w] = "unspawned"
    BY <1>2 DEF Spawn, fileVars
  <2>2. Types' /\ Files' /\ Shares'
    BY <2>1 DEF InputInv, Types, Files, Shares, IoStates, CpuStates, IoOwner, IoCount
  <2>3. \A w \in Io : Reading(w)'
    BY <2>1 DEF Reading, Working
  <2>4. Handed' /\ Before'
    BY <2>1, Constants DEF InputInv, Before, Handed
  <2> QED BY <2>2, <2>3, <2>4 DEF InputInv
<1> QED BY <1>1, <1>2 DEF Main

LEMMA InputInductive == InputInv /\ [Next]_vars => InputInv'
<1> SUFFICES ASSUME InputInv, [Next]_vars PROVE InputInv'
  OBVIOUS
<1>1. CASE UNCHANGED vars
  <2>1. UNCHANGED <<batch, ioPc, todo, read, ring, cpuPc, first, offset, current, completed,
                    path, gen, changes>>
    BY <1>1 DEF vars, ioVars, cpuVars, fileVars
  <2>2. \A w \in Io : Reading(w)'
    BY <2>1, ReadingKept
  <2>3. Handed'
    <3>1. \A r : Out(r) => Out(r)'
      BY <2>1 DEF Out, Whole, Admitted
    <3> QED BY <2>1, <3>1, HandedSame
  <2>4. Types' /\ Files' /\ Shares' /\ Before'
    BY <2>1 DEF InputInv, Types, Files, Shares, Before, IoOwner, IoCount
  <2> QED BY <2>2, <2>3, <2>4 DEF InputInv
<1> QED BY <1>1, MainKeeps, EnvironmentKeeps, IoKeeps, CpuKeeps DEF Next, Returned

(* Every read keeps to the file it was admitted for, and every input that  *)
(* left its I/O worker is out of every worker's share.                     *)
THEOREM InputInvariance == Spec => []InputInv
<1> QED BY InitInputs, InputInductive, PTL DEF Spec

(* NoTornInput: no compute worker is handed the bytes of two generations   *)
(* of a file, or of another file than the caller bound, whatever happened  *)
(* to the file before, during and after its read.                          *)
THEOREM InputsAreWhole == Spec => []NoTornInput
<1>1. ASSUME InputInv PROVE NoTornInput
  <2>1. ASSUME NEW r \in Delivered PROVE Whole(r)
    <3>1. CASE r \in InRing
      <4>1. PICK w \in Io, c \in Cpu : r \in Range(ring[w][c]) /\ r # End
        BY <3>1 DEF InRing
      <4>2. ring[w][c] \in Seq(Requests \union {End})
        BY <1>1 DEF InputInv, Types
      <4>3. PICK i \in 1 .. Len(ring[w][c]) : r = ring[w][c][i]
        BY <4>1, <4>2 DEF Range
      <4> QED BY <1>1, <4>1, <4>3 DEF InputInv, Handed, Out
    <3>2. CASE r \in InCpu
      BY <1>1, <3>2 DEF InCpu, Range, InputInv, Types, Handed, Out
    <3>3. CASE r \in { q \in Requests : completed[q] > 0 }
      BY <1>1, <3>3 DEF InputInv, Handed, Out
    <3> QED BY <3>1, <3>2, <3>3 DEF Delivered
  <2> QED BY <2>1 DEF NoTornInput, Whole, Admitted
<1> QED BY <1>1, InputInvariance, PTL

-----------------------------------------------------------------------------
(* Panics.                                                                 *)

AllUnspawned ==
  (\A w \in Io : ioPc[w] = "unspawned") /\ (\A c \in Cpu : cpuPc[c] = "unspawned")

PanicInv ==
  /\ ioPc \in [Io -> IoStates] /\ cpuPc \in [Cpu -> CpuStates]
  /\ terminal \in TerminalStates
  /\ (\A w \in Io : ioPc[w] = "unspawned") => AllUnspawned
  /\ \A c \in Cpu : cpuPc[c] \in {"panicked", "failed"} => terminal = "compute_panicked"
  /\ \A w \in Io : ioPc[w] = "failed" => terminal \in {"io_panicked", "compute_panicked"}
  /\ result # "none" =>
       \/ AllUnspawned
       \/ IoLeft = Io /\ CpuLeft = Cpu /\ result = IF Running THEN "ok" ELSE terminal

LEMMA InitPanic == Init => PanicInv
BY DEF Init, PanicInv, AllUnspawned, IoStates, CpuStates, TerminalStates

(* A worker takes no step once the call returned.                          *)
LEMMA NoStepAfter ==
  ASSUME PanicInv, result # "none"
  PROVE  /\ \A w \in Io : ioPc[w] \in {"unspawned", "done", "failed"}
         /\ \A c \in Cpu : cpuPc[c] \in {"unspawned", "done", "failed"}
BY DEF PanicInv, AllUnspawned, IoLeft, CpuLeft

LEMMA PanicInductive == PanicInv /\ [Next]_vars => PanicInv'
<1> SUFFICES ASSUME PanicInv, [Next]_vars PROVE PanicInv'
  OBVIOUS
<1>1. CASE UNCHANGED vars \/ Environment
  <2>1. UNCHANGED <<ioPc, cpuPc, result>>
    BY <1>1 DEF vars, ioVars, cpuVars, Environment, Cancel, Rewrite, Replace
  <2>2. terminal' = terminal \/ (terminal = "running" /\ terminal' = "cancelled" /\ result = "none")
    BY <1>1 DEF vars, Environment, Cancel, Rewrite, Replace, AfterCancel
  <2> QED BY <2>1, <2>2 DEF PanicInv, AllUnspawned, IoLeft, CpuLeft, Running, TerminalStates
<1>2. CASE Refuse
  BY <1>2 DEF Refuse, PanicInv, AllUnspawned, ioVars, cpuVars
<1>3. CASE Return
  BY <1>3 DEF Return, PanicInv, AllUnspawned, IoLeft, CpuLeft, Running, ioVars, cpuVars
<1>4. CASE Spawn
  <2>1. 0 \in Io /\ ioPc'[0] # "unspawned"
    BY <1>4, Constants DEF Spawn
  <2> QED BY <1>4, <2>1 DEF Spawn, PanicInv, IoStates, CpuStates
<1>5. ASSUME NEW w \in Io, IoStep(w) PROVE PanicInv'
  <2>1. ioPc[w] \notin {"unspawned", "done", "failed"} /\ result' = result /\ cpuPc' = cpuPc
    BY <1>5 DEF IoStep, IoStop, NextRequest, ReserveSlot, TakeTicket, Probe, Grow, Open, ReadBatch,
                VerifyFile, VerifyPath, IoError, CheckSend, Push, SendEnd, IoPanic, IoLeave,
                IoUnchanged, cpuVars
  <2>2. result = "none"
    BY <2>1, NoStepAfter
  <2>3. CASE IoLeave(w)
    <3>1. /\ ioPc' = [ioPc EXCEPT ![w] = IF ioPc[w] = "panicked" THEN "failed" ELSE "done"]
          /\ terminal' = IF ioPc[w] = "panicked" THEN AfterFail(terminal, "io_panicked") ELSE terminal
      BY <2>3 DEF IoLeave, IoGoto
    <3> QED BY <2>1, <2>2, <3>1 DEF PanicInv, AfterFail, TerminalStates, IoStates
  <2>4. ASSUME ~ IoLeave(w)
        PROVE  /\ ioPc' \in [Io -> IoStates] /\ ioPc'[w] \notin {"unspawned", "failed"}
               /\ terminal' = terminal /\ \A v \in Io \ {w} : ioPc'[v] = ioPc[v]
    <3>0. ioPc \in [Io -> IoStates]
      BY DEF PanicInv
    <3>1. CASE IoStop(w) \/ NextRequest(w) \/ ReserveSlot(w) \/ TakeTicket(w) \/ Probe(w) \/ Grow(w)
      BY <3>0, <3>1 DEF IoStop, NextRequest, ReserveSlot, TakeTicket, Probe, Grow, FailRequest, IoGoto,
                        IoStates, IoUnchanged
    <3>2. CASE Open(w) \/ ReadBatch(w) \/ VerifyFile(w) \/ VerifyPath(w) \/ IoError(w)
      BY <3>0, <3>2 DEF Open, ReadBatch, VerifyFile, VerifyPath, IoError, Retry, FailRequest, IoGoto,
                        IoStates, IoUnchanged
    <3>3. CASE CheckSend(w) \/ Push(w) \/ SendEnd(w) \/ IoPanic(w)
      BY <3>0, <3>3 DEF CheckSend, Push, SendEnd, IoPanic, IoGoto, IoStates, IoUnchanged
    <3> QED BY <1>5, <2>4, <3>1, <3>2, <3>3 DEF IoStep
  <2> QED BY <2>1, <2>2, <2>3, <2>4 DEF PanicInv
<1>6. ASSUME NEW c \in Cpu, CpuStep(c) PROVE PanicInv'
  <2>1. /\ cpuPc[c] \notin {"unspawned", "done", "failed"} /\ result' = result /\ ioPc' = ioPc
        /\ cpuPc' \in [Cpu -> CpuStates]
    BY <1>6 DEF CpuStep, CpuStop, Poll, Compute, ComputePanic, CpuLeave, CpuUnchanged, ioVars,
                CpuGoto, CpuStates, PanicInv
  <2>2. result = "none" /\ ~ AllUnspawned
    BY <2>1, NoStepAfter DEF AllUnspawned
  <2>3. \A d \in Cpu \ {c} : cpuPc'[d] = cpuPc[d]
    BY <1>6 DEF CpuStep, CpuStop, Poll, Compute, ComputePanic, CpuLeave, CpuGoto, PanicInv
  <2>4. \/ terminal' = "compute_panicked"
        \/ /\ terminal' = terminal
           /\ cpuPc'[c] \in {"panicked", "failed"} => cpuPc[c] = "panicked"
    BY <1>6 DEF CpuStep, CpuStop, Poll, Compute, ComputePanic, CpuLeave, CpuGoto, PanicInv,
                AfterFail
  <2> QED BY <2>1, <2>2, <2>3, <2>4 DEF PanicInv, TerminalStates
<1> QED BY <1>1, <1>2, <1>3, <1>4, <1>5, <1>6 DEF Next, Main, Returned

(* PanicReported: what the caller hears is a panic whenever a worker       *)
(* panicked, that of a compute worker first.                               *)
THEOREM PanicsAreReported == Spec => []PanicReported
<1>1. PanicInv => PanicReported
  BY DEF PanicInv, PanicReported, AllUnspawned, Running
<1> QED BY <1>1, InitPanic, PanicInductive, PTL DEF Spec

-----------------------------------------------------------------------------
(* Places. A request of the batch waits with its I/O worker, is in the ring *)
(* from that worker to its compute worker, is in that worker's hands, or is *)
(* completed or failed: one of these, and lost to none while the run goes   *)
(* on. Its credit is where its bytes are.                                   *)

Slotted  == {"ticket", "probe", "grow", "open", "read", "verify", "confirm", "send", "push"}
Holding  == {"probe", "open", "read", "verify", "confirm", "send", "push"}
Covering == {"open", "read", "verify", "confirm", "send", "push"}

Waiting(r)   == \E w \in Io : r \in todo[w]
Queued(r)    == \E w \in Io, c \in Cpu : \E i \in 1 .. Len(ring[w][c]) : ring[w][c][i] = r
Computing(r) == \E c \in Cpu : current[c] = r

(* Worker w sends nothing more to c. *)
Closed(w, c) == ioPc[w] \in {"leave", "done"} \/ (ioPc[w] = "end" /\ c < endTo[w])

PlaceTypes ==
  /\ endTo \in [Io -> Cpu]
  /\ ended \in [Cpu -> SUBSET IoSpawned]
  /\ failed \in [Requests -> Nat]
  /\ (\A w \in Io : ioPc[w] = "unspawned") => \A r \in Requests : failed[r] = 0
  /\ (\A w \in Io : ioPc[w] = "unspawned") /\ result = "ok" => batch = <<>>

Distinct(q) == \A i, j \in 1 .. Len(q) : q[i] = q[j] => i = j

(* A ring holds requests of its two workers, none twice, an end marker last. *)
Ordered(w, c) ==
  LET q == ring[w][c] IN
  /\ Distinct(q)
  /\ \A i \in 1 .. Len(q) :
       \/ q[i] = End /\ i = Len(q) /\ Closed(w, c)
       \/ q[i] # End /\ IoOwner(q[i]) = w /\ CpuOwner(q[i]) = c

Emptied(w, c) ==
  /\ w \in ended[c] => Closed(w, c) /\ ring[w][c] = <<>>
  /\ w \in IoLeft /\ c \in CpuLeft => ring[w][c] = <<>>

Rings == \A w \in Io, c \in Cpu : Ordered(w, c) /\ Emptied(w, c)

(* A slot found free stays free until the worker fills it. *)
Slots ==
  \A w \in Io : ioPc[w] \in Slotted => Len(ring[w][Target(w)]) < QueueCapacity

Carries ==
  \A c \in Cpu :
    /\ current[c] # Nobody <=> cpuPc[c] \in {"compute", "panicked"}
    /\ current[c] # Nobody => CpuOwner(current[c]) = c

Once ==
  \A r \in Requests :
    /\ Queued(r) \/ Computing(r) \/ completed[r] > 0 => ~ Waiting(r)
    /\ Computing(r) \/ completed[r] > 0 => ~ Queued(r)
    /\ completed[r] > 0 => ~ Computing(r)
    /\ failed[r] > 0 => ~ Waiting(r) /\ ~ Queued(r) /\ ~ Computing(r) /\ completed[r] = 0
    /\ completed[r] <= 1 /\ failed[r] <= 1

(* While the run goes on, a worker stops when its part is done. *)
Finishes ==
  Running =>
    /\ \A w \in Io : ioPc[w] \in {"end", "leave", "done"} => todo[w] = {}
    /\ \A c \in CpuSpawned : cpuPc[c] \in {"leave", "done"} => ended[c] = IoSpawned

Placed(r) == Waiting(r) \/ Queued(r) \/ Computing(r) \/ completed[r] + failed[r] > 0

Accounted ==
  Running => \A r \in Range(batch) :
    ioPc[IoOwner(r)] \in {"unspawned", "panicked", "failed"} \/ Placed(r)

PlaceInv == PlaceTypes /\ Rings /\ Slots /\ Carries /\ Once /\ Finishes /\ Accounted

LEMMA OwnersInRange ==
  ASSUME Types, batch # <<>>
  PROVE  /\ IoCount \in Nat \ {0} /\ CpuCount \in Nat \ {0}
         /\ IoSpawned \subseteq Io /\ CpuSpawned \subseteq Cpu
         /\ \A r \in Requests : IoOwner(r) \in IoSpawned /\ CpuOwner(r) \in CpuSpawned
<1>1. Len(batch) \in Nat \ {0}
  BY DEF Types
<1>2. /\ {IoWorkers, Len(batch)} \in SUBSET Nat /\ {IoWorkers, Len(batch)} # {}
      /\ {ComputeWorkers, Len(batch)} \in SUBSET Nat /\ {ComputeWorkers, Len(batch)} # {}
  BY <1>1, PipelineAssumption
<1>3. /\ IoCount \in {IoWorkers, Len(batch)} /\ IoCount <= IoWorkers
      /\ CpuCount \in {ComputeWorkers, Len(batch)} /\ CpuCount <= ComputeWorkers
  BY <1>2, LeastIndex DEF IoCount, CpuCount
<1>4. /\ IoCount \in Nat \ {0} /\ CpuCount \in Nat \ {0}
      /\ IoWorkers \in Nat /\ ComputeWorkers \in Nat
  BY <1>1, <1>3, PipelineAssumption
<1>5. \A r \in Nat : r % IoCount \in 0 .. IoCount - 1 /\ r % CpuCount \in 0 .. CpuCount - 1
  BY <1>4
<1>6. \A r \in Requests : IoOwner(r) \in IoSpawned /\ CpuOwner(r) \in CpuSpawned
  BY <1>5, Constants DEF IoSpawned, CpuSpawned, IoOwner, CpuOwner
<1>7. IoSpawned \subseteq Io /\ CpuSpawned \subseteq Cpu
  BY <1>3, <1>4 DEF IoSpawned, CpuSpawned, Io, Cpu
<1> QED BY <1>4, <1>6, <1>7

-----------------------------------------------------------------------------
(* The steps of an I/O worker, by what they do to its request and credit.  *)

(* Nothing changes hands. *)
Rests(w) ==
  /\ UNCHANGED <<lease, reserved>>
  /\ \/ ~ Running /\ ioPc[w] \notin Holding /\ ioPc'[w] = "leave"
     \/ ioPc[w] = "next" /\ todo[w] = {} /\ ioPc'[w] = "end"
     \/ ioPc[w] = "next" /\ todo[w] # {} /\ ioPc'[w] = "slot"
     \/ ioPc[w] = "slot" /\ ioPc'[w] = "ticket" /\ Len(ring[w][Target(w)]) < QueueCapacity
     \/ /\ ioPc[w] = "probe" /\ ioPc'[w] = "open"
        /\ ~ (Needs(Now(w), read'[Now(w)].before) > lease[Now(w)])
     \/ /\ ioPc[w] \in Covering /\ ioPc'[w] \in Covering
        /\ read'[Now(w)].before = read[Now(w)].before

(* The worker takes credit for its request. *)
Takes(w) ==
  /\ read' = read
  /\ \E n \in Nat \ {0} :
       /\ Fits(n) /\ Acquire(Now(w), n)
       /\ \/ ioPc[w] = "ticket" /\ ioPc'[w] = "probe"
          \/ /\ ioPc[w] = "grow" /\ ioPc'[w] = "open"
             /\ n = Needs(Now(w), read[Now(w)].before)

(* It gives it back and tries again, waits, or stops. *)
Gives(w) ==
  /\ Release(Now(w)) /\ ioPc[w] \in Holding
  /\ \/ ioPc'[w] \in {"ticket", "grow"}
     \/ ~ Running /\ ioPc'[w] = "leave"

(* Nothing else moves in those steps. *)
Steady(w) == UNCHANGED <<todo, endTo, ring, failed>> /\ (Rests(w) \/ Takes(w) \/ Gives(w))

Fails(w) == FailRequest(w) /\ ioPc[w] \in Slotted /\ UNCHANGED <<endTo, ring>>

(* What a file needs is known and more than nothing.                       *)
LEMMA NeedsNat ==
  ASSUME InputInv, NEW r \in Requests
  PROVE  Needs(r, read[r].before) \in Nat \ {0}
<1>1. read[r].before[2] \in Generations
  BY DEF InputInv, Types, Reads
<1> QED BY <1>1, PipelineAssumption DEF Needs, Generations

LEMMA IoCases ==
  ASSUME InputInv, NEW w \in Io, IoStep(w)
  PROVE  /\ \E pc : ioPc' = [ioPc EXCEPT ![w] = pc]
         /\ UNCHANGED <<batch, result, cpuPc, first, offset, ended, current, completed, fileVars>>
         /\ \/ terminal' = terminal /\ Steady(w)
            \/ terminal' = terminal /\ Fails(w)
            \/ terminal' = terminal /\ (Push(w) \/ SendEnd(w) \/ IoPanic(w))
            \/ IoLeave(w)
<1> USE DEF IoUnchanged, cpuVars, IoGoto
<1>0. ioPc \in [Io -> IoStates]
  BY DEF InputInv, Types
<1>1. CASE IoStop(w) \/ NextRequest(w) \/ ReserveSlot(w) \/ CheckSend(w)
  <2>1. ioPc'[w] = "leave" \/ ioPc'[w] = "end" \/ ioPc'[w] = "slot" \/ ioPc'[w] = "ticket"
        \/ ioPc'[w] = "push"
    BY <1>0, <1>1 DEF IoStop, NextRequest, ReserveSlot, CheckSend
  <2>2. Steady(w)
    BY <1>0, <1>1 DEF IoStop, NextRequest, ReserveSlot, CheckSend, Steady, Rests, Gives, Holding,
                      Covering
  <2> QED BY <1>1, <2>2 DEF IoStop, NextRequest, ReserveSlot, CheckSend
<1>2. CASE TakeTicket(w)
  <2>1. Steady(w)
    BY <1>0, <1>2 DEF TakeTicket, Steady, Takes
  <2> QED BY <1>2, <2>1 DEF TakeTicket
<1>3. CASE VerifyFile(w) \/ ReadBatch(w)
  <2> PICK r : r = Now(w)
    OBVIOUS
  <2>1. todo[w] # {}
    BY <1>3 DEF InputInv, Reading, Working, VerifyFile, ReadBatch
  <2>2. r \in Requests
    BY <2>1, NowIsOwn DEF InputInv
  <2>3. read'[r].before = read[r].before
    BY <1>3, <2>2 DEF VerifyFile, ReadBatch, InputInv, Types, Reads
  <2>4. Steady(w)
    BY <1>0, <1>3, <2>3 DEF VerifyFile, ReadBatch, Steady, Rests, Holding, Covering
  <2> QED BY <1>3, <2>4 DEF VerifyFile, ReadBatch
<1>4. CASE VerifyPath(w)
  <2>1. CASE ioPc'[w] = "next"
    <3>1. Fails(w)
      BY <1>0, <1>4, <2>1 DEF VerifyPath, Retry, Fails, Slotted
    <3> QED BY <1>4, <3>1 DEF VerifyPath, Retry, FailRequest
  <2>2. CASE ioPc'[w] # "next"
    <3>1. Steady(w)
      BY <1>0, <1>4, <2>2 DEF VerifyPath, Retry, FailRequest, Steady, Rests, Gives, Holding, Covering
    <3> QED BY <1>4, <3>1 DEF VerifyPath, Retry, FailRequest
  <2> QED BY <2>1, <2>2
<1>5. CASE Open(w)
  <2> PICK r : r = Now(w)
    OBVIOUS
  <2>1. todo[w] # {}
    BY <1>5 DEF InputInv, Reading, Working, Open
  <2>2. r \in Requests
    BY <2>1, NowIsOwn DEF InputInv
  <2>3. read'[r].before = read[r].before
    BY <1>5, <2>2 DEF Open, Retry, InputInv, Types, Reads
  <2>4. CASE ioPc'[w] = "next"
    <3>1. Fails(w)
      BY <1>0, <1>5, <2>4 DEF Open, Retry, Fails, Slotted
    <3> QED BY <1>5, <3>1 DEF Open, Retry, FailRequest
  <2>5. CASE ioPc'[w] # "next"
    <3>1. Steady(w)
      BY <1>0, <1>5, <2>3, <2>5 DEF Open, Retry, FailRequest, Steady, Rests, Gives, Holding, Covering
    <3> QED BY <1>5, <3>1 DEF Open, Retry, FailRequest
  <2> QED BY <2>4, <2>5
<1>6. CASE Grow(w)
  <2> PICK n : n = Needs(Now(w), read[Now(w)].before)
    OBVIOUS
  <2>1. CASE ioPc'[w] = "next"
    <3>1. Fails(w)
      BY <1>0, <1>6, <2>1 DEF Grow, Fails, Slotted
    <3> QED BY <1>6, <3>1 DEF Grow, FailRequest
  <2>2. CASE ioPc'[w] # "next"
    <3>0. todo[w] # {}
      BY <1>6 DEF Grow, InputInv, Reading, Working
    <3>1. n \in Nat \ {0}
      BY <3>0, NowIsOwn, NeedsNat DEF InputInv
    <3>2. Steady(w)
      BY <1>0, <1>6, <2>2, <3>1 DEF Grow, FailRequest, Steady, Takes
    <3> QED BY <1>6, <3>2 DEF Grow, FailRequest
  <2> QED BY <2>1, <2>2
<1>7. CASE Probe(w)
  <2> PICK r : r = Now(w)
    OBVIOUS
  <2>1. todo[w] # {} /\ r \in Requests
    BY <1>7, NowIsOwn DEF InputInv, Reading, Working, Probe
  <2>2. CASE Inadmissible(r)
    <3>1. Fails(w)
      BY <1>0, <1>7, <2>2 DEF Probe, Fails, Slotted
    <3> QED BY <1>7, <2>2, <3>1 DEF Probe, FailRequest
  <2>3. CASE ~ Inadmissible(r)
    <3> PICK id : id = PathId(r)
      OBVIOUS
    <3>1. read' = [read EXCEPT ![r] = [NoRead EXCEPT !.before = id]]
      BY <1>7, <2>3 DEF Probe
    <3>2. read'[r].before = id
      BY <2>1, <3>1 DEF NoRead, InputInv, Types
    <3>3. CASE Needs(r, id) > lease[r]
      <4>1. Gives(w)
        BY <1>0, <1>7, <2>3, <3>3 DEF Probe, Gives, Holding
      <4> QED BY <1>7, <2>3, <3>3, <4>1 DEF Probe, Steady
    <3>4. CASE ~ (Needs(r, id) > lease[r])
      <4>1. Rests(w)
        BY <1>0, <1>7, <2>3, <3>2, <3>4 DEF Probe, Rests, Holding
      <4> QED BY <1>7, <2>3, <3>4, <4>1 DEF Probe, Steady
    <3> QED BY <3>3, <3>4
  <2> QED BY <2>2, <2>3
<1>8. CASE IoError(w)
  <2>1. Fails(w)
    BY <1>0, <1>8 DEF IoError, Fails, Slotted
  <2> QED BY <1>8, <2>1 DEF IoError, FailRequest
<1>9. CASE Push(w) \/ SendEnd(w) \/ IoPanic(w)
  <2>1. \E pc : ioPc' = [ioPc EXCEPT ![w] = pc]
    <3>1. SendEnd(w) /\ ioPc' = ioPc => ioPc' = [ioPc EXCEPT ![w] = "end"]
      BY <1>0 DEF SendEnd
    <3> QED BY <1>9, <3>1 DEF Push, SendEnd, IoPanic
  <2> QED BY <1>9, <2>1 DEF Push, SendEnd, IoPanic
<1>10. CASE IoLeave(w)
  BY <1>10 DEF IoLeave
<1> QED BY <1>1, <1>2, <1>3, <1>4, <1>5, <1>6, <1>7, <1>8, <1>9, <1>10 DEF IoStep

-----------------------------------------------------------------------------
(* Sequences without repetition.                                           *)

LEMMA DistinctAppend ==
  ASSUME NEW S, NEW q \in Seq(S), NEW e \in S, Distinct(q), \A i \in 1 .. Len(q) : q[i] # e
  PROVE  Distinct(Append(q, e))
<1>1. /\ Len(Append(q, e)) = Len(q) + 1 /\ Len(q) \in Nat
      /\ \A i \in 1 .. Len(q) : Append(q, e)[i] = q[i]
      /\ Append(q, e)[Len(q) + 1] = e
  OBVIOUS
<1> QED BY <1>1 DEF Distinct

LEMMA DistinctTail ==
  ASSUME NEW S, NEW q \in Seq(S), q # <<>>, Distinct(q)
  PROVE  /\ Distinct(Tail(q))
         /\ \A i \in 1 .. Len(Tail(q)) : Tail(q)[i] # Head(q)
<1>1. /\ Len(Tail(q)) = Len(q) - 1 /\ Len(q) \in Nat \ {0}
      /\ \A i \in 1 .. Len(q) - 1 : Tail(q)[i] = q[i + 1]
      /\ Head(q) = q[1]
  OBVIOUS
<1> QED BY <1>1 DEF Distinct

-----------------------------------------------------------------------------
(* What an I/O worker does to the rings.                                   *)

LEMMA ClosedKept ==
  ASSUME InputInv, PlaceInv, NEW w \in Io, IoStep(w), NEW v \in Io, NEW c \in Cpu, Closed(v, c)
  PROVE  Closed(v, c)'
<1>0. /\ ioPc \in [Io -> IoStates] /\ endTo \in [Io -> Cpu] /\ Cpu \subseteq Nat
  BY Constants DEF InputInv, Types, PlaceInv, PlaceTypes
<1>1. PICK pc : ioPc' = [ioPc EXCEPT ![w] = pc]
  BY IoCases
<1>2. CASE Steady(w) \/ Fails(w)
  <2>1. endTo' = endTo
    BY <1>2 DEF Steady, Fails
  <2>2. v = w => ioPc'[w] = "leave"
    BY <1>2 DEF Steady, Fails, Rests, Takes, Gives, Holding, Covering, Slotted, Closed
  <2> QED BY <1>0, <1>1, <2>1, <2>2 DEF Closed
<1>3. CASE Push(w) \/ IoPanic(w)
  BY <1>0, <1>1, <1>3 DEF Push, IoPanic, Closed
<1>4. CASE SendEnd(w)
  <2>1. \/ endTo' = [endTo EXCEPT ![w] = endTo[w] + 1] /\ ioPc' = ioPc
        \/ endTo' = endTo /\ ioPc' = [ioPc EXCEPT ![w] = "leave"]
    BY <1>4 DEF SendEnd, IoGoto
  <2>2. endTo[v] \in Nat /\ endTo[w] \in Nat /\ c \in Nat
    BY <1>0
  <2>3. CASE v # w
    BY <1>0, <2>1, <2>3 DEF Closed
  <2>4. CASE v = w
    BY <1>0, <2>1, <2>2, <2>4 DEF Closed
  <2> QED BY <2>3, <2>4
<1>5. CASE IoLeave(w)
  BY <1>0, <1>5 DEF IoLeave, IoGoto, Closed
<1> QED BY <1>2, <1>3, <1>4, <1>5, IoCases

(* The ring of v and c after a step of w. *)
Delivers(w, v, c) == /\ v = w /\ Push(w) /\ c = Target(w) /\ ring'[v][c] = Append(ring[v][c], Now(w))
Ends(w, v, c) == v = w /\ SendEnd(w) /\ c = endTo[w] /\ ring'[v][c] = Append(ring[v][c], End)
Drops(w, v, c) == v = w /\ IoLeave(w) /\ c \in CpuLeft /\ ring'[v][c] = <<>>

LEMMA IoRings ==
  ASSUME InputInv, PlaceInv, NEW w \in Io, IoStep(w), NEW v \in Io, NEW c \in Cpu
  PROVE  ring'[v][c] = ring[v][c] \/ Delivers(w, v, c) \/ Ends(w, v, c) \/ Drops(w, v, c)
<1>0. ring \in Queues
  BY DEF InputInv, Types, Queues
<1>1. CASE Steady(w) \/ Fails(w) \/ IoPanic(w)
  BY <1>1 DEF Steady, Fails, IoPanic, IoUnchanged
<1>2. CASE Push(w)
  <2>1. ring' = ring \/ ring' = [ring EXCEPT ![w][Target(w)] = Append(@, Now(w))]
    BY <1>2 DEF Push
  <2> QED BY <1>0, <1>2, <2>1 DEF Queues, Delivers
<1>3. CASE SendEnd(w)
  <2>1. ring' = [ring EXCEPT ![w][endTo[w]] = Append(@, End)]
    BY <1>3 DEF SendEnd
  <2> QED BY <1>0, <1>3, <2>1 DEF Queues, Ends
<1>4. CASE IoLeave(w)
  <2>1. ring' = [ring EXCEPT ![w] = [d \in Cpu |-> IF d \in CpuLeft THEN <<>> ELSE ring[w][d]]]
    BY <1>4 DEF IoLeave
  <2> QED BY <1>0, <1>4, <2>1 DEF Queues, Drops
<1> QED BY <1>1, <1>2, <1>3, <1>4, IoCases

(* A worker that delivers has a request of its own, and its ring has room. *)
LEMMA DeliverFacts ==
  ASSUME InputInv, PlaceInv, NEW w \in Io, Push(w)
  PROVE  /\ Now(w) \in todo[w] /\ Now(w) \in Requests /\ Target(w) \in Cpu
         /\ IoOwner(Now(w)) = w /\ ~ RingFull(w)
         /\ todo' = [todo EXCEPT ![w] = @ \ {Now(w)}]
         /\ ring' = [ring EXCEPT ![w][Target(w)] = Append(@, Now(w))]
         /\ ioPc' = [ioPc EXCEPT ![w] = "next"]
         /\ UNCHANGED <<lease, reserved, failed, endTo, terminal, read>>
<1>1. ioPc[w] = "push"
  BY DEF Push
<1>2. todo[w] # {}
  BY <1>1 DEF InputInv, Reading, Working
<1>3. Now(w) \in todo[w] /\ Now(w) \in Requests /\ IoOwner(Now(w)) = w
  BY <1>2, NowIsOwn DEF InputInv, Shares
<1>4. batch # <<>>
  BY <1>2 DEF InputInv, Types, Range
<1>5. Target(w) \in Cpu
  BY <1>3, <1>4, OwnersInRange DEF Target, InputInv
<1>6. Len(ring[w][Target(w)]) < QueueCapacity /\ Len(ring[w][Target(w)]) \in Nat
  BY <1>1, <1>5 DEF PlaceInv, Slots, Slotted, InputInv, Types
<1>7. ~ RingFull(w)
  BY <1>6, PipelineAssumption DEF RingFull
<1> QED BY <1>3, <1>5, <1>7 DEF Push, Finished, IoGoto

LEMMA IoKeepsRings ==
  ASSUME InputInv, PlaceInv, NEW w \in Io, IoStep(w)
  PROVE  Rings'
<1> SUFFICES ASSUME NEW v \in Io, NEW c \in Cpu PROVE Ordered(v, c)' /\ Emptied(v, c)'
  BY DEF Rings
<1>0. /\ Ordered(v, c) /\ Emptied(v, c) /\ ring[v][c] \in Seq(Requests \union {End})
      /\ UNCHANGED <<batch, ended, cpuPc>>
      /\ Closed(v, c) => Closed(v, c)'
  BY IoCases, ClosedKept DEF PlaceInv, Rings, InputInv, Types
<1>1. v # w => ioPc'[v] = ioPc[v]
  BY IoCases DEF InputInv, Types
<1>2. CASE ring'[v][c] = ring[v][c]
  <2>1. Ordered(v, c)'
    BY <1>0, <1>2 DEF Ordered, IoOwner, CpuOwner, IoCount, CpuCount
  <2>2. v \in IoLeft' => v \in IoLeft \/ (IoLeave(w) /\ v = w)
    <3>1. CASE Steady(w) \/ Fails(w)
      <4>1. v = w => ioPc'[v] \notin {"done", "failed"}
        BY <3>1, IoCases DEF Steady, Fails, Rests, Takes, Gives, Holding, Covering, FailRequest, IoGoto,
                             InputInv, Types
      <4> QED BY <1>1, <4>1 DEF IoLeft
    <3>2. CASE Push(w) \/ SendEnd(w) \/ IoPanic(w)
      <4>1. v = w => ioPc'[v] \notin {"done", "failed"}
        BY <3>2 DEF Push, SendEnd, IoPanic, IoGoto, InputInv, Types
      <4> QED BY <1>1, <4>1 DEF IoLeft
    <3> QED BY <1>1, <3>1, <3>2, IoCases DEF IoLeft
  <2>3. IoLeave(w) /\ v = w /\ c \in CpuLeft => ring'[v][c] = <<>>
    BY DEF IoLeave, InputInv, Types
  <2>4. Emptied(v, c)'
    BY <1>0, <1>2, <2>2, <2>3 DEF Emptied, CpuLeft
  <2> QED BY <2>1, <2>4
<1>3. CASE Delivers(w, v, c)
  <2> PICK r : r = Now(w)
    OBVIOUS
  <2>1. /\ r \in Requests /\ r \in todo[w] /\ IoOwner(r) = v /\ CpuOwner(r) = c /\ r # End
        /\ ioPc[v] = "push" /\ ioPc'[v] = "next" /\ ring'[v][c] = Append(ring[v][c], r)
    <3>1. Push(w) /\ v = w /\ c = Target(w) /\ ring'[v][c] = Append(ring[v][c], r)
      BY <1>3 DEF Delivers
    <3>2. /\ r \in Requests /\ r \in todo[w] /\ IoOwner(r) = w
          /\ ioPc' = [ioPc EXCEPT ![w] = "next"]
      BY <3>1, DeliverFacts
    <3>3. ioPc[w] = "push" /\ ioPc'[w] = "next"
      BY <3>1, <3>2 DEF Push, InputInv, Types
    <3>4. r # End /\ CpuOwner(r) = c
      BY <3>1, <3>2, Constants DEF Target
    <3> QED BY <3>1, <3>2, <3>3, <3>4
  <2>2. \A i \in 1 .. Len(ring[v][c]) : ring[v][c][i] # r /\ ring[v][c][i] # End
    <3>1. ~ Closed(v, c)
      BY <2>1 DEF Closed
    <3>2. \A i \in 1 .. Len(ring[v][c]) : ring[v][c][i] # End
      BY <1>0, <3>1 DEF Ordered
    <3>3. \A i \in 1 .. Len(ring[v][c]) : Out(ring[v][c][i])
      BY <3>2 DEF InputInv, Handed
    <3> QED BY <2>1, <3>2, <3>3 DEF Out
  <2>3. Distinct(ring'[v][c])
    BY <1>0, <2>1, <2>2, DistinctAppend DEF Ordered
  <2>4. ASSUME NEW i \in 1 .. Len(ring'[v][c])
        PROVE  ring'[v][c][i] # End /\ IoOwner(ring'[v][c][i]) = v /\ CpuOwner(ring'[v][c][i]) = c
    <3>1. i \in 1 .. Len(ring[v][c]) \/ i = Len(ring[v][c]) + 1
      BY <1>0, <2>1
    <3>2. CASE i \in 1 .. Len(ring[v][c])
      <4>1. ring'[v][c][i] = ring[v][c][i]
        BY <1>0, <2>1, <3>2
      <4> QED BY <1>0, <2>2, <3>2, <4>1 DEF Ordered
    <3>3. CASE i = Len(ring[v][c]) + 1
      <4>1. ring'[v][c][i] = r
        BY <1>0, <2>1, <3>3
      <4> QED BY <2>1, <4>1
    <3> QED BY <3>1, <3>2, <3>3
  <2>5. Ordered(v, c)'
    BY <1>0, <2>3, <2>4 DEF Ordered, IoOwner, CpuOwner, IoCount, CpuCount
  <2>6. Emptied(v, c)'
    BY <1>0, <2>1 DEF Emptied, Closed, IoLeft
  <2> QED BY <2>5, <2>6
<1>4. CASE Ends(w, v, c)
  <2>1. /\ ring'[v][c] = Append(ring[v][c], End) /\ ioPc[v] = "end" /\ c = endTo[v]
        /\ c \in Nat /\ ~ Closed(v, c) /\ ioPc'[v] \in {"end", "leave"}
    BY <1>4, Constants DEF Ends, SendEnd, IoGoto, Closed, InputInv, Types
  <2>2. Closed(v, c)'
    <3>1. \/ endTo' = [endTo EXCEPT ![w] = endTo[w] + 1] /\ ioPc' = ioPc
          \/ ioPc' = [ioPc EXCEPT ![w] = "leave"]
      BY <1>4 DEF Ends, SendEnd, IoGoto
    <3>2. endTo \in [Io -> Cpu] /\ ioPc \in [Io -> IoStates]
      BY DEF PlaceInv, PlaceTypes, InputInv, Types
    <3> QED BY <1>4, <2>1, <3>1, <3>2 DEF Closed, Ends
  <2>3. \A i \in 1 .. Len(ring[v][c]) : ring[v][c][i] # End
    BY <1>0, <2>1 DEF Ordered
  <2>4. Distinct(ring'[v][c])
    BY <1>0, <2>1, <2>3, DistinctAppend DEF Ordered
  <2>5. ASSUME NEW i \in 1 .. Len(ring'[v][c])
        PROVE  \/ ring'[v][c][i] = End /\ i = Len(ring'[v][c])
               \/ /\ ring'[v][c][i] # End
                  /\ IoOwner(ring'[v][c][i]) = v /\ CpuOwner(ring'[v][c][i]) = c
    <3>1. /\ Len(ring'[v][c]) = Len(ring[v][c]) + 1
          /\ i \in 1 .. Len(ring[v][c]) \/ i = Len(ring[v][c]) + 1
      BY <1>0, <2>1
    <3>2. CASE i \in 1 .. Len(ring[v][c])
      <4>1. ring'[v][c][i] = ring[v][c][i]
        BY <1>0, <2>1, <3>2
      <4> QED BY <1>0, <2>3, <3>2, <4>1 DEF Ordered
    <3>3. CASE i = Len(ring[v][c]) + 1
      <4>1. ring'[v][c][i] = End
        BY <1>0, <2>1, <3>3
      <4> QED BY <3>1, <3>3, <4>1
    <3> QED BY <3>1, <3>2, <3>3
  <2>6. Ordered(v, c)'
    BY <1>0, <2>2, <2>4, <2>5 DEF Ordered, IoOwner, CpuOwner, IoCount, CpuCount
  <2>7. Emptied(v, c)'
    BY <1>0, <2>1 DEF Emptied, IoLeft
  <2> QED BY <2>6, <2>7
<1>5. CASE Drops(w, v, c)
  <2>1. ring'[v][c] = <<>>
    BY <1>5 DEF Drops
  <2> QED BY <1>0, <2>1 DEF Ordered, Emptied, Distinct
<1> QED BY <1>2, <1>3, <1>4, <1>5, IoRings

(* Where requests are after a step of an I/O worker.                       *)

(* A request its worker is done with waits nowhere; the others still do.   *)
LEMMA WaitingMoves ==
  ASSUME InputInv, NEW w \in Io, todo[w] # {}, NEW n, n = Now(w),
         todo' = [todo EXCEPT ![w] = @ \ {n}]
  PROVE  /\ Waiting(n) /\ ~ Waiting(n)'
         /\ \A r \in Requests \ {n} : Waiting(r)' <=> Waiting(r)
<1>1. n \in todo[w] /\ \A v \in Io : n \in todo[v] => v = w
  BY NowIsOwn DEF InputInv, Shares
<1>2. \A v \in Io : todo'[v] = IF v = w THEN todo[w] \ {n} ELSE todo[v]
  BY DEF InputInv, Types
<1>3. ~ Waiting(n)'
  BY <1>1, <1>2 DEF Waiting
<1>4. \A r : r # n => \A v \in Io : r \in todo'[v] <=> r \in todo[v]
  BY <1>2
<1> QED BY <1>1, <1>3, <1>4 DEF Waiting

LEMMA QueuedGrows ==
  ASSUME InputInv, PlaceInv, NEW w \in Io, IoStep(w), NEW r \in Requests, Queued(r)',
         ~ Push(w) \/ r # Now(w)
  PROVE  Queued(r)
<1>1. PICK v \in Io, c \in Cpu : \E i \in 1 .. Len(ring'[v][c]) : ring'[v][c][i] = r
  BY DEF Queued
<1>2. PICK i \in 1 .. Len(ring'[v][c]) : ring'[v][c][i] = r
  BY <1>1
<1>3. ring[v][c] \in Seq(Requests \union {End}) /\ r # End
  BY Constants DEF InputInv, Types
<1>4. CASE ring'[v][c] = ring[v][c]
  BY <1>2, <1>4 DEF Queued
<1>5. ASSUME NEW x, ring'[v][c] = Append(ring[v][c], x), x # r
      PROVE  Queued(r)
  <2>1. i \in 1 .. Len(ring[v][c]) \/ i = Len(ring[v][c]) + 1
    BY <1>3, <1>5
  <2>2. i \in 1 .. Len(ring[v][c]) /\ ring[v][c][i] = r
    BY <1>2, <1>3, <1>5, <2>1
  <2> QED BY <2>2 DEF Queued
<1>6. CASE Drops(w, v, c)
  BY <1>2, <1>6 DEF Drops
<1> QED BY <1>3, <1>4, <1>5, <1>6, IoRings DEF Delivers, Ends

LEMMA QueuedStays ==
  ASSUME InputInv, PlaceInv, NEW w \in Io, IoStep(w), NEW r \in Requests, Queued(r)
  PROVE  \/ Queued(r)'
         \/ IoLeave(w) /\ \E c \in CpuLeft : \E i \in 1 .. Len(ring[w][c]) : ring[w][c][i] = r
<1>1. PICK v \in Io, c \in Cpu : \E i \in 1 .. Len(ring[v][c]) : ring[v][c][i] = r
  BY DEF Queued
<1>2. PICK i \in 1 .. Len(ring[v][c]) : ring[v][c][i] = r
  BY <1>1
<1>3. ring[v][c] \in Seq(Requests \union {End})
  BY DEF InputInv, Types
<1>4. CASE ring'[v][c] = ring[v][c]
  BY <1>2, <1>4 DEF Queued
<1>5. ASSUME NEW x, ring'[v][c] = Append(ring[v][c], x)
      PROVE  Queued(r)'
  <2>1. i \in 1 .. Len(ring'[v][c]) /\ ring'[v][c][i] = r
    BY <1>2, <1>3, <1>5
  <2> QED BY <2>1 DEF Queued
<1>6. CASE Drops(w, v, c)
  BY <1>2, <1>6 DEF Drops
<1> QED BY <1>4, <1>5, <1>6, IoRings DEF Delivers, Ends

LEMMA DeliveredIsQueued ==
  ASSUME InputInv, PlaceInv, NEW w \in Io, Push(w), NEW r, r = Now(w)
  PROVE  Queued(r)'
<1> PICK c : c = Target(w)
  OBVIOUS
<1>1. c \in Cpu /\ ring' = [ring EXCEPT ![w][c] = Append(@, r)]
  BY DeliverFacts
<1>2. ring[w][c] \in Seq(Requests \union {End}) /\ ring'[w][c] = Append(ring[w][c], r)
  BY <1>1 DEF InputInv, Types
<1>3. Len(ring[w][c]) + 1 \in 1 .. Len(ring'[w][c]) /\ ring'[w][c][Len(ring[w][c]) + 1] = r
  BY <1>2
<1> QED BY <1>1, <1>3 DEF Queued

(* What a failing worker does with its request.                            *)
LEMMA FailFacts ==
  ASSUME InputInv, NEW w \in Io, Fails(w)
  PROVE  /\ todo[w] # {} /\ Now(w) \in Requests /\ Now(w) \in todo[w]
         /\ todo' = [todo EXCEPT ![w] = @ \ {Now(w)}]
         /\ failed' = [failed EXCEPT ![Now(w)] = @ + 1]
         /\ ring' = ring /\ ioPc' = [ioPc EXCEPT ![w] = "next"]
<1>1. todo[w] # {}
  BY DEF Fails, Slotted, InputInv, Reading, Working
<1> QED BY <1>1, NowIsOwn DEF InputInv, Fails, FailRequest, Finished, IoGoto

LEMMA IoKeepsOnce ==
  ASSUME InputInv, PlaceInv, NEW w \in Io, IoStep(w)
  PROVE  Once'
<1> SUFFICES ASSUME NEW r \in Requests
             PROVE  /\ Queued(r)' \/ Computing(r)' \/ completed'[r] > 0 => ~ Waiting(r)'
                    /\ Computing(r)' \/ completed'[r] > 0 => ~ Queued(r)'
                    /\ completed'[r] > 0 => ~ Computing(r)'
                    /\ failed'[r] > 0 => /\ ~ Waiting(r)' /\ ~ Queued(r)' /\ ~ Computing(r)'
                                         /\ completed'[r] = 0
                    /\ completed'[r] <= 1 /\ failed'[r] <= 1
  BY DEF Once
<1>0. /\ UNCHANGED <<current, completed>> /\ (Computing(r)' <=> Computing(r))
      /\ completed[r] \in Nat /\ failed[r] \in Nat
  BY IoCases DEF Computing, InputInv, Types, PlaceInv, PlaceTypes
<1>1. /\ Queued(r) \/ Computing(r) \/ completed[r] > 0 => ~ Waiting(r)
      /\ Computing(r) \/ completed[r] > 0 => ~ Queued(r)
      /\ completed[r] > 0 => ~ Computing(r)
      /\ failed[r] > 0 => ~ Waiting(r) /\ ~ Queued(r) /\ ~ Computing(r) /\ completed[r] = 0
      /\ completed[r] <= 1 /\ failed[r] <= 1
  BY DEF PlaceInv, Once
<1>2. Waiting(r)' => Waiting(r)
  <2>1. todo' = todo \/ todo' = [todo EXCEPT ![w] = @ \ {Now(w)}]
    BY IoTouches
  <2>2. \A v \in Io : todo'[v] \subseteq todo[v]
    BY <2>1 DEF InputInv, Types
  <2> QED BY <2>2 DEF Waiting
<1>3. CASE ~ (Push(w) /\ r = Now(w)) /\ (failed'[r] = failed[r] \/ failed'[r] = 0)
  <2>1. Queued(r)' => Queued(r)
    BY <1>3, QueuedGrows
  <2> QED BY <1>0, <1>1, <1>2, <1>3, <2>1
<1>4. CASE Push(w) /\ r = Now(w)
  <2>1. Waiting(r) /\ ~ Waiting(r)' /\ failed' = failed
    <3>1. /\ todo[w] # {} /\ todo' = [todo EXCEPT ![w] = @ \ {r}] /\ failed' = failed
      BY <1>4, DeliverFacts
    <3> QED BY <1>4, <3>1, WaitingMoves
  <2> QED BY <1>0, <1>1, <2>1
<1>5. CASE Fails(w) /\ r = Now(w)
  <2>1. Waiting(r) /\ ~ Waiting(r)' /\ ring' = ring /\ failed'[r] = failed[r] + 1
    <3>1. /\ todo[w] # {} /\ todo' = [todo EXCEPT ![w] = @ \ {r}]
          /\ ring' = ring /\ failed' = [failed EXCEPT ![r] = @ + 1]
      BY <1>5, FailFacts
    <3> QED BY <1>5, <3>1, WaitingMoves DEF PlaceInv, PlaceTypes
  <2>2. Queued(r)' <=> Queued(r)
    BY <2>1 DEF Queued
  <2>3. failed[r] = 0
    BY <1>0, <1>1, <2>1
  <2> QED BY <1>0, <1>1, <2>1, <2>2, <2>3
<1>6. ~ (Fails(w) /\ r = Now(w)) => failed'[r] = failed[r] \/ failed'[r] = 0
  <2>0. failed \in [Requests -> Nat]
    BY DEF PlaceInv, PlaceTypes
  <2>1. CASE Steady(w) \/ Push(w) \/ SendEnd(w) \/ IoLeave(w)
    BY <2>1 DEF Steady, Push, SendEnd, IoLeave
  <2>2. CASE Fails(w)
    BY <2>0, <2>2, FailFacts
  <2>3. CASE IoPanic(w)
    BY <2>3 DEF IoPanic
  <2> QED BY <2>1, <2>2, <2>3, IoCases
<1> QED BY <1>3, <1>4, <1>5, <1>6

LEMMA IoKeepsSlots ==
  ASSUME InputInv, PlaceInv, NEW w \in Io, IoStep(w)
  PROVE  Slots'
<1> SUFFICES ASSUME NEW v \in Io, ioPc'[v] \in Slotted
             PROVE  Len(ring'[v][Target(v)']) < QueueCapacity
  BY DEF Slots
<1>0. /\ UNCHANGED batch /\ ioPc \in [Io -> IoStates] /\ todo \in [Io -> SUBSET Range(batch)]
      /\ ring \in [Io -> [Cpu -> Seq(Requests \union {End})]]
      /\ ioPc[v] \in Slotted => Len(ring[v][Target(v)]) < QueueCapacity
  BY IoCases DEF InputInv, Types, PlaceInv, Slots
<1>1. todo'[v] = todo[v] => Target(v)' = Target(v)
  BY <1>0 DEF Target, Now, CpuOwner, CpuCount
<1>2. CASE v # w
  <2>1. todo' = todo \/ todo' = [todo EXCEPT ![w] = @ \ {Now(w)}]
    BY IoTouches
  <2>2. todo'[v] = todo[v] /\ ioPc'[v] = ioPc[v]
    BY <1>0, <1>2, <2>1, IoCases
  <2>3. ring'[v] = ring[v]
    BY <1>0, <1>2, IoCases DEF Steady, Fails, Push, SendEnd, IoPanic, IoLeave, IoUnchanged
  <2> QED BY <1>0, <1>1, <2>2, <2>3
<1>3. CASE v = w /\ Steady(w)
  <2>1. todo' = todo /\ ring' = ring
    BY <1>3 DEF Steady
  <2>2. ioPc[w] \in Slotted \/ Len(ring[w][Target(w)]) < QueueCapacity
    BY <1>3 DEF Steady, Rests, Takes, Gives, Holding, Covering, Slotted
  <2> QED BY <1>0, <1>1, <1>3, <2>1, <2>2
<1>4. CASE v = w /\ ~ Steady(w)
  <2>1. CASE Fails(w)
    BY <1>0, <1>4, <2>1, FailFacts DEF Slotted
  <2>2. CASE Push(w)
    BY <1>0, <1>4, <2>2, DeliverFacts DEF Slotted
  <2>3. CASE SendEnd(w) \/ IoPanic(w) \/ IoLeave(w)
    BY <1>0, <1>4, <2>3 DEF SendEnd, IoPanic, IoLeave, IoGoto, Slotted
  <2> QED BY <1>4, <2>1, <2>2, <2>3, IoCases
<1> QED BY <1>2, <1>3, <1>4

(* A run that was over stays over; the panic of an I/O worker ends it.     *)
LEMMA StillRunning ==
  ASSUME InputInv, NEW w \in Io, IoStep(w), Running'
  PROVE  Running /\ (IoLeave(w) => ioPc[w] = "leave" /\ ioPc' = [ioPc EXCEPT ![w] = "done"])
<1>1. CASE IoLeave(w)
  BY <1>1 DEF IoLeave, AfterFail, Running, IoGoto
<1>2. CASE terminal' = terminal /\ ~ IoLeave(w)
  BY <1>2 DEF Running
<1> QED BY <1>1, <1>2, IoCases

LEMMA IoKeepsFinishes ==
  ASSUME InputInv, PlaceInv, NEW w \in Io, IoStep(w)
  PROVE  Finishes'
<1> SUFFICES ASSUME Running' PROVE Finishes'
  BY DEF Finishes
<1>0. /\ Running /\ ioPc \in [Io -> IoStates]
      /\ UNCHANGED <<batch, cpuPc, ended>>
      /\ \A v \in Io : ioPc[v] \in {"end", "leave", "done"} => todo[v] = {}
      /\ \A c \in CpuSpawned : cpuPc[c] \in {"leave", "done"} => ended[c] = IoSpawned
  BY IoCases, StillRunning DEF PlaceInv, Finishes, InputInv, Types
<1>1. ASSUME NEW v \in Io, ioPc'[v] \in {"end", "leave", "done"} PROVE todo'[v] = {}
  <2>1. todo'[v] \subseteq todo[v]
    <3>1. todo' = todo \/ todo' = [todo EXCEPT ![w] = @ \ {Now(w)}]
      BY IoTouches
    <3> QED BY <3>1 DEF InputInv, Types
  <2>2. CASE v # w
    BY <1>0, <1>1, <2>1, <2>2, IoCases
  <2>3. CASE v = w /\ Steady(w)
    BY <1>0, <1>1, <2>1, <2>3 DEF Steady, Rests, Takes, Gives, Holding, Covering
  <2>4. CASE v = w /\ ~ Steady(w)
    <3>1. CASE Fails(w)
      BY <1>0, <1>1, <2>4, <3>1, FailFacts
    <3>2. CASE Push(w)
      BY <1>0, <1>1, <2>4, <3>2, DeliverFacts
    <3>3. CASE SendEnd(w) \/ IoPanic(w)
      BY <1>0, <1>1, <2>1, <2>4, <3>3 DEF SendEnd, IoPanic, IoGoto
    <3>4. CASE IoLeave(w)
      BY <1>0, <1>1, <2>1, <2>4, <3>4, StillRunning
    <3> QED BY <2>4, <3>1, <3>2, <3>3, <3>4, IoCases
  <2> QED BY <2>2, <2>3, <2>4
<1>2. CpuSpawned' = CpuSpawned /\ IoSpawned' = IoSpawned
  BY <1>0 DEF CpuSpawned, IoSpawned, CpuCount, IoCount
<1> QED BY <1>0, <1>1, <1>2 DEF Finishes

(* A compute worker that left while the run goes on has drained its rings. *)
LEMMA DrainedRing ==
  ASSUME InputInv, PlaceInv, PanicInv, Running, NEW w \in Io, NEW c \in Cpu,
         cpuPc[c] \in {"leave", "done", "failed"},
         NEW i \in 1 .. Len(ring[w][c]), ring[w][c][i] # End
  PROVE  FALSE
<1> PICK r : r = ring[w][c][i]
  OBVIOUS
<1>1. /\ ring[w][c] \in Seq(Requests \union {End}) /\ r \in Requests
      /\ IoOwner(r) = w /\ CpuOwner(r) = c
  BY DEF InputInv, Types, PlaceInv, Rings, Ordered
<1>2. batch # <<>>
  BY <1>1 DEF InputInv, Shares
<1>3. w \in IoSpawned /\ c \in CpuSpawned
  BY <1>1, <1>2, OwnersInRange DEF InputInv
<1>4. cpuPc[c] # "failed"
  BY DEF PanicInv, Running
<1>5. w \in ended[c]
  BY <1>3, <1>4 DEF PlaceInv, Finishes
<1>6. ring[w][c] = <<>>
  BY <1>5 DEF PlaceInv, Rings, Emptied
<1> QED BY <1>6

LEMMA BatchFacts ==
  ASSUME InputInv, NEW r \in Range(batch)
  PROVE  r \in Requests /\ IoOwner(r) \in Io /\ batch # <<>>
<1>1. batch # <<>> /\ r \in Requests
  BY DEF InputInv, Types, Range
<1> QED BY <1>1, OwnersInRange DEF InputInv

LEMMA IoKeepsFailedType ==
  ASSUME InputInv, PlaceInv, NEW w \in Io, IoStep(w)
  PROVE  failed' \in [Requests -> Nat]
<1>0. failed \in [Requests -> Nat]
  BY DEF PlaceInv, PlaceTypes
<1>1. CASE Fails(w)
  BY <1>0, <1>1, FailFacts
<1>2. CASE IoPanic(w)
  BY <1>0, <1>2 DEF IoPanic
<1>3. CASE Steady(w) \/ Push(w) \/ SendEnd(w) \/ IoLeave(w)
  BY <1>0, <1>3 DEF Steady, Push, SendEnd, IoLeave
<1> QED BY <1>1, <1>2, <1>3, IoCases

LEMMA IoKeepsAccounted ==
  ASSUME InputInv, PlaceInv, PanicInv, NEW w \in Io, IoStep(w)
  PROVE  Accounted'
<1>0. UNCHANGED <<batch, current, completed>> /\ ioPc \in [Io -> IoStates]
      /\ failed \in [Requests -> Nat] /\ completed \in [Requests -> Nat]
  BY IoCases DEF InputInv, Types, PlaceInv, PlaceTypes
<1> SUFFICES ASSUME Running', NEW r \in Range(batch),
                    ioPc'[IoOwner(r)] \notin {"unspawned", "panicked", "failed"}
             PROVE  Placed(r)'
  BY <1>0 DEF Accounted, IoOwner, IoCount
<1>1. r \in Requests /\ IoOwner(r) \in Io /\ Running
  BY BatchFacts, StillRunning
<1>2. ioPc[IoOwner(r)] \notin {"unspawned", "panicked", "failed"}
  <2>1. CASE IoOwner(r) # w
    BY <1>0, <1>1, <2>1, IoCases
  <2>2. ioPc[w] \notin {"unspawned", "failed"}
    BY DEF IoStep, IoStop, NextRequest, ReserveSlot, TakeTicket, Probe, Grow, Open, ReadBatch,
           VerifyFile, VerifyPath, IoError, CheckSend, Push, SendEnd, IoPanic, IoLeave
  <2>3. ioPc[w] # "panicked"
    <3>1. ioPc[w] = "panicked" => IoLeave(w)
      BY IoCases DEF Steady, Rests, Takes, Gives, Fails, Push, SendEnd, IoPanic,
                     Holding, Covering, Slotted, IoStep, IoStop, NextRequest, ReserveSlot, TakeTicket,
                     Probe, Grow, Open, ReadBatch, VerifyFile, VerifyPath, IoError, CheckSend
    <3> QED BY <3>1, StillRunning
  <2> QED BY <2>1, <2>2, <2>3
<1>3. Placed(r)
  BY <1>1, <1>2 DEF PlaceInv, Accounted
<1>4. CASE Waiting(r)
  <2>1. CASE Fails(w) /\ r = Now(w)
    <3>1. failed'[r] > 0 /\ failed'[r] \in Nat /\ completed[r] \in Nat
      BY <1>0, <1>1, <2>1, FailFacts
    <3> QED BY <1>0, <1>1, <3>1 DEF Placed
  <2>2. CASE Push(w) /\ r = Now(w)
    BY <2>2, DeliveredIsQueued DEF Placed
  <2>3. CASE ~ ((Fails(w) \/ Push(w)) /\ r = Now(w))
    <3>1. todo' = todo \/ ((Fails(w) \/ Push(w)) /\ todo' = [todo EXCEPT ![w] = @ \ {Now(w)}])
      BY IoCases, FailFacts, DeliverFacts DEF Steady, SendEnd, IoPanic, IoLeave
    <3>2. Waiting(r)'
      BY <1>4, <2>3, <3>1 DEF Waiting, InputInv, Types
    <3> QED BY <3>2 DEF Placed
  <2> QED BY <2>1, <2>2, <2>3
<1>5. CASE Queued(r)
  <2>1. ASSUME IoLeave(w), NEW c \in CpuLeft, NEW i \in 1 .. Len(ring[w][c]), ring[w][c][i] = r
        PROVE  FALSE
    <3>1. c \in Cpu /\ cpuPc[c] \in {"leave", "done", "failed"}
      BY <2>1 DEF CpuLeft
    <3> QED BY <1>1, <2>1, <3>1, DrainedRing, Constants
  <2> QED BY <1>1, <1>5, <2>1, QueuedStays DEF Placed
<1>6. CASE Computing(r) \/ completed[r] > 0
  <2>1. failed'[r] \in Nat
    BY <1>0, <1>1, IoKeepsFailedType
  <2> QED BY <1>0, <1>1, <1>6, <2>1 DEF Placed, Computing
<1>7. CASE failed[r] > 0
  <2>1. failed'[r] >= failed[r] /\ failed'[r] \in Nat
    <3>1. CASE failed' = failed
      BY <1>0, <1>1, <3>1
    <3>2. CASE Fails(w)
      BY <1>0, <1>1, <3>2, FailFacts
    <3>3. CASE IoPanic(w)
      <4>1. IoOwner(r) # w
        BY <1>0, <3>3 DEF IoPanic, IoGoto
      <4> QED BY <1>0, <1>1, <3>3, <4>1 DEF IoPanic
    <3> QED BY <3>1, <3>2, <3>3, IoCases, DeliverFacts DEF Steady, SendEnd, IoLeave
  <2> QED BY <1>0, <1>1, <1>7, <2>1 DEF Placed
<1> QED BY <1>0, <1>1, <1>3, <1>4, <1>5, <1>6, <1>7 DEF Placed

LEMMA IoKeepsPlaces ==
  ASSUME InputInv, PlaceInv, PanicInv, NEW w \in Io, IoStep(w)
  PROVE  PlaceInv'
<1>0. /\ UNCHANGED <<batch, ended, current, cpuPc, result>>
      /\ ioPc \in [Io -> IoStates] /\ endTo \in [Io -> Cpu]
  BY IoCases DEF InputInv, Types, PlaceInv, PlaceTypes
<1>1. Carries'
  BY <1>0 DEF PlaceInv, Carries, CpuOwner, CpuCount
<1>2. endTo' \in [Io -> Cpu]
  <2>1. CASE endTo' = endTo
    BY <1>0, <2>1
  <2>2. CASE SendEnd(w) /\ endTo' # endTo
    <3>1. endTo' = [endTo EXCEPT ![w] = endTo[w] + 1] /\ endTo[w] + 1 \in CpuSpawned
      BY <2>2 DEF SendEnd
    <3>2. batch # <<>>
      <4>1. CpuSpawned = 0 .. CpuCount - 1 /\ CpuCount \in {ComputeWorkers, Len(batch)}
        <5>1. /\ {ComputeWorkers, Len(batch)} \in SUBSET Nat
              /\ {ComputeWorkers, Len(batch)} # {}
          BY PipelineAssumption DEF InputInv, Types
        <5> QED BY <5>1, LeastIndex DEF CpuCount, CpuSpawned
      <4>2. /\ CpuCount <= Len(batch)
        <5>1. /\ {ComputeWorkers, Len(batch)} \in SUBSET Nat
              /\ {ComputeWorkers, Len(batch)} # {}
          BY PipelineAssumption DEF InputInv, Types
        <5> QED BY <5>1, LeastIndex DEF CpuCount
      <4>3. endTo[w] \in Nat
        BY <1>0, Constants
      <4>4. ASSUME batch = <<>> PROVE FALSE
        <5>1. Len(batch) = 0 /\ CpuCount \in Int /\ CpuCount <= 0
          BY <4>1, <4>2, <4>4, PipelineAssumption
        <5> QED BY <3>1, <4>1, <4>3, <5>1
      <4> QED BY <4>4
    <3>3. endTo[w] + 1 \in Cpu
      BY <3>1, <3>2, OwnersInRange DEF InputInv
    <3> QED BY <1>0, <3>1, <3>3
  <2> QED BY <2>1, <2>2, IoCases, DeliverFacts DEF Steady, Fails, IoPanic, IoLeave
<1>3. ended' \in [Cpu -> SUBSET IoSpawned]'
  BY <1>0 DEF PlaceInv, PlaceTypes, IoSpawned, IoCount
<1>4. ~ (\A v \in Io : ioPc'[v] = "unspawned")
  <2>1. CASE Steady(w)
    BY <1>0, <2>1, IoCases DEF Steady, Rests, Takes, Gives, Holding, Covering
  <2>2. CASE Fails(w)
    BY <1>0, <2>2, FailFacts
  <2>3. CASE Push(w) \/ SendEnd(w) \/ IoPanic(w) \/ IoLeave(w)
    BY <1>0, <2>3 DEF Push, SendEnd, IoPanic, IoLeave, IoGoto
  <2> QED BY <2>1, <2>2, <2>3, IoCases
<1>5. PlaceTypes'
  BY <1>2, <1>3, <1>4, IoKeepsFailedType DEF PlaceTypes
<1> QED BY <1>1, <1>5, IoKeepsRings, IoKeepsSlots, IoKeepsOnce, IoKeepsFinishes, IoKeepsAccounted
    DEF PlaceInv

-----------------------------------------------------------------------------
(* The steps of a compute worker.                                          *)

LEMMA CpuFacts ==
  ASSUME InputInv, PlaceInv, NEW c \in Cpu, CpuStep(c)
  PROVE  /\ UNCHANGED <<batch, result, ioPc, todo, endTo, read, failed>>
         /\ batch # <<>> /\ Receiver(c) \in Io /\ Receiver(c) \in IoSpawned
         /\ cpuPc[c] \notin {"unspawned", "done", "failed"}
         /\ \A d \in Cpu \ {c} : cpuPc'[d] = cpuPc[d] /\ current'[d] = current[d]
                                 /\ ended'[d] = ended[d]
         /\ Running' => Running
<1>1. UNCHANGED <<batch, result, ioPc, todo, endTo, read, failed>>
  BY DEF CpuStep, CpuStop, Poll, Compute, ComputePanic, CpuLeave, CpuUnchanged, ioVars
<1>2. cpuPc[c] \notin {"unspawned", "done", "failed"}
  BY DEF CpuStep, CpuStop, Poll, Compute, ComputePanic, CpuLeave
<1>3. batch # <<>>
  BY <1>2 DEF InputInv, Shares
<1>4. Receiver(c) \in IoSpawned
  <2>1. IoCount \in Nat \ {0}
    BY <1>3, OwnersInRange DEF InputInv
  <2>2. first[c] + offset[c] \in Nat
    BY DEF InputInv, Types
  <2> QED BY <2>1, <2>2 DEF Receiver, IoSpawned
<1>5. Receiver(c) \in Io
  BY <1>3, <1>4, OwnersInRange DEF InputInv
<1>6. \A d \in Cpu \ {c} : cpuPc'[d] = cpuPc[d] /\ current'[d] = current[d] /\ ended'[d] = ended[d]
  <2>1. cpuPc \in [Cpu -> CpuStates] /\ current \in [Cpu -> Requests \union {Nobody}]
    BY DEF InputInv, Types
  <2>2. \A d \in Cpu \ {c} : cpuPc'[d] = cpuPc[d]
    BY <2>1 DEF CpuStep, CpuStop, Poll, Compute, ComputePanic, CpuLeave, CpuGoto
  <2>3. \A d \in Cpu \ {c} : current'[d] = current[d]
    BY <2>1 DEF CpuStep, CpuStop, Poll, Compute, ComputePanic, CpuLeave
  <2>4. \A d \in Cpu \ {c} : ended'[d] = ended[d]
    BY DEF CpuStep, CpuStop, Poll, Compute, ComputePanic, CpuLeave, PlaceInv, PlaceTypes
  <2> QED BY <2>2, <2>3, <2>4
<1>7. Running' => Running
  BY DEF CpuStep, CpuStop, Poll, Compute, ComputePanic, CpuLeave, Running, AfterFail
<1> QED BY <1>1, <1>2, <1>3, <1>4, <1>5, <1>6, <1>7

(* A compute worker takes the oldest entry of one of its rings, or drops a *)
(* ring nobody sends on.                                                   *)
TakesHead(c, v, d) ==
  /\ Poll(c) /\ d = c /\ v = Receiver(c) /\ v \notin ended[c] /\ ring[v][d] # <<>>
  /\ ring' = [ring EXCEPT ![v][d] = Tail(@)]
  /\ ring'[v][d] = Tail(ring[v][d])
DropsRing(c, v, d) == CpuLeave(c) /\ d = c /\ v \in IoLeft /\ ring'[v][d] = <<>>

LEMMA CpuRings ==
  ASSUME InputInv, PlaceInv, NEW c \in Cpu, CpuStep(c), NEW v \in Io, NEW d \in Cpu
  PROVE  ring'[v][d] = ring[v][d] \/ TakesHead(c, v, d) \/ DropsRing(c, v, d)
<1>0. ring \in Queues
  BY DEF InputInv, Types, Queues
<1>1. CASE Poll(c)
  <2> PICK w : w = Receiver(c)
    OBVIOUS
  <2>1. w \in Io
    BY CpuFacts
  <2>2. CASE ring' = ring
    BY <2>2
  <2>3. CASE ring' # ring
    <3>1. /\ w \notin ended[c] /\ ring[w][c] # <<>>
          /\ ring' = [ring EXCEPT ![w][c] = Tail(@)]
      BY <1>1, <2>3 DEF Poll
    <3>2. ring'[v][d] = IF v = w /\ d = c THEN Tail(ring[v][d]) ELSE ring[v][d]
      BY <1>0, <2>1, <3>1 DEF Queues
    <3> QED BY <1>1, <3>1, <3>2 DEF TakesHead
  <2> QED BY <2>2, <2>3
<1>2. CASE CpuLeave(c)
  <2>1. ring' = [w \in Io |-> IF w \in IoLeft THEN [ring[w] EXCEPT ![c] = <<>>] ELSE ring[w]]
    BY <1>2 DEF CpuLeave
  <2> QED BY <1>0, <1>2, <2>1 DEF Queues, DropsRing
<1>3. CASE CpuStop(c) \/ Compute(c) \/ ComputePanic(c)
  BY <1>3 DEF CpuStop, Compute, ComputePanic
<1> QED BY <1>1, <1>2, <1>3 DEF CpuStep

(* What the worker takes from its ring: an end marker, or an input.        *)
LEMMA HeadFacts ==
  ASSUME InputInv, PlaceInv, NEW c \in Cpu, NEW v \in Io, TakesHead(c, v, c)
  PROVE  /\ cpuPc[c] = "poll"
         /\ 1 \in 1 .. Len(ring[v][c]) /\ ring[v][c][1] = Head(ring[v][c])
         /\ \/ /\ Head(ring[v][c]) = End /\ Len(ring[v][c]) = 1 /\ Closed(v, c)
               /\ ended' = [ended EXCEPT ![c] = @ \union {v}]
               /\ UNCHANGED <<current, cpuPc>>
            \/ /\ Head(ring[v][c]) \in Requests /\ Head(ring[v][c]) # End
               /\ IoOwner(Head(ring[v][c])) = v /\ CpuOwner(Head(ring[v][c])) = c
               /\ current' = [current EXCEPT ![c] = Head(ring[v][c])]
               /\ cpuPc' = [cpuPc EXCEPT ![c] = "compute"]
               /\ ended' = ended
<1> PICK q : q = ring[v][c]
  OBVIOUS
<1>1. q \in Seq(Requests \union {End}) /\ q # <<>> /\ Ordered(v, c)
  BY DEF InputInv, Types, PlaceInv, Rings, TakesHead
<1>2. 1 \in 1 .. Len(q) /\ q[1] = Head(q) /\ Head(q) \in Requests \union {End} /\ Len(q) \in Nat
  BY <1>1
<1>3. \/ Head(q) = End /\ 1 = Len(q) /\ Closed(v, c)
      \/ Head(q) # End /\ IoOwner(Head(q)) = v /\ CpuOwner(Head(q)) = c
  BY <1>1, <1>2 DEF Ordered
<1>4. /\ cpuPc[c] = "poll"
      /\ \/ /\ Head(q) = End /\ ended' = [ended EXCEPT ![c] = @ \union {v}]
            /\ UNCHANGED <<current, cpuPc>>
         \/ /\ Head(q) # End /\ current' = [current EXCEPT ![c] = Head(q)]
            /\ cpuPc' = [cpuPc EXCEPT ![c] = "compute"] /\ ended' = ended
  BY DEF TakesHead, Poll, CpuGoto
<1> QED BY <1>2, <1>3, <1>4

LEMMA CpuKeepsRings ==
  ASSUME InputInv, PlaceInv, NEW c \in Cpu, CpuStep(c)
  PROVE  Rings'
<1> SUFFICES ASSUME NEW v \in Io, NEW d \in Cpu PROVE Ordered(v, d)' /\ Emptied(v, d)'
  BY DEF Rings
<1>0. /\ Ordered(v, d) /\ Emptied(v, d) /\ ring[v][d] \in Seq(Requests \union {End})
      /\ UNCHANGED <<batch, ioPc, endTo>>
      /\ ended \in [Cpu -> SUBSET IoSpawned]
  BY CpuFacts DEF PlaceInv, PlaceTypes, Rings, InputInv, Types
<1>1. (Closed(v, d)' <=> Closed(v, d)) /\ IoLeft' = IoLeft
  BY <1>0 DEF Closed, IoLeft
<1>2. v \in ended'[d] => v \in ended[d] \/ TakesHead(c, v, d)
  <2>1. CASE d # c
    BY <2>1, CpuFacts
  <2>2. CASE d = c /\ Poll(c) /\ ended' # ended
    <3>1. /\ Receiver(c) \notin ended[c] /\ ring[Receiver(c)][c] # <<>>
          /\ ring' = [ring EXCEPT ![Receiver(c)][c] = Tail(@)]
          /\ ended' = [ended EXCEPT ![c] = @ \union {Receiver(c)}]
      BY <2>2 DEF Poll
    <3>2. v \in ended'[d] => v \in ended[d] \/ v = Receiver(c)
      BY <1>0, <2>2, <3>1
    <3>3. v = Receiver(c) => ring'[v][d] = Tail(ring[v][d])
      BY <2>2, <3>1 DEF InputInv, Types
    <3> QED BY <2>2, <3>1, <3>2, <3>3 DEF TakesHead
  <2>3. CASE ended' = ended
    BY <2>3
  <2> QED BY <2>1, <2>2, <2>3 DEF CpuStep, CpuStop, Compute, ComputePanic, CpuLeave
<1>3. d \in CpuLeft' => d \in CpuLeft \/ (CpuLeave(c) /\ d = c)
  <2>1. CASE d # c
    BY <2>1, CpuFacts DEF CpuLeft
  <2>2. CASE d = c /\ ~ CpuLeave(c)
    <3>1. cpuPc'[c] \notin {"done", "failed"}
      BY <2>2 DEF CpuStep, CpuStop, Poll, Compute, ComputePanic, CpuGoto, InputInv, Types
    <3> QED BY <2>2, <3>1 DEF CpuLeft
  <2> QED BY <2>1, <2>2
<1>4. CASE ring'[v][d] = ring[v][d]
  <2>1. Ordered(v, d)'
    BY <1>0, <1>1, <1>4 DEF Ordered, IoOwner, CpuOwner, IoCount, CpuCount
  <2>2. ~ TakesHead(c, v, d)
    <3>1. ASSUME TakesHead(c, v, d) PROVE FALSE
      <4>1. Len(Tail(ring[v][d])) # Len(ring[v][d])
        BY <1>0, <3>1 DEF TakesHead
      <4> QED BY <1>4, <3>1, <4>1 DEF TakesHead
    <3> QED BY <3>1
  <2>3. CpuLeave(c) /\ d = c /\ v \in IoLeft => ring'[v][d] = <<>>
    BY DEF CpuLeave, InputInv, Types
  <2>4. Emptied(v, d)'
    BY <1>0, <1>1, <1>2, <1>3, <1>4, <2>2, <2>3 DEF Emptied
  <2> QED BY <2>1, <2>4
<1>5. CASE TakesHead(c, v, d)
  <2> PICK q : q = ring[v][d]
    OBVIOUS
  <2>1. /\ d = c /\ ring'[v][d] = Tail(q) /\ q \in Seq(Requests \union {End}) /\ q # <<>>
        /\ Ordered(v, d) /\ v \notin ended[d]
    BY <1>0, <1>5 DEF TakesHead
  <2>2. /\ Len(Tail(q)) = Len(q) - 1 /\ Len(q) \in Nat \ {0}
        /\ \A i \in 1 .. Len(q) - 1 : Tail(q)[i] = q[i + 1] /\ i + 1 \in 1 .. Len(q)
    BY <2>1
  <2>3. Distinct(Tail(q))
    BY <2>1, DistinctTail DEF Ordered
  <2>4. ASSUME NEW i \in 1 .. Len(Tail(q))
        PROVE  \/ Tail(q)[i] = End /\ i = Len(Tail(q)) /\ Closed(v, d)
               \/ Tail(q)[i] # End /\ IoOwner(Tail(q)[i]) = v /\ CpuOwner(Tail(q)[i]) = d
    <3>1. i \in Nat /\ i + 1 \in 1 .. Len(q) /\ Tail(q)[i] = q[i + 1]
      BY <2>2
    <3>2. i + 1 = Len(q) <=> i = Len(Tail(q))
      BY <2>2, <3>1
    <3> QED BY <2>1, <3>1, <3>2 DEF Ordered
  <2>5. Ordered(v, d)'
    BY <1>0, <1>1, <2>1, <2>3, <2>4 DEF Ordered, IoOwner, CpuOwner, IoCount, CpuCount
  <2>6. v \in ended'[d] => Closed(v, d) /\ Tail(q) = <<>>
    <3>1. TakesHead(c, v, c)
      BY <1>5, <2>1
    <3>2. \/ Len(q) = 1 /\ Closed(v, d)
          \/ ended' = ended
      BY <2>1, <3>1, HeadFacts
    <3>3. Len(q) = 1 => Tail(q) = <<>>
      <4>1. Tail(q) \in Seq(Requests \union {End}) /\ (Len(q) = 1 => Len(Tail(q)) = 0)
        BY <2>1, <2>2
      <4>2. \A s \in Seq(Requests \union {End}) : Len(s) = 0 => s = <<>>
        OBVIOUS
      <4> QED BY <4>1, <4>2
    <3> QED BY <2>1, <3>2, <3>3
  <2>7. v \in IoLeft /\ d \in CpuLeft' => Tail(q) = <<>>
    <3>1. d \notin CpuLeft /\ ~ CpuLeave(c)
      BY <2>1, <1>5 DEF TakesHead, Poll, CpuLeave, CpuLeft
    <3> QED BY <1>3, <3>1
  <2>8. Emptied(v, d)'
    BY <1>1, <2>1, <2>6, <2>7 DEF Emptied
  <2> QED BY <2>5, <2>8
<1>6. CASE DropsRing(c, v, d)
  <2>1. ring'[v][d] = <<>> /\ ended' = ended
    BY <1>6 DEF DropsRing, CpuLeave
  <2> QED BY <1>0, <1>1, <2>1 DEF Ordered, Emptied, Distinct
<1> QED BY <1>4, <1>5, <1>6, CpuRings

LEMMA CpuKeepsSlots ==
  ASSUME InputInv, PlaceInv, NEW c \in Cpu, CpuStep(c)
  PROVE  Slots'
<1> SUFFICES ASSUME NEW w \in Io, ioPc'[w] \in Slotted
             PROVE  Len(ring'[w][Target(w)']) < QueueCapacity
  BY DEF Slots
<1>1. UNCHANGED <<batch, ioPc, todo>>
  BY CpuFacts
<1>2. Target(w)' = Target(w) /\ Len(ring[w][Target(w)]) < QueueCapacity
  BY <1>1 DEF Target, Now, CpuOwner, CpuCount, PlaceInv, Slots
<1> PICK d : d = Target(w)
  OBVIOUS
<1>3. d \in Cpu
  <2>1. todo[w] # {}
    BY <1>1 DEF InputInv, Reading, Working, Slotted
  <2>2. Now(w) \in Requests
    BY <2>1, NowIsOwn DEF InputInv
  <2> QED BY <2>2, CpuFacts, OwnersInRange DEF InputInv, Target
<1>4. ring[w][d] \in Seq(Requests \union {End})
  BY <1>3 DEF InputInv, Types
<1>5. \/ ring'[w][d] = ring[w][d] \/ ring'[w][d] = <<>>
      \/ ring'[w][d] = Tail(ring[w][d]) /\ ring[w][d] # <<>>
  BY <1>3, CpuRings DEF TakesHead, DropsRing
<1>6. Len(ring'[w][d]) <= Len(ring[w][d]) /\ Len(ring'[w][d]) \in Nat /\ Len(ring[w][d]) \in Nat
  <2>1. CASE ring'[w][d] = ring[w][d] \/ ring'[w][d] = <<>>
    BY <1>4, <2>1
  <2>2. CASE ring'[w][d] = Tail(ring[w][d]) /\ ring[w][d] # <<>>
    <3> PICK q : q = ring[w][d]
      OBVIOUS
    <3>1. q \in Seq(Requests \union {End}) /\ q # <<>> /\ ring'[w][d] = Tail(q)
      BY <1>4, <2>2
    <3>2. Len(Tail(q)) = Len(q) - 1 /\ Len(q) \in Nat \ {0}
      BY <3>1
    <3> QED BY <3>1, <3>2
  <2> QED BY <1>5, <2>1, <2>2
<1> QED BY <1>2, <1>6, PipelineAssumption

(* What a compute worker holds before and after its step.                  *)
LEMMA Hands ==
  ASSUME InputInv, PlaceInv, NEW c \in Cpu, CpuStep(c)
  PROVE  \/ /\ CpuStop(c) \/ (Poll(c) /\ UNCHANGED cpuPc)
            /\ current[c] = Nobody /\ current' = current /\ completed' = completed
            /\ cpuPc[c] = "poll" /\ cpuPc'[c] \in {"poll", "leave"}
         \/ /\ \E v \in Io : TakesHead(c, v, c) /\ Head(ring[v][c]) \in Requests
                             /\ current'[c] = Head(ring[v][c]) /\ CpuOwner(current'[c]) = c
            /\ current[c] = Nobody /\ completed' = completed
            /\ cpuPc[c] = "poll" /\ cpuPc'[c] = "compute" /\ Poll(c)
         \/ /\ Compute(c) /\ current[c] \in Requests /\ current'[c] = Nobody
            /\ completed' = [completed EXCEPT ![current[c]] = @ + 1]
            /\ cpuPc[c] = "compute" /\ cpuPc'[c] = "poll"
         \/ /\ ComputePanic(c) /\ current' = current /\ completed' = completed
            /\ cpuPc[c] = "compute" /\ cpuPc'[c] = "panicked"
         \/ /\ CpuLeave(c) /\ current'[c] = Nobody /\ completed' = completed
            /\ cpuPc[c] \in {"leave", "panicked"} /\ cpuPc'[c] \in {"done", "failed"}
<1>0. /\ current[c] # Nobody <=> cpuPc[c] \in {"compute", "panicked"}
      /\ cpuPc \in [Cpu -> CpuStates] /\ current \in [Cpu -> Requests \union {Nobody}]
  BY DEF PlaceInv, Carries, InputInv, Types
<1>1. CASE CpuStop(c)
  <2>1. /\ current' = current /\ completed' = completed
        /\ cpuPc[c] = "poll" /\ cpuPc' = [cpuPc EXCEPT ![c] = "leave"]
    BY <1>1 DEF CpuStop, CpuGoto
  <2>2. current[c] = Nobody /\ cpuPc'[c] \in {"poll", "leave"}
    BY <1>0, <2>1
  <2> QED BY <1>1, <2>1, <2>2, Zenon
<1>2. CASE Poll(c)
  <2> PICK v \in Io : v = Receiver(c)
    BY CpuFacts
  <2>1. CASE current' = current /\ cpuPc' = cpuPc
    BY <1>0, <1>2, <2>1 DEF Poll
  <2>2. CASE ~ (current' = current /\ cpuPc' = cpuPc)
    <3>1. /\ v \notin ended[c] /\ ring[v][c] # <<>>
          /\ ring' = [ring EXCEPT ![v][c] = Tail(@)] /\ completed' = completed
      BY <1>2, <2>2 DEF Poll
    <3>2. ring'[v][c] = Tail(ring[v][c])
      BY <3>1 DEF InputInv, Types
    <3>3. TakesHead(c, v, c)
      BY <1>2, <3>1, <3>2 DEF TakesHead
    <3>4. /\ Head(ring[v][c]) \in Requests /\ CpuOwner(Head(ring[v][c])) = c
          /\ current' = [current EXCEPT ![c] = Head(ring[v][c])]
          /\ cpuPc' = [cpuPc EXCEPT ![c] = "compute"] /\ cpuPc[c] = "poll"
      BY <2>2, <3>3, HeadFacts
    <3>5. current'[c] = Head(ring[v][c]) /\ cpuPc'[c] = "compute" /\ current[c] = Nobody
      BY <1>0, <3>4
    <3>6. CpuOwner(current'[c]) = c
      BY <3>4, <3>5
    <3> QED BY <1>2, <3>1, <3>3, <3>4, <3>5, <3>6
  <2> QED BY <2>1, <2>2
<1>3. CASE Compute(c)
  BY <1>0, <1>3 DEF Compute, CpuGoto
<1>4. CASE ComputePanic(c)
  BY <1>0, <1>4 DEF ComputePanic, CpuGoto
<1>5. CASE CpuLeave(c)
  BY <1>0, <1>5 DEF CpuLeave, CpuGoto
<1> QED BY <1>1, <1>2, <1>3, <1>4, <1>5 DEF CpuStep

LEMMA CpuKeepsCarries ==
  ASSUME InputInv, PlaceInv, NEW c \in Cpu, CpuStep(c)
  PROVE  Carries'
<1> SUFFICES ASSUME NEW d \in Cpu
             PROVE  /\ current'[d] # Nobody <=> cpuPc'[d] \in {"compute", "panicked"}
                    /\ current'[d] # Nobody => CpuOwner(current[d])' = d
  BY DEF Carries
<1>1. /\ current[d] # Nobody <=> cpuPc[d] \in {"compute", "panicked"}
      /\ current[d] # Nobody => CpuOwner(current[d]) = d
  BY DEF PlaceInv, Carries
<1>2. CpuOwner(current[d])' = CpuOwner(current'[d])
  <2>1. batch' = batch
    BY CpuFacts
  <2> QED BY <2>1 DEF CpuOwner, CpuCount
<1>3. CASE d # c
  <2>1. current'[d] = current[d] /\ cpuPc'[d] = cpuPc[d]
    BY <1>3, CpuFacts
  <2> QED BY <1>1, <1>2, <2>1
<1>4. CASE d = c
  <2>1. Nobody \notin Requests
    BY Constants
  <2>2. CASE current'[c] = current[c]
    BY <1>1, <1>2, <1>4, <2>1, <2>2, Hands
  <2>3. CASE current'[c] # current[c]
    BY <1>1, <1>2, <1>4, <2>1, <2>3, Hands
  <2> QED BY <2>2, <2>3
<1> QED BY <1>3, <1>4

(* Where requests are after a step of a compute worker.                    *)
LEMMA CpuQueued ==
  ASSUME InputInv, PlaceInv, NEW c \in Cpu, CpuStep(c), NEW r \in Requests, Queued(r)'
  PROVE  Queued(r)
<1>1. PICK v \in Io, d \in Cpu : \E i \in 1 .. Len(ring'[v][d]) : ring'[v][d][i] = r
  BY DEF Queued
<1>2. PICK i \in 1 .. Len(ring'[v][d]) : ring'[v][d][i] = r
  BY <1>1
<1>3. ring[v][d] \in Seq(Requests \union {End})
  BY DEF InputInv, Types
<1>4. CASE ring'[v][d] = ring[v][d]
  BY <1>2, <1>4 DEF Queued
<1>5. CASE TakesHead(c, v, d)
  <2> PICK q : q = ring[v][d]
    OBVIOUS
  <2>1. q \in Seq(Requests \union {End}) /\ q # <<>> /\ ring'[v][d] = Tail(q)
    BY <1>3, <1>5 DEF TakesHead
  <2>2. i + 1 \in 1 .. Len(q) /\ q[i + 1] = Tail(q)[i]
    BY <1>2, <2>1
  <2> QED BY <1>2, <2>1, <2>2 DEF Queued
<1>6. CASE DropsRing(c, v, d)
  BY <1>2, <1>6 DEF DropsRing
<1> QED BY <1>4, <1>5, <1>6, CpuRings

(* An entry of a ring leaves it into the hands of the worker, or with it.  *)
LEMMA CpuQueuedStays ==
  ASSUME InputInv, PlaceInv, NEW c \in Cpu, CpuStep(c), NEW r \in Requests, Queued(r)
  PROVE  \/ Queued(r)'
         \/ current'[c] = r /\ Poll(c)
         \/ CpuLeave(c) /\ \E v \in IoLeft : \E i \in 1 .. Len(ring[v][c]) : ring[v][c][i] = r
<1>1. PICK v \in Io, d \in Cpu : \E i \in 1 .. Len(ring[v][d]) : ring[v][d][i] = r
  BY DEF Queued
<1>2. PICK i \in 1 .. Len(ring[v][d]) : ring[v][d][i] = r
  BY <1>1
<1>3. ring[v][d] \in Seq(Requests \union {End})
  BY DEF InputInv, Types
<1>4. CASE ring'[v][d] = ring[v][d]
  BY <1>2, <1>4 DEF Queued
<1>5. CASE TakesHead(c, v, d)
  <2> PICK q : q = ring[v][d]
    OBVIOUS
  <2>1. q \in Seq(Requests \union {End}) /\ q # <<>> /\ ring'[v][d] = Tail(q) /\ d = c
    BY <1>3, <1>5 DEF TakesHead
  <2>2. CASE i = 1
    <3>1. Head(q) = r /\ r # End
      BY <1>2, <2>1, <2>2, Constants
    <3>2. current' = [current EXCEPT ![c] = r]
      BY <1>5, <2>1, <3>1, HeadFacts
    <3>3. current'[c] = r
      BY <3>2 DEF InputInv, Types
    <3> QED BY <1>5, <3>3 DEF TakesHead
  <2>3. CASE i # 1
    <3>1. i - 1 \in 1 .. Len(Tail(q)) /\ Tail(q)[i - 1] = q[i]
      BY <1>2, <2>1, <2>3
    <3> QED BY <1>2, <2>1, <3>1 DEF Queued
  <2> QED BY <2>2, <2>3
<1>6. CASE DropsRing(c, v, d)
  BY <1>2, <1>6 DEF DropsRing
<1> QED BY <1>4, <1>5, <1>6, CpuRings

(* The input a worker takes is in no ring any more.                        *)
LEMMA TakenIsGone ==
  ASSUME InputInv, PlaceInv, NEW c \in Cpu, CpuStep(c), NEW v \in Io, TakesHead(c, v, c),
         NEW r \in Requests, r = Head(ring[v][c])
  PROVE  Queued(r) /\ ~ Queued(r)'
<1> PICK q : q = ring[v][c]
  OBVIOUS
<1>1. q \in Seq(Requests \union {End}) /\ q # <<>> /\ Ordered(v, c) /\ ring'[v][c] = Tail(q)
  BY DEF InputInv, Types, PlaceInv, Rings, TakesHead
<1>2. r # End /\ IoOwner(r) = v /\ CpuOwner(r) = c /\ 1 \in 1 .. Len(q) /\ q[1] = r
  BY Constants, HeadFacts
<1>3. Queued(r)
  BY <1>2 DEF Queued
<1>4. ASSUME NEW u \in Io, NEW d \in Cpu, NEW i \in 1 .. Len(ring'[u][d]), ring'[u][d][i] = r
      PROVE  FALSE
  <2>1. CASE u = v /\ d = c
    <3>1. \A j \in 1 .. Len(Tail(q)) : Tail(q)[j] # Head(q)
      BY <1>1, DistinctTail DEF Ordered
    <3> QED BY <1>1, <1>4, <2>1, <3>1
  <2>2. CASE ~ (u = v /\ d = c)
    <3>1. ring'[u][d] = ring[u][d]
      BY <2>2 DEF TakesHead, InputInv, Types
    <3>2. IoOwner(r) = u /\ CpuOwner(r) = d
      BY <1>2, <1>4, <3>1 DEF PlaceInv, Rings, Ordered
    <3> QED BY <1>2, <2>2, <3>2
  <2> QED BY <2>1, <2>2
<1> QED BY <1>3, <1>4 DEF Queued

(* What a compute worker does for request r.                               *)
LEMMA CpuMoves ==
  ASSUME InputInv, PlaceInv, NEW c \in Cpu, CpuStep(c), NEW r \in Requests
  PROVE  /\ (Waiting(r)' <=> Waiting(r)) /\ failed'[r] = failed[r]
         /\ \/ /\ Queued(r)' => Queued(r)
               /\ Computing(r)' => Computing(r)
               /\ completed'[r] = completed[r]
               /\ ~ Computing(r) \/ Computing(r)' \/ (CpuLeave(c) /\ cpuPc[c] = "panicked")
            \/ Queued(r) /\ ~ Queued(r)' /\ Computing(r)' /\ completed'[r] = completed[r]
            \/ /\ Computing(r) /\ ~ Computing(r)' /\ completed'[r] = completed[r] + 1
               /\ Queued(r)' => Queued(r)
<1>0. /\ Waiting(r)' <=> Waiting(r) 
      /\ failed'[r] = failed[r] /\ completed \in [Requests -> Nat] /\ r # Nobody
      /\ \A d \in Cpu \ {c} : current'[d] = current[d]
  BY CpuFacts, Constants DEF Waiting, InputInv, Types
<1>1. Queued(r)' => Queued(r)
  BY CpuQueued
<1>2. CASE current'[c] = current[c] /\ completed' = completed
  <2>1. Computing(r)' <=> Computing(r)
    BY <1>0, <1>2 DEF Computing
  <2> QED BY <1>0, <1>1, <1>2, <2>1
<1>3. ASSUME NEW v \in Io, TakesHead(c, v, c), Head(ring[v][c]) \in Requests,
             current'[c] = Head(ring[v][c]), current[c] = Nobody, completed' = completed
      PROVE  \/ Queued(r) /\ ~ Queued(r)' /\ Computing(r)'
             \/ (Queued(r)' => Queued(r)) /\ (Computing(r)' <=> Computing(r))
  <2>1. CASE r = Head(ring[v][c])
    <3>1. Queued(r) /\ ~ Queued(r)'
      BY <1>3, <2>1, TakenIsGone
    <3>2. Computing(r)'
      BY <1>3, <2>1 DEF Computing
    <3> QED BY <3>1, <3>2
  <2>2. CASE r # Head(ring[v][c])
    <3>1. Computing(r)' <=> Computing(r)
      BY <1>0, <1>3, <2>2 DEF Computing
    <3> QED BY <1>1, <3>1
  <2> QED BY <2>1, <2>2
<1>4. CASE /\ Compute(c) /\ current[c] \in Requests /\ current'[c] = Nobody
           /\ completed' = [completed EXCEPT ![current[c]] = @ + 1]
  <2>1. CASE r = current[c]
    <3>1. CpuOwner(r) = c /\ Computing(r)
      BY <1>0, <2>1 DEF PlaceInv, Carries, Computing
    <3>2. \A d \in Cpu \ {c} : current[d] # r
      BY <1>0, <3>1 DEF PlaceInv, Carries
    <3>3. ~ Computing(r)' /\ completed'[r] = completed[r] + 1
      BY <1>0, <1>4, <2>1, <3>2 DEF Computing
    <3> QED BY <1>0, <1>1, <3>1, <3>3
  <2>2. CASE r # current[c]
    <3>1. Computing(r)' <=> Computing(r)
      BY <1>0, <1>4, <2>2 DEF Computing
    <3>2. completed'[r] = completed[r]
      BY <1>0, <1>4, <2>2
    <3> QED BY <1>0, <1>1, <3>1, <3>2
  <2> QED BY <2>1, <2>2
<1>5. CASE CpuLeave(c) /\ current'[c] = Nobody /\ completed' = completed
  <2>1. Computing(r)' => Computing(r)
    BY <1>0, <1>5 DEF Computing
  <2>2. Computing(r) => Computing(r)' \/ current[c] = r
    BY <1>0 DEF Computing
  <2>3. current[c] = r => cpuPc[c] = "panicked"
    BY <1>0, <1>5 DEF PlaceInv, Carries, CpuLeave
  <2> QED BY <1>0, <1>1, <1>5, <2>1, <2>2, <2>3
<1>6. CASE \E v \in Io : /\ TakesHead(c, v, c) /\ Head(ring[v][c]) \in Requests
                          /\ current'[c] = Head(ring[v][c]) /\ current[c] = Nobody
                          /\ completed' = completed
  BY <1>0, <1>3, <1>6
<1>7. \/ current'[c] = current[c] /\ completed' = completed
      \/ \E v \in Io : /\ TakesHead(c, v, c) /\ Head(ring[v][c]) \in Requests
                      /\ current'[c] = Head(ring[v][c]) /\ current[c] = Nobody
                      /\ completed' = completed
      \/ /\ Compute(c) /\ current[c] \in Requests /\ current'[c] = Nobody
         /\ completed' = [completed EXCEPT ![current[c]] = @ + 1]
      \/ CpuLeave(c) /\ current'[c] = Nobody /\ completed' = completed
  BY Hands
<1> QED BY <1>2, <1>4, <1>5, <1>6, <1>7, Zenon

LEMMA CpuKeepsOnce ==
  ASSUME InputInv, PlaceInv, NEW c \in Cpu, CpuStep(c)
  PROVE  Once'
<1> SUFFICES ASSUME NEW r \in Requests
             PROVE  /\ Queued(r)' \/ Computing(r)' \/ completed'[r] > 0 => ~ Waiting(r)'
                    /\ Computing(r)' \/ completed'[r] > 0 => ~ Queued(r)'
                    /\ completed'[r] > 0 => ~ Computing(r)'
                    /\ failed'[r] > 0 => /\ ~ Waiting(r)' /\ ~ Queued(r)' /\ ~ Computing(r)'
                                         /\ completed'[r] = 0
                    /\ completed'[r] <= 1 /\ failed'[r] <= 1
  BY DEF Once
<1>1. /\ Queued(r) \/ Computing(r) \/ completed[r] > 0 => ~ Waiting(r)
      /\ Computing(r) \/ completed[r] > 0 => ~ Queued(r)
      /\ completed[r] > 0 => ~ Computing(r)
      /\ failed[r] > 0 => ~ Waiting(r) /\ ~ Queued(r) /\ ~ Computing(r) /\ completed[r] = 0
      /\ completed[r] <= 1 /\ failed[r] <= 1
  BY DEF PlaceInv, Once
<1>2. completed[r] \in Nat /\ failed[r] \in Nat
  BY DEF InputInv, Types, PlaceInv, PlaceTypes
<1>3. (Waiting(r)' <=> Waiting(r)) /\ failed'[r] = failed[r]
  BY CpuMoves
<1>4. CASE (Queued(r)' => Queued(r)) /\ (Computing(r)' => Computing(r)) /\ completed'[r] = completed[r]
  BY <1>1, <1>2, <1>3, <1>4
<1>5. CASE Queued(r) /\ ~ Queued(r)' /\ Computing(r)' /\ completed'[r] = completed[r]
  BY <1>1, <1>2, <1>3, <1>5
<1>6. CASE /\ Computing(r) /\ ~ Computing(r)' /\ completed'[r] = completed[r] + 1
           /\ (Queued(r)' => Queued(r))
  BY <1>1, <1>2, <1>3, <1>6
<1>7. \/ (Queued(r)' => Queued(r)) /\ (Computing(r)' => Computing(r)) /\ completed'[r] = completed[r]
      \/ Queued(r) /\ ~ Queued(r)' /\ Computing(r)' /\ completed'[r] = completed[r]
      \/ /\ Computing(r) /\ ~ Computing(r)' /\ completed'[r] = completed[r] + 1
         /\ (Queued(r)' => Queued(r))
  BY CpuMoves
<1> QED BY <1>4, <1>5, <1>6, <1>7

LEMMA CpuKeepsFinishes ==
  ASSUME InputInv, PlaceInv, PanicInv, NEW c \in Cpu, CpuStep(c)
  PROVE  Finishes'
<1> SUFFICES ASSUME Running' PROVE Finishes'
  BY DEF Finishes
<1>0. /\ Running /\ UNCHANGED <<batch, ioPc, todo>>
      /\ \A w \in Io : ioPc[w] \in {"end", "leave", "done"} => todo[w] = {}
      /\ \A d \in CpuSpawned : cpuPc[d] \in {"leave", "done"} => ended[d] = IoSpawned
  BY CpuFacts DEF PlaceInv, Finishes
<1>1. CpuSpawned' = CpuSpawned /\ IoSpawned' = IoSpawned /\ CpuSpawned \subseteq Cpu
  BY <1>0, CpuFacts, OwnersInRange DEF CpuSpawned, IoSpawned, CpuCount, IoCount, InputInv
<1>2. ASSUME NEW d \in CpuSpawned, cpuPc'[d] \in {"leave", "done"}
      PROVE  ended'[d] = IoSpawned
  <2>1. CASE d # c
    BY <1>0, <1>1, <1>2, <2>1, CpuFacts
  <2>2. CASE d = c /\ CpuStop(c)
    BY <1>0, <2>2 DEF CpuStop
  <2>3. CASE d = c /\ CpuLeave(c)
    <3>1. cpuPc[c] = "leave" /\ ended' = ended
      BY <1>0, <1>2, <2>3 DEF CpuLeave, PanicInv, Running
    <3> QED BY <1>0, <2>3, <3>1
  <2>4. CASE d = c /\ (Poll(c) \/ Compute(c) \/ ComputePanic(c))
    <3>1. cpuPc \in [Cpu -> CpuStates]
      BY DEF PanicInv
    <3>2. cpuPc'[c] \notin {"leave", "done"}
      BY <2>4, <3>1 DEF Poll, Compute, ComputePanic, CpuGoto
    <3> QED BY <1>2, <2>4, <3>2
  <2> QED BY <2>1, <2>2, <2>3, <2>4 DEF CpuStep
<1> QED BY <1>0, <1>1, <1>2 DEF Finishes

LEMMA CpuKeepsAccounted ==
  ASSUME InputInv, PlaceInv, PanicInv, NEW c \in Cpu, CpuStep(c)
  PROVE  Accounted'
<1>0. UNCHANGED <<batch, ioPc>>
  BY CpuFacts
<1> SUFFICES ASSUME Running', NEW r \in Range(batch),
                    ioPc[IoOwner(r)] \notin {"unspawned", "panicked", "failed"}
             PROVE  Placed(r)'
  BY <1>0 DEF Accounted, IoOwner, IoCount
<1>1. r \in Requests /\ Running
  BY BatchFacts, CpuFacts
<1>2. Placed(r)
  BY <1>1 DEF PlaceInv, Accounted
<1>3. /\ (Waiting(r)' <=> Waiting(r)) /\ failed'[r] = failed[r]
      /\ failed[r] \in Nat /\ completed[r] \in Nat
  BY <1>1, CpuMoves DEF InputInv, Types, PlaceInv, PlaceTypes
<1>4. cpuPc[c] # "panicked"
  BY <1>1 DEF PanicInv, Running
<1>5. \/ /\ Computing(r) => Computing(r)'
         /\ completed'[r] = completed[r]
      \/ completed'[r] = completed[r] + 1
  BY <1>1, <1>4, CpuMoves
<1>6. CASE Queued(r)
  <2>1. ASSUME CpuLeave(c), NEW v \in IoLeft, NEW i \in 1 .. Len(ring[v][c]), ring[v][c][i] = r
        PROVE  FALSE
    <3>1. v \in Io /\ cpuPc[c] = "leave" /\ r # End
      BY <1>1, <1>4, <2>1, Constants DEF CpuLeave, IoLeft
    <3> QED BY <1>1, <2>1, <3>1, DrainedRing
  <2>2. Queued(r)' \/ Computing(r)'
    BY <1>1, <1>6, <2>1, CpuQueuedStays DEF Computing
  <2> QED BY <2>2 DEF Placed
<1>7. CASE Waiting(r)
  BY <1>3, <1>7 DEF Placed
<1>8. CASE Computing(r) \/ completed[r] + failed[r] > 0
  <2>1. Computing(r)' \/ completed'[r] + failed'[r] > 0
    BY <1>3, <1>5, <1>8
  <2> QED BY <2>1 DEF Placed
<1> QED BY <1>2, <1>6, <1>7, <1>8 DEF Placed

LEMMA CpuKeepsPlaces ==
  ASSUME InputInv, PlaceInv, PanicInv, NEW c \in Cpu, CpuStep(c)
  PROVE  PlaceInv'
<1>1. /\ UNCHANGED <<batch, result, ioPc, endTo, failed>>
      /\ Receiver(c) \in IoSpawned
  BY CpuFacts
<1>2. ended' \in [Cpu -> SUBSET IoSpawned]
  <2>1. ended \in [Cpu -> SUBSET IoSpawned]
    BY DEF PlaceInv, PlaceTypes
  <2>2. ended' = ended \/ ended' = [ended EXCEPT ![c] = @ \union {Receiver(c)}]
    BY DEF CpuStep, CpuStop, Poll, Compute, ComputePanic, CpuLeave
  <2> QED BY <1>1, <2>1, <2>2
<1>3. PlaceTypes'
  BY <1>1, <1>2 DEF PlaceInv, PlaceTypes, IoSpawned, IoCount
<1> QED BY <1>3, CpuKeepsRings, CpuKeepsSlots, CpuKeepsCarries, CpuKeepsOnce, CpuKeepsFinishes,
           CpuKeepsAccounted DEF PlaceInv

-----------------------------------------------------------------------------
(* The other steps, and the outcome of every request.                      *)

LEMMA InitPlaces == Init => PlaceInv
<1> SUFFICES ASSUME Init PROVE PlaceInv
  OBVIOUS
<1>1. InputInv
  BY InitInputs
<1>2. PlaceTypes
  BY Constants DEF Init, PlaceTypes
<1>3. Rings /\ Slots /\ Carries
  BY Constants DEF Init, Rings, Ordered, Emptied, Distinct, Slots, Slotted, Carries, IoLeft
<1>4. \A r \in Requests : ~ Waiting(r) /\ ~ Queued(r) /\ ~ Computing(r)
                          /\ completed[r] = 0 /\ failed[r] = 0
  BY Constants DEF Init, Waiting, Queued, Computing
<1>5. Once
  BY <1>4 DEF Once
<1>6. Finishes
  <2>1. \A c \in CpuSpawned : c \in Cpu \/ batch = <<>>
    BY <1>1, OwnersInRange DEF InputInv
  <2>2. batch = <<>> => CpuSpawned = {}
    <3>1. /\ {ComputeWorkers, Len(batch)} \in SUBSET Nat
          /\ {ComputeWorkers, Len(batch)} # {}
      BY <1>1, PipelineAssumption DEF InputInv, Types
    <3>2. CpuCount <= Len(batch) /\ CpuCount \in Nat
      BY <1>1, <3>1, LeastIndex DEF CpuCount
    <3>3. batch = <<>> => Len(batch) = 0
      OBVIOUS
    <3> QED BY <3>2, <3>3 DEF CpuSpawned
  <2> QED BY <2>1, <2>2 DEF Init, Finishes
<1>7. Accounted
  BY <1>1, BatchFacts DEF Init, Accounted
<1> QED BY <1>2, <1>3, <1>5, <1>6, <1>7 DEF PlaceInv

(* No step but a worker's moves a request.                                 *)
LEMMA PlacesKept ==
  ASSUME PlaceInv, Running' => Running,
         UNCHANGED <<batch, ioPc, todo, endTo, ring, cpuPc, ended, current, completed, failed>>,
         (\A w \in Io : ioPc[w] = "unspawned") /\ result' = "ok" => batch = <<>>
  PROVE  PlaceInv'
<1>1. PlaceTypes'
  BY DEF PlaceInv, PlaceTypes, IoSpawned, IoCount
<1>2. Rings' /\ Carries'
  <2>1. ASSUME NEW w \in Io, NEW c \in Cpu PROVE Ordered(w, c)' /\ Emptied(w, c)'
    <3>1. Ordered(w, c) /\ Emptied(w, c) /\ (Closed(w, c)' <=> Closed(w, c))
      BY DEF PlaceInv, Rings, Closed
    <3>2. Ordered(w, c)'
      BY <3>1 DEF Ordered, IoOwner, CpuOwner, IoCount, CpuCount
    <3>3. Emptied(w, c)'
      BY <3>1 DEF Emptied, IoLeft, CpuLeft
    <3> QED BY <3>2, <3>3
  <2>2. Carries'
    BY DEF PlaceInv, Carries, CpuOwner, CpuCount
  <2> QED BY <2>1, <2>2 DEF Rings
<1>3. Slots'
  BY DEF PlaceInv, Slots, Target, Now, CpuOwner, CpuCount
<1>4. Once'
  BY DEF PlaceInv, Once, Waiting, Queued, Computing
<1>5. Finishes'
  BY DEF PlaceInv, Finishes, CpuSpawned, IoSpawned, CpuCount, IoCount
<1>6. Accounted'
  <2>1. \A r : Placed(r) => Placed(r)'
    BY DEF Placed, Waiting, Queued, Computing
  <2> QED BY <2>1 DEF PlaceInv, Accounted, IoOwner, IoCount
<1> QED BY <1>1, <1>2, <1>3, <1>4, <1>5, <1>6 DEF PlaceInv

LEMMA SpawnPlaces ==
  ASSUME InputInv, PlaceInv, Spawn
  PROVE  PlaceInv'
<1>1. /\ UNCHANGED <<batch, endTo, ring, ended, current, completed, failed>>
      /\ result' = "none" /\ batch # <<>>
      /\ ioPc' = [w \in Io |-> IF w \in IoSpawned THEN "next" ELSE "done"]
      /\ cpuPc' = [c \in Cpu |-> IF c \in CpuSpawned THEN "poll" ELSE "done"]
      /\ todo' = [w \in Io |-> { r \in Range(batch) : IoOwner(r) = w }]
  BY DEF Spawn
<1>2. /\ \A c \in Cpu : current[c] = Nobody
      /\ \A w \in Io, c \in Cpu : ring[w][c] = <<>>
      /\ \A r \in Requests : completed[r] = 0 /\ failed[r] = 0
  BY DEF Spawn, InputInv, Before, PlaceInv, PlaceTypes
<1>3. /\ \A r \in Requests : IoOwner(r) \in IoSpawned
      /\ IoSpawned \subseteq Io /\ CpuSpawned \subseteq Cpu
      /\ IoOwner(0)' = IoOwner(0) /\ IoSpawned' = IoSpawned /\ CpuSpawned' = CpuSpawned
  BY <1>1, OwnersInRange DEF InputInv, IoOwner, IoSpawned, CpuSpawned, IoCount, CpuCount
<1>4. \A w \in Io, c \in Cpu : w \notin ended[c]
  <2>1. ASSUME NEW w \in Io, NEW c \in Cpu, w \in ended[c] PROVE FALSE
    <3>1. Closed(w, c)
      BY <2>1 DEF PlaceInv, Rings, Emptied
    <3> QED BY <3>1 DEF Closed, Spawn
  <2> QED BY <2>1
<1>5. PlaceTypes'
  <2>1. 0 \in Io /\ ioPc'[0] # "unspawned"
    BY <1>1, Constants
  <2> QED BY <1>1, <1>3, <2>1 DEF PlaceInv, PlaceTypes
<1>6. Rings'
  <2>1. ASSUME NEW w \in Io, NEW c \in Cpu PROVE Ordered(w, c)' /\ Emptied(w, c)'
    BY <1>1, <1>2, <1>4 DEF Ordered, Emptied, Distinct
  <2> QED BY <2>1 DEF Rings
<1>7. Slots' /\ Carries'
  BY <1>1, <1>2 DEF Slots, Slotted, Carries
<1>8. \A r \in Requests : ~ Queued(r)' /\ ~ Computing(r)' /\ completed'[r] = 0 /\ failed'[r] = 0
  BY <1>1, <1>2, Constants DEF Queued, Computing
<1>9. Once'
  BY <1>8 DEF Once
<1>10. Finishes'
  <2>1. ASSUME NEW w \in Io, ioPc'[w] \in {"end", "leave", "done"} PROVE todo'[w] = {}
    <3>1. w \notin IoSpawned
      BY <1>1, <2>1
    <3>2. \A r \in Range(batch) : IoOwner(r) # w
      BY <1>3, <3>1, BatchFacts
    <3> QED BY <1>1, <3>2
  <2>2. \A c \in CpuSpawned : cpuPc'[c] = "poll"
    BY <1>1, <1>3
  <2> QED BY <1>3, <2>1, <2>2 DEF Finishes
<1>11. Accounted'
  <2>1. ASSUME NEW r \in Range(batch) PROVE Waiting(r)'
    <3>1. IoOwner(r) \in Io
      BY BatchFacts
    <3> QED BY <1>1, <3>1 DEF Waiting
  <2> QED BY <1>1, <2>1 DEF Accounted, Placed
<1> QED BY <1>5, <1>6, <1>7, <1>9, <1>10, <1>11 DEF PlaceInv

LEMMA PlaceInductive ==
  InputInv /\ PanicInv /\ PlaceInv /\ [Next]_vars => PlaceInv'
<1> SUFFICES ASSUME InputInv, PanicInv, PlaceInv, [Next]_vars PROVE PlaceInv'
  OBVIOUS
<1>1. CASE UNCHANGED vars
  BY <1>1, PlacesKept DEF vars, ioVars, cpuVars, Running, PlaceInv, PlaceTypes
<1>2. CASE Environment
  <2>1. /\ UNCHANGED <<batch, result, ioPc, todo, endTo, ring, cpuPc, ended, current, completed,
                       failed>>
        /\ Running' => Running
    BY <1>2 DEF Environment, Cancel, Rewrite, Replace, ioVars, cpuVars, Running, AfterCancel
  <2> QED BY <2>1, PlacesKept DEF PlaceInv, PlaceTypes
<1>3. CASE Refuse
  <2>1. /\ UNCHANGED <<batch, ioPc, todo, endTo, ring, cpuPc, ended, current, completed, failed>>
        /\ Running' => Running
    BY <1>3 DEF Refuse, ioVars, cpuVars, Running
  <2>2. result' = "ok" => batch = <<>>
    BY <1>3 DEF Refuse, PanicInv, TerminalStates
  <2> QED BY <2>1, <2>2, PlacesKept
<1>4. CASE Return
  <2>1. /\ UNCHANGED <<batch, ioPc, todo, endTo, ring, cpuPc, ended, current, completed, failed>>
        /\ Running' => Running
    BY <1>4 DEF Return, ioVars, cpuVars, Running
  <2>2. ~ (\A w \in Io : ioPc[w] = "unspawned")
    BY <1>4, Constants DEF Return, IoLeft
  <2> QED BY <2>1, <2>2, PlacesKept
<1>5. CASE Spawn
  BY <1>5, SpawnPlaces
<1> QED BY <1>1, <1>2, <1>3, <1>4, <1>5, IoKeepsPlaces, CpuKeepsPlaces DEF Next, Main, Returned

(* A request of the batch is in one place at a time, at every step of the  *)
(* I/O and compute workers, cancellations and panics included.             *)
THEOREM PlaceInvariance == Spec => [](InputInv /\ PanicInv /\ PlaceInv)
BY InitInputs, InitPanic, InitPlaces, InputInductive, PanicInductive, PlaceInductive, PTL DEF Spec

(* ExactlyOneOutcome: a call that returns results accounts for every       *)
(* request, in one computed input or one recorded failure, and for none    *)
(* twice.                                                                  *)
THEOREM RequestsAreAccountedFor == Spec => []ExactlyOneOutcome
<1>1. ASSUME InputInv, PanicInv, PlaceInv, result = "ok", NEW r \in Range(batch)
      PROVE  completed[r] + failed[r] = 1
  <2>1. r \in Requests /\ IoOwner(r) \in Io /\ batch # <<>>
    BY <1>1, BatchFacts
  <2>2. Running /\ IoLeft = Io /\ CpuLeft = Cpu
    BY <1>1, <2>1 DEF PanicInv, PlaceInv, PlaceTypes, AllUnspawned, Running, TerminalStates
  <2>3. \A w \in Io : ioPc[w] = "done"
    BY <1>1, <2>2 DEF PanicInv, Running, IoLeft
  <2>4. ~ Waiting(r)
    BY <1>1, <2>2, <2>3 DEF PlaceInv, Finishes, Waiting
  <2>5. ~ Queued(r)
    <3>1. \A w \in Io, c \in Cpu : ring[w][c] = <<>>
      BY <1>1, <2>2 DEF PlaceInv, Rings, Emptied
    <3> QED BY <3>1 DEF Queued
  <2>6. ~ Computing(r)
    BY <1>1, <2>1, <2>2, Constants DEF PlaceInv, Carries, Computing, CpuLeft
  <2>7. completed[r] + failed[r] > 0
    BY <1>1, <2>1, <2>2, <2>3, <2>4, <2>5, <2>6 DEF PlaceInv, Accounted, Placed
  <2>8. /\ completed[r] \in Nat /\ failed[r] \in Nat /\ completed[r] <= 1 /\ failed[r] <= 1
        /\ failed[r] > 0 => completed[r] = 0
    BY <1>1, <2>1 DEF PlaceInv, PlaceTypes, Once, InputInv, Types
  <2> QED BY <2>7, <2>8
<1>2. InputInv /\ PanicInv /\ PlaceInv => ExactlyOneOutcome
  BY <1>1 DEF ExactlyOneOutcome
<1> QED BY <1>2, PlaceInvariance, PTL

-----------------------------------------------------------------------------
(* Byte credits, counted one by one.                                       *)

LEMMA DisjointUnion ==
  ASSUME NEW A, NEW B, A \cap B = {}, IsFiniteSet(A), IsFiniteSet(B)
  PROVE  /\ IsFiniteSet(A \union B)
         /\ Cardinality(A \union B) = Cardinality(A) + Cardinality(B)
<1>1. Cardinality(A \cap B) = 0
  BY FS_EmptySet
<1>2. /\ IsFiniteSet(A \union B)
      /\ Cardinality(A \union B) = Cardinality(A) + Cardinality(B) - Cardinality(A \cap B)
  BY FS_Union
<1>3. Cardinality(A) \in Nat /\ Cardinality(B) \in Nat
  BY FS_CardinalityType
<1> QED BY <1>1, <1>2, <1>3

(* The credits of disjoint groups of requests are counted apart.           *)
LEMMA CreditsApart ==
  ASSUME NEW l, NEW cs, NEW ds, cs \cap ds = {},
         IsFiniteSet(Credits(l, cs)), IsFiniteSet(Credits(l, ds))
  PROVE  /\ IsFiniteSet(Credits(l, cs \union ds))
         /\ Cardinality(Credits(l, cs \union ds))
              = Cardinality(Credits(l, cs)) + Cardinality(Credits(l, ds))
<1>1. Credits(l, cs \union ds) = Credits(l, cs) \union Credits(l, ds)
  BY DEF Credits
<1>2. Credits(l, cs) \cap Credits(l, ds) = {}
  BY DEF Credits
<1>3. /\ IsFiniteSet(Credits(l, cs) \union Credits(l, ds))
      /\ Cardinality(Credits(l, cs) \union Credits(l, ds))
           = Cardinality(Credits(l, cs)) + Cardinality(Credits(l, ds))
  BY <1>2, DisjointUnion
<1> QED BY <1>1, <1>3, Zenon

(* The credits of one request are as many as its lease says.               *)
LEMMA CreditsOfOne ==
  ASSUME NEW l, NEW c, l[c] \in Nat
  PROVE  IsFiniteSet(Credits(l, {c})) /\ Cardinality(Credits(l, {c})) = l[c]
<1>1. Credits(l, {c}) = {c} \X (1 .. l[c])
  BY DEF Credits
<1>2. IsFiniteSet({c}) /\ Cardinality({c}) = 1
  BY FS_Singleton
<1>3. IsFiniteSet(1 .. l[c]) /\ Cardinality(1 .. l[c]) = l[c]
  BY FS_Interval
<1>4. /\ IsFiniteSet({c} \X (1 .. l[c]))
      /\ Cardinality({c} \X (1 .. l[c])) = Cardinality({c}) * Cardinality(1 .. l[c])
  BY <1>2, <1>3, FS_Product
<1>5. Cardinality({c}) * Cardinality(1 .. l[c]) = l[c]
  BY <1>2, <1>3
<1> QED BY <1>1, <1>4, <1>5

(* Part of a finite ledger is finite, and the rest is the difference.      *)
LEMMA CreditsWithout ==
  ASSUME NEW l, NEW cs, NEW ds, ds \subseteq cs, IsFiniteSet(Credits(l, cs))
  PROVE  /\ IsFiniteSet(Credits(l, ds)) /\ IsFiniteSet(Credits(l, cs \ ds))
         /\ Cardinality(Credits(l, ds)) \in Nat
         /\ Cardinality(Credits(l, cs \ ds)) \in Nat
         /\ Cardinality(Credits(l, cs))
              = Cardinality(Credits(l, cs \ ds)) + Cardinality(Credits(l, ds))
<1>1. Credits(l, ds) \subseteq Credits(l, cs) /\ Credits(l, cs \ ds) \subseteq Credits(l, cs)
  BY DEF Credits
<1>2. IsFiniteSet(Credits(l, ds)) /\ IsFiniteSet(Credits(l, cs \ ds))
  BY <1>1, FS_Subset
<1>3. cs = (cs \ ds) \union ds /\ (cs \ ds) \cap ds = {}
  OBVIOUS
<1> QED BY <1>2, <1>3, CreditsApart, FS_CardinalityType

(* One lease takes another value.                                          *)
LEMMA LeaseSet ==
  ASSUME NEW S, NEW l \in [S -> Nat], NEW m \in [S -> Nat], NEW c \in S,
         \A d \in S \ {c} : m[d] = l[d], IsFiniteSet(Credits(l, S))
  PROVE  /\ IsFiniteSet(Credits(m, S))
         /\ Cardinality(Credits(m, S)) = Cardinality(Credits(l, S)) - l[c] + m[c]
<1>1. Credits(m, S \ {c}) = Credits(l, S \ {c})
  BY DEF Credits
<1>2. /\ IsFiniteSet(Credits(l, S \ {c})) /\ Cardinality(Credits(l, S \ {c})) \in Nat
      /\ Cardinality(Credits(l, S)) = Cardinality(Credits(l, S \ {c})) + l[c]
  <2>1. {c} \subseteq S /\ l[c] \in Nat
    OBVIOUS
  <2>2. Cardinality(Credits(l, {c})) = l[c]
    BY <2>1, CreditsOfOne
  <2>3. /\ IsFiniteSet(Credits(l, S \ {c})) /\ Cardinality(Credits(l, S \ {c})) \in Nat
        /\ Cardinality(Credits(l, S))
             = Cardinality(Credits(l, S \ {c})) + Cardinality(Credits(l, {c}))
    BY <2>1, CreditsWithout
  <2> QED BY <2>2, <2>3
<1>3. m[c] \in Nat /\ l[c] \in Nat
  OBVIOUS
<1>4. IsFiniteSet(Credits(m, {c})) /\ Cardinality(Credits(m, {c})) = m[c]
  BY <1>3, CreditsOfOne
<1>5. S = (S \ {c}) \union {c} /\ (S \ {c}) \cap {c} = {}
  OBVIOUS
<1>6. /\ IsFiniteSet(Credits(m, S))
      /\ Cardinality(Credits(m, S)) = Cardinality(Credits(m, S \ {c})) + m[c]
  <2>1. (S \ {c}) \cap {c} = {} /\ IsFiniteSet(Credits(m, S \ {c})) /\ IsFiniteSet(Credits(m, {c}))
    BY <1>1, <1>2, <1>4
  <2>2. /\ IsFiniteSet(Credits(m, (S \ {c}) \union {c}))
        /\ Cardinality(Credits(m, (S \ {c}) \union {c}))
             = Cardinality(Credits(m, S \ {c})) + Cardinality(Credits(m, {c}))
    BY <2>1, CreditsApart, Zenon
  <2> QED BY <1>4, <1>5, <2>2
<1> QED BY <1>1, <1>2, <1>3, <1>6

(* Several leases end at once.                                             *)
LEMMA LeasesEnd ==
  ASSUME NEW S, NEW l \in [S -> Nat], NEW cs, cs \subseteq S, NEW m,
         m = [c \in S |-> IF c \in cs THEN 0 ELSE l[c]], IsFiniteSet(Credits(l, S))
  PROVE  /\ IsFiniteSet(Credits(m, S))
         /\ Cardinality(Credits(m, S)) = Cardinality(Credits(l, S)) - Cardinality(Credits(l, cs))
<1>1. Credits(m, S) = Credits(l, S \ cs)
  <2>1. \A c \in S \ cs : m[c] = l[c]
    OBVIOUS
  <2>2. \A c \in cs : 1 .. m[c] = {}
    OBVIOUS
  <2>3. Credits(m, S \ cs) = Credits(l, S \ cs)
    BY <2>1 DEF Credits
  <2>4. Credits(m, S) = Credits(m, S \ cs)
    BY <2>2 DEF Credits
  <2> QED BY <2>3, <2>4
<1>2. /\ IsFiniteSet(Credits(l, S \ cs))
      /\ Cardinality(Credits(l, S \ cs)) \in Nat /\ Cardinality(Credits(l, cs)) \in Nat
      /\ Cardinality(Credits(l, S)) = Cardinality(Credits(l, S \ cs)) + Cardinality(Credits(l, cs))
  BY CreditsWithout
<1> QED BY <1>1, <1>2

(* The counter is what the requests hold, and within the budget.           *)
Ledger ==
  /\ lease \in [Requests -> Nat]
  /\ IsFiniteSet(Credits(lease, Requests))
  /\ reserved = Cardinality(Credits(lease, Requests))
  /\ reserved <= Budget

(* Whoever holds credit is on the way to its computation. *)
InHand(r) == Queued(r) \/ Computing(r) \/ \E w \in Io : ioPc[w] \in Holding /\ r = Now(w)
Leases == \A r \in Requests : lease[r] > 0 => InHand(r)

(* An input that is or may be in memory has credit for its class. *)
Covered(r) == lease[r] >= Needs(r, read[r].before)
Cover ==
  /\ \A w \in Io : ioPc[w] \in Covering => Covered(Now(w))
  /\ \A r \in Requests : Queued(r) \/ Computing(r) => Covered(r)

LedgerInv == Ledger /\ Leases /\ Cover

LEMMA LedgerCount == Ledger => reserved \in Nat /\ Budget \in Nat
  BY FS_CardinalityType, PipelineAssumption DEF Ledger

LEMMA LedgerUnchanged ==
  ASSUME Ledger, UNCHANGED <<lease, reserved>>
  PROVE  Ledger'
  BY DEF Ledger, Credits

LEMMA LedgerReleases ==
  ASSUME Ledger, NEW r \in Requests, Release(r)
  PROVE  Ledger'
<1>1. /\ lease \in [Requests -> Nat] /\ lease' = [lease EXCEPT ![r] = 0]
      /\ reserved' = reserved - lease[r]
  BY DEF Ledger, Release
<1>2. /\ IsFiniteSet(Credits(lease, Requests))
      /\ lease \in [Requests -> Nat] /\ lease' \in [Requests -> Nat]
      /\ lease'[r] = 0 /\ \A d \in Requests \ {r} : lease'[d] = lease[d]
  BY <1>1 DEF Ledger
<1>3. /\ IsFiniteSet(Credits(lease', Requests))
      /\ Cardinality(Credits(lease', Requests))
           = Cardinality(Credits(lease, Requests)) - lease[r] + lease'[r]
  BY <1>2, LeaseSet, Zenon
<1>4. reserved \in Nat /\ Budget \in Nat /\ lease[r] \in Nat
  BY <1>1, LedgerCount
<1>5. reserved' = Cardinality(Credits(lease', Requests)) /\ reserved' <= Budget
  BY <1>1, <1>2, <1>3, <1>4 DEF Ledger
<1> QED BY <1>2, <1>3, <1>5 DEF Ledger, Credits

LEMMA LedgerAcquires ==
  ASSUME Ledger, NEW r \in Requests, NEW n \in Nat, lease[r] = 0, Fits(n), Acquire(r, n)
  PROVE  Ledger'
<1>1. /\ lease \in [Requests -> Nat] /\ lease' = [lease EXCEPT ![r] = n]
      /\ reserved' = reserved + n /\ reserved + n <= Budget
  BY DEF Ledger, Acquire, Fits
<1>2. /\ IsFiniteSet(Credits(lease, Requests))
      /\ lease \in [Requests -> Nat] /\ lease' \in [Requests -> Nat]
      /\ lease'[r] = n /\ \A d \in Requests \ {r} : lease'[d] = lease[d]
  BY <1>1 DEF Ledger
<1>3. /\ IsFiniteSet(Credits(lease', Requests))
      /\ Cardinality(Credits(lease', Requests))
           = Cardinality(Credits(lease, Requests)) - lease[r] + lease'[r]
  BY <1>2, LeaseSet, Zenon
<1>4. reserved \in Nat /\ Budget \in Nat
  BY LedgerCount
<1>5. reserved' = Cardinality(Credits(lease', Requests)) /\ reserved' <= Budget
  BY <1>1, <1>2, <1>3, <1>4 DEF Ledger
<1> QED BY <1>2, <1>3, <1>5 DEF Ledger, Credits

LEMMA LedgerReleasesAll ==
  ASSUME Ledger, NEW gone, gone \subseteq Requests, ReleaseAll(gone)
  PROVE  Ledger'
<1>1. /\ lease \in [Requests -> Nat]
      /\ lease' = [r \in Requests |-> IF r \in gone THEN 0 ELSE lease[r]]
      /\ reserved' = reserved - Cardinality(Credits(lease, gone))
  BY DEF Ledger, ReleaseAll
<1>2. /\ IsFiniteSet(Credits(lease', Requests))
      /\ Cardinality(Credits(lease', Requests))
           = Cardinality(Credits(lease, Requests)) - Cardinality(Credits(lease, gone))
  BY <1>1, LeasesEnd DEF Ledger
<1>3. reserved \in Nat /\ Budget \in Nat /\ Cardinality(Credits(lease, gone)) \in Nat
  BY LedgerCount, CreditsWithout DEF Ledger
<1>4. reserved' = Cardinality(Credits(lease', Requests)) /\ reserved' <= Budget
  BY <1>1, <1>2, <1>3 DEF Ledger
<1>5. lease' \in [Requests -> Nat]
  BY <1>1
<1> QED BY <1>2, <1>4, <1>5 DEF Ledger, Credits

(* The request a worker is busy with waits for nobody else.                *)
LEMMA OwnRequest ==
  ASSUME InputInv, PlaceInv, NEW w \in Io, ioPc[w] \in Working, NEW n, n = Now(w)
  PROVE  /\ todo[w] # {} /\ n \in Requests /\ n \in todo[w]
         /\ ~ Queued(n) /\ ~ Computing(n)
         /\ \A v \in Io \ {w} : todo[v] # {} => Now(v) # n
<1>1. todo[w] # {}
  BY DEF InputInv, Reading
<1>2. n \in Requests /\ n \in todo[w]
  BY <1>1, NowIsOwn DEF InputInv
<1>3. Waiting(n)
  BY <1>2 DEF Waiting
<1>4. ~ Queued(n) /\ ~ Computing(n)
  BY <1>2, <1>3 DEF PlaceInv, Once
<1>5. ASSUME NEW v \in Io \ {w}, todo[v] # {} PROVE Now(v) # n
  <2>1. Now(v) \in todo[v]
    BY <1>5, NowIsOwn DEF InputInv
  <2> QED BY <1>2, <2>1 DEF InputInv, Shares
<1> QED BY <1>1, <1>2, <1>4, <1>5

LEMMA NoCreditYet ==
  ASSUME InputInv, PlaceInv, Ledger, Leases, NEW w \in Io, ioPc[w] \in {"ticket", "grow"},
         NEW n, n = Now(w)
  PROVE  lease[n] = 0
<1>1. /\ n \in Requests /\ ~ Queued(n) /\ ~ Computing(n)
      /\ \A v \in Io \ {w} : todo[v] # {} => Now(v) # n
  BY OwnRequest DEF Working
<1>2. \A v \in Io : ioPc[v] \in Holding => v # w /\ todo[v] # {}
  BY DEF Holding, InputInv, Reading, Working
<1>3. ~ InHand(n)
  BY <1>1, <1>2 DEF InHand
<1>4. lease[n] \in Nat /\ ~ (lease[n] > 0)
  BY <1>1, <1>3 DEF Ledger, Leases
<1> QED BY <1>4

(* The inputs left in rings that go away with a worker.                    *)
DroppedByIo(w)  == UNION { Range(ring[w][c]) \ {End} : c \in CpuLeft }
DroppedByCpu(c) == UNION { Range(ring[w][c]) \ {End} : w \in IoLeft }

LEMMA Dropped ==
  ASSUME InputInv, PlaceInv
  PROVE  /\ \A w \in Io : \A r \in DroppedByIo(w) :
              /\ r \in Requests /\ Queued(r) /\ ~ Waiting(r) /\ ~ Computing(r)
              /\ IoOwner(r) = w /\ CpuOwner(r) \in CpuLeft
         /\ \A c \in Cpu : \A r \in DroppedByCpu(c) :
              /\ r \in Requests /\ Queued(r) /\ ~ Waiting(r) /\ ~ Computing(r)
              /\ CpuOwner(r) = c /\ IoOwner(r) \in IoLeft
<1>1. ASSUME NEW w \in Io, NEW c \in Cpu, NEW r \in Range(ring[w][c]) \ {End}
      PROVE  /\ r \in Requests /\ Queued(r) /\ ~ Waiting(r) /\ ~ Computing(r)
             /\ IoOwner(r) = w /\ CpuOwner(r) = c
  <2>1. ring[w][c] \in Seq(Requests \union {End})
    BY DEF InputInv, Types
  <2>2. PICK i \in 1 .. Len(ring[w][c]) : ring[w][c][i] = r
    BY <2>1 DEF Range
  <2>3. r \in Requests /\ Queued(r)
    BY <2>1, <2>2 DEF Queued
  <2>4. IoOwner(r) = w /\ CpuOwner(r) = c
    BY <2>2 DEF PlaceInv, Rings, Ordered
  <2> QED BY <2>3, <2>4 DEF PlaceInv, Once
<1>2. CpuLeft \subseteq Cpu /\ IoLeft \subseteq Io
  BY DEF CpuLeft, IoLeft
<1> QED BY <1>1, <1>2 DEF DroppedByIo, DroppedByCpu

(* What a step of an I/O worker does to the ledger.                        *)
LEMMA IoCredit ==
  ASSUME InputInv, PlaceInv, Ledger, Leases, NEW w \in Io, IoStep(w), NEW n, n = Now(w)
  PROVE  \/ UNCHANGED <<lease, reserved>>
         \/ ioPc[w] \in Working /\ n \in Requests /\ Release(n)
         \/ /\ ioPc[w] \in Working /\ n \in Requests
            /\ \E k \in Nat : lease[n] = 0 /\ Fits(k) /\ Acquire(n, k)
         \/ IoLeave(w) /\ DroppedByIo(w) \subseteq Requests /\ ReleaseAll(DroppedByIo(w))
<1>1. ioPc[w] \in Working => n \in Requests
  BY OwnRequest
<1>2. CASE Steady(w)
  <2>1. CASE Rests(w)
    BY <2>1 DEF Rests
  <2>2. CASE Takes(w)
    BY <1>1, <2>2, NoCreditYet DEF Takes, Working
  <2>3. CASE Gives(w)
    BY <1>1, <2>3 DEF Gives, Holding, Working
  <2> QED BY <1>2, <2>1, <2>2, <2>3 DEF Steady
<1>3. CASE Fails(w) \/ IoPanic(w)
  BY <1>1, <1>3 DEF Fails, FailRequest, IoPanic, Slotted, Working
<1>4. CASE Push(w) \/ SendEnd(w)
  BY <1>4, DeliverFacts DEF SendEnd
<1>5. CASE IoLeave(w)
  BY <1>5, Dropped DEF IoLeave, DroppedByIo
<1> QED BY <1>2, <1>3, <1>4, <1>5, IoCases

LEMMA IoKeepsLedger ==
  ASSUME InputInv, PlaceInv, Ledger, Leases, NEW w \in Io, IoStep(w)
  PROVE  Ledger'
<1> PICK n : n = Now(w)
  OBVIOUS
<1>1. CASE UNCHANGED <<lease, reserved>>
  BY <1>1, LedgerUnchanged
<1>2. CASE n \in Requests /\ Release(n)
  BY <1>2, LedgerReleases
<1>3. CASE n \in Requests /\ \E k \in Nat : lease[n] = 0 /\ Fits(k) /\ Acquire(n, k)
  BY <1>3, LedgerAcquires
<1>4. CASE DroppedByIo(w) \subseteq Requests /\ ReleaseAll(DroppedByIo(w))
  BY <1>4, LedgerReleasesAll
<1> QED BY <1>1, <1>2, <1>3, <1>4, IoCredit

(* The other requests keep their credit, and their reads.                  *)
LEMMA IoSparesCredit ==
  ASSUME InputInv, PlaceInv, Ledger, Leases, NEW w \in Io, IoStep(w), NEW r \in Requests,
         ioPc[w] \in Working => r # Now(w)
  PROVE  /\ read'[r] = read[r]
         /\ lease'[r] = lease[r] \/ (IoLeave(w) /\ r \in DroppedByIo(w) /\ lease'[r] = 0)
<1>1. lease'[r] = lease[r] \/ (IoLeave(w) /\ r \in DroppedByIo(w) /\ lease'[r] = 0)
  BY IoCredit DEF Ledger, Release, Acquire, ReleaseAll
<1>2. read'[r] = read[r]
  <2>1. CASE ioPc[w] \in Working
    BY <2>1, IoTouches DEF InputInv, Types
  <2>2. CASE ioPc[w] \notin Working
    <3>1. read' = read
      BY <2>2 DEF IoStep, IoStop, NextRequest, ReserveSlot, TakeTicket, Probe, Grow, Open, ReadBatch,
                  VerifyFile, VerifyPath, IoError, CheckSend, Push, SendEnd, IoPanic, IoLeave, Working
    <3> QED BY <3>1
  <2> QED BY <2>1, <2>2
<1> QED BY <1>1, <1>2

LEMMA OthersStay ==
  ASSUME InputInv, NEW w \in Io, IoStep(w), NEW v \in Io \ {w}
  PROVE  ioPc'[v] = ioPc[v] /\ todo'[v] = todo[v] /\ Now(v)' = Now(v)
<1>1. /\ todo' = todo \/ todo' = [todo EXCEPT ![w] = @ \ {Now(w)}]
      /\ ioPc' = ioPc \/ \E pc : ioPc' = [ioPc EXCEPT ![w] = pc]
      /\ batch' = batch
  BY IoTouches
<1>2. ioPc'[v] = ioPc[v] /\ todo'[v] = todo[v]
  BY <1>1 DEF InputInv, Types
<1> QED BY <1>1, <1>2 DEF Now

LEMMA IoKeepsLeases ==
  ASSUME InputInv, PlaceInv, Ledger, Leases, NEW w \in Io, IoStep(w)
  PROVE  Leases'
<1> SUFFICES ASSUME NEW r \in Requests, lease'[r] > 0 PROVE InHand(r)'
  BY DEF Leases
<1>0. lease \in [Requests -> Nat] /\ batch' = batch /\ current' = current /\ ~ (0 > 0)
  BY IoCases DEF Ledger
<1>1. CASE ioPc[w] \in Working /\ r = Now(w)
  <2>1. /\ ~ Queued(r) /\ ~ Computing(r)
        /\ \A v \in Io \ {w} : ioPc[v] \in Holding => Now(v) # r
    <3>1. \A v \in Io : ioPc[v] \in Holding => todo[v] # {}
      BY DEF Holding, InputInv, Reading, Working
    <3> QED BY <1>1, <3>1, OwnRequest
  <2>2. CASE Steady(w)
    <3>1. r = Now(w)'
      BY <1>0, <1>1, <2>2 DEF Steady, Now
    <3>2. ioPc'[w] \in Holding
      <4>1. CASE Rests(w)
        <5>1. InHand(r)
          BY <4>1 DEF Rests, Leases
        <5>2. ioPc[w] \in Holding
          BY <2>1, <5>1 DEF InHand
        <5> QED BY <4>1, <5>2 DEF Rests, Holding, Covering
      <4>2. CASE Takes(w)
        BY <4>2 DEF Takes, Holding
      <4>3. CASE Gives(w)
        BY <1>0, <1>1, <4>3 DEF Gives, Release
      <4> QED BY <2>2, <4>1, <4>2, <4>3 DEF Steady
    <3> QED BY <3>1, <3>2 DEF InHand
  <2>3. CASE Fails(w) \/ IoPanic(w)
    BY <1>0, <1>1, <2>3 DEF Fails, FailRequest, IoPanic, Release
  <2>4. CASE Push(w)
    BY <1>1, <2>4, DeliveredIsQueued DEF InHand
  <2>5. ~ SendEnd(w) /\ ~ IoLeave(w)
    BY <1>1 DEF SendEnd, IoLeave, Working
  <2> QED BY <2>2, <2>3, <2>4, <2>5, IoCases
<1>2. CASE ~ (ioPc[w] \in Working /\ r = Now(w))
  <2>1. lease'[r] = lease[r]
    BY <1>0, <1>2, IoSparesCredit
  <2>2. InHand(r)
    BY <2>1 DEF Leases
  <2>3. CASE Queued(r)
    <3>1. ASSUME IoLeave(w), NEW c \in CpuLeft, NEW i \in 1 .. Len(ring[w][c]), ring[w][c][i] = r
          PROVE  FALSE
      <4>1. ring[w][c] \in Seq(Requests \union {End}) /\ r # End
        BY <3>1, Constants DEF InputInv, Types, CpuLeft
      <4>2. r \in DroppedByIo(w)
        BY <3>1, <4>1 DEF DroppedByIo, Range
      <4>3. lease'[r] = 0
        BY <3>1, <4>2 DEF IoLeave, ReleaseAll, DroppedByIo
      <4> QED BY <1>0, <4>3
    <3>2. Queued(r)'
      BY <2>3, <3>1, QueuedStays
    <3> QED BY <3>2 DEF InHand
  <2>4. CASE Computing(r)
    BY <1>0, <2>4 DEF InHand, Computing
  <2>5. ASSUME NEW v \in Io, ioPc[v] \in Holding, r = Now(v) PROVE InHand(r)'
    <3>1. v # w
      BY <1>2, <2>5 DEF Holding, Working
    <3>2. ioPc'[v] \in Holding /\ r = Now(v)'
      BY <2>5, <3>1, OthersStay
    <3> QED BY <3>2 DEF InHand
  <2> QED BY <2>2, <2>3, <2>4, <2>5 DEF InHand
<1> QED BY <1>1, <1>2

(* What is dropped is in no ring afterwards.                               *)
LEMMA IoDropsForGood ==
  ASSUME InputInv, PlaceInv, NEW w \in Io, IoLeave(w), NEW r \in DroppedByIo(w)
  PROVE  ~ Queued(r)'
<1> SUFFICES ASSUME NEW v \in Io, NEW d \in Cpu, NEW i \in 1 .. Len(ring'[v][d]),
                    ring'[v][d][i] = r
             PROVE  FALSE
  BY DEF Queued
<1>1. r \in Requests /\ IoOwner(r) = w /\ CpuOwner(r) \in CpuLeft
  BY Dropped
<1>2. ring' = [ring EXCEPT ![w] = [c \in Cpu |-> IF c \in CpuLeft THEN <<>> ELSE ring[w][c]]]
  BY DEF IoLeave
<1>3. ring'[v][d] = IF v = w /\ d \in CpuLeft THEN <<>> ELSE ring[v][d]
  BY <1>2 DEF InputInv, Types
<1>4. CASE v = w /\ d \in CpuLeft
  BY <1>3, <1>4
<1>5. CASE ~ (v = w /\ d \in CpuLeft)
  <2>1. IoOwner(r) = v /\ CpuOwner(r) = d
    BY <1>1, <1>3, <1>5, Constants DEF PlaceInv, Rings, Ordered
  <2> QED BY <1>1, <1>5, <2>1
<1> QED BY <1>4, <1>5

LEMMA OwnCover ==
  ASSUME InputInv, PlaceInv, Ledger, Cover, NEW w \in Io, IoStep(w), ioPc'[w] \in Covering
  PROVE  Covered(Now(w))'
<1> PICK n : n = Now(w)
  OBVIOUS
<1>0. batch' = batch /\ ioPc \in [Io -> IoStates]
  BY IoCases DEF InputInv, Types
<1>1. Steady(w)
  <2>1. CASE Fails(w)
    BY <1>0, <2>1, FailFacts DEF Covering
  <2>2. CASE Push(w)
    BY <1>0, <2>2, DeliverFacts DEF Covering
  <2>3. CASE SendEnd(w) \/ IoPanic(w) \/ IoLeave(w)
    BY <1>0, <2>3 DEF SendEnd, IoPanic, IoLeave, IoGoto, Covering
  <2> QED BY <2>1, <2>2, <2>3, IoCases
<1>2. Now(w)' = n
  BY <1>0, <1>1 DEF Steady, Now
<1>3. Covered(n)'
  <2>1. CASE Rests(w) /\ ioPc[w] = "probe" /\ ioPc'[w] = "open"
    <3>1. lease' = lease /\ ~ (Needs(n, read'[n].before) > lease[n])
      BY <2>1 DEF Rests, Covering
    <3>2. n \in Requests
      BY <2>1, OwnRequest DEF Working
    <3>3. Needs(n, read'[n].before) \in Nat /\ lease[n] \in Nat
      <4>1. InputInv'
        BY IoKeeps
      <4>2. read'[n].before[2] \in Generations
        BY <3>2, <4>1 DEF InputInv, Types, Reads
      <4> QED BY <3>2, <4>2, PipelineAssumption DEF Needs, Generations, Ledger
    <3>4. lease'[n] >= Needs(n, read'[n].before)
      BY <3>1, <3>3
    <3> QED BY <3>4 DEF Covered, Needs
  <2>2. CASE Rests(w) /\ ~ (ioPc[w] = "probe" /\ ioPc'[w] = "open")
    <3>1. /\ lease' = lease /\ ioPc[w] \in Covering /\ read'[n].before = read[n].before
      BY <2>2 DEF Rests, Covering
    <3>2. Covered(n)
      BY <3>1 DEF Cover
    <3> QED BY <3>1, <3>2 DEF Covered, Needs
  <2>3. CASE Takes(w)
    <3>1. read' = read /\ Acquire(n, Needs(n, read[n].before)) /\ ioPc[w] = "grow"
      BY <2>3 DEF Takes, Covering
    <3>2. n \in Requests
      BY <3>1, OwnRequest DEF Working
    <3>3. lease'[n] = Needs(n, read'[n].before)
      BY <3>1, <3>2 DEF Acquire, Ledger
    <3>4. Needs(n, read'[n].before) \in Nat
      BY <3>1, <3>2, NeedsNat
    <3>5. lease'[n] >= Needs(n, read'[n].before)
      BY <3>3, <3>4
    <3> QED BY <3>5 DEF Covered, Needs
  <2>4. CASE Gives(w)
    BY <2>4 DEF Gives, Covering
  <2> QED BY <1>1, <2>1, <2>2, <2>3, <2>4 DEF Steady
<1> QED BY <1>2, <1>3 DEF Covered, Needs

LEMMA IoKeepsCover ==
  ASSUME InputInv, PlaceInv, Ledger, Leases, Cover, NEW w \in Io, IoStep(w)
  PROVE  Cover'
<1>0. UNCHANGED <<batch, current>>
  BY IoCases
<1>1. ASSUME NEW r \in Requests, read'[r] = read[r], lease'[r] = lease[r], Covered(r)
      PROVE  Covered(r)'
  BY <1>1 DEF Covered, Needs
<1>2. ASSUME NEW v \in Io \ {w}, ioPc'[v] \in Covering PROVE Covered(Now(v))'
  <2> PICK n : n = Now(v)
    OBVIOUS
  <2>1. ioPc[v] \in Covering /\ Now(v)' = n
    BY <1>2, OthersStay
  <2>2. /\ n \in Requests /\ ~ Queued(n)
        /\ \A u \in Io \ {v} : todo[u] # {} => Now(u) # n
    BY <2>1, OwnRequest DEF Covering, Working
  <2>3. ioPc[w] \in Working => n # Now(w)
    BY <2>2 DEF InputInv, Reading
  <2>4. n \notin DroppedByIo(w)
    BY <2>2, Dropped
  <2>5. Covered(n)'
    BY <1>1, <2>1, <2>2, <2>3, <2>4, IoSparesCredit DEF Cover
  <2> QED BY <2>1, <2>5 DEF Covered, Needs
<1>3. ASSUME NEW r \in Requests, Queued(r)' \/ Computing(r)' PROVE Covered(r)'
  <2>1. CASE Push(w) /\ r = Now(w)
    <3>1. UNCHANGED <<lease, read>> /\ Covered(r)
      BY <2>1, DeliverFacts DEF Push, Cover, Covering
    <3> QED BY <1>1, <3>1
  <2>2. CASE ~ (Push(w) /\ r = Now(w))
    <3>1. Computing(r)' <=> Computing(r)
      BY <1>0 DEF Computing
    <3>2. Queued(r) \/ Computing(r)
      BY <1>3, <2>2, <3>1, QueuedGrows
    <3>3. ioPc[w] \in Working => r # Now(w)
      BY <3>2, OwnRequest
    <3>4. ~ (IoLeave(w) /\ r \in DroppedByIo(w))
      <4>1. ASSUME IoLeave(w), r \in DroppedByIo(w) PROVE FALSE
        <5>1. ~ Computing(r) /\ ~ Queued(r)'
          BY <4>1, Dropped, IoDropsForGood
        <5> QED BY <1>3, <3>1, <5>1
      <4> QED BY <4>1
    <3> QED BY <1>1, <3>2, <3>3, <3>4, IoSparesCredit DEF Cover
  <2> QED BY <2>1, <2>2
<1>4. ASSUME NEW v \in Io, ioPc'[v] \in Covering PROVE Covered(Now(v))'
  BY <1>2, <1>4, OwnCover
<1> QED BY <1>3, <1>4 DEF Cover

(* What a step of a compute worker does to the ledger.                     *)
LEMMA CpuCredit ==
  ASSUME InputInv, PlaceInv, Ledger, NEW c \in Cpu, CpuStep(c)
  PROVE  \/ UNCHANGED <<lease, reserved>> /\ ~ Compute(c) /\ ~ CpuLeave(c)
         \/ Compute(c) /\ current[c] \in Requests /\ Release(current[c])
         \/ /\ CpuLeave(c) /\ ({current[c]} \ {Nobody}) \union DroppedByCpu(c) \subseteq Requests
            /\ ReleaseAll(({current[c]} \ {Nobody}) \union DroppedByCpu(c))
<1>1. CASE CpuStop(c) \/ Poll(c) \/ ComputePanic(c)
  <2>1. UNCHANGED <<lease, reserved>>
    BY <1>1 DEF CpuStop, Poll, ComputePanic
  <2>2. ~ Compute(c) /\ ~ CpuLeave(c)
    <3>1. cpuPc \in [Cpu -> CpuStates]
      BY DEF InputInv, Types
    <3> QED BY <1>1, <3>1 DEF CpuStop, Poll, ComputePanic, Compute, CpuLeave, CpuGoto
  <2> QED BY <2>1, <2>2
<1>2. CASE Compute(c)
  BY <1>2 DEF Compute, InputInv, Types, PlaceInv, Carries
<1>3. CASE CpuLeave(c)
  <2>1. current[c] \in Requests \union {Nobody} /\ DroppedByCpu(c) \subseteq Requests
    BY Dropped DEF InputInv, Types
  <2> QED BY <1>3, <2>1 DEF CpuLeave, DroppedByCpu
<1> QED BY <1>1, <1>2, <1>3 DEF CpuStep

LEMMA CpuKeepsLedger ==
  ASSUME InputInv, PlaceInv, Ledger, NEW c \in Cpu, CpuStep(c)
  PROVE  Ledger'
<1> PICK gone : gone = ({current[c]} \ {Nobody}) \union DroppedByCpu(c)
  OBVIOUS
<1>1. CASE UNCHANGED <<lease, reserved>>
  BY <1>1, LedgerUnchanged
<1>2. CASE current[c] \in Requests /\ Release(current[c])
  BY <1>2, LedgerReleases
<1>3. CASE gone \subseteq Requests /\ ReleaseAll(gone)
  BY <1>3, LedgerReleasesAll
<1> QED BY <1>1, <1>2, <1>3, CpuCredit

(* The worker gives back the credit of the input in its hands, and of what *)
(* goes away with it.                                                      *)
Releases(c, r) ==
  \/ r = current[c] /\ (Compute(c) \/ CpuLeave(c))
  \/ r \in DroppedByCpu(c) /\ CpuLeave(c)

LEMMA CpuReleases ==
  ASSUME InputInv, PlaceInv, Ledger, NEW c \in Cpu, CpuStep(c), NEW r \in Requests, Releases(c, r)
  PROVE  ~ Waiting(r) /\ ~ Queued(r)' /\ ~ Computing(r)' /\ lease'[r] = 0
<1>0. /\ current \in [Cpu -> Requests \union {Nobody}] /\ lease \in [Requests -> Nat]
      /\ r # Nobody
  BY Constants DEF InputInv, Types, Ledger
<1>1. CASE r = current[c] /\ (Compute(c) \/ CpuLeave(c))
  <2>1. Computing(r) /\ CpuOwner(r) = c
    BY <1>0, <1>1 DEF Computing, PlaceInv, Carries
  <2>2. ~ Waiting(r) /\ ~ Queued(r)
    BY <2>1 DEF PlaceInv, Once
  <2>3. ~ Queued(r)'
    BY <2>2, CpuQueued
  <2>4. current' = [current EXCEPT ![c] = Nobody]
    BY <1>1 DEF Compute, CpuLeave
  <2>5. ~ Computing(r)'
    BY <1>0, <2>1, <2>4 DEF Computing, PlaceInv, Carries
  <2>6. lease'[r] = 0
    BY <1>0, <1>1 DEF Compute, CpuLeave, Release, ReleaseAll
  <2> QED BY <2>2, <2>3, <2>5, <2>6
<1>2. CASE r \in DroppedByCpu(c) /\ CpuLeave(c)
  <2>1. Queued(r) /\ ~ Waiting(r) /\ ~ Computing(r) /\ CpuOwner(r) = c /\ IoOwner(r) \in IoLeft
    BY <1>2, Dropped
  <2>2. ASSUME NEW v \in Io, NEW d \in Cpu, NEW i \in 1 .. Len(ring'[v][d]), ring'[v][d][i] = r
        PROVE  FALSE
    <3>1. ring' = [w \in Io |-> IF w \in IoLeft THEN [ring[w] EXCEPT ![c] = <<>>] ELSE ring[w]]
      BY <1>2 DEF CpuLeave
    <3>2. ring'[v][d] = IF v \in IoLeft /\ d = c THEN <<>> ELSE ring[v][d]
      BY <3>1 DEF InputInv, Types
    <3>3. CASE v \in IoLeft /\ d = c
      BY <2>2, <3>2, <3>3
    <3>4. CASE ~ (v \in IoLeft /\ d = c)
      <4>1. IoOwner(r) = v /\ CpuOwner(r) = d
        BY <2>2, <3>2, <3>4, Constants DEF PlaceInv, Rings, Ordered
      <4> QED BY <2>1, <3>4, <4>1
    <3> QED BY <3>3, <3>4
  <2>3. \A d \in Cpu : current'[d] = current[d] \/ current'[d] = Nobody
    BY <1>0, <1>2 DEF CpuLeave
  <2>4. ~ Computing(r)'
    BY <1>0, <2>1, <2>3 DEF Computing
  <2>5. lease'[r] = 0
    BY <1>0, <1>2 DEF CpuLeave, ReleaseAll, DroppedByCpu
  <2> QED BY <2>1, <2>2, <2>4, <2>5 DEF Queued
<1> QED BY <1>1, <1>2 DEF Releases

LEMMA CpuSpares ==
  ASSUME InputInv, PlaceInv, Ledger, NEW c \in Cpu, CpuStep(c), NEW r \in Requests, ~ Releases(c, r)
  PROVE  /\ lease'[r] = lease[r]
         /\ Queued(r) \/ Computing(r) => Queued(r)' \/ Computing(r)'
<1>0. /\ current \in [Cpu -> Requests \union {Nobody}] /\ lease \in [Requests -> Nat]
      /\ r # Nobody /\ r # End
  BY Constants DEF InputInv, Types, Ledger
<1>1. lease'[r] = lease[r]
  BY <1>0, CpuCredit DEF Releases, Release, ReleaseAll
<1>2. ASSUME Queued(r) PROVE Queued(r)' \/ Computing(r)'
  <2>1. ASSUME CpuLeave(c), NEW v \in IoLeft, NEW i \in 1 .. Len(ring[v][c]), ring[v][c][i] = r
        PROVE  FALSE
    <3>1. ring[v][c] \in Seq(Requests \union {End})
      BY <2>1 DEF InputInv, Types, IoLeft
    <3>2. r \in DroppedByCpu(c)
      BY <1>0, <2>1, <3>1 DEF DroppedByCpu, Range
    <3> QED BY <2>1, <3>2 DEF Releases
  <2> QED BY <1>2, <2>1, CpuQueuedStays DEF Computing
<1>3. ASSUME Computing(r) PROVE Computing(r)'
  <2>1. PICK d \in Cpu : current[d] = r
    BY <1>3 DEF Computing
  <2>2. d # c => current'[d] = r
    BY <2>1, CpuFacts
  <2>3. d = c => current'[c] = r
    BY <1>0, <2>1, Hands DEF Releases
  <2> QED BY <2>2, <2>3 DEF Computing
<1> QED BY <1>1, <1>2, <1>3

LEMMA CpuKeepsCredit ==
  ASSUME InputInv, PlaceInv, Ledger, Leases, Cover, NEW c \in Cpu, CpuStep(c)
  PROVE  Leases' /\ Cover'
<1>0. UNCHANGED <<batch, ioPc, todo, read>> /\ lease \in [Requests -> Nat] /\ ~ (0 > 0)
  BY CpuFacts DEF Ledger
<1>1. \A v \in Io : Now(v)' = Now(v)
  BY <1>0 DEF Now
<1>2. ASSUME NEW r \in Requests, lease'[r] > 0 PROVE InHand(r)'
  <2>1. ~ Releases(c, r)
    BY <1>0, <1>2, CpuReleases
  <2>2. lease'[r] = lease[r] /\ (Queued(r) \/ Computing(r) => Queued(r)' \/ Computing(r)')
    BY <2>1, CpuSpares
  <2>3. InHand(r)
    BY <1>2, <2>2 DEF Leases
  <2>4. CASE \E v \in Io : ioPc[v] \in Holding /\ r = Now(v)
    BY <1>0, <1>1, <2>4 DEF InHand
  <2> QED BY <2>2, <2>3, <2>4 DEF InHand
<1>3. ASSUME NEW r \in Requests, ~ Releases(c, r), Covered(r) PROVE Covered(r)'
  BY <1>0, <1>3, CpuSpares DEF Covered, Needs
<1>4. ASSUME NEW v \in Io, ioPc'[v] \in Covering PROVE Covered(Now(v))'
  <2> PICK n : n = Now(v)
    OBVIOUS
  <2>1. ioPc[v] \in Covering /\ n \in Requests /\ n \in todo[v] /\ Covered(n)
    BY <1>0, <1>4, OwnRequest DEF Covering, Working, Cover
  <2>2. ~ Releases(c, n)
    BY <2>1, CpuReleases DEF Waiting
  <2>3. Covered(n)'
    BY <1>3, <2>1, <2>2
  <2> QED BY <1>1, <2>3 DEF Covered, Needs
<1>5. ASSUME NEW r \in Requests, Queued(r)' \/ Computing(r)' PROVE Covered(r)'
  <2>1. ~ Releases(c, r)
    BY <1>5, CpuReleases
  <2>2. Queued(r) \/ Computing(r)
    BY <1>5, CpuMoves
  <2> QED BY <1>3, <2>1, <2>2 DEF Cover
<1> QED BY <1>2, <1>4, <1>5 DEF Leases, Cover

-----------------------------------------------------------------------------
(* The ledger of the whole run.                                            *)

LEMMA InitLedger == Init => LedgerInv
<1> SUFFICES ASSUME Init PROVE LedgerInv
  OBVIOUS
<1>1. \A r \in Requests : 1 .. lease[r] = {} /\ lease[r] = 0
  BY DEF Init
<1>2. Credits(lease, Requests) = {}
  BY <1>1 DEF Credits
<1>3. IsFiniteSet(Credits(lease, Requests)) /\ Cardinality(Credits(lease, Requests)) = 0
  BY <1>2, FS_EmptySet, Zenon
<1>4. reserved = 0 /\ reserved <= Budget /\ lease \in [Requests -> Nat]
  BY PipelineAssumption DEF Init
<1>5. Ledger
  BY <1>3, <1>4 DEF Ledger
<1>6. Leases
  BY <1>1 DEF Leases
<1>7. \A r \in Requests : ~ Queued(r) /\ ~ Computing(r)
  BY Constants DEF Init, Queued, Computing
<1>8. Cover
  BY <1>7 DEF Init, Cover, Covering
<1> QED BY <1>5, <1>6, <1>8 DEF LedgerInv

LEMMA LedgerKept ==
  ASSUME LedgerInv,
         UNCHANGED <<batch, ioPc, todo, read, ring, current, lease, reserved>>
  PROVE  LedgerInv'
<1>1. \A w \in Io : Now(w)' = Now(w)
  BY DEF Now
<1>2. \A r : (InHand(r)' <=> InHand(r)) /\ (Queued(r)' <=> Queued(r)) /\ (Computing(r)' <=> Computing(r))
  BY <1>1 DEF InHand, Queued, Computing
<1>3. Ledger'
  BY LedgerUnchanged DEF LedgerInv
<1>4. Leases'
  BY <1>2 DEF LedgerInv, Leases
<1>5. ASSUME NEW w \in Io, ioPc'[w] \in Covering PROVE Covered(Now(w))'
  BY <1>1, <1>5 DEF LedgerInv, Cover, Covered, Needs
<1>6. ASSUME NEW r \in Requests, Queued(r)' \/ Computing(r)' PROVE Covered(r)'
  BY <1>2, <1>6 DEF LedgerInv, Cover, Covered, Needs
<1>7. Cover'
  BY <1>5, <1>6 DEF Cover
<1> QED BY <1>3, <1>4, <1>7 DEF LedgerInv

(* Before the workers are spawned nobody holds credit.                     *)
LEMMA NothingBefore ==
  ASSUME InputInv, LedgerInv, \A w \in Io : ioPc[w] = "unspawned"
  PROVE  \A r \in Requests : lease[r] = 0 /\ ~ Queued(r) /\ ~ Computing(r)
<1>0. \A w \in Io, c \in Cpu : ring[w][c] = <<>> /\ current[c] = Nobody
  BY DEF InputInv, Before
<1>1. \A r \in Requests : ~ Queued(r) /\ ~ Computing(r)
  BY <1>0, Constants DEF Queued, Computing
<1>2. \A r \in Requests : ~ InHand(r)
  BY <1>1 DEF InHand, Holding
<1>3. \A r \in Requests : lease[r] \in Nat /\ ~ (lease[r] > 0)
  BY <1>2 DEF LedgerInv, Ledger, Leases
<1> QED BY <1>1, <1>3

LEMMA SpawnLedger ==
  ASSUME InputInv, LedgerInv, Spawn
  PROVE  LedgerInv'
<1>1. /\ UNCHANGED <<ring, current, lease, reserved>>
      /\ \A w \in Io : ioPc'[w] \notin Covering
  BY DEF Spawn, Covering
<1>2. \A r \in Requests : lease[r] = 0 /\ ~ Queued(r) /\ ~ Computing(r)
  BY NothingBefore DEF Spawn
<1>3. Ledger'
  BY <1>1, LedgerUnchanged DEF LedgerInv
<1>4. Leases'
  BY <1>1, <1>2 DEF Leases
<1>5. Cover'
  BY <1>1, <1>2 DEF Cover, Queued, Computing
<1> QED BY <1>3, <1>4, <1>5 DEF LedgerInv

LEMMA LedgerInductive ==
  InputInv /\ PlaceInv /\ LedgerInv /\ [Next]_vars => LedgerInv'
<1> SUFFICES ASSUME InputInv, PlaceInv, LedgerInv, [Next]_vars PROVE LedgerInv'
  OBVIOUS
<1>1. CASE UNCHANGED vars \/ Environment \/ Refuse \/ Return
  <2>1. UNCHANGED <<batch, ioPc, todo, read, ring, current, lease, reserved>>
    BY <1>1 DEF vars, ioVars, cpuVars, Environment, Cancel, Rewrite, Replace, Refuse, Return
  <2> QED BY <2>1, LedgerKept
<1>2. CASE Spawn
  BY <1>2, SpawnLedger
<1>3. ASSUME NEW w \in Io, IoStep(w) PROVE LedgerInv'
  BY <1>3, IoKeepsLedger, IoKeepsLeases, IoKeepsCover DEF LedgerInv
<1>4. ASSUME NEW c \in Cpu, CpuStep(c) PROVE LedgerInv'
  BY <1>4, CpuKeepsLedger, CpuKeepsCredit DEF LedgerInv
<1> QED BY <1>1, <1>2, <1>3, <1>4 DEF Next, Main, Returned

(* Inputs, panics, places and credit together. *)
RunInv == InputInv /\ PanicInv /\ PlaceInv /\ LedgerInv

(* The files, what is read of them, where each request is and what memory  *)
(* it holds agree at every step of a run.                                  *)
THEOREM RunInvariance == Spec => []RunInv
<1>1. Init => RunInv
  BY InitInputs, InitPanic, InitPlaces, InitLedger DEF RunInv
<1>2. RunInv /\ [Next]_vars => RunInv'
  BY InputInductive, PanicInductive, PlaceInductive, LedgerInductive DEF RunInv
<1> QED BY <1>1, <1>2, PTL DEF Spec

(* MemoryBounded: the ledger's counter is what the requests hold, never    *)
(* more than the budget, and covers every buffer in memory.                *)
THEOREM MemoryIsBounded == Spec => []MemoryBounded
<1>1. ASSUME RunInv, NEW r \in Buffered PROVE lease[r] >= Needs(r, read[r].before)
  <2>1. CASE r \in InRing
    <3>1. PICK w \in Io, c \in Cpu : r \in Range(ring[w][c]) \ {End}
      BY <2>1 DEF InRing
    <3>2. ring[w][c] \in Seq(Requests \union {End})
      BY <1>1 DEF RunInv, InputInv, Types
    <3>3. r \in Requests /\ Queued(r)
      BY <3>1, <3>2 DEF Range, Queued
    <3> QED BY <1>1, <3>3 DEF RunInv, LedgerInv, Cover, Covered
  <2>2. CASE r \in InCpu
    <3>1. r \in Requests /\ Computing(r)
      BY <1>1, <2>2 DEF InCpu, Range, RunInv, InputInv, Types, Computing
    <3> QED BY <1>1, <3>1 DEF RunInv, LedgerInv, Cover, Covered
  <2>3. ASSUME NEW w \in Io, r = Now(w), ioPc[w] \in {"read", "verify", "confirm", "send", "push"}
        PROVE  lease[r] >= Needs(r, read[r].before)
    BY <1>1, <2>3 DEF RunInv, LedgerInv, Cover, Covered, Covering
  <2> QED BY <2>1, <2>2, <2>3 DEF Buffered
<1>2. RunInv => MemoryBounded
  BY <1>1 DEF RunInv, LedgerInv, Ledger, MemoryBounded
<1> QED BY <1>2, RunInvariance, PTL

(* CreditsReturned: when the call returns, for whatever reason, no request *)
(* holds credit and no input is left in a ring.                            *)
THEOREM CreditsComeBack == Spec => []CreditsReturned
<1>1. ASSUME RunInv, result # "none" PROVE reserved = 0 /\ InRing = {}
  <2>1. \A w \in Io, c \in Cpu : ring[w][c] = <<>> /\ current[c] = Nobody
    <3>1. CASE AllUnspawned
      BY <1>1, <3>1 DEF RunInv, InputInv, Before, AllUnspawned
    <3>2. CASE IoLeft = Io /\ CpuLeft = Cpu
      BY <1>1, <3>2 DEF RunInv, PlaceInv, Rings, Emptied, Carries, CpuLeft
    <3> QED BY <1>1, <3>1, <3>2 DEF RunInv, PanicInv
  <2>2. \A w \in Io : ioPc[w] \notin Holding
    BY <1>1, NoStepAfter DEF RunInv, Holding
  <2>3. \A r \in Requests : ~ InHand(r)
    BY <2>1, <2>2, Constants DEF InHand, Queued, Computing
  <2>4. \A r \in Requests : lease[r] = 0
    <3>1. \A r \in Requests : lease[r] \in Nat /\ ~ (lease[r] > 0)
      BY <1>1, <2>3 DEF RunInv, LedgerInv, Ledger, Leases
    <3> QED BY <3>1
  <2>5. Credits(lease, Requests) = {}
    BY <2>4 DEF Credits
  <2>6. reserved = 0
    BY <1>1, <2>5, FS_EmptySet DEF RunInv, LedgerInv, Ledger
  <2>7. InRing = {}
    BY <2>1 DEF InRing, Range
  <2> QED BY <2>6, <2>7
<1>2. RunInv => CreditsReturned
  BY <1>1 DEF CreditsReturned
<1> QED BY <1>2, RunInvariance, PTL
=============================================================================
