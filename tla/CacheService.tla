---------------------------- MODULE CacheService ----------------------------
(***************************************************************************)
(* The runtime cache I/O service: client threads reserve transfer credit,  *)
(* send a command through a bounded queue to the one thread that owns the  *)
(* cache, and wait for its answer on a rendezvous channel. Every wait of a *)
(* client polls its cancellation token; the owner thread may panic, and    *)
(* the service may be shut down while commands are under way.              *)
(*                                                                         *)
(* A call is one use of a client. Probes, metadata probes and probes with  *)
(* a legacy file follow one protocol and are one kind here. What the cache *)
(* holds is ArtifactStore's subject: here it may answer a command in every *)
(* way it can, and what matters is where the memory of the command goes    *)
(* and whether the client hears of it.                                     *)
(***************************************************************************)
EXTENDS Integers, Sequences, FiniteSetsExt, Functions

CONSTANTS
  Calls,        \* the calls of all clients
  After,        \* per call: the calls its client makes before it
  Kind,         \* "probe", "persist" (if absent), "replace" or "snapshot"
  Cost,         \* credits of each call: a probe asks for the whole capacity
  Capacity,     \* max_in_flight_transfer_bytes
  QueueCapacity \* commands the queue holds

Kinds == {"probe", "persist", "replace", "snapshot"}

Stop == "stop"
Idle == "idle"

ASSUME ServiceAssumption ==
  /\ Calls \cap {Stop, Idle} = {}
  /\ After \in [Calls -> SUBSET Calls]
  /\ Kind \in [Calls -> Kinds]
  /\ Cost \in [Calls -> 0 .. Capacity]
  /\ \A c \in Calls : Kind[c] = "snapshot" => Cost[c] = 0
  /\ {Capacity, QueueCapacity} \subseteq Nat \ {0}

VARIABLES
  pc,            \* per call: where its client is
  outcome,       \* per call: what the client was answered
  lease,         \* per call: credits held by its command, payload or hit
  reserved,      \* the ledger counter
  cancelled,     \* calls whose token is cancelled
  queue,         \* the command channel
  worker, job, answer,   \* the owner thread, its command and what it answers
  service        \* the service handle: running, stopping, joining, joined

client == <<pc, outcome>>
credit == <<lease, reserved>>
owner  == <<worker, job, answer>>
vars == <<client, credit, cancelled, queue, owner, service>>

Absent == "none"

Init ==
  /\ pc = [c \in Calls |-> "new"] /\ outcome = [c \in Calls |-> Absent]
  /\ lease = [c \in Calls |-> 0] /\ reserved = 0
  /\ cancelled = {}
  /\ queue = <<>> /\ worker = "receive" /\ job = Idle /\ answer = Absent
  /\ service = "running"

-----------------------------------------------------------------------------
(* Clients. *)

Goto(c, at) == pc' = [pc EXCEPT ![c] = at]

Release(c) ==
  /\ lease' = [lease EXCEPT ![c] = 0]
  /\ reserved' = reserved - lease[c]

(* The credits the calls cs hold under the leases l, one by one.           *)
Credits(l, cs) == UNION { {c} \X (1 .. l[c]) : c \in cs }

ReleaseAll(cs) ==
  /\ lease' = [c \in Calls |-> IF c \in cs THEN 0 ELSE lease[c]]
  /\ reserved' = reserved - Cardinality(Credits(lease, cs))

(* The call ends on the client's side. *)
Answered(c, result) ==
  /\ Goto(c, "done")
  /\ outcome' = [outcome EXCEPT ![c] = result]

Cancel(c) ==
  /\ pc[c] \notin {"new", "done"} /\ c \notin cancelled
  /\ cancelled' = cancelled \union {c}
  /\ UNCHANGED <<client, credit, queue, owner, service>>

Begin(c) ==
  /\ pc[c] = "new" /\ \A d \in After[c] : pc[d] = "done"
  /\ Goto(c, IF Kind[c] = "snapshot" THEN "send" ELSE "reserve")
  /\ UNCHANGED <<outcome, credit, cancelled, queue, owner, service>>

(* reserve_cache_credit: polled until the credit fits. *)
Reserve(c) ==
  /\ pc[c] = "reserve"
  /\ reserved + Cost[c] <= Capacity
  /\ lease' = [lease EXCEPT ![c] = Cost[c]]
  /\ reserved' = reserved + Cost[c]
  /\ Goto(c, "send")
  /\ UNCHANGED <<outcome, cancelled, queue, owner, service>>

(* The serializer of a persist fails or writes another length. *)
EncodeFails(c) ==
  /\ pc[c] = "send" /\ Kind[c] \in {"persist", "replace"}
  /\ Answered(c, "error")
  /\ Release(c)
  /\ UNCHANGED <<cancelled, queue, owner, service>>

(* send_cache_command: polled until the queue has room. *)
Send(c) ==
  /\ pc[c] = "send" /\ worker # "exited"
  /\ Len(queue) < QueueCapacity
  /\ queue' = Append(queue, c)
  /\ Goto(c, "wait")
  /\ UNCHANGED <<outcome, credit, cancelled, owner, service>>

SendDisconnected(c) ==
  /\ pc[c] = "send" /\ worker = "exited"
  /\ Answered(c, "unavailable")
  /\ Release(c)
  /\ UNCHANGED <<cancelled, queue, owner, service>>

(* The token is polled in every wait. What the call still owns is dropped; *)
(* a command that was sent is the owner thread's to finish.                *)
GiveUp(c) ==
  /\ c \in cancelled /\ pc[c] \in {"reserve", "send", "wait"}
  /\ Answered(c, "cancelled")
  /\ IF pc[c] = "wait" THEN UNCHANGED credit ELSE Release(c)
  /\ UNCHANGED <<cancelled, queue, owner, service>>

(* wait_cache_response: the owner thread dropped the command. *)
WaitDisconnected(c) ==
  /\ pc[c] = "wait" /\ job # c /\ c \notin Range(queue)
  /\ Answered(c, "unavailable")
  /\ UNCHANGED <<credit, cancelled, queue, owner, service>>

(* The client is done with the bytes of its hit. *)
DropHit(c) ==
  /\ pc[c] = "holding"
  /\ Goto(c, "done")
  /\ Release(c)
  /\ UNCHANGED <<outcome, cancelled, queue, owner, service>>

-----------------------------------------------------------------------------
(* The owner thread. *)

Receive ==
  /\ worker = "receive" /\ queue # <<>> /\ Head(queue) # Stop
  /\ queue' = Tail(queue)
  /\ job' = Head(queue) /\ worker' = "work"
  /\ UNCHANGED <<client, credit, cancelled, answer, service>>

Answer(result) == worker' = "respond" /\ answer' = result /\ UNCHANGED job

WorkCancelledUnanswered ==
  /\ worker = "work" /\ job \in cancelled /\ Kind[job] # "snapshot"
  /\ worker' = "receive" /\ job' = Idle /\ UNCHANGED answer
  /\ Release(job)
  /\ UNCHANGED <<client, cancelled, queue, service>>

WorkCancelled ==
  /\ worker = "work" /\ job \in cancelled /\ Kind[job] # "snapshot"
  /\ Answer("cancelled")
  /\ Release(job)
  /\ UNCHANGED <<client, cancelled, queue, service>>

(* The command runs on a look at the token made before it was cancelled,   *)
(* or not at all cancelled. An answer without bytes is a miss here: a      *)
(* rejected artifact, a source that changed.                               *)
WorkProbe ==
  /\ worker = "work" /\ Kind[job] = "probe"
  /\ \/ Answer("hit") /\ UNCHANGED credit
     \/ Answer("missing") /\ Release(job)
     \/ Answer("error") /\ Release(job)
  /\ UNCHANGED <<client, cancelled, queue, service>>

(* The credit goes back with the answer. *)
WorkPersistHolding ==
  /\ worker = "work" /\ Kind[job] \in {"persist", "replace"}
  /\ Answer("stored")
  /\ UNCHANGED <<client, credit, cancelled, queue, service>>

(* The payload and its credit are gone before the answer is published.     *)
WorkPersist ==
  /\ worker = "work" /\ Kind[job] \in {"persist", "replace"}
  /\ \/ Answer("stored") \/ Answer("error")
     \/ Kind[job] = "persist" /\ Answer("present")
  /\ Release(job)
  /\ UNCHANGED <<client, cancelled, queue, service>>

WorkSnapshot ==
  /\ worker = "work" /\ Kind[job] = "snapshot"
  /\ Answer("snapshot")
  /\ UNCHANGED <<client, credit, cancelled, queue, service>>

(* The rendezvous: the client takes the answer, and with a hit its credit. *)
Respond ==
  /\ worker = "respond" /\ pc[job] = "wait"
  /\ outcome' = [outcome EXCEPT ![job] = answer]
  /\ Goto(job, IF answer = "hit" THEN "holding" ELSE "done")
  /\ worker' = "receive" /\ job' = Idle /\ answer' = Absent
  /\ UNCHANGED <<credit, cancelled, queue, service>>

DiscardKeepingCredit ==
  /\ worker = "respond" /\ pc[job] # "wait"
  /\ worker' = "receive" /\ job' = Idle /\ answer' = Absent
  /\ UNCHANGED <<client, credit, cancelled, queue, service>>

(* The client has gone: the answer is dropped. *)
Discard ==
  /\ worker = "respond" /\ pc[job] # "wait"
  /\ Release(job)
  /\ worker' = "receive" /\ job' = Idle /\ answer' = Absent
  /\ UNCHANGED <<client, cancelled, queue, service>>

WorkerPanicsKeepingJob ==
  /\ worker = "work"
  /\ worker' = "exited" /\ queue' = <<>> /\ job' = Idle /\ answer' = Absent
  /\ ReleaseAll(Range(queue) \ {Stop})
  /\ UNCHANGED <<client, cancelled, service>>

Left == Range(queue) \ {Stop}

(* The thread ends, and the commands left in the queue are dropped. *)
WorkerExits ==
  /\ worker = "receive" /\ queue # <<>> /\ Head(queue) = Stop /\ service = "stopping"
  /\ worker' = "exited" /\ queue' = <<>>
  /\ ReleaseAll(Left)
  /\ service' = "joining"
  /\ UNCHANGED <<client, cancelled, job, answer>>

WorkerPanics ==
  /\ worker = "work"
  /\ worker' = "exited" /\ queue' = <<>> /\ job' = Idle /\ answer' = Absent
  /\ ReleaseAll(Left \union {job})
  /\ UNCHANGED <<client, cancelled, service>>

-----------------------------------------------------------------------------
(* The holder of the service shuts it down: shutdown_inner. *)

SendStop ==
  /\ service = "running" /\ worker # "exited" /\ Len(queue) < QueueCapacity
  /\ queue' = Append(queue, Stop)
  /\ service' = "stopping"
  /\ UNCHANGED <<client, credit, cancelled, owner>>

StopDisconnectedAtSend ==
  /\ service = "running" /\ worker = "exited"
  /\ service' = "joining"
  /\ UNCHANGED <<client, credit, cancelled, queue, owner>>

StopDisconnected ==
  /\ service \in {"running", "stopping"} /\ worker = "exited"
  /\ service' = "joining"
  /\ UNCHANGED <<client, credit, cancelled, queue, owner>>

Join ==
  /\ service = "joining"
  /\ service' = "joined"
  /\ UNCHANGED <<client, credit, cancelled, queue, owner>>

-----------------------------------------------------------------------------
ClientStep(c) ==
  \/ Begin(c) \/ Reserve(c) \/ EncodeFails(c) \/ Send(c) \/ SendDisconnected(c)
  \/ GiveUp(c) \/ WaitDisconnected(c) \/ DropHit(c)

WorkerStep ==
  \/ Receive \/ WorkCancelled \/ WorkProbe \/ WorkPersist \/ WorkSnapshot
  \/ Respond \/ Discard \/ WorkerExits \/ WorkerPanics

ServiceStep == SendStop \/ StopDisconnected \/ Join

Finished ==
  /\ service = "joined" /\ \A c \in Calls : pc[c] = "done"
  /\ UNCHANGED vars

Next ==
  \/ \E c \in Calls : ClientStep(c) \/ Cancel(c)
  \/ WorkerStep
  \/ ServiceStep
  \/ Finished

Spec == Init /\ [][Next]_vars

(* Threads are scheduled; nobody has to cancel or to shut down.            *)
FairSpec ==
  /\ Spec
  /\ \A c \in Calls : WF_vars(ClientStep(c))
  /\ WF_vars(WorkerStep)
  /\ WF_vars(StopDisconnected) /\ WF_vars(Join)

-----------------------------------------------------------------------------
(* Properties. *)

(* Credit is never lost: what the ledger counts is what commands, payloads  *)
(* and hits in somebody's hands hold, also after a client gave up waiting,  *)
(* a panic, or a shutdown with commands still queued.                       *)
InHand(c) == pc[c] \in {"send", "holding"} \/ c \in Range(queue) \/ job = c

CreditsOwned ==
  /\ reserved = Cardinality(Credits(lease, Calls))
  /\ \A c \in Calls : lease[c] > 0 => InHand(c)

(* A client that hears the result of its call, other than a hit, finds the  *)
(* memory of the call already given back.                                   *)
ReleasedBeforeAnswer ==
  \A c \in Calls :
    outcome[c] \in {"missing", "present", "stored", "error", "snapshot"} => lease[c] = 0

(* A client is told that the owner thread is unavailable only when it has   *)
(* ended, by a stop or a panic. Every command the thread takes is answered, *)
(* one cancelled before its turn included: a response channel dropped       *)
(* without an answer would pass for the end of the service.                 *)
UnavailableOnceEnded == \A c \in Calls : outcome[c] = "unavailable" => worker = "exited"

(* Every call returns: no client waits forever for credit, for room in the  *)
(* queue, or for an answer that will not come.                              *)
CallsReturn == \A c \in Calls : <>(pc[c] = "done")

(* A shutdown whose stop command is in the queue ends, whatever the owner   *)
(* thread does.                                                             *)
ShutdownEnds == service = "stopping" ~> service = "joined"
=============================================================================
