----------------------------- MODULE WriterGate -----------------------------
(***************************************************************************)
(* The graph writers of the VS Code extension. Commands and the managed    *)
(* workspace service run finite graph builds and one watch child; a        *)
(* coordinator admits one of them at a time without a queue, and a watch   *)
(* child stays the writer from its spawn until its close event, however    *)
(* long it ignores signals.                                                *)
(*                                                                         *)
(* The extension host runs one callback at a time: an action is a callback *)
(* up to its next await, and the continuations of settled promises run     *)
(* before the next event. A call is one user command or one resume of a    *)
(* managed workspace; it reads shared state, awaits, and reads it again.   *)
(***************************************************************************)
EXTENDS Integers, Sequences, FiniteSets

CONSTANTS
  Calls,   \* the calls of a session
  Kind,    \* per call: what it is, below
  Target,  \* per call: the output directory it writes
  MaxCalls \* bound on the calls made in one session

(* build: an interactive build or update. label: a report-only mutation.    *)
(* rebuild: stop watching, build, watch again. start: start watching.       *)
(* disable: stop managing the workspace. resume: the managed workspace's    *)
(* refresh at activation, then continuous watch.                            *)
Kinds == {"build", "label", "rebuild", "start", "disable", "resume"}

ASSUME GateAssumption == Kind \in [Calls -> Kinds]

VARIABLES
  pc,         \* per call: where it is
  stage,      \* per call: which part of its work: stop, build, again, watch, retry
  joined,     \* per call: the event it awaits
  outcome,    \* per call: how its last own mutation ended
  stopped,    \* rebuilds that stopped a watch
  since,      \* per resume: the first generation that may serve its refresh
  owners,     \* per generation of the coordinator: its call and its work
  active,     \* the generation that owns the coordinator, or 0
  status,     \* per generation: its completion
  failures,   \* automaticFailures: targets whose automatic builds are paused
  cancelled,  \* calls whose cancellation token fired
  generation, \* the watch lifecycle's generation
  start,      \* of that generation: target, caller, startup promise, timers
  child,      \* watchProcess and watchGeneration, or 0
  ready,      \* watchReady
  watchStart, \* the startup under way, or 0
  phase,      \* the phase of the watch lifecycle
  exited,     \* lastExitedGeneration
  released,   \* watch generations whose release was settled
  alive,      \* processes spawned and not closed
  disposed,   \* the extension is deactivated
  revoked,    \* calls whose lifecycle generation is no longer current
  enabled     \* the workspace is managed

caller == <<pc, stage, joined, outcome, stopped, since>>
gate == <<owners, active, status, failures>>
lifecycle == <<child, ready, phase>>
startup == <<generation, start, watchStart>>
ended == <<exited, released>>
managed == <<revoked, enabled>>
vars == <<caller, gate, cancelled, startup, lifecycle, ended, alive, disposed, managed>>

Nothing == [what |-> "nothing", of |-> 0]
On(what, n) == [what |-> what, of |-> n]
Finite(g) == [what |-> "finite", of |-> g]
Watch(n) == [what |-> "watch", of |-> n]

NoStart == [target |-> Nothing, by |-> Nothing, promise |-> "failed", deadline |-> "off",
            blamed |-> FALSE]

Works(c) == IF stage[c] \in {"watch", "retry"} THEN "watch"
            ELSE IF Kind[c] = "label" THEN "report" ELSE "build"
FirstStage(c) == CASE Kind[c] \in {"rebuild", "disable"} -> "stop"
                   [] Kind[c] = "start" -> "watch"
                   [] OTHER -> "build"

Init ==
  /\ pc = [c \in Calls |-> "new"] /\ stage = [c \in Calls |-> FirstStage(c)]
  /\ joined = [c \in Calls |-> Nothing] /\ outcome = [c \in Calls |-> "none"]
  /\ stopped = {} /\ since = [c \in Calls |-> 0]
  /\ owners = <<>> /\ active = 0 /\ status = <<>> /\ failures = {}
  /\ cancelled = {}
  /\ generation = 0 /\ start = NoStart /\ watchStart = 0
  /\ child = 0 /\ ready = FALSE /\ phase = "stopped"
  /\ exited = 0 /\ released = {}
  /\ alive = {}
  /\ disposed = FALSE
  /\ revoked = {} /\ enabled = TRUE

(***************************************************************************)
(* What callers read.                                                      *)
(***************************************************************************)

(* The generation the lifecycle calls active. *)
Tracked == IF phase = "stopped" THEN 0 ELSE generation

Watching == child # 0 /\ ready
WatchMutationActive == child # 0 \/ watchStart # 0
WatchesTarget(t) == Watching /\ phase = "ready" /\ start.target = t

BehindActiveWatch(c) ==
  /\ Works(c) # "watch" /\ WatchMutationActive /\ phase # "stopping"
  /\ disposed \/ active = 0

(* A live watch that the coordinator no longer owns is the writer. *)
BehindWatch(c) ==
  Works(c) # "watch" /\ WatchMutationActive /\ (disposed \/ active = 0)

Current(c) == ~disposed /\ c \notin revoked

Owns(c) == active # 0 /\ owners[active].call = c

Settled(j) ==
  CASE j.what = "generation" -> status[j.of] # "pending"
    [] j.what = "release"    -> j.of = 0 \/ j.of \in released
    [] j.what = "close"      -> j.of = 0 \/ Watch(j.of) \notin alive
    [] j.what = "start"      -> start.promise # "pending"
    [] OTHER                 -> TRUE

At(c, where) == pc' = [pc EXCEPT ![c] = where]
Awaits(c, where, j) == At(c, where) /\ joined' = [joined EXCEPT ![c] = j]
Forget(c) == joined' = [joined EXCEPT ![c] = Nothing]
Goes(c, next) == pc' = [pc EXCEPT ![c] = "ask"] /\ stage' = [stage EXCEPT ![c] = next]
Ends(c, how) == At(c, "settling") /\ outcome' = [outcome EXCEPT ![c] = how]

(***************************************************************************)
(* Asking for the coordinator: runMutation and startWatch.                 *)
(***************************************************************************)

GivesUpIfRevoked(c) == Kind[c] = "resume" /\ ~(Current(c) /\ enabled)

(* A resume checks that it is still current, that its target did not fail   *)
(* and, before watching, that nothing watches the target yet.               *)
GivesUp(c) ==
  /\ Kind[c] = "resume"
  /\ \/ ~(Current(c) /\ enabled)
     \/ stage[c] # "build" /\ Target[c] \in failures

HasWatch(c) ==
  /\ WatchesTarget(Target[c])
  /\ \/ Works(c) = "watch"
     \/ Kind[c] = "resume" /\ stage[c] = "build"

Begin(c) ==
  /\ pc[c] = "new" /\ Cardinality({k \in Calls : pc[k] # "new"}) < MaxCalls
  /\ At(c, "ask")
  /\ since' = IF Kind[c] # "resume" THEN since
              ELSE [since EXCEPT ![c] = IF active = 0 THEN Len(owners) + 1 ELSE active]
  /\ revoked' = IF Kind[c] = "disable" THEN revoked \cup {k \in Calls : pc[k] # "new"} ELSE revoked
  /\ UNCHANGED <<stage, joined, outcome, stopped, gate, cancelled, startup, lifecycle, ended,
                 alive, disposed, enabled>>

Asks(c) == pc[c] = "ask" /\ stage[c] # "stop"

Return(c) ==
  /\ Asks(c)
  /\ GivesUp(c) \/ HasWatch(c)
  /\ At(c, "returned")
  /\ UNCHANGED <<stage, joined, outcome, stopped, since, gate, cancelled, startup, lifecycle,
                 ended, alive, disposed, managed>>

Requests(c) == Asks(c) /\ ~GivesUp(c) /\ ~HasWatch(c)

Suppressed(c) == Kind[c] = "resume" /\ Works(c) = "build" /\ Target[c] \in failures

Refuse(c) ==
  /\ Requests(c) /\ ~BehindWatch(c)
  /\ disposed \/ Suppressed(c)
  /\ At(c, "returned")
  /\ UNCHANGED <<stage, joined, outcome, stopped, since, gate, cancelled, startup, lifecycle,
                 ended, alive, disposed, managed>>

(* Only a resume and the callers of one watch start wait for the writer;    *)
(* the others report it and return. A resume does not wait for a second     *)
(* writer of its refresh.                                                   *)
WaitsFor(c, j) ==
  \/ Kind[c] = "resume" /\ stage[c] # "again"
  \/ /\ Works(c) = "watch"
     /\ owners[j.of].work = "watch" /\ Target[owners[j.of].call] = Target[c]

FindBusy(c) ==
  /\ Requests(c)
  /\ \/ BehindWatch(c)
     \/ ~disposed /\ ~Suppressed(c) /\ active # 0
  /\ LET j == IF BehindWatch(c) THEN On("release", child) ELSE On("generation", active)
     IN IF WaitsFor(c, j) THEN Awaits(c, "joining", j)
        ELSE At(c, "returned") /\ UNCHANGED joined
  /\ UNCHANGED <<stage, outcome, stopped, since, gate, cancelled, startup, lifecycle, ended,
                 alive, disposed, managed>>

Admit(c) ==
  /\ Requests(c) /\ ~BehindWatch(c)
  /\ ~disposed /\ ~Suppressed(c) /\ active = 0
  /\ owners' = Append(owners, [call |-> c, work |-> Works(c)])
  /\ status' = Append(status, "pending")
  /\ active' = Len(owners) + 1
  /\ At(c, "admitted")
  /\ UNCHANGED <<stage, joined, outcome, stopped, since, failures, cancelled, startup, lifecycle, ended,
                 alive, disposed, managed>>

ServesAnyWork(g, c) == Target[owners[g].call] = Target[c] /\ status[g] = "completed"

(* busyCompletionSatisfiesStructuralTarget *)
Serves(g, c) ==
  /\ owners[g].work = "build" /\ Target[owners[g].call] = Target[c]
  /\ status[g] = "completed"

(* The event a busy caller joined has happened. A start whose own target    *)
(* was being started has its answer; a resume asks once more.               *)
Joined(c) ==
  /\ pc[c] = "joining" /\ Settled(joined[c])
  /\ LET j == joined[c]
         served == j.what = "generation" /\ Serves(j.of, c)
         sameStart == owners[j.of].work = "watch" /\ Target[owners[j.of].call] = Target[c]
     IN IF Works(c) # "watch"
        THEN Goes(c, IF served THEN "watch" ELSE "again")
        ELSE IF stage[c] = "watch" /\ Kind[c] = "resume" /\ ~sameStart
        THEN Goes(c, "retry")
        ELSE At(c, "returned") /\ UNCHANGED stage
  /\ Forget(c)
  /\ UNCHANGED <<outcome, stopped, since, gate, cancelled, startup, lifecycle, ended,
                 alive, disposed, managed>>

(***************************************************************************)
(* A finite mutation: the child is spawned unless the extension is gone,   *)
(* and owned until it closes and the graph it published was loaded.        *)
(***************************************************************************)
Stopping(c) == disposed \/ c \in cancelled

Execute(c) ==
  /\ pc[c] = "admitted" /\ Works(c) # "watch"
  /\ \/ ~disposed /\ alive' = alive \cup {Finite(active)} /\ At(c, "running")
        /\ UNCHANGED outcome
     \/ UNCHANGED alive /\ Ends(c, IF disposed THEN "cancelled" ELSE "failed")
  /\ UNCHANGED <<stage, joined, stopped, since, gate, cancelled, startup, lifecycle, ended,
                 disposed, managed>>

FiniteCloses(c) ==
  /\ pc[c] = "running"
  /\ alive' = alive \ {Finite(active)}
  /\ \/ Ends(c, IF Stopping(c) THEN "cancelled" ELSE "failed")
     \/ ~Stopping(c) /\ At(c, "finishing") /\ UNCHANGED outcome
  /\ UNCHANGED <<stage, joined, stopped, since, gate, cancelled, startup, lifecycle, ended,
                 disposed, managed>>

(* persistBuildSummary and afterSuccess: the graph is loaded into the UI. *)
Finish(c) ==
  /\ pc[c] = "finishing"
  /\ \E how \in {"failed", IF Stopping(c) THEN "cancelled" ELSE "completed"} : Ends(c, how)
  /\ UNCHANGED <<stage, joined, stopped, since, gate, cancelled, startup, lifecycle, ended,
                 alive, disposed, managed>>

(***************************************************************************)
(* The end of an owned mutation. Ownership is given up one microtask after *)
(* the failure latch changed, and joiners hear of it only then.            *)
(***************************************************************************)
Latched(c) ==
  IF Works(c) # "build" THEN failures
  ELSE CASE outcome[c] = "completed" -> failures \ {Target[c]}
         [] outcome[c] = "failed"    -> failures \cup {Target[c]}
         [] OTHER                    -> failures

Settle(c) ==
  /\ pc[c] = "settling"
  /\ failures' = Latched(c)
  /\ cancelled' = cancelled \ {c}
  /\ At(c, "releasing") /\ Forget(c)
  /\ UNCHANGED <<stage, outcome, stopped, since, owners, active, status, startup, lifecycle,
                 ended, alive, disposed, managed>>

Release(c) ==
  /\ pc[c] = "releasing"
  /\ active' = 0
  /\ status' = [status EXCEPT ![active] =
                  IF outcome[c] = "completed" THEN "completed" ELSE "failed"]
  /\ At(c, "told")
  /\ UNCHANGED <<stage, joined, outcome, stopped, since, owners, failures, cancelled, startup,
                 lifecycle, ended, alive, disposed, managed>>

(* The owner's own continuation. A failed mutation throws into it. *)
Told(c) ==
  /\ pc[c] = "told"
  /\ IF /\ Works(c) = "build" /\ outcome[c] = "completed"
        /\ Kind[c] = "resume" \/ c \in stopped
     THEN Goes(c, "watch")
     ELSE At(c, "returned") /\ UNCHANGED stage
  /\ outcome' = [outcome EXCEPT ![c] = "none"]
  /\ UNCHANGED <<joined, stopped, since, gate, cancelled, startup, lifecycle, ended, alive,
                 disposed, managed>>

(***************************************************************************)
(* The watch child.                                                        *)
(***************************************************************************)

(* requestWatchStop: one SIGTERM, and the child is no longer ready. *)
StopChild ==
  /\ phase' = IF child # 0 /\ Tracked = child THEN "stopping" ELSE phase
  /\ ready' = (ready /\ child = 0)
  /\ UNCHANGED child

(* The startup promise settles once, and its deadline is disposed. *)
SettleStart(how) ==
  [start EXCEPT !.promise = IF @ = "pending" THEN how ELSE @, !.deadline = "off"]

(* beginStart refuses unless the last child exited; spawn may throw. *)
Spawn(c) ==
  LET n == generation + 1
      new(promise, deadline) ==
        [target |-> Target[c], by |-> c, promise |-> promise, deadline |-> deadline,
         blamed |-> FALSE]
  IN \/ /\ phase = "stopped"
        /\ generation' = n /\ start' = new("pending", "readiness")
        /\ alive' = alive \cup {Watch(n)}
        /\ child' = n /\ ready' = FALSE /\ phase' = "starting" /\ watchStart' = n
        /\ Awaits(c, "starting", On("start", n))
        /\ UNCHANGED <<outcome, exited>>
     \/ /\ phase = "stopped"
        /\ generation' = n /\ start' = new("failed", "off")
        /\ exited' = n
        /\ Ends(c, "failed")
        /\ UNCHANGED <<joined, alive, lifecycle, watchStart>>
     \/ /\ phase # "stopped"
        /\ Ends(c, "failed")
        /\ UNCHANGED <<joined, startup, alive, lifecycle, exited>>

(* startWatchProcess, up to its first await. *)
StartWatchProcess(c) ==
  /\ pc[c] = "admitted" /\ Works(c) = "watch"
  /\ IF Stopping(c)
     THEN Ends(c, "cancelled") /\ UNCHANGED <<joined, startup, lifecycle, exited, alive>>
     ELSE IF watchStart # 0
     THEN Awaits(c, "starting", On("start", watchStart))
          /\ UNCHANGED <<outcome, startup, lifecycle, exited, alive>>
     ELSE IF child # 0
     THEN /\ Awaits(c, "replacing", On("close", child)) /\ StopChild
          /\ UNCHANGED <<outcome, startup, exited, alive>>
     ELSE Spawn(c)
  /\ UNCHANGED <<stage, stopped, since, gate, cancelled, released, disposed, managed>>

ReplaceUnchecked(c) ==
  /\ pc[c] = "replacing" /\ Settled(joined[c])
  /\ Spawn(c)
  /\ UNCHANGED <<stage, stopped, since, gate, cancelled, released, disposed, managed>>

(* The child it replaces closed; what was read before the wait is stale. *)
Replace(c) ==
  /\ pc[c] = "replacing" /\ Settled(joined[c])
  /\ IF Stopping(c)
     THEN Ends(c, "cancelled") /\ UNCHANGED <<joined, startup, lifecycle, exited, alive>>
     ELSE IF Watching
     THEN Ends(c, "completed") /\ UNCHANGED <<joined, startup, lifecycle, exited, alive>>
     ELSE IF watchStart # 0
     THEN Awaits(c, "starting", On("start", watchStart))
          /\ UNCHANGED <<outcome, startup, lifecycle, exited, alive>>
     ELSE Spawn(c)
  /\ UNCHANGED <<stage, stopped, since, gate, cancelled, released, disposed, managed>>

(* waitForProcessClose gives up after five seconds; the child stays. *)
ReplaceTimesOut(c) ==
  /\ pc[c] = "replacing" /\ ~Settled(joined[c])
  /\ Ends(c, "failed")
  /\ UNCHANGED <<stage, joined, stopped, since, gate, cancelled, startup, lifecycle, ended,
                 alive, disposed, managed>>

StartedKeepingStart(c) ==
  /\ pc[c] = "starting" /\ Settled(joined[c])
  /\ Ends(c, IF start.promise = "ready" THEN "completed" ELSE start.promise)
  /\ UNCHANGED <<stage, joined, stopped, since, gate, cancelled, startup, lifecycle, ended,
                 alive, disposed, managed>>

(* The startup promise is settled; the token is read once more. *)
Started(c) ==
  /\ pc[c] = "starting" /\ Settled(joined[c])
  /\ watchStart' = IF watchStart = joined[c].of THEN 0 ELSE watchStart
  /\ Ends(c, IF start.promise # "ready" THEN start.promise
             ELSE IF Stopping(c) THEN "cancelled" ELSE "completed")
  /\ UNCHANGED <<stage, joined, stopped, since, gate, cancelled, generation, start, lifecycle,
                 ended, alive, disposed, managed>>

(* The child prints that it is watching. *)
BecomesReady ==
  /\ child # 0 /\ ~ready /\ phase = "starting"
  /\ ready' = TRUE /\ phase' = "ready"
  /\ start' = SettleStart("ready")
  /\ UNCHANGED <<caller, gate, cancelled, generation, watchStart, child, ended, alive, disposed,
                 managed>>

Owned == child # 0 /\ child = generation

ReadinessTimeoutOnly ==
  LET blames == ~disposed /\ ~(Owned /\ phase = "stopping")
  IN /\ start.deadline = "readiness"
     /\ start' = [start EXCEPT !.deadline = IF blames THEN "grace" ELSE "off",
                              !.blamed = @ \/ blames]
     /\ IF blames /\ Owned THEN StopChild ELSE UNCHANGED lifecycle
     /\ UNCHANGED <<caller, gate, cancelled, generation, watchStart, ended, alive, disposed,
                    managed>>

ReadinessTimeout ==
  LET blames == ~disposed /\ ~(Owned /\ phase = "stopping")
  IN /\ start.deadline = "readiness"
     /\ start' = [start EXCEPT !.deadline = "grace", !.blamed = @ \/ blames]
     /\ IF blames /\ Owned THEN StopChild ELSE UNCHANGED lifecycle
     /\ UNCHANGED <<caller, gate, cancelled, generation, watchStart, ended, alive, disposed,
                    managed>>

Intentional == disposed \/ (Owned /\ phase = "stopping" /\ ~start.blamed)

StopGraceTimeoutReleasing ==
  /\ start.deadline = "grace"
  /\ start' = SettleStart("failed")
  /\ released' = released \cup {generation}
  /\ UNCHANGED <<caller, gate, cancelled, generation, watchStart, lifecycle, exited, alive,
                 disposed, managed>>

(* SIGKILL, and the callers are answered although the child is still there. *)
StopGraceTimeout ==
  /\ start.deadline = "grace"
  /\ start' = IF ~Owned THEN [start EXCEPT !.deadline = "off"]
              ELSE IF Intentional THEN SettleStart("cancelled")
              ELSE [SettleStart("failed") EXCEPT !.blamed = TRUE]
  /\ UNCHANGED <<caller, gate, cancelled, generation, watchStart, lifecycle, ended, alive,
                 disposed, managed>>

WatchCloses(n) ==
  /\ Watch(n) \in alive
  /\ alive' = alive \ {Watch(n)}
  /\ phase' = IF Tracked = n THEN "stopped" ELSE phase
  /\ exited' = IF Tracked = n /\ n > exited THEN n ELSE exited
  /\ child' = IF child = n THEN 0 ELSE child
  /\ ready' = (ready /\ child # n)
  /\ released' = released \cup {n}
  /\ start' = IF n = generation
              THEN SettleStart(IF Intentional THEN "cancelled" ELSE "failed")
              ELSE start
  /\ UNCHANGED <<caller, gate, cancelled, generation, watchStart, disposed, managed>>

(***************************************************************************)
(* Stopping the watch, from a rebuild or when management is disabled, and  *)
(* what a rebuild does next. The startup that stopWatchAndWait also awaits *)
(* is settled by the close of its child.                                   *)
(***************************************************************************)
StopAndWait(c) ==
  /\ pc[c] = "ask" /\ stage[c] = "stop"
  /\ Awaits(c, "stopping", On("close", child))
  /\ StopChild
  /\ UNCHANGED <<stage, outcome, stopped, since, gate, cancelled, startup, ended, alive,
                 disposed, managed>>

StopEnds(c) ==
  /\ pc[c] = "stopping" /\ Settled(joined[c])
  /\ IF Kind[c] = "rebuild"
     THEN /\ Goes(c, "build")
          /\ stopped' = IF joined[c].of # 0 THEN stopped \cup {c} ELSE stopped
          /\ UNCHANGED enabled
     ELSE /\ At(c, "returned") /\ enabled' = (enabled /\ ~Current(c))
          /\ UNCHANGED <<stage, stopped>>
  /\ Forget(c)
  /\ UNCHANGED <<outcome, since, gate, cancelled, startup, lifecycle, ended, alive, disposed,
                 revoked>>

StopTimesOut(c) ==
  /\ pc[c] = "stopping" /\ ~Settled(joined[c])
  /\ At(c, "returned") /\ Forget(c)
  /\ UNCHANGED <<stage, outcome, stopped, since, gate, cancelled, startup, lifecycle,
                 ended, alive, disposed, managed>>

(***************************************************************************)
(* The user: the stop command, the cancel button, closing the window.      *)
(***************************************************************************)
StopWatch ==
  /\ child # 0 /\ phase # "stopping"
  /\ StopChild
  /\ UNCHANGED <<caller, gate, cancelled, startup, ended, alive, disposed, managed>>

Cancel(c) ==
  /\ pc[c] \in {"running", "finishing", "replacing", "starting"}
  /\ ~disposed /\ c \notin cancelled
  /\ cancelled' = cancelled \cup {c}
  /\ IF Works(c) = "watch" THEN StopChild ELSE UNCHANGED lifecycle
  /\ UNCHANGED <<caller, gate, startup, ended, alive, disposed, managed>>

Dispose ==
  /\ ~disposed /\ disposed' = TRUE
  /\ cancelled' = cancelled \cup {c \in Calls : Owns(c)}
  /\ StopChild
  /\ UNCHANGED <<caller, gate, startup, ended, alive, managed>>

(***************************************************************************)
(* The system.                                                             *)
(***************************************************************************)
CallStep(c) ==
  \/ Return(c) \/ Refuse(c) \/ FindBusy(c) \/ Admit(c) \/ Joined(c)
  \/ Execute(c) \/ Finish(c) \/ Settle(c) \/ Release(c) \/ Told(c)
  \/ StartWatchProcess(c) \/ Replace(c) \/ Started(c)
  \/ StopAndWait(c) \/ StopEnds(c)

Timeout(c) == ReplaceTimesOut(c) \/ StopTimesOut(c)

Deadline == ReadinessTimeout \/ StopGraceTimeout

User == StopWatch \/ Dispose \/ \E c \in Calls : Cancel(c)

(* A promise reaction is queued: no event is handled before it ran. Only a  *)
(* resume that goes on to watch may load the graph first.                   *)
Queued(c) ==
  \/ /\ pc[c] = "ask" /\ stage[c] # FirstStage(c)
     /\ ~(Kind[c] = "resume" /\ stage[c] = "watch")
  \/ pc[c] \in {"admitted", "settling", "releasing", "told"}
  \/ pc[c] \in {"joining", "starting", "replacing", "stopping"} /\ Settled(joined[c])

HostIdle == \A c \in Calls : ~Queued(c)

Event ==
  /\ HostIdle
  /\ \/ \E c \in Calls : FiniteCloses(c) \/ Timeout(c)
     \/ \E n \in 1 .. generation : WatchCloses(n)
     \/ BecomesReady
     \/ Deadline
     \/ User

Done == (\A c \in Calls : pc[c] \in {"new", "returned"}) /\ UNCHANGED vars

Next ==
  \/ \E c \in Calls : Begin(c) \/ CallStep(c)
  \/ Event
  \/ Done

Spec == Init /\ [][Next]_vars

(* Callbacks run, timers fire and a build ends; a watch child need never    *)
(* become ready, honour a signal or close.                                  *)
FairSpec ==
  /\ Spec
  /\ \A c \in Calls : WF_vars(CallStep(c))
  /\ \A c \in Calls : WF_vars(HostIdle /\ (FiniteCloses(c) \/ Timeout(c)))
  /\ WF_vars(HostIdle /\ Deadline)

(***************************************************************************)
(* Properties.                                                             *)
(***************************************************************************)

(* Every variable keeps its type, and no generation outruns its counter. *)
Steps == {"new", "ask", "joining", "admitted", "running", "finishing", "replacing", "starting",
          "stopping", "settling", "releasing", "told", "returned"}
Events == [what : {"nothing", "generation", "release", "close", "start"}, of : Nat]
TypeOK ==
  /\ pc \in [Calls -> Steps]
  /\ stage \in [Calls -> {"stop", "build", "again", "watch", "retry"}]
  /\ joined \in [Calls -> Events]
  /\ outcome \in [Calls -> {"none", "completed", "failed", "cancelled"}]
  /\ stopped \subseteq Calls /\ since \in [Calls -> Nat]
  /\ owners \in Seq([call : Calls, work : {"build", "report", "watch"}])
  /\ active \in 0 .. Len(owners)
  /\ status \in Seq({"pending", "completed", "failed"}) /\ Len(status) = Len(owners)
  /\ failures \subseteq {Target[c] : c \in Calls}
  /\ cancelled \subseteq Calls /\ revoked \subseteq Calls
  /\ generation \in Nat
  /\ start \in {NoStart} \cup
       [target : {Target[c] : c \in Calls}, by : Calls,
        promise : {"pending", "ready", "cancelled", "failed"},
        deadline : {"off", "readiness", "grace"}, blamed : BOOLEAN]
  /\ {child, watchStart, exited} \subseteq 0 .. generation
  /\ phase \in {"stopped", "starting", "ready", "stopping"}
  /\ released \subseteq 1 .. generation
  /\ alive \subseteq {Finite(g) : g \in DOMAIN owners} \cup {Watch(n) : n \in 1 .. generation}
  /\ {ready, disposed, enabled} \subseteq BOOLEAN

(* At most one process of the extension writes a graph: a finite build or a *)
(* watch child, from its spawn to its close event, through cancellations,   *)
(* stop timeouts, quarantined children and replacements.                    *)
SingleWriter == \A p, q \in alive : p = q

(* The coordinator, the watch fields of GraphoxideCli and the lifecycle     *)
(* agree on who writes: one owner while a generation is active, the live    *)
(* watch child is the recorded one and the tracked generation, and no       *)
(* finite mutation is admitted beside a watch.                              *)
Owning == {"admitted", "running", "finishing", "replacing", "starting", "settling", "releasing"}
OneOwner ==
  \A c \in Calls :
    /\ pc[c] \in Owning <=> Owns(c)
    /\ Owns(c) => owners[active].work = Works(c)
FiniteOwned ==
  \A g \in DOMAIN owners : Finite(g) \in alive <=> g = active /\ pc[owners[g].call] = "running"
WatchOwned == \A n \in 1 .. generation : Watch(n) \in alive <=> child = n
Tracks ==
  /\ Tracked = child
  /\ ready => phase = "ready"
Apart ==
  \A c \in Calls :
    pc[c] \in Owning /\ Works(c) # "watch" => child = 0 /\ watchStart = 0
StartOwned ==
  /\ \A c \in Calls : pc[c] \in Owning \ {"starting"} => watchStart = 0
  /\ watchStart # 0 => active # 0
GateInv ==
  /\ TypeOK
  /\ OneOwner /\ FiniteOwned /\ WatchOwned /\ Tracks /\ Apart /\ StartOwned

(* The release that callers behind a watch await is settled when the child  *)
(* closed and its exit is recorded, never before; and no caller is left     *)
(* waiting for the release of a child that is gone.                         *)
ReleasedAtClose ==
  /\ \A n \in released : Watch(n) \notin alive /\ n <= exited
  /\ \A c \in Calls :
       pc[c] = "joining" /\ joined[c].what = "release" /\ ~Settled(joined[c])
         => Watch(joined[c].of) \in alive

(* A resume reaches its watch only after a build of its own target was      *)
(* completed by a mutation that ended after the resume began.               *)
WatchAfterRefresh ==
  \A c \in Calls :
    Kind[c] = "resume" /\ stage[c] \in {"watch", "retry"} =>
      \E g \in DOMAIN owners :
        /\ since[c] <= g /\ status[g] = "completed"
        /\ owners[g].work = "build" /\ Target[owners[g].call] = Target[c]

(* No process is spawned once the extension is disposed. *)
NoSpawnAfterDispose == [][disposed => alive' \subseteq alive]_vars

(* Work that nobody asked for interactively is never spawned for a target   *)
(* whose last structural build failed: a resume checks the latch when it    *)
(* asks, and spawns later.                                                  *)
PausedStaysPaused ==
  [][\A p \in alive' \ alive :
       active # 0 /\ Kind[owners[active].call] = "resume"
         => Target[owners[active].call] \notin failures]_vars

(* Every call returns although a watch child may ignore every signal; only  *)
(* a resume behind such a child waits as long as the child lives.           *)
Waits(c) == pc[c] = "joining" /\ joined[c].what = "release" /\ ~Settled(joined[c])
CallsReturn ==
  \A c \in Calls : pc[c] # "new" ~> (pc[c] = "returned" \/ Waits(c))
=============================================================================
