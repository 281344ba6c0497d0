-------------------------- MODULE WriterGateProofs --------------------------
(***************************************************************************)
(* Theorems about WriterGate, for any number of calls, targets and watch   *)
(* generations. The inductive invariant ties the coordinator, the watch    *)
(* fields of the extension and the watch lifecycle to the processes that   *)
(* are alive; that there is at most one writer follows from it.            *)
(***************************************************************************)
EXTENDS WriterGate, SequenceTheorems, TLAPS

Phases == {"stopped", "starting", "ready", "stopping"}

Types ==
  /\ pc \in [Calls -> Steps]
  /\ DOMAIN stage = Calls /\ DOMAIN joined = Calls
  /\ owners \in Seq([call : Calls, work : {"build", "report", "watch"}])
  /\ active \in 0 .. Len(owners)
  /\ generation \in Nat /\ {child, watchStart, exited} \subseteq 0 .. generation
  /\ phase \in Phases /\ ready \in BOOLEAN
  /\ alive \subseteq {Finite(g) : g \in DOMAIN owners} \cup {Watch(n) : n \in 1 .. generation}
  /\ released \subseteq 1 .. generation

(* The caller that starts a watch waits for the startup under way.         *)
StartAwaited ==
  \A c \in Calls : pc[c] = "starting" => watchStart = 0 \/ joined[c].of = watchStart

(* Only a watch replaces a child or awaits a startup, and it runs no build. *)
WatchWorks ==
  \A c \in Calls :
    /\ pc[c] \in {"replacing", "starting"} => Works(c) = "watch"
    /\ pc[c] = "running" => Works(c) # "watch"

(* Who waits for a release waits for a child that is there.                *)
ReleaseAwaited ==
  \A c \in Calls :
    pc[c] = "joining" /\ joined[c].what = "release" /\ joined[c].of # 0
      => joined[c].of \in released \/ Watch(joined[c].of) \in alive

ReleasesTold == \A n \in released : Watch(n) \notin alive /\ n <= exited

WriterInv ==
  /\ Types /\ OneOwner /\ FiniteOwned /\ WatchOwned /\ Tracks /\ Apart /\ StartOwned
  /\ StartAwaited /\ WatchWorks /\ ReleaseAwaited /\ ReleasesTold

-----------------------------------------------------------------------------
LEMMA Distinct ==
  /\ \A g, n : Finite(g) # Watch(n)
  /\ \A g, h : Finite(g) = Finite(h) => g = h
  /\ \A m, n : Watch(m) = Watch(n) => m = n
<1>1. \A g : Finite(g).what = "finite" /\ Finite(g).of = g
  BY DEF Finite
<1>2. \A n : Watch(n).what = "watch" /\ Watch(n).of = n
  BY DEF Watch
<1> QED BY <1>1, <1>2

LEMMA OwnersKnown ==
  ASSUME Types
  PROVE  /\ DOMAIN owners = 1 .. Len(owners) /\ Len(owners) \in Nat
         /\ \A g \in DOMAIN owners : owners[g].call \in Calls
<1>1. owners \in Seq([call : Calls, work : {"build", "report", "watch"}])
  BY DEF Types
<1>2. DOMAIN owners = 1 .. Len(owners) /\ Len(owners) \in Nat
  BY <1>1
<1>3. ASSUME NEW g \in DOMAIN owners
      PROVE  owners[g] \in [call : Calls, work : {"build", "report", "watch"}]
  <2> DEFINE Owners == [call : Calls, work : {"build", "report", "watch"}]
  <2>1. owners \in Seq(Owners) /\ g \in 1 .. Len(owners)
    BY <1>1, <1>2
  <2> HIDE DEF Owners
  <2>2. owners[g] \in Owners
    BY <2>1, ElementOfSeq
  <2> QED BY <2>2 DEF Owners
<1> QED BY <1>2, <1>3

LEMMA WorkKinds == \A c \in Calls : Works(c) \in {"build", "report", "watch"}
BY DEF Works

LEMMA InitWriters == Init => WriterInv
<1> SUFFICES ASSUME Init PROVE WriterInv
  OBVIOUS
<1>1. owners \in Seq([call : Calls, work : {"build", "report", "watch"}]) /\ Len(owners) = 0
      /\ DOMAIN owners = {}
  BY DEF Init
<1>2. Types
  <2>1. pc \in [Calls -> Steps] /\ DOMAIN stage = Calls /\ DOMAIN joined = Calls
    BY DEF Init, Steps
  <2>2. active \in 0 .. Len(owners) /\ generation \in Nat
        /\ {child, watchStart, exited} \subseteq 0 .. generation
    BY <1>1 DEF Init
  <2>3. phase \in Phases /\ ready \in BOOLEAN /\ alive = {} /\ released = {}
    BY DEF Init, Phases
  <2> QED BY <1>1, <2>1, <2>2, <2>3 DEF Types
<1>3. OneOwner /\ FiniteOwned /\ WatchOwned /\ Tracks
  BY <1>1 DEF Init, OneOwner, FiniteOwned, WatchOwned, Tracks, Tracked, Owning, Owns
<1>4. Apart /\ StartOwned /\ StartAwaited /\ WatchWorks /\ ReleaseAwaited /\ ReleasesTold
  BY DEF Init, Apart, StartOwned, StartAwaited, WatchWorks, ReleaseAwaited, ReleasesTold, Owning
<1> QED BY <1>2, <1>3, <1>4 DEF WriterInv

-----------------------------------------------------------------------------
(* Steps of a call that owns nothing.                                      *)

LEMMA AsideKeeps ==
  ASSUME WriterInv, NEW c \in Calls,
         pc[c] \notin Owning, pc'[c] \notin Owning, pc' \in [Calls -> Steps],
         \A d \in Calls \ {c} : pc'[d] = pc[d] /\ stage'[d] = stage[d] /\ joined'[d] = joined[d],
         DOMAIN stage' = Calls, DOMAIN joined' = Calls,
         pc'[c] = "joining" /\ joined'[c].what = "release" /\ joined'[c].of # 0
           => joined'[c].of \in released \/ Watch(joined'[c].of) \in alive,
         UNCHANGED <<owners, active, generation, watchStart, child, exited, released, alive>>,
         Tracks', phase' \in Phases, ready' \in BOOLEAN
  PROVE  WriterInv'
<1>1. Types'
  BY DEF WriterInv, Types
<1>2. OneOwner'
  BY DEF WriterInv, OneOwner, Owns, Works
<1>3. FiniteOwned'
  <2>1. \A d \in Calls : pc'[d] = "running" <=> pc[d] = "running"
    BY DEF Owning
  <2>2. \A g \in DOMAIN owners : owners[g].call \in Calls
    BY OwnersKnown DEF WriterInv
  <2> QED BY <2>1, <2>2 DEF WriterInv, FiniteOwned
<1>4. WatchOwned' /\ Apart' /\ StartOwned' /\ ReleasesTold'
  BY DEF WriterInv, WatchOwned, Apart, StartOwned, ReleasesTold, Works
<1>5. StartAwaited' /\ WatchWorks' /\ ReleaseAwaited'
  BY DEF WriterInv, StartAwaited, WatchWorks, ReleaseAwaited, Owning, Works
<1> QED BY <1>1, <1>2, <1>3, <1>4, <1>5 DEF WriterInv

(* requestWatchStop.                                                       *)
LEMMA StopChildKeeps ==
  ASSUME Types, Tracks, StopChild, generation' = generation
  PROVE  Tracks' /\ child' = child /\ phase' \in Phases /\ ready' \in BOOLEAN
<1>1. child \in Nat /\ generation \in Nat /\ phase \in Phases /\ ready \in BOOLEAN
  BY DEF Types
<1>2. child' = child
  BY DEF StopChild
<1>3. CASE child # 0
  BY <1>1, <1>3 DEF StopChild, Tracks, Tracked, Phases
<1>4. CASE child = 0
  BY <1>1, <1>4 DEF StopChild, Tracks, Tracked, Phases
<1> QED BY <1>1, <1>2, <1>3, <1>4

LEMMA CallerAside ==
  ASSUME WriterInv, NEW c \in Calls,
         Begin(c) \/ Return(c) \/ Refuse(c) \/ FindBusy(c) \/ Joined(c) \/ Told(c)
           \/ StopAndWait(c) \/ StopEnds(c) \/ StopTimesOut(c)
  PROVE  WriterInv'
<1> USE DEF At, Awaits, Forget, Goes, gate, startup, lifecycle, ended, managed, caller
<1>0. pc \in [Calls -> Steps] /\ DOMAIN stage = Calls /\ DOMAIN joined = Calls /\ Tracks /\ Types
  BY DEF WriterInv, Types
<1>1. CASE Begin(c) \/ Return(c) \/ Refuse(c) \/ Told(c)
  <2>1. UNCHANGED <<owners, active, generation, watchStart, child, exited, released, alive, phase,
                    ready, joined>>
    BY <1>1 DEF Begin, Return, Refuse, Told
  <2>2. /\ pc[c] \notin Owning /\ pc'[c] \in {"ask", "returned"} /\ pc' \in [Calls -> Steps]
        /\ \A d \in Calls \ {c} : pc'[d] = pc[d] /\ stage'[d] = stage[d]
        /\ DOMAIN stage' = Calls
    BY <1>0, <1>1 DEF Begin, Return, Refuse, Told, Asks, Requests, Owning, Steps
  <2>3. Tracks'
    BY <1>0, <2>1 DEF Tracks, Tracked
  <2> QED BY <1>0, <2>1, <2>2, <2>3, AsideKeeps DEF Owning, Types
<1>2. CASE Joined(c) \/ StopEnds(c) \/ StopTimesOut(c)
  <2>1. UNCHANGED <<owners, active, generation, watchStart, child, exited, released, alive, phase,
                    ready>>
    BY <1>2 DEF Joined, StopEnds, StopTimesOut
  <2>2. /\ pc[c] \notin Owning /\ pc'[c] \in {"ask", "returned"} /\ pc' \in [Calls -> Steps]
        /\ \A d \in Calls \ {c} : pc'[d] = pc[d] /\ stage'[d] = stage[d] /\ joined'[d] = joined[d]
        /\ DOMAIN stage' = Calls /\ DOMAIN joined' = Calls
    BY <1>0, <1>2 DEF Joined, StopEnds, StopTimesOut, Owning, Steps
  <2>3. Tracks'
    BY <1>0, <2>1 DEF Tracks, Tracked
  <2> QED BY <1>0, <2>1, <2>2, <2>3, AsideKeeps DEF Owning, Types
<1>3. CASE StopAndWait(c)
  <2>1. UNCHANGED <<owners, active, generation, watchStart, exited, released, alive>> /\ StopChild
    BY <1>3 DEF StopAndWait
  <2>2. Tracks' /\ child' = child /\ phase' \in Phases /\ ready' \in BOOLEAN
    BY <1>0, <2>1, StopChildKeeps
  <2>3. /\ pc[c] \notin Owning /\ pc'[c] = "stopping" /\ pc' \in [Calls -> Steps]
        /\ \A d \in Calls \ {c} : pc'[d] = pc[d] /\ stage'[d] = stage[d] /\ joined'[d] = joined[d]
        /\ DOMAIN stage' = Calls /\ DOMAIN joined' = Calls
    BY <1>0, <1>3 DEF StopAndWait, Owning, Steps
  <2> QED BY <2>1, <2>2, <2>3, AsideKeeps DEF Owning
<1>4. CASE FindBusy(c)
  <2>1. UNCHANGED <<owners, active, generation, watchStart, child, exited, released, alive, phase,
                    ready, stage>>
    BY <1>4 DEF FindBusy
  <2>2. /\ pc[c] \notin Owning /\ pc'[c] \in {"joining", "returned"} /\ pc' \in [Calls -> Steps]
        /\ \A d \in Calls \ {c} : pc'[d] = pc[d] /\ joined'[d] = joined[d]
        /\ DOMAIN joined' = Calls
    BY <1>0, <1>4 DEF FindBusy, Requests, Asks, Owning, Steps
  <2>3. ASSUME pc'[c] = "joining", joined'[c].what = "release", joined'[c].of # 0
        PROVE  Watch(joined'[c].of) \in alive
    <3>1. joined'[c] = On("release", child) \/ joined'[c] = On("generation", active)
      BY <1>0, <1>4, <2>3 DEF FindBusy
    <3>2. joined'[c].of = child
      BY <2>3, <3>1 DEF On
    <3>3. child \in 1 .. generation
      BY <1>0, <2>3, <3>2 DEF Types
    <3> QED BY <3>2, <3>3 DEF WriterInv, WatchOwned
  <2>4. Tracks'
    BY <1>0, <2>1 DEF Tracks, Tracked
  <2> QED BY <1>0, <2>1, <2>2, <2>3, <2>4, AsideKeeps DEF Owning, Types
<1> QED BY <1>1, <1>2, <1>3, <1>4

-----------------------------------------------------------------------------
(* The coordinator changes hands.                                          *)

LEMMA AdmitKeeps ==
  ASSUME WriterInv, NEW c \in Calls, Admit(c)
  PROVE  WriterInv'
<1> USE DEF At, startup, lifecycle, ended, managed
<1> DEFINE n == Len(owners) + 1
<1>1. /\ UNCHANGED <<stage, joined, generation, watchStart, child, exited, released, alive, phase, ready>>
      /\ pc[c] = "ask" /\ pc' = [pc EXCEPT ![c] = "admitted"] /\ active = 0
      /\ owners' = Append(owners, [call |-> c, work |-> Works(c)])
      /\ active' = n /\ ~BehindWatch(c)
  BY DEF Admit, Requests, Asks
<1>2. /\ owners \in Seq([call : Calls, work : {"build", "report", "watch"}])
      /\ [call |-> c, work |-> Works(c)] \in [call : Calls, work : {"build", "report", "watch"}]
  BY WorkKinds DEF WriterInv, Types
<1>3. /\ owners' \in Seq([call : Calls, work : {"build", "report", "watch"}])
      /\ Len(owners') = n /\ DOMAIN owners = 1 .. Len(owners) /\ DOMAIN owners' = 1 .. n
      /\ Len(owners) \in Nat
      /\ owners'[n] = [call |-> c, work |-> Works(c)]
      /\ \A g \in 1 .. Len(owners) : owners'[g] = owners[g]
  BY <1>1, <1>2
<1>4. n # 0 /\ n \in Nat /\ n \notin DOMAIN owners
  BY <1>3
<1>5. \A d \in Calls : pc[d] \notin Owning
  BY <1>1 DEF WriterInv, OneOwner, Owns
<1>6. \A g : Finite(g) \in alive => FALSE
  <2>1. \A g : Finite(g) \in alive => g \in DOMAIN owners
    BY Distinct DEF WriterInv, Types
  <2>2. ASSUME NEW g \in DOMAIN owners, Finite(g) \in alive PROVE FALSE
    <3>1. g = active
      BY <2>2 DEF WriterInv, FiniteOwned
    <3> QED BY <1>1, <1>3, <3>1
  <2> QED BY <2>1, <2>2
<1>7. watchStart = 0 /\ (Works(c) # "watch" => child = 0)
  <2>1. watchStart = 0
    BY <1>1 DEF WriterInv, StartOwned
  <2> QED BY <1>1, <2>1 DEF BehindWatch, WatchMutationActive
<1>8. Types'
  <2>1. active' \in 0 .. Len(owners')
    BY <1>1, <1>3, <1>4
  <2>2. pc' \in [Calls -> Steps]
    BY <1>1 DEF WriterInv, Types, Steps
  <2>3. alive' \subseteq {Finite(g) : g \in DOMAIN owners'} \cup {Watch(m) : m \in 1 .. generation'}
    BY <1>1, <1>3 DEF WriterInv, Types
  <2> QED BY <1>1, <1>3, <2>1, <2>2, <2>3 DEF WriterInv, Types
<1>9. \A d \in Calls : (pc'[d] \in Owning <=> d = c) /\ (Works(d)' = Works(d))
  BY <1>1, <1>5 DEF WriterInv, Types, Owning, Works
<1>10. OneOwner'
  BY <1>1, <1>3, <1>4, <1>9 DEF OneOwner, Owns
<1>11. FiniteOwned'
  <2>1. ASSUME NEW g \in DOMAIN owners', g = n PROVE pc'[owners'[g].call] # "running"
    BY <1>1, <1>3, <2>1 DEF WriterInv, Types
  <2> QED BY <1>1, <1>6, <2>1 DEF FiniteOwned
<1>12. WatchOwned' /\ Tracks' /\ ReleasesTold'
  BY <1>1 DEF WriterInv, WatchOwned, Tracks, Tracked, ReleasesTold
<1>13. Apart' /\ StartOwned'
  BY <1>1, <1>4, <1>7, <1>9 DEF Apart, StartOwned
<1>14. StartAwaited' /\ WatchWorks' /\ ReleaseAwaited'
  BY <1>1, <1>7, <1>9 DEF WriterInv, StartAwaited, WatchWorks, ReleaseAwaited, Types
<1> QED BY <1>8, <1>10, <1>11, <1>12, <1>13, <1>14 DEF WriterInv

LEMMA ReleaseKeeps ==
  ASSUME WriterInv, NEW c \in Calls, Release(c)
  PROVE  WriterInv'
<1> USE DEF At, startup, lifecycle, ended, managed
<1>1. /\ UNCHANGED <<stage, joined, owners, generation, watchStart, child, exited, released, alive,
                     phase, ready>>
      /\ pc[c] = "releasing" /\ pc' = [pc EXCEPT ![c] = "told"] /\ active' = 0
  BY DEF Release
<1>2. Owns(c) /\ watchStart = 0 /\ \A d \in Calls \ {c} : pc[d] \notin Owning
  BY <1>1 DEF WriterInv, OneOwner, Owns, Owning, StartOwned
<1>3. Types'
  <2>1. Len(owners) \in Nat
    BY OwnersKnown DEF WriterInv
  <2> QED BY <1>1, <2>1 DEF WriterInv, Types, Steps
<1>4. \A d \in Calls : pc'[d] \notin Owning
  BY <1>1, <1>2 DEF WriterInv, Types, Owning
<1>5. OneOwner' /\ Apart' /\ StartOwned'
  BY <1>1, <1>2, <1>4 DEF OneOwner, Owns, Apart, StartOwned
<1>6. FiniteOwned'
  <2>1. ASSUME NEW g \in DOMAIN owners PROVE Finite(g) \notin alive
    <3>1. CASE g = active
      BY <1>1, <1>2, <3>1 DEF WriterInv, FiniteOwned, Owns
    <3>2. CASE g # active
      BY <3>2 DEF WriterInv, FiniteOwned
    <3> QED BY <3>1, <3>2
  <2>2. \A g \in DOMAIN owners : pc'[owners[g].call] # "running"
    BY <1>4, OwnersKnown DEF WriterInv, Owning
  <2> QED BY <1>1, <2>1, <2>2 DEF FiniteOwned
<1>7. WatchOwned' /\ Tracks' /\ ReleasesTold'
  BY <1>1 DEF WriterInv, WatchOwned, Tracks, Tracked, ReleasesTold
<1>8. StartAwaited' /\ WatchWorks' /\ ReleaseAwaited'
  BY <1>1, <1>2, <1>4 DEF WriterInv, StartAwaited, WatchWorks, ReleaseAwaited, Types, Owning
<1> QED BY <1>3, <1>5, <1>6, <1>7, <1>8 DEF WriterInv

-----------------------------------------------------------------------------
(* Steps of the owner that leave the processes alone.                      *)

LEMMA OwnerMoves ==
  ASSUME WriterInv, NEW c \in Calls, NEW step \in Owning, pc[c] \in Owning,
         pc' = [pc EXCEPT ![c] = step], UNCHANGED <<stage, owners, active>>
  PROVE  /\ OneOwner' /\ Owns(c) /\ pc' \in [Calls -> Steps] /\ pc'[c] = step
         /\ \A d \in Calls \ {c} : pc[d] \notin Owning /\ pc'[d] = pc[d]
         /\ \A d \in Calls : Works(d)' = Works(d)
<1>1. pc \in [Calls -> Steps] /\ step \in Steps
  BY DEF WriterInv, Types, Owning, Steps
<1>2. Owns(c) /\ \A d \in Calls \ {c} : pc[d] \notin Owning
  BY DEF WriterInv, OneOwner, Owns
<1>3. \A d \in Calls : (pc'[d] \in Owning <=> pc[d] \in Owning) /\ (Works(d)' = Works(d))
  BY <1>1 DEF Works
<1>4. OneOwner'
  BY <1>3 DEF WriterInv, OneOwner, Owns
<1> QED BY <1>1, <1>2, <1>3, <1>4

LEMMA OwnerKeeps ==
  ASSUME WriterInv, NEW c \in Calls, NEW step \in Owning \ {"running", "starting"},
         pc[c] \in Owning \ {"running"}, pc' = [pc EXCEPT ![c] = step],
         DOMAIN joined' = Calls, \A d \in Calls \ {c} : joined'[d] = joined[d],
         UNCHANGED <<stage, owners, active, generation, child, exited, released, alive>>,
         watchStart' = 0, Tracks', phase' \in Phases, ready' \in BOOLEAN,
         step = "replacing" => Works(c) = "watch"
  PROVE  WriterInv'
<1>1. /\ OneOwner' /\ Owns(c) /\ pc' \in [Calls -> Steps] /\ pc'[c] = step
      /\ \A d \in Calls \ {c} : pc[d] \notin Owning /\ pc'[d] = pc[d]
      /\ \A d \in Calls : Works(d)' = Works(d)
  BY OwnerMoves
<1>2. Types'
  BY <1>1 DEF WriterInv, Types
<1>3. FiniteOwned'
  <2>1. \A d \in Calls : pc'[d] = "running" <=> pc[d] = "running"
    BY <1>1
  <2>2. \A g \in DOMAIN owners : owners[g].call \in Calls
    BY OwnersKnown DEF WriterInv
  <2> QED BY <2>1, <2>2 DEF WriterInv, FiniteOwned
<1>4. WatchOwned' /\ ReleasesTold' /\ StartOwned' /\ StartAwaited'
  BY DEF WriterInv, WatchOwned, ReleasesTold, StartOwned, StartAwaited
<1>5. Apart' /\ WatchWorks'
  BY <1>1 DEF WriterInv, Apart, WatchWorks
<1>6. ReleaseAwaited'
  BY <1>1 DEF WriterInv, ReleaseAwaited, Owning
<1> QED BY <1>1, <1>2, <1>3, <1>4, <1>5, <1>6 DEF WriterInv

LEMMA FiniteAside ==
  ASSUME WriterInv, NEW c \in Calls,
         \/ Execute(c) /\ alive' = alive /\ pc'[c] = "settling"
         \/ Finish(c) \/ Settle(c)
  PROVE  WriterInv'
<1> USE DEF At, Forget, Ends, startup, lifecycle, ended, managed
<1>1. /\ UNCHANGED <<stage, owners, active, generation, watchStart, child, exited, released, alive,
                     phase, ready>>
      /\ pc[c] \in {"admitted", "finishing", "settling"}
  BY DEF Execute, Finish, Settle, gate
<1>2. PICK step \in {"settling", "releasing"} : pc' = [pc EXCEPT ![c] = step]
  BY DEF Execute, Finish, Settle, WriterInv, Types
<1>3. DOMAIN joined' = Calls /\ \A d \in Calls \ {c} : joined'[d] = joined[d]
  BY DEF Execute, Finish, Settle, WriterInv, Types
<1>4. watchStart = 0
  BY <1>1 DEF WriterInv, StartOwned, Owning
<1>5. Tracks' /\ phase' \in Phases /\ ready' \in BOOLEAN
  BY <1>1 DEF WriterInv, Types, Tracks, Tracked
<1>6. /\ pc[c] \in Owning \ {"running"} /\ step \in Owning \ {"running", "starting"}
      /\ step # "replacing"
  BY <1>1, <1>2 DEF Owning
<1> QED BY <1>1, <1>2, <1>3, <1>4, <1>5, <1>6, OwnerKeeps

-----------------------------------------------------------------------------
(* A finite build is spawned, and closes.                                  *)

LEMMA ExecuteKeeps ==
  ASSUME WriterInv, NEW c \in Calls, Execute(c)
  PROVE  WriterInv'
<1> USE DEF At, Ends, startup, lifecycle, ended, managed, gate
<1>1. /\ UNCHANGED <<stage, joined, owners, active, generation, watchStart, child, exited, released,
                     phase, ready>>
      /\ pc[c] = "admitted" /\ Works(c) # "watch" /\ pc \in [Calls -> Steps]
  BY DEF Execute, WriterInv, Types
<1>2. CASE alive' = alive /\ pc' = [pc EXCEPT ![c] = "settling"]
  BY <1>1, <1>2, FiniteAside
<1>3. CASE alive' = alive \cup {Finite(active)} /\ pc' = [pc EXCEPT ![c] = "running"]
  <2>1. /\ OneOwner' /\ Owns(c) /\ pc' \in [Calls -> Steps] /\ pc'[c] = "running"
        /\ \A d \in Calls \ {c} : pc[d] \notin Owning /\ pc'[d] = pc[d]
        /\ \A d \in Calls : Works(d)' = Works(d)
    BY <1>1, <1>3, OwnerMoves DEF Owning
  <2>2. active \in DOMAIN owners /\ owners[active].call = c
    BY <2>1, OwnersKnown DEF WriterInv, Types, Owns
  <2>3. Types'
    BY <1>1, <1>3, <2>1, <2>2 DEF WriterInv, Types
  <2>4. ASSUME NEW g \in DOMAIN owners
        PROVE  Finite(g) \in alive' <=> g = active /\ pc'[owners[g].call] = "running"
    <3>1. CASE g = active
      BY <1>3, <2>1, <2>2, <3>1
    <3>2. CASE g # active
      <4>1. Finite(g) \notin alive
        BY <3>2 DEF WriterInv, FiniteOwned
      <4>2. Finite(g) # Finite(active)
        BY <3>2, Distinct
      <4> QED BY <1>3, <3>2, <4>1, <4>2
    <3> QED BY <3>1, <3>2
  <2>5. FiniteOwned'
    BY <1>1, <2>4 DEF FiniteOwned
  <2>6. \A n : Watch(n) \in alive' <=> Watch(n) \in alive
    BY <1>3, Distinct
  <2>7. WatchOwned' /\ ReleasesTold' /\ Tracks'
    BY <1>1, <2>6 DEF WriterInv, WatchOwned, ReleasesTold, Tracks, Tracked
  <2>8. watchStart = 0
    BY <1>1 DEF WriterInv, StartOwned, Owning
  <2>9. Apart' /\ StartOwned' /\ StartAwaited' /\ WatchWorks'
    <3>1. child = 0
      BY <1>1 DEF WriterInv, Apart, Owning
    <3>2. WatchWorks'
      BY <1>1, <2>1 DEF WatchWorks, Owning
    <3> QED BY <1>1, <2>8, <3>1, <3>2 DEF Apart, StartOwned, StartAwaited
  <2>10. ReleaseAwaited'
    BY <1>1, <2>1, <2>6 DEF WriterInv, ReleaseAwaited
  <2> QED BY <2>1, <2>3, <2>5, <2>7, <2>9, <2>10 DEF WriterInv
<1> QED BY <1>2, <1>3 DEF Execute

LEMMA FiniteClosesKeeps ==
  ASSUME WriterInv, NEW c \in Calls, FiniteCloses(c)
  PROVE  WriterInv'
<1> USE DEF At, Ends, startup, lifecycle, ended, managed, gate
<1>1. /\ UNCHANGED <<stage, joined, owners, active, generation, watchStart, child, exited, released,
                     phase, ready>>
      /\ pc[c] = "running" /\ alive' = alive \ {Finite(active)}
      /\ pc \in [Calls -> Steps]
  BY DEF FiniteCloses, WriterInv, Types
<1>2. PICK step \in {"settling", "finishing"} : pc' = [pc EXCEPT ![c] = step]
  BY DEF FiniteCloses
<1>3. /\ OneOwner' /\ Owns(c) /\ pc' \in [Calls -> Steps] /\ pc'[c] = step
      /\ \A d \in Calls \ {c} : pc[d] \notin Owning /\ pc'[d] = pc[d]
      /\ \A d \in Calls : Works(d)' = Works(d)
  BY <1>1, <1>2, OwnerMoves DEF Owning
<1>4. Types'
  BY <1>1, <1>3 DEF WriterInv, Types
<1>5. FiniteOwned'
  <2>1. \A g \in DOMAIN owners : pc'[owners[g].call] # "running"
    BY <1>2, <1>3, OwnersKnown DEF WriterInv, Owning
  <2>2. \A g \in DOMAIN owners : Finite(g) \notin alive'
    BY <1>1 DEF WriterInv, FiniteOwned
  <2> QED BY <1>1, <2>1, <2>2 DEF FiniteOwned
<1>6. \A n : Watch(n) \in alive' <=> Watch(n) \in alive
  BY <1>1, Distinct
<1>7. WatchOwned' /\ ReleasesTold' /\ Tracks'
  BY <1>1, <1>6 DEF WriterInv, WatchOwned, ReleasesTold, Tracks, Tracked
<1>8. watchStart = 0
  BY <1>1 DEF WriterInv, StartOwned, Owning
<1>9. Apart' /\ StartOwned' /\ StartAwaited' /\ WatchWorks'
  <2>1. Apart' /\ WatchWorks'
    BY <1>1, <1>2, <1>3 DEF WriterInv, Apart, WatchWorks, Owning
  <2> QED BY <1>1, <1>8, <2>1 DEF StartOwned, StartAwaited
<1>10. ReleaseAwaited'
  BY <1>1, <1>2, <1>3, <1>6 DEF WriterInv, ReleaseAwaited
<1> QED BY <1>3, <1>4, <1>5, <1>7, <1>9, <1>10 DEF WriterInv

-----------------------------------------------------------------------------
(* A watch child is spawned, or fails to be.                               *)

LEMMA SpawnKeeps ==
  ASSUME WriterInv, NEW c \in Calls, pc[c] \in {"admitted", "replacing"}, Works(c) = "watch",
         Spawn(c), UNCHANGED <<stage, owners, active, released>>
  PROVE  WriterInv'
<1> DEFINE n == generation + 1
<1> USE DEF At, Awaits, Ends, startup, lifecycle
<1>1. /\ pc \in [Calls -> Steps] /\ DOMAIN joined = Calls /\ generation \in Nat
      /\ exited \in 0 .. generation /\ watchStart = 0 /\ Tracks
  BY DEF WriterInv, Types, StartOwned, Owning
<1>2. n \in Nat /\ n # 0 /\ n > generation /\ n \notin 1 .. generation
  BY <1>1
<1>3. CASE phase # "stopped"
  <2>1. /\ pc' = [pc EXCEPT ![c] = "settling"]
        /\ UNCHANGED <<joined, generation, watchStart, alive, child, ready, phase, exited>>
    BY <1>3 DEF Spawn
  <2>2. Tracks' /\ phase' \in Phases /\ ready' \in BOOLEAN
    BY <2>1 DEF WriterInv, Types, Tracks, Tracked
  <2> QED BY <1>1, <2>1, <2>2, OwnerKeeps DEF Owning
<1>4. CASE phase = "stopped"
  <2>1. child = 0
    BY <1>1, <1>4 DEF Tracks, Tracked
  <2>2. generation' = n
    BY <1>4 DEF Spawn
  <2>3. PICK step \in {"starting", "settling"} : pc' = [pc EXCEPT ![c] = step]
    BY <1>4 DEF Spawn
  <2>4. /\ OneOwner' /\ Owns(c) /\ pc' \in [Calls -> Steps] /\ pc'[c] = step
        /\ \A d \in Calls \ {c} : pc[d] \notin Owning /\ pc'[d] = pc[d]
        /\ \A d \in Calls : Works(d)' = Works(d)
    BY <2>3, OwnerMoves DEF Owning
  <2>5. active # 0
    BY <2>4 DEF Owns
  <2>6. Watch(n) \notin alive /\ \A m \in 1 .. generation : Watch(m) \notin alive
    <3>1. Watch(n) \in alive => n \in 1 .. generation
      BY Distinct DEF WriterInv, Types
    <3> QED BY <1>2, <2>1, <3>1 DEF WriterInv, WatchOwned
  <2>7. FiniteOwned'
    <3>1. \A d \in Calls : pc'[d] = "running" <=> pc[d] = "running"
      BY <2>3, <2>4
    <3>2. \A g \in DOMAIN owners : owners[g].call \in Calls
      BY OwnersKnown DEF WriterInv
    <3>3. \A g : Finite(g) \in alive' <=> Finite(g) \in alive
      BY <1>4, Distinct DEF Spawn
    <3> QED BY <3>1, <3>2, <3>3 DEF WriterInv, FiniteOwned
  <2>8. Apart' /\ WatchWorks'
    BY <2>4 DEF Apart, WatchWorks, Owning
  <2>9. CASE step = "starting"
    <3>1. /\ alive' = alive \cup {Watch(n)} /\ child' = n /\ ready' = FALSE
          /\ phase' = "starting" /\ watchStart' = n /\ exited' = exited
          /\ joined' = [joined EXCEPT ![c] = On("start", n)]
      BY <1>4, <2>3, <2>4, <2>9 DEF Spawn
    <3>2. Types'
      <4>1. alive' \subseteq {Finite(g) : g \in DOMAIN owners'} \cup {Watch(m) : m \in 1 .. n}
        BY <1>1, <1>2, <3>1 DEF WriterInv, Types
      <4>2. {child', watchStart', exited'} \subseteq 0 .. n /\ n \in Nat
        BY <1>1, <1>2, <3>1
      <4>3. released' \subseteq 1 .. n
        BY <1>1 DEF WriterInv, Types
      <4> QED BY <1>1, <2>2, <2>4, <3>1, <4>1, <4>2, <4>3 DEF WriterInv, Types, Phases
    <3>3. WatchOwned'
      <4>1. \A m \in 1 .. n : Watch(m) \in alive' <=> m = n
        BY <1>1, <2>6, <3>1, Distinct
      <4> QED BY <2>2, <3>1, <4>1 DEF WatchOwned
    <3>4. Tracks'
      BY <2>2, <3>1 DEF Tracks, Tracked
    <3>5. StartOwned'
      BY <1>1, <2>4, <2>5, <2>9 DEF StartOwned
    <3>6. StartAwaited'
      <4>1. joined'[c].of = n
        BY <1>1, <3>1 DEF On
      <4>2. \A d \in Calls \ {c} : pc'[d] # "starting"
        BY <2>4 DEF Owning
      <4> QED BY <3>1, <4>1, <4>2 DEF StartAwaited
    <3>7. ReleaseAwaited'
      BY <1>1, <2>4, <2>9, <3>1 DEF WriterInv, ReleaseAwaited
    <3>8. ReleasesTold'
      <4>1. \A m \in released : m # n
        BY <1>2 DEF WriterInv, Types
      <4> QED BY <3>1, <4>1, Distinct DEF WriterInv, ReleasesTold
    <3> QED BY <2>4, <2>7, <2>8, <3>2, <3>3, <3>4, <3>5, <3>6, <3>7, <3>8 DEF WriterInv
  <2>10. CASE step = "settling"
    <3>1. UNCHANGED <<joined, alive, child, ready, phase, watchStart>> /\ exited' = n
      <4>1. pc'[c] # "starting"
        BY <2>4, <2>10
      <4> QED BY <1>1, <1>4, <4>1 DEF Spawn
    <3>2. Types'
      <4>1. alive' \subseteq {Finite(g) : g \in DOMAIN owners'} \cup {Watch(m) : m \in 1 .. n}
        BY <1>1, <1>2, <3>1 DEF WriterInv, Types
      <4>2. {child', watchStart', exited'} \subseteq 0 .. n /\ n \in Nat
        BY <1>1, <1>2, <2>1, <3>1
      <4>3. released' \subseteq 1 .. n
        BY <1>1 DEF WriterInv, Types
      <4> QED BY <1>1, <2>2, <2>4, <3>1, <4>1, <4>2, <4>3 DEF WriterInv, Types
    <3>3. WatchOwned'
      <4>1. \A m \in 1 .. n : Watch(m) \notin alive
        BY <1>1, <2>6
      <4> QED BY <2>1, <2>2, <3>1, <4>1 DEF WatchOwned
    <3>4. Tracks'
      BY <1>1, <1>4, <2>1, <3>1 DEF Tracks, Tracked
    <3>5. StartOwned' /\ StartAwaited'
      BY <1>1, <3>1 DEF StartOwned, StartAwaited
    <3>6. ReleaseAwaited'
      BY <2>4, <2>10, <3>1 DEF WriterInv, ReleaseAwaited
    <3>7. ReleasesTold'
      <4>1. \A m \in released : m \in Int /\ m <= n
        BY <1>1 DEF WriterInv, Types
      <4> QED BY <3>1, <4>1 DEF WriterInv, ReleasesTold
    <3> QED BY <2>4, <2>7, <2>8, <3>2, <3>3, <3>4, <3>5, <3>6, <3>7 DEF WriterInv
  <2> QED BY <2>9, <2>10
<1> QED BY <1>3, <1>4

LEMMA WatchCallerKeeps ==
  ASSUME WriterInv, NEW c \in Calls,
         StartWatchProcess(c) \/ Replace(c) \/ ReplaceTimesOut(c) \/ Started(c)
  PROVE  WriterInv'
<1> USE DEF At, Awaits, Ends, startup, lifecycle, ended, managed, gate
<1>1. /\ pc \in [Calls -> Steps] /\ DOMAIN joined = Calls /\ Tracks /\ Types
      /\ phase \in Phases /\ ready \in BOOLEAN
      /\ UNCHANGED <<stage, owners, active, released>>
  BY DEF StartWatchProcess, Replace, ReplaceTimesOut, Started, WriterInv, Types
<1>2. pc[c] \in {"admitted", "replacing", "starting"}
  BY DEF StartWatchProcess, Replace, ReplaceTimesOut, Started
<1>3. Works(c) = "watch"
  <2>1. CASE pc[c] = "admitted"
    BY <2>1 DEF StartWatchProcess, Replace, ReplaceTimesOut, Started
  <2>2. CASE pc[c] # "admitted"
    BY <1>2, <2>2 DEF WriterInv, WatchWorks
  <2> QED BY <2>1, <2>2
<1>4. ~StartWatchProcess(c) \/ Stopping(c) \/ watchStart = 0
  BY DEF StartWatchProcess, WriterInv, StartOwned, Owning
<1>5. ~Replace(c) \/ watchStart = 0
  BY DEF Replace, WriterInv, StartOwned, Owning
<1>6. CASE Spawn(c) /\ pc[c] # "starting"
  BY <1>1, <1>2, <1>3, <1>6, SpawnKeeps
<1>7. CASE ~Spawn(c) /\ (StartWatchProcess(c) \/ Replace(c) \/ ReplaceTimesOut(c))
  <2>1. pc[c] \in {"admitted", "replacing"} /\ watchStart = 0
    BY <1>7 DEF StartWatchProcess, Replace, ReplaceTimesOut, WriterInv, StartOwned, Owning
  <2>2. UNCHANGED <<generation, watchStart, child, exited, alive>>
    BY <1>7, <2>1 DEF StartWatchProcess, Replace, ReplaceTimesOut, StopChild
  <2>3. PICK step \in {"settling", "replacing"} : pc' = [pc EXCEPT ![c] = step]
    BY <1>7, <2>1 DEF StartWatchProcess, Replace, ReplaceTimesOut
  <2>4. DOMAIN joined' = Calls /\ \A d \in Calls \ {c} : joined'[d] = joined[d]
    BY <1>1, <1>7, <2>1 DEF StartWatchProcess, Replace, ReplaceTimesOut
  <2>5. StopChild \/ UNCHANGED <<child, ready, phase>>
    BY <1>7, <2>1 DEF StartWatchProcess, Replace, ReplaceTimesOut
  <2>6. Tracks' /\ phase' \in Phases /\ ready' \in BOOLEAN
    BY <1>1, <2>2, <2>5, StopChildKeeps DEF Tracks, Tracked
  <2> QED BY <1>1, <1>3, <2>1, <2>2, <2>3, <2>4, <2>6, OwnerKeeps DEF Owning
<1>8. CASE Started(c)
  <2>1. /\ pc' = [pc EXCEPT ![c] = "settling"] /\ pc[c] = "starting"
        /\ UNCHANGED <<joined, generation, child, exited, alive, ready, phase>>
    BY <1>8 DEF Started
  <2>2. watchStart' = 0
    BY <1>8, <2>1 DEF Started, WriterInv, StartAwaited
  <2>3. Tracks'
    BY <1>1, <2>1 DEF Tracks, Tracked
  <2> QED BY <1>1, <1>3, <2>1, <2>2, <2>3, OwnerKeeps DEF Owning
<1>9. pc[c] = "starting" => Started(c)
  BY DEF StartWatchProcess, Replace, ReplaceTimesOut
<1> QED BY <1>6, <1>7, <1>8, <1>9

-----------------------------------------------------------------------------
(* What happens to the watch child, and what the user does.                *)

LEMMA LifecycleKeeps ==
  ASSUME WriterInv, StopChild \/ UNCHANGED <<child, ready, phase>>,
         UNCHANGED <<caller, owners, active, generation, watchStart, ended, alive>>
  PROVE  WriterInv'
<1> USE DEF caller, ended
<1>1. Tracks' /\ child' = child /\ phase' \in Phases /\ ready' \in BOOLEAN
  BY StopChildKeeps DEF WriterInv, Types, Tracks, Tracked
<1>2. Types'
  BY <1>1 DEF WriterInv, Types
<1>3. OneOwner' /\ FiniteOwned' /\ WatchOwned' /\ Apart' /\ StartOwned'
  BY <1>1 DEF WriterInv, OneOwner, FiniteOwned, WatchOwned, Apart, StartOwned, Owns, Works
<1>4. StartAwaited' /\ WatchWorks' /\ ReleaseAwaited' /\ ReleasesTold'
  BY DEF WriterInv, StartAwaited, WatchWorks, ReleaseAwaited, ReleasesTold, Works
<1> QED BY <1>1, <1>2, <1>3, <1>4 DEF WriterInv

LEMMA WatchEventsKeep ==
  ASSUME WriterInv, ReadinessTimeout \/ StopGraceTimeout \/ User
  PROVE  WriterInv'
<1> USE DEF gate, startup, lifecycle, ended, managed
<1>1. StopChild \/ UNCHANGED <<child, ready, phase>>
  BY DEF ReadinessTimeout, StopGraceTimeout, User, StopWatch, Dispose, Cancel
<1>2. UNCHANGED <<caller, owners, active, generation, watchStart, ended, alive>>
  BY DEF ReadinessTimeout, StopGraceTimeout, User, StopWatch, Dispose, Cancel
<1> QED BY <1>1, <1>2, LifecycleKeeps

LEMMA ReadyKeeps == ASSUME WriterInv, BecomesReady PROVE WriterInv'
<1> USE DEF gate, caller, ended, managed
<1>1. /\ UNCHANGED <<caller, owners, active, generation, watchStart, child, ended, alive>>
      /\ phase = "starting" /\ phase' = "ready" /\ ready' = TRUE
  BY DEF BecomesReady
<1>2. Types' /\ Tracks'
  BY <1>1 DEF WriterInv, Types, Tracks, Tracked, Phases
<1>3. OneOwner' /\ FiniteOwned' /\ WatchOwned' /\ Apart' /\ StartOwned'
  BY <1>1 DEF WriterInv, OneOwner, FiniteOwned, WatchOwned, Apart, StartOwned, Owns, Works
<1>4. StartAwaited' /\ WatchWorks' /\ ReleaseAwaited' /\ ReleasesTold'
  BY <1>1 DEF WriterInv, StartAwaited, WatchWorks, ReleaseAwaited, ReleasesTold, Works
<1> QED BY <1>2, <1>3, <1>4 DEF WriterInv

LEMMA ClosesKeeps ==
  ASSUME WriterInv, NEW n \in 1 .. generation, WatchCloses(n)
  PROVE  WriterInv'
<1> USE DEF gate, caller, managed
<1>1. child = n /\ Tracked = n /\ generation = n /\ generation \in Nat /\ exited \in 0 .. generation
      /\ phase # "stopped"
  BY DEF WatchCloses, WriterInv, WatchOwned, Tracks, Tracked, Types
<1>2. /\ UNCHANGED <<caller, owners, active, generation, watchStart>>
      /\ alive' = alive \ {Watch(n)} /\ phase' = "stopped" /\ exited' = n /\ child' = 0
      /\ ready' = FALSE /\ released' = released \cup {n}
  <2>1. exited' = n
    BY <1>1 DEF WatchCloses
  <2>2. ready' = FALSE
    BY <1>1 DEF WatchCloses
  <2> QED BY <1>1, <2>1, <2>2 DEF WatchCloses
<1>3. Types'
  <2>1. {child', watchStart', exited'} \subseteq 0 .. generation' /\ released' \subseteq 1 .. generation'
    BY <1>1, <1>2 DEF WriterInv, Types
  <2>2. alive' \subseteq {Finite(g) : g \in DOMAIN owners'} \cup {Watch(m) : m \in 1 .. generation'}
    BY <1>2 DEF WriterInv, Types
  <2>3. /\ pc' \in [Calls -> Steps] /\ DOMAIN stage' = Calls /\ DOMAIN joined' = Calls
        /\ owners' \in Seq([call : Calls, work : {"build", "report", "watch"}])
        /\ active' \in 0 .. Len(owners') /\ generation' \in Nat
    BY <1>2 DEF WriterInv, Types
  <2>4. phase' \in Phases /\ ready' \in BOOLEAN
    BY <1>2 DEF Phases
  <2> QED BY <2>1, <2>2, <2>3, <2>4 DEF Types
<1>4. \A g : Finite(g) \in alive' <=> Finite(g) \in alive
  BY <1>2, Distinct
<1>5. OneOwner' /\ FiniteOwned' /\ Apart' /\ StartOwned'
  BY <1>2, <1>4 DEF WriterInv, OneOwner, FiniteOwned, Apart, StartOwned, Owns, Works
<1>6. WatchOwned' /\ Tracks'
  BY <1>1, <1>2, Distinct DEF WriterInv, WatchOwned, Tracks, Tracked
<1>7. StartAwaited' /\ WatchWorks'
  BY <1>2 DEF WriterInv, StartAwaited, WatchWorks, Works
<1>8. ReleaseAwaited'
  BY <1>2, Distinct DEF WriterInv, ReleaseAwaited
<1>9. ReleasesTold'
  <2>1. \A m \in released : m \in Int /\ m <= n
    BY <1>1 DEF WriterInv, Types
  <2> QED BY <1>1, <1>2, <2>1 DEF WriterInv, ReleasesTold
<1> QED BY <1>3, <1>5, <1>6, <1>7, <1>8, <1>9 DEF WriterInv

-----------------------------------------------------------------------------
LEMMA WriterInductive == ASSUME WriterInv, [Next]_vars PROVE WriterInv'
<1>1. CASE UNCHANGED vars
  <2> USE DEF vars, caller, gate, startup, lifecycle, ended, managed
  <2> QED BY <1>1, LifecycleKeeps
<1>2. ASSUME NEW c \in Calls, Begin(c) \/ CallStep(c) PROVE WriterInv'
  <2>1. \/ Begin(c) \/ Return(c) \/ Refuse(c) \/ FindBusy(c) \/ Joined(c) \/ Told(c)
        \/ StopAndWait(c) \/ StopEnds(c)
        \/ Admit(c) \/ Release(c) \/ Execute(c) \/ Finish(c) \/ Settle(c)
        \/ StartWatchProcess(c) \/ Replace(c) \/ Started(c)
    BY <1>2 DEF CallStep
  <2> QED BY <2>1, CallerAside, AdmitKeeps, ReleaseKeeps, ExecuteKeeps, FiniteAside,
             WatchCallerKeeps
<1>3. CASE Event
  <2>1. ASSUME NEW c \in Calls, FiniteCloses(c) \/ Timeout(c) PROVE WriterInv'
    BY <2>1, FiniteClosesKeeps, WatchCallerKeeps, CallerAside DEF Timeout
  <2>2. ASSUME NEW n \in 1 .. generation, WatchCloses(n) PROVE WriterInv'
    BY <2>2, ClosesKeeps
  <2> QED BY <1>3, <2>1, <2>2, ReadyKeeps, WatchEventsKeep DEF Event, Deadline
<1> QED BY <1>1, <1>2, <1>3 DEF Next, Done

(* The coordinator, the watch fields and the lifecycle of the extension     *)
(* agree at every step about the processes that are alive.                  *)
THEOREM WriterInvariance == Spec => []WriterInv
<1>1. WriterInv /\ [Next]_vars => WriterInv'
  BY WriterInductive
<1> QED BY InitWriters, <1>1, PTL DEF Spec

(* At most one process of the extension writes a graph, from its spawn to   *)
(* its close event: what the coordinator of mutation-coordinator.ts and the *)
(* check of a live watch in cli.ts give together and neither gives alone.   *)
THEOREM OneWriter == Spec => []SingleWriter
<1>1. ASSUME WriterInv PROVE SingleWriter
  <2>1. \A p \in alive : \/ \E g \in DOMAIN owners : p = Finite(g)
                         \/ \E n \in 1 .. generation : p = Watch(n)
    BY <1>1 DEF WriterInv, Types
  <2>2. ASSUME NEW g \in DOMAIN owners, Finite(g) \in alive PROVE g = active /\ child = 0
    <3>1. g = active /\ pc[owners[g].call] = "running" /\ owners[g].call \in Calls
      BY <1>1, <2>2, OwnersKnown DEF WriterInv, FiniteOwned
    <3>2. Works(owners[g].call) # "watch"
      BY <1>1, <3>1 DEF WriterInv, WatchWorks
    <3> QED BY <1>1, <3>1, <3>2 DEF WriterInv, Apart, Owning
  <2>3. ASSUME NEW n \in 1 .. generation, Watch(n) \in alive PROVE child = n /\ n # 0
    BY <1>1, <2>3 DEF WriterInv, WatchOwned
  <2>4. ASSUME NEW p \in alive, NEW q \in alive PROVE p = q
    <3>1. CASE \E g \in DOMAIN owners : p = Finite(g)
      BY <2>1, <2>2, <2>3, <3>1
    <3>2. CASE \E n \in 1 .. generation : p = Watch(n)
      BY <2>1, <2>2, <2>3, <3>2
    <3> QED BY <2>1, <3>1, <3>2
  <2> QED BY <2>4 DEF SingleWriter
<1> QED BY <1>1, WriterInvariance, PTL

(* A caller behind a watch is told of its release when the child closed and *)
(* its exit is recorded, and none waits for a child that is gone.           *)
THEOREM ReleaseIsClose == Spec => []ReleasedAtClose
<1>1. ASSUME WriterInv PROVE ReleasedAtClose
  BY <1>1 DEF WriterInv, ReleaseAwaited, ReleasesTold, ReleasedAtClose, Settled
<1> QED BY <1>1, WriterInvariance, PTL

(* Nothing is spawned once the extension is disposed, although a call may   *)
(* be between an await and its spawn when the window closes.                *)
THEOREM DisposedSpawnsNothing == Spec => NoSpawnAfterDispose
<1>1. ASSUME [Next]_vars, disposed PROVE alive' \subseteq alive
  <2> USE DEF vars, caller, gate, startup, lifecycle, ended, managed
  <2>1. CASE UNCHANGED vars
    BY <2>1
  <2>2. ASSUME NEW c \in Calls, Begin(c) \/ CallStep(c) PROVE alive' \subseteq alive
    <3>1. CASE Execute(c) \/ StartWatchProcess(c) \/ Replace(c)
      BY <1>1, <3>1 DEF Execute, StartWatchProcess, Replace, Stopping
    <3>2. CASE ~(Execute(c) \/ StartWatchProcess(c) \/ Replace(c))
      BY <2>2, <3>2 DEF Begin, CallStep, Return, Refuse, FindBusy, Admit, Joined, Finish, Settle,
         Release, Told, Started, StopAndWait, StopEnds
    <3> QED BY <3>1, <3>2
  <2>3. CASE Event
    BY <2>3 DEF Event, FiniteCloses, Timeout, ReplaceTimesOut, StopTimesOut, WatchCloses,
       BecomesReady, Deadline, ReadinessTimeout, StopGraceTimeout, User, StopWatch, Dispose, Cancel
  <2> QED BY <1>1, <2>1, <2>2, <2>3 DEF Next, Done
<1>2. Next \/ UNCHANGED vars => (disposed => alive' \subseteq alive)
  BY <1>1
<1> QED BY <1>1, PTL DEF Spec, NoSpawnAfterDispose

-----------------------------------------------------------------------------
(* Automatic work and the failure latch.                                   *)

(* A resume that owns the coordinator and has yet to spawn works for a     *)
(* target whose automatic builds are not paused.                           *)
LatchInv ==
  \A c \in Calls :
    Kind[c] = "resume" /\ pc[c] \in {"admitted", "replacing"} => Target[c] \notin failures

LEMMA LatchInductive ==
  ASSUME WriterInv, LatchInv, [Next]_vars
  PROVE  LatchInv'
<1> USE DEF vars, caller, gate, startup, lifecycle, ended, managed, At, Awaits, Forget, Goes, Ends
<1>0. pc \in [Calls -> Steps]
  BY DEF WriterInv, Types
<1>1. CASE UNCHANGED <<pc, failures>>
  BY <1>1 DEF LatchInv
<1>2. ASSUME NEW c \in Calls, failures' = failures, \A d \in Calls \ {c} : pc'[d] = pc[d],
             pc'[c] \in {"admitted", "replacing"} /\ Kind[c] = "resume"
               => Target[c] \notin failures
      PROVE  LatchInv'
  BY <1>2 DEF LatchInv
<1>3. ASSUME NEW c \in Calls, Begin(c) \/ CallStep(c) \/ FiniteCloses(c) \/ Timeout(c)
      PROVE  LatchInv'
  <2>1. CASE Settle(c)
    <3>1. \A d \in Calls \ {c} : pc'[d] = pc[d] /\ pc[d] \notin Owning
      BY <1>0, <2>1 DEF Settle, WriterInv, OneOwner, Owns, Owning
    <3>2. pc'[c] = "releasing"
      BY <1>0, <2>1 DEF Settle
    <3> QED BY <3>1, <3>2 DEF LatchInv, Owning
  <2>2. CASE Admit(c)
    <3>1. Kind[c] = "resume" => Target[c] \notin failures
      BY <2>2 DEF Admit, Requests, Asks, GivesUp, Suppressed, Works
    <3> QED BY <1>0, <1>2, <2>2, <3>1 DEF Admit
  <2>3. CASE StartWatchProcess(c) \/ Replace(c)
    <3>1. pc[c] \in {"admitted", "replacing"}
      BY <2>3 DEF StartWatchProcess, Replace
    <3>2. failures' = failures /\ \A d \in Calls \ {c} : pc'[d] = pc[d]
      BY <1>0, <2>3 DEF StartWatchProcess, Replace, Spawn
    <3> QED BY <1>2, <3>1, <3>2 DEF LatchInv
  <2>4. CASE ~(Settle(c) \/ Admit(c) \/ StartWatchProcess(c) \/ Replace(c))
    <3>1. /\ failures' = failures /\ \A d \in Calls \ {c} : pc'[d] = pc[d]
          /\ pc'[c] \notin {"admitted", "replacing"}
      BY <1>0, <1>3, <2>4 DEF Begin, CallStep, Return, Refuse, FindBusy, Joined, Execute, Finish,
         Release, Told, Started, StopAndWait, StopEnds, FiniteCloses, Timeout, ReplaceTimesOut,
         StopTimesOut
    <3> QED BY <1>2, <3>1
  <2> QED BY <2>1, <2>2, <2>3, <2>4
<1>4. CASE Event
  <2>1. CASE \E c \in Calls : FiniteCloses(c) \/ Timeout(c)
    BY <1>3, <2>1
  <2>2. CASE ~\E c \in Calls : FiniteCloses(c) \/ Timeout(c)
    <3>1. UNCHANGED <<pc, failures>>
      BY <1>4, <2>2 DEF Event, WatchCloses, BecomesReady, Deadline, ReadinessTimeout,
         StopGraceTimeout, User, StopWatch, Dispose, Cancel
    <3> QED BY <1>1, <3>1
  <2> QED BY <2>1, <2>2
<1> QED BY <1>1, <1>3, <1>4 DEF Next, Done

(* A resume never spawns a process for a target whose last structural       *)
(* build failed, however long it waited between its check of the            *)
(* automaticFailures latch and the spawn.                                   *)
THEOREM PausesHold == Spec => PausedStaysPaused
<1>1. Init => LatchInv
  BY DEF Init, LatchInv
<1>2. WriterInv /\ LatchInv /\ [Next]_vars => LatchInv'
  BY LatchInductive
<1>3. ASSUME WriterInv, LatchInv, [Next]_vars, NEW p \in alive' \ alive, active # 0,
             Kind[owners[active].call] = "resume"
      PROVE  Target[owners[active].call] \notin failures
  <2> USE DEF vars, caller, gate, startup, lifecycle, ended, managed
  <2>1. PICK c \in Calls : Execute(c) \/ StartWatchProcess(c) \/ Replace(c)
    <3>1. \A c \in Calls : Begin(c) \/ CallStep(c)
            => Execute(c) \/ StartWatchProcess(c) \/ Replace(c) \/ alive' = alive
      BY DEF Begin, CallStep, Return, Refuse, FindBusy, Admit, Joined, Finish, Settle, Release, Told,
         Started, StopAndWait, StopEnds
    <3>2. Event => alive' \subseteq alive
      BY DEF Event, FiniteCloses, Timeout, ReplaceTimesOut, StopTimesOut, WatchCloses,
         BecomesReady, Deadline, ReadinessTimeout, StopGraceTimeout, User, StopWatch, Dispose, Cancel
    <3> QED BY <1>3, <3>1, <3>2 DEF Next, Done
  <2>2. pc[c] \in {"admitted", "replacing"}
    BY <2>1 DEF Execute, StartWatchProcess, Replace
  <2>3. owners[active].call = c
    BY <1>3, <2>2 DEF WriterInv, OneOwner, Owns, Owning
  <2> QED BY <1>3, <2>2, <2>3 DEF LatchInv
<1>4. WriterInv /\ LatchInv /\ [Next]_vars
        => (\A p \in alive' \ alive : active # 0 /\ Kind[owners[active].call] = "resume"
              => Target[owners[active].call] \notin failures)
  BY <1>3
<1> QED BY WriterInvariance, <1>1, <1>2, <1>4, PTL DEF Spec, PausedStaysPaused

-----------------------------------------------------------------------------
(* The refresh that serves a resume.                                       *)

Refreshed(c) ==
  \E g \in DOMAIN owners :
    /\ since[c] <= g /\ status[g] = "completed"
    /\ owners[g].work = "build" /\ Target[owners[g].call] = Target[c]

(* The resume watches, or was told that its own refresh was completed.     *)
Refreshing(c) ==
  \/ stage[c] \in {"watch", "retry"}
  \/ pc[c] = "told" /\ Works(c) = "build" /\ outcome[c] = "completed"

(* Only the last generation is pending, and a resume began in it or before. *)
LastPending ==
  /\ status \in Seq({"pending", "completed", "failed"}) /\ Len(status) = Len(owners)
  /\ active # 0 => active = Len(owners) /\ status[active] = "pending"
  /\ \A c \in Calls : since[c] <= Len(owners) + 1 /\ (active # 0 => since[c] <= active)

JoinsLater ==
  \A c \in Calls :
    pc[c] = "joining" /\ joined[c].what = "generation"
      => joined[c].of \in DOMAIN owners /\ since[c] <= joined[c].of

RefreshInv ==
  /\ since \in [Calls -> Nat] /\ DOMAIN outcome = Calls
  /\ LastPending /\ JoinsLater
  /\ \A c \in Calls : pc[c] = "new" => stage[c] = FirstStage(c)
  /\ \A c \in Calls : Kind[c] = "resume" /\ Refreshing(c) => Refreshed(c)

LEMMA RefreshAside ==
  ASSUME WriterInv, RefreshInv, NEW c \in Calls, UNCHANGED <<owners, status, active, since>>,
         \A d \in Calls \ {c} : /\ pc'[d] = pc[d] /\ stage'[d] = stage[d]
                              /\ joined'[d] = joined[d] /\ outcome'[d] = outcome[d],
         DOMAIN outcome' = Calls, pc'[c] # "new",
         pc'[c] = "joining" /\ joined'[c].what = "generation"
           => joined'[c].of \in DOMAIN owners /\ since[c] <= joined'[c].of,
         Kind[c] = "resume" /\ Refreshing(c)' => Refreshing(c) \/ Refreshed(c)
  PROVE  RefreshInv'
<1>1. \A d \in Calls : Refreshed(d)' <=> Refreshed(d)
  BY DEF Refreshed
<1>2. \A d \in Calls \ {c} : Refreshing(d)' <=> Refreshing(d)
  BY DEF Refreshing, Works
<1>3. JoinsLater' /\ LastPending'
  BY DEF RefreshInv, JoinsLater, LastPending
<1>4. \A d \in Calls : pc'[d] = "new" => stage'[d] = FirstStage(d)
  BY DEF RefreshInv
<1> QED BY <1>1, <1>2, <1>3, <1>4 DEF RefreshInv

LEMMA RefreshCallers ==
  ASSUME WriterInv, RefreshInv, NEW c \in Calls,
         CallStep(c) \/ FiniteCloses(c) \/ Timeout(c), ~(Admit(c) \/ Release(c))
  PROVE  RefreshInv'
<1> USE DEF caller, gate, startup, lifecycle, ended, managed, At, Awaits, Forget, Goes, Ends
<1>0. /\ pc \in [Calls -> Steps] /\ DOMAIN stage = Calls /\ DOMAIN joined = Calls
      /\ DOMAIN outcome = Calls
  BY DEF WriterInv, Types, RefreshInv
<1>1. UNCHANGED <<owners, status, active, since>>
  BY DEF CallStep, Return, Refuse, FindBusy, Joined, Execute, Finish, Settle, Told,
     StartWatchProcess, Replace, Started, StopAndWait, StopEnds, FiniteCloses, Timeout,
     ReplaceTimesOut, StopTimesOut
<1>2. CASE FindBusy(c)
  <2>1. UNCHANGED <<stage, outcome>> /\ pc'[c] \in {"joining", "returned"}
        /\ \A d \in Calls \ {c} : pc'[d] = pc[d] /\ joined'[d] = joined[d]
    BY <1>0, <1>2 DEF FindBusy
  <2>2. ASSUME pc'[c] = "joining", joined'[c].what = "generation"
        PROVE  joined'[c].of \in DOMAIN owners /\ since[c] <= joined'[c].of
    <3>1. CASE BehindWatch(c)
      BY <1>0, <1>2, <2>2, <3>1 DEF FindBusy, On
    <3>2. CASE ~BehindWatch(c)
      <4>1. joined'[c].of = active /\ active # 0
        BY <1>0, <1>2, <2>2, <3>2 DEF FindBusy, On
      <4> QED BY <4>1, OwnersKnown DEF WriterInv, Types, RefreshInv, LastPending
    <3> QED BY <3>1, <3>2
  <2>3. Refreshing(c)' => Refreshing(c)
    BY <2>1 DEF Refreshing
  <2> QED BY <1>0, <1>1, <2>1, <2>2, <2>3, RefreshAside
<1>3. CASE Joined(c)
  <2>1. UNCHANGED outcome /\ pc'[c] \in {"ask", "returned"} /\ pc[c] = "joining"
        /\ \A d \in Calls \ {c} : pc'[d] = pc[d] /\ joined'[d] = joined[d] /\ stage'[d] = stage[d]
    BY <1>0, <1>3 DEF Joined
  <2>2. ASSUME stage'[c] \in {"watch", "retry"}, stage[c] \notin {"watch", "retry"}
        PROVE  Refreshed(c)
    <3>1. joined[c].what = "generation" /\ Serves(joined[c].of, c)
      BY <1>0, <1>3, <2>2 DEF Joined, Works
    <3>2. joined[c].of \in DOMAIN owners /\ since[c] <= joined[c].of
      BY <2>1, <3>1 DEF RefreshInv, JoinsLater
    <3> QED BY <3>1, <3>2 DEF Serves, Refreshed
  <2>3. Refreshing(c)' => Refreshing(c) \/ Refreshed(c)
    BY <2>1, <2>2 DEF Refreshing
  <2> QED BY <1>0, <1>1, <2>1, <2>3, RefreshAside
<1>4. CASE Told(c)
  <2>1. /\ UNCHANGED joined /\ pc'[c] \in {"ask", "returned"} /\ pc[c] = "told"
        /\ \A d \in Calls \ {c} : pc'[d] = pc[d] /\ outcome'[d] = outcome[d] /\ stage'[d] = stage[d]
        /\ DOMAIN outcome' = Calls
    BY <1>0, <1>4 DEF Told
  <2>2. stage' = stage \/ (Works(c) = "build" /\ outcome[c] = "completed")
    BY <1>4 DEF Told
  <2>3. Refreshing(c)' => Refreshing(c)
    BY <2>1, <2>2 DEF Refreshing
  <2> QED BY <1>0, <1>1, <2>1, <2>3, RefreshAside
<1>5. CASE StopEnds(c)
  <2>1. UNCHANGED outcome /\ pc'[c] \in {"ask", "returned"} /\ pc[c] = "stopping"
        /\ \A d \in Calls \ {c} : pc'[d] = pc[d] /\ joined'[d] = joined[d] /\ stage'[d] = stage[d]
    BY <1>0, <1>5 DEF StopEnds
  <2>2. Refreshing(c)' => Refreshing(c)
    BY <1>0, <1>5, <2>1 DEF StopEnds, Refreshing
  <2> QED BY <1>0, <1>1, <2>1, <2>2, RefreshAside
<1>6. CASE ~(FindBusy(c) \/ Joined(c) \/ Told(c) \/ StopEnds(c))
  <2>1. /\ UNCHANGED stage
        /\ \A d \in Calls \ {c} : pc'[d] = pc[d] /\ joined'[d] = joined[d] /\ outcome'[d] = outcome[d]
        /\ DOMAIN outcome' = Calls
        /\ pc'[c] \in {"returned", "running", "finishing", "settling", "releasing", "starting",
                      "replacing", "stopping"}
    BY <1>0, <1>6 DEF CallStep, Return, Refuse, Execute, Finish, Settle,
       StartWatchProcess, Replace, Spawn, Started, StopAndWait, FiniteCloses, Timeout,
       ReplaceTimesOut, StopTimesOut
  <2>2. Refreshing(c)' => Refreshing(c)
    BY <2>1 DEF Refreshing
  <2> QED BY <1>0, <1>1, <2>1, <2>2, RefreshAside
<1> QED BY <1>2, <1>3, <1>4, <1>5, <1>6

LEMMA RefreshGate ==
  ASSUME WriterInv, RefreshInv, NEW c \in Calls, Begin(c) \/ Admit(c) \/ Release(c)
  PROVE  RefreshInv'
<1> USE DEF caller, gate, startup, lifecycle, ended, managed, At
<1>0. /\ pc \in [Calls -> Steps] /\ since \in [Calls -> Nat]
      /\ Len(owners) \in Nat /\ DOMAIN owners = 1 .. Len(owners) /\ active \in 0 .. Len(owners)
      /\ UNCHANGED <<joined, outcome, stage>>
  BY OwnersKnown DEF WriterInv, Types, RefreshInv, Begin, Admit, Release
<1>1. CASE Begin(c)
  <2>1. /\ UNCHANGED <<owners, status, active>> /\ pc[c] = "new" /\ pc' = [pc EXCEPT ![c] = "ask"]
        /\ since' = since \/ since' = [since EXCEPT ![c] = IF active = 0 THEN Len(owners) + 1 ELSE active]
    BY <1>1 DEF Begin
  <2>2. LastPending' /\ since' \in [Calls -> Nat]
    <3>1. active # 0 => active = Len(owners)
      BY DEF RefreshInv, LastPending
    <3>2. ASSUME NEW d \in Calls
          PROVE  /\ since'[d] \in Nat /\ since'[d] <= Len(owners) + 1
                 /\ (active # 0 => since'[d] <= active)
      <4>1. since[d] \in Nat /\ since[d] <= Len(owners) + 1 /\ (active # 0 => since[d] <= active)
        BY <1>0 DEF RefreshInv, LastPending
      <4>2. since'[d] = since[d] \/ since'[d] = IF active = 0 THEN Len(owners) + 1 ELSE active
        BY <1>0, <2>1
      <4>3. CASE active = 0
        BY <1>0, <4>1, <4>2, <4>3
      <4>4. CASE active # 0
        BY <1>0, <3>1, <4>1, <4>2, <4>4
      <4> QED BY <4>3, <4>4
    <3>3. since' \in [Calls -> Nat]
      <4>1. DOMAIN since' = Calls /\ since' = [d \in Calls |-> since'[d]]
        BY <1>0, <2>1
      <4> QED BY <3>2, <4>1
    <3> QED BY <2>1, <3>2, <3>3 DEF RefreshInv, LastPending
  <2>3. JoinsLater'
    BY <1>0, <2>1 DEF RefreshInv, JoinsLater
  <2>4. \A d \in Calls \ {c} : (Refreshed(d)' <=> Refreshed(d)) /\ (Refreshing(d)' <=> Refreshing(d))
    BY <1>0, <2>1 DEF Refreshed, Refreshing, Works
  <2>5. Kind[c] = "resume" => ~Refreshing(c)'
    BY <1>0, <2>1 DEF RefreshInv, FirstStage, Refreshing
  <2> QED BY <1>0, <2>1, <2>2, <2>3, <2>4, <2>5 DEF RefreshInv
<1>2. CASE Admit(c)
  <2> DEFINE n == Len(owners) + 1
  <2>1. /\ status' = Append(status, "pending") /\ active = 0 /\ active' = n /\ since' = since
        /\ pc' = [pc EXCEPT ![c] = "admitted"]
        /\ owners' = Append(owners, [call |-> c, work |-> Works(c)])
    BY <1>2 DEF Admit
  <2>2. status \in Seq({"pending", "completed", "failed"}) /\ Len(status) = Len(owners)
    BY DEF RefreshInv, LastPending
  <2>3. /\ status' \in Seq({"pending", "completed", "failed"}) /\ Len(status') = n
        /\ status'[n] = "pending" /\ \A g \in DOMAIN owners : status'[g] = status[g]
    BY <1>0, <2>1, <2>2
  <2>4. /\ owners \in Seq([call : Calls, work : {"build", "report", "watch"}])
        /\ [call |-> c, work |-> Works(c)] \in [call : Calls, work : {"build", "report", "watch"}]
    BY WorkKinds DEF WriterInv, Types
  <2>5. /\ Len(owners') = n /\ DOMAIN owners' = 1 .. n
        /\ \A g \in DOMAIN owners : owners'[g] = owners[g] /\ g \in DOMAIN owners'
    BY <1>0, <2>1, <2>4
  <2>6. LastPending'
    <3>1. \A d \in Calls : since'[d] <= n /\ since'[d] <= n + 1
      BY <1>0, <2>1 DEF RefreshInv, LastPending
    <3> QED BY <2>1, <2>3, <2>5, <3>1 DEF LastPending
  <2>7. JoinsLater'
    BY <1>0, <2>1, <2>5 DEF RefreshInv, JoinsLater
  <2>8. \A d \in Calls : Refreshed(d) => Refreshed(d)'
    BY <2>1, <2>3, <2>5 DEF Refreshed
  <2>9. \A d \in Calls : Refreshing(d)' => Refreshing(d)
    BY <1>0, <2>1 DEF Refreshing, Works
  <2>10. \A d \in Calls : pc'[d] = "new" => pc[d] = "new"
    BY <1>0, <2>1
  <2> QED BY <1>0, <2>1, <2>6, <2>7, <2>8, <2>9, <2>10 DEF RefreshInv, FirstStage
<1>3. CASE Release(c)
  <2> DEFINE how == IF outcome[c] = "completed" THEN "completed" ELSE "failed"
  <2>1. /\ UNCHANGED <<owners, since>> /\ active' = 0 /\ status' = [status EXCEPT ![active] = how]
        /\ pc[c] = "releasing" /\ pc' = [pc EXCEPT ![c] = "told"]
    BY <1>3 DEF Release
  <2>2. active # 0 /\ owners[active].call = c /\ owners[active].work = Works(c)
    BY <2>1 DEF WriterInv, OneOwner, Owns, Owning
  <2>3. active \in DOMAIN owners /\ status[active] = "pending" /\ active = Len(owners)
    BY <1>0, <2>2 DEF RefreshInv, LastPending
  <2>4. /\ status \in Seq({"pending", "completed", "failed"}) /\ Len(status) = Len(owners)
    BY DEF RefreshInv, LastPending
  <2>5. /\ status' \in Seq({"pending", "completed", "failed"}) /\ Len(status') = Len(owners)
        /\ status'[active] = how /\ \A g \in DOMAIN owners \ {active} : status'[g] = status[g]
    BY <1>0, <2>1, <2>3, <2>4
  <2>6. LastPending'
    BY <2>1, <2>5 DEF RefreshInv, LastPending
  <2>7. JoinsLater'
    BY <1>0, <2>1 DEF RefreshInv, JoinsLater
  <2>8. \A d \in Calls : Refreshed(d) => Refreshed(d)'
    <3>1. \A g \in DOMAIN owners : status[g] = "completed" => status'[g] = "completed"
      BY <2>3, <2>5
    <3> QED BY <2>1, <3>1 DEF Refreshed
  <2>9. ASSUME Refreshing(c)', ~Refreshing(c) PROVE Refreshed(c)'
    <3>1. Works(c) = "build" /\ outcome[c] = "completed"
      BY <1>0, <2>9 DEF Refreshing, Works
    <3>2. since[c] <= active
      BY <2>2 DEF RefreshInv, LastPending
    <3> QED BY <2>1, <2>2, <2>3, <2>5, <3>1, <3>2 DEF Refreshed
  <2>10. \A d \in Calls \ {c} : Refreshing(d)' => Refreshing(d)
    BY <1>0, <2>1 DEF Refreshing, Works
  <2>11. \A d \in Calls : pc'[d] = "new" => pc[d] = "new"
    BY <1>0, <2>1
  <2> QED BY <1>0, <2>1, <2>6, <2>7, <2>8, <2>9, <2>10, <2>11 DEF RefreshInv, FirstStage
<1> QED BY <1>1, <1>2, <1>3

LEMMA RefreshInductive ==
  ASSUME WriterInv, RefreshInv, [Next]_vars
  PROVE  RefreshInv'
<1> USE DEF vars, caller, gate, startup, lifecycle, ended, managed
<1>1. CASE UNCHANGED <<caller, owners, active, status>>
  <2>1. \A d \in Calls : (Refreshed(d)' <=> Refreshed(d)) /\ (Refreshing(d)' <=> Refreshing(d))
    BY <1>1 DEF Refreshed, Refreshing, Works
  <2>2. LastPending' /\ JoinsLater'
    BY <1>1 DEF RefreshInv, LastPending, JoinsLater
  <2> QED BY <1>1, <2>1, <2>2 DEF RefreshInv, FirstStage
<1>2. ASSUME NEW c \in Calls, Begin(c) \/ CallStep(c) PROVE RefreshInv'
  BY <1>2, RefreshCallers, RefreshGate
<1>3. CASE Event
  <2>1. CASE \E c \in Calls : FiniteCloses(c) \/ Timeout(c)
    <3>1. PICK c \in Calls : FiniteCloses(c) \/ Timeout(c)
      BY <2>1
    <3>2. ~(Admit(c) \/ Release(c))
      <4>1. pc[c] \in {"running", "replacing", "stopping"}
        BY <3>1 DEF FiniteCloses, Timeout, ReplaceTimesOut, StopTimesOut
      <4> QED BY <4>1 DEF Admit, Requests, Asks, Release
    <3> QED BY <3>1, <3>2, RefreshCallers
  <2>2. CASE ~\E c \in Calls : FiniteCloses(c) \/ Timeout(c)
    <3>1. UNCHANGED <<caller, owners, active, status>>
      BY <1>3, <2>2 DEF Event, WatchCloses, BecomesReady, Deadline, ReadinessTimeout,
         StopGraceTimeout, User, StopWatch, Dispose, Cancel
    <3> QED BY <1>1, <3>1
  <2> QED BY <2>1, <2>2
<1> QED BY <1>1, <1>2, <1>3 DEF Next, Done

LEMMA RefreshInvariance == Spec => []RefreshInv
<1>1. ASSUME Init PROVE RefreshInv
  <2>1. since \in [Calls -> Nat] /\ DOMAIN outcome = Calls
        /\ \A c \in Calls : pc[c] = "new" /\ stage[c] = FirstStage(c)
    BY <1>1 DEF Init
  <2>2. LastPending
    BY <1>1 DEF Init, LastPending
  <2>3. JoinsLater /\ \A c \in Calls : ~(Kind[c] = "resume" /\ Refreshing(c))
    BY <2>1 DEF JoinsLater, Refreshing, FirstStage
  <2> QED BY <2>1, <2>2, <2>3 DEF RefreshInv
<1>2. WriterInv /\ RefreshInv /\ [Next]_vars => RefreshInv'
  BY RefreshInductive
<1> QED BY WriterInvariance, <1>1, <1>2, PTL DEF Spec

(* A managed workspace is watched only after a build of its target was      *)
(* completed by a mutation that ended after the resume began, whether it    *)
(* ran the build itself or joined one (completeResumeMutation).             *)
THEOREM RefreshPrecedesWatch == Spec => []WatchAfterRefresh
<1>1. ASSUME RefreshInv PROVE WatchAfterRefresh
  BY <1>1 DEF RefreshInv, Refreshing, Refreshed, WatchAfterRefresh
<1> QED BY RefreshInvariance, <1>1, PTL

-----------------------------------------------------------------------------
(* The remaining types, and the agreement the run checks as one invariant. *)

CallTypes ==
  /\ stage \in [Calls -> {"stop", "build", "again", "watch", "retry"}]
  /\ joined \in [Calls -> Events]
  /\ outcome \in [Calls -> {"none", "completed", "failed", "cancelled"}]
  /\ stopped \subseteq Calls

Starts ==
  {NoStart} \cup
    [target : {Target[c] : c \in Calls}, by : Calls,
     promise : {"pending", "ready", "cancelled", "failed"},
     deadline : {"off", "readiness", "grace"}, blamed : BOOLEAN]

UserTypes ==
  /\ failures \subseteq {Target[c] : c \in Calls}
  /\ cancelled \subseteq Calls /\ revoked \subseteq Calls
  /\ {disposed, enabled} \subseteq BOOLEAN

(* A caller in its startup awaits the startup promise.                     *)
AwaitsStart == \A c \in Calls : pc[c] = "starting" => joined[c].what = "start"

MoreTypes == CallTypes /\ UserTypes /\ AwaitsStart /\ start \in Starts

LEMMA SettledStart ==
  ASSUME start \in Starts, NEW how \in {"ready", "cancelled", "failed"}
  PROVE  SettleStart(how) \in Starts
<1>1. CASE start = NoStart
  <2>1. SettleStart(how) = [NoStart EXCEPT !.promise = "failed", !.deadline = "off"]
    BY <1>1 DEF SettleStart, NoStart
  <2> DEFINE Only == [target : {Nothing}, by : {Nothing}, promise : {"failed"}, deadline : {"off"},
                      blamed : {FALSE}]
  <2>2. SettleStart(how) \in Only /\ \A r \in Only : r = NoStart
    <3>1. NoStart \in Only
      BY DEF NoStart
    <3>2. SettleStart(how) \in Only
      BY <2>1, <3>1
    <3>3. ASSUME NEW r \in Only PROVE r = NoStart
      <4>1. r = [target |-> r.target, by |-> r.by, promise |-> r.promise, deadline |-> r.deadline,
                 blamed |-> r.blamed]
        OBVIOUS
      <4>2. /\ r.target = Nothing /\ r.by = Nothing /\ r.promise = "failed" /\ r.deadline = "off"
            /\ r.blamed = FALSE
        OBVIOUS
      <4> QED BY <4>1, <4>2 DEF NoStart
    <3> QED BY <3>2, <3>3
  <2>3. SettleStart(how) = NoStart
    BY <2>2
  <2> QED BY <2>3 DEF Starts
<1>2. CASE start # NoStart
  BY <1>2 DEF Starts, SettleStart
<1> QED BY <1>1, <1>2

LEMMA TypesOfCalls ==
  ASSUME WriterInv, MoreTypes, NEW c \in Calls,
         Begin(c) \/ CallStep(c) \/ FiniteCloses(c) \/ Timeout(c)
  PROVE  MoreTypes'
<1> USE DEF caller, gate, startup, lifecycle, ended, managed, At, Awaits, Forget, Goes, Ends
<1>1. {child, active, watchStart, generation, 0, generation + 1} \subseteq Nat
  BY OwnersKnown DEF WriterInv, Types
<1>2. \A n \in Nat : {On("release", n), On("generation", n), On("start", n), On("close", n),
                      Nothing} \subseteq Events
  BY DEF On, Nothing, Events
<1>3. CallTypes'
  <2>1. stage' \in [Calls -> {"stop", "build", "again", "watch", "retry"}]
    BY DEF MoreTypes, CallTypes, Begin, CallStep, Return, Refuse, FindBusy, Admit, Joined, Execute,
       Finish, Settle, Release, Told, StartWatchProcess, Replace, Started, StopAndWait, StopEnds,
       FiniteCloses, Timeout, ReplaceTimesOut, StopTimesOut
  <2>2. \/ joined' = joined
        \/ \E j \in Events : joined' = [joined EXCEPT ![c] = j]
    BY <1>1, <1>2 DEF Begin, CallStep, Return, Refuse, FindBusy, Admit, Joined, Execute,
       Finish, Settle, Release, Told, StartWatchProcess, Replace, Spawn, Started, StopAndWait,
       StopEnds, FiniteCloses, Timeout, ReplaceTimesOut, StopTimesOut
  <2>3. joined' \in [Calls -> Events]
    BY <2>2 DEF MoreTypes, CallTypes
  <2>4. outcome' \in [Calls -> {"none", "completed", "failed", "cancelled"}]
    <3>1. CASE Started(c)
      <4>1. start.promise \in {"pending", "ready", "cancelled", "failed"}
        BY DEF MoreTypes, Starts, NoStart
      <4>2. start.promise # "pending"
        BY <3>1 DEF Started, MoreTypes, AwaitsStart, Settled
      <4> QED BY <3>1, <4>1, <4>2 DEF Started, MoreTypes, CallTypes
    <3>2. CASE ~Started(c)
      BY <3>2 DEF MoreTypes, CallTypes, Begin, CallStep, Return, Refuse, FindBusy, Admit, Joined,
         Execute, Finish, Settle, Release, Told, StartWatchProcess, Replace, Spawn, StopAndWait,
         StopEnds, FiniteCloses, Timeout, ReplaceTimesOut, StopTimesOut
    <3> QED BY <3>1, <3>2
  <2>5. stopped' \subseteq Calls
    BY DEF MoreTypes, CallTypes, Begin, CallStep, Return, Refuse, FindBusy, Admit, Joined, Execute,
       Finish, Settle, Release, Told, StartWatchProcess, Replace, Started, StopAndWait, StopEnds,
       FiniteCloses, Timeout, ReplaceTimesOut, StopTimesOut
  <2> QED BY <2>1, <2>3, <2>4, <2>5 DEF CallTypes
<1>4. UserTypes'
  BY DEF MoreTypes, UserTypes, Latched, Begin, CallStep, Return, Refuse, FindBusy, Admit, Joined,
     Execute, Finish, Settle, Release, Told, StartWatchProcess, Replace, Started, StopAndWait,
     StopEnds, FiniteCloses, Timeout, ReplaceTimesOut, StopTimesOut
<1>5. start' \in Starts
  <2>1. start' = start \/ Spawn(c)
    BY DEF Begin, CallStep, Return, Refuse, FindBusy, Admit, Joined, Execute,
       Finish, Settle, Release, Told, StartWatchProcess, Replace, Started, StopAndWait,
       StopEnds, FiniteCloses, Timeout, ReplaceTimesOut, StopTimesOut
  <2>2. CASE Spawn(c)
    <3> DEFINE new(promise, deadline) ==
          [target |-> Target[c], by |-> c, promise |-> promise, deadline |-> deadline,
           blamed |-> FALSE]
    <3>1. start' \in {start, new("pending", "readiness"), new("failed", "off")}
      BY <2>2 DEF Spawn
    <3>2. {new("pending", "readiness"), new("failed", "off")} \subseteq Starts
      BY DEF Starts
    <3> QED BY <3>1, <3>2 DEF MoreTypes
  <2> QED BY <2>1, <2>2 DEF MoreTypes
<1>6. AwaitsStart'
  <2>1. pc \in [Calls -> Steps] /\ DOMAIN joined = Calls
    BY DEF WriterInv, Types
  <2>2. \A d \in Calls \ {c} : pc'[d] = pc[d] /\ joined'[d] = joined[d]
    BY <2>1 DEF Begin, CallStep, Return, Refuse, FindBusy, Admit, Joined, Execute,
       Finish, Settle, Release, Told, StartWatchProcess, Replace, Spawn, Started, StopAndWait,
       StopEnds, FiniteCloses, Timeout, ReplaceTimesOut, StopTimesOut
  <2>3. CASE StartWatchProcess(c) \/ Replace(c)
    <3>1. pc'[c] = "starting" => joined'[c].what = "start"
      BY <2>1, <2>3 DEF StartWatchProcess, Replace, Spawn, On
    <3> QED BY <2>2, <3>1 DEF MoreTypes, AwaitsStart
  <2>4. CASE ~(StartWatchProcess(c) \/ Replace(c))
    <3>1. pc'[c] # "starting"
      BY <2>1, <2>4 DEF Begin, CallStep, Return, Refuse, FindBusy, Admit, Joined, Execute,
         Finish, Settle, Release, Told, Started, StopAndWait, StopEnds, FiniteCloses, Timeout,
         ReplaceTimesOut, StopTimesOut
    <3> QED BY <2>2, <3>1 DEF MoreTypes, AwaitsStart
  <2> QED BY <2>3, <2>4
<1> QED BY <1>3, <1>4, <1>5, <1>6 DEF MoreTypes

LEMMA TypesOfEvents ==
  ASSUME WriterInv, MoreTypes,
         (\E n \in 1 .. generation : WatchCloses(n)) \/ BecomesReady \/ Deadline \/ User
  PROVE  MoreTypes'
<1> USE DEF caller, gate, startup, lifecycle, ended, managed
<1>1. CallTypes' /\ AwaitsStart'
  BY DEF MoreTypes, CallTypes, AwaitsStart, WatchCloses, BecomesReady, Deadline, ReadinessTimeout,
     StopGraceTimeout, User, StopWatch, Dispose, Cancel
<1>2. UserTypes'
  BY DEF MoreTypes, UserTypes, WatchCloses, BecomesReady, Deadline, ReadinessTimeout,
     StopGraceTimeout, User, StopWatch, Dispose, Cancel
<1>3. start' \in Starts
  <2>1. CASE ReadinessTimeout
    <3>1. start \in Starts /\ start # NoStart
      BY <2>1 DEF MoreTypes, ReadinessTimeout, NoStart
    <3>2. PICK deadline \in {"off", "readiness", "grace"}, blamed \in BOOLEAN :
            start' = [start EXCEPT !.deadline = deadline, !.blamed = blamed]
      BY <2>1, <3>1 DEF ReadinessTimeout, Starts
    <3> QED BY <3>1, <3>2 DEF Starts
  <2>2. CASE StopGraceTimeout
    <3>1. start \in Starts /\ start # NoStart
      BY <2>2 DEF MoreTypes, StopGraceTimeout, NoStart
    <3>2. PICK how \in {"cancelled", "failed"} :
            \/ start' = [start EXCEPT !.deadline = "off"]
            \/ start' = SettleStart(how)
            \/ start' = [SettleStart(how) EXCEPT !.blamed = TRUE]
      BY <2>2 DEF StopGraceTimeout
    <3> QED BY <3>1, <3>2 DEF Starts, SettleStart
  <2>3. CASE BecomesReady \/ \E n \in 1 .. generation : WatchCloses(n)
    BY <2>3, SettledStart DEF MoreTypes, BecomesReady, WatchCloses
  <2>4. CASE User
    BY <2>4 DEF MoreTypes, User, StopWatch, Dispose, Cancel
  <2> QED BY <2>1, <2>2, <2>3, <2>4 DEF Deadline
<1> QED BY <1>1, <1>2, <1>3 DEF MoreTypes

(* At every step the variables keep their types, and the coordinator, the   *)
(* watch fields of GraphoxideCli and the lifecycle agree on who writes.     *)
THEOREM GateAgreement == Spec => []GateInv
<1>1. ASSUME Init PROVE MoreTypes
  <2>1. CallTypes
    BY <1>1 DEF Init, CallTypes, FirstStage, Nothing, Events
  <2>2. UserTypes /\ AwaitsStart /\ start \in Starts
    BY <1>1 DEF Init, UserTypes, AwaitsStart, Starts
  <2> QED BY <2>1, <2>2 DEF MoreTypes
<1>2. ASSUME WriterInv, MoreTypes, [Next]_vars PROVE MoreTypes'
  <2>1. CASE UNCHANGED vars
    BY <1>2, <2>1 DEF vars, caller, gate, startup, lifecycle, ended, managed, MoreTypes, CallTypes,
       UserTypes, AwaitsStart
  <2>2. CASE \E c \in Calls : Begin(c) \/ CallStep(c)
    BY <1>2, <2>2, TypesOfCalls
  <2>3. CASE Event
    BY <1>2, <2>3, TypesOfCalls, TypesOfEvents DEF Event
  <2> QED BY <1>2, <2>1, <2>2, <2>3 DEF Next, Done
<1>3. WriterInv /\ MoreTypes /\ [Next]_vars => MoreTypes'
  BY <1>2
<1>4. Spec => []MoreTypes
  BY WriterInvariance, <1>1, <1>3, PTL DEF Spec
<1>5. Spec => []RefreshInv
  BY RefreshInvariance
<1>6. ASSUME WriterInv, MoreTypes, RefreshInv PROVE GateInv
  <2>1. TypeOK
    BY <1>6 DEF TypeOK, WriterInv, Types, Phases, MoreTypes, CallTypes, UserTypes, Starts,
       RefreshInv, LastPending
  <2> QED BY <1>6, <2>1 DEF GateInv, WriterInv
<1> QED BY WriterInvariance, <1>4, <1>5, <1>6, PTL
=============================================================================
