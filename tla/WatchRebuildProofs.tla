------------------------- MODULE WatchRebuildProofs -------------------------
(***************************************************************************)
(* Theorems about WatchRebuild, for any number of files, hooks and update  *)
(* commands, any pass limit and either executor.  Steps preserve the       *)
(* inductive invariant WatchInv conjunct by conjunct: types, then who      *)
(* holds the lock, then what candidates hold, then the manifest, then who  *)
(* answers for each change.                                                *)
(***************************************************************************)
EXTENDS WatchRebuild, TLAPS

USE DEF All, Hooks, Procs

Holding == {"drain", "start", "scan", "manifest", "clear", "late", "unlock"}

(* At most one process is past its acquisition: the lock names it.         *)
LEMMA OneHolder ==
  ASSUME LockHeldByPass,
         NEW p \in Procs, NEW q \in Procs,
         pc[p] \in Holding, pc[q] \in Holding
  PROVE  p = q
  BY DEF LockHeldByPass, Holding

(* The initial state satisfies the invariant: nothing is stale.            *)
LEMMA InitInv == Init => WatchInv
<1> SUFFICES ASSUME Init PROVE WatchInv
  OBVIOUS
<1>1. TypeOK
  <2>1. 0 \in 0..(MaxPasses + 1)
    BY WatchAssumption
  <2>2. /\ pc \in [Procs -> Locations]
        /\ work \in [Procs -> SUBSET Files]
        /\ pass \in [Procs -> 0..(MaxPasses + 1)]
        /\ unread \in [Procs -> SUBSET Files]
        /\ skipped \in [Procs -> SUBSET Files]
        /\ candidate \in [Procs -> SUBSET Files]
    BY <2>1 DEF Init, Locations
  <2> QED BY <2>2 DEF Init, TypeOK
<1>2. LockHeldByPass
  BY WatchAssumption DEF Init, LockHeldByPass
<1>3. CandidatesCurrent
  BY DEF Init, CandidatesCurrent
<1>4. ManifestNeverAhead /\ ChangesAnswered
  BY DEF Init, ManifestNeverAhead, ChangesAnswered
<1> QED BY <1>1, <1>2, <1>3, <1>4 DEF WatchInv

(* Every step keeps the types.                                             *)
LEMMA TypeStep == TypeOK /\ [Next]_vars => TypeOK'
<1> SUFFICES ASSUME TypeOK, [Next]_vars PROVE TypeOK'
  OBVIOUS
<1> USE WatchAssumption DEF TypeOK, Locations, Goto, Return, PassVars, progress,
        scanned, published, shared, history, Forget, Free
<1>1. ASSUME NEW f \in All, Edit(f) PROVE TypeOK'
  BY <1>1 DEF Edit
<1>2. ASSUME NEW p \in Procs, StartCommitHook(p) PROVE TypeOK'
  BY <1>2 DEF StartCommitHook
<1>3. ASSUME NEW p \in Procs, StartFull(p) PROVE TypeOK'
  BY <1>3 DEF StartFull
<1>4. ASSUME NEW f \in All, Receive(f) PROVE TypeOK'
  BY <1>4 DEF Receive
<1>5. CASE EndBatch
  BY <1>5 DEF EndBatch
<1>6. CASE Notify
  BY <1>6 DEF Notify
<1>9. CASE WatcherEnds
  BY <1>9 DEF WatcherEnds, Carried
<1>7. ASSUME NEW p \in Procs, CallStep(p) PROVE TypeOK'
  <2>1. CASE Queue(p)
    BY <2>1 DEF Queue
  <2>2. CASE Acquire(p)
    BY <2>2 DEF Acquire
  <2>3. CASE Contended(p)
    BY <2>3 DEF Contended
  <2>4. CASE Drain(p)
    BY <2>4 DEF Drain
  <2>5. CASE StartPass(p)
    BY <2>5 DEF StartPass, Targets
  <2>6. ASSUME NEW f \in Files, ReadFile(p, f) PROVE TypeOK'
    BY <2>6 DEF ReadFile
  <2>15. ASSUME NEW f \in Files, SkipFile(p, f) PROVE TypeOK'
    BY <2>15 DEF SkipFile
  <2>7. CASE Accept(p)
    BY <2>7 DEF Accept
  <2>8. CASE CommitManifest(p)
    BY <2>8 DEF CommitManifest
  <2>9. CASE ClearNeedsUpdate(p)
    BY <2>9 DEF ClearNeedsUpdate
  <2>10. CASE Refuse(p)
    BY <2>10 DEF Refuse
  <2>11. CASE LateDrain(p)
    BY <2>11 DEF LateDrain
  <2>12. CASE LateDrainEnds(p)
    BY <2>12 DEF LateDrainEnds
  <2>13. CASE Unlock(p)
    BY <2>13 DEF Unlock
  <2>14. CASE Fail(p)
    BY <2>14 DEF Fail, Carried
  <2> QED BY <1>7, <2>1, <2>2, <2>3, <2>4, <2>5, <2>6, <2>7, <2>8, <2>9,
             <2>10, <2>11, <2>12, <2>13, <2>14, <2>15 DEF CallStep
<1>8. CASE UNCHANGED vars
  BY <1>8 DEF vars
<1> QED BY <1>1, <1>2, <1>3, <1>4, <1>5, <1>6, <1>7, <1>8, <1>9
        DEF Next, Environment

(* Every step keeps the lock honest.                                       *)
LEMMA LockStep ==
  TypeOK /\ LockHeldByPass /\ [Next]_vars => LockHeldByPass'
<1> SUFFICES ASSUME TypeOK, LockHeldByPass, [Next]_vars
             PROVE  LockHeldByPass'
  OBVIOUS
<1> USE WatchAssumption DEF TypeOK, LockHeldByPass, Goto, Return, PassVars, progress,
        scanned, published, shared, history, Forget, Free
<1>1. ASSUME NEW f \in All, Edit(f) PROVE LockHeldByPass'
  BY <1>1 DEF Edit
<1>2. ASSUME NEW p \in Procs, StartCommitHook(p) PROVE LockHeldByPass'
  BY <1>2 DEF StartCommitHook
<1>3. ASSUME NEW p \in Procs, StartFull(p) PROVE LockHeldByPass'
  BY <1>3 DEF StartFull
<1>4. ASSUME NEW f \in All, Receive(f) PROVE LockHeldByPass'
  BY <1>4 DEF Receive
<1>5. CASE EndBatch
  BY <1>5 DEF EndBatch
<1>6. CASE Notify
  BY <1>6 DEF Notify
<1>9. CASE WatcherEnds
  BY <1>9 DEF WatcherEnds
<1>7. ASSUME NEW p \in Procs, CallStep(p) PROVE LockHeldByPass'
  <2>1. CASE Queue(p)
    BY <2>1 DEF Queue
  <2>2. CASE Acquire(p)
    BY <2>2 DEF Acquire
  <2>3. CASE Contended(p)
    BY <2>3 DEF Contended
  <2>4. CASE Drain(p)
    BY <2>4 DEF Drain
  <2>5. CASE StartPass(p)
    BY <2>5 DEF StartPass
  <2>6. ASSUME NEW f \in Files, ReadFile(p, f) PROVE LockHeldByPass'
    BY <2>6 DEF ReadFile
  <2>15. ASSUME NEW f \in Files, SkipFile(p, f) PROVE LockHeldByPass'
    BY <2>15 DEF SkipFile
  <2>7. CASE Accept(p)
    BY <2>7 DEF Accept
  <2>8. CASE CommitManifest(p)
    BY <2>8 DEF CommitManifest
  <2>9. CASE ClearNeedsUpdate(p)
    BY <2>9 DEF ClearNeedsUpdate
  <2>10. CASE Refuse(p)
    BY <2>10 DEF Refuse
  <2>11. CASE LateDrain(p)
    BY <2>11 DEF LateDrain
  <2>12. CASE LateDrainEnds(p)
    BY <2>12 DEF LateDrainEnds
  <2>13. CASE Unlock(p)
    BY <2>13 DEF Unlock
  <2>14. CASE Fail(p)
    BY <2>14 DEF Fail
  <2> QED BY <1>7, <2>1, <2>2, <2>3, <2>4, <2>5, <2>6, <2>7, <2>8, <2>9,
             <2>10, <2>11, <2>12, <2>13, <2>14, <2>15 DEF CallStep
<1>8. CASE UNCHANGED vars
  BY <1>8 DEF vars
<1> QED BY <1>1, <1>2, <1>3, <1>4, <1>5, <1>6, <1>7, <1>8, <1>9
        DEF Next, Environment

(* What a pass publishes was current in the graph or has been read since:  *)
(* no file becomes stale by being published.                               *)
LEMMA PublishShrinks ==
  ASSUME NEW p \in Procs, TypeOK, CandidatesCurrent, Accept(p)
  PROVE  stale' \subseteq stale
  BY DEF Accept, Goto, TypeOK, CandidatesCurrent

(* Every step keeps candidates and the manifest honest.                    *)
LEMMA PublishStep ==
  /\ TypeOK /\ LockHeldByPass /\ CandidatesCurrent /\ ManifestNeverAhead
  /\ [Next]_vars
  => CandidatesCurrent' /\ ManifestNeverAhead'
<1> DEFINE Kept == CandidatesCurrent' /\ ManifestNeverAhead'
<1> SUFFICES ASSUME TypeOK, LockHeldByPass, CandidatesCurrent,
                    ManifestNeverAhead, [Next]_vars
             PROVE  Kept
  OBVIOUS
<1> USE WatchAssumption DEF TypeOK, CandidatesCurrent, ManifestNeverAhead, Goto,
        Return, PassVars, progress, scanned, published, shared, history, Forget,
        Free
<1>1. ASSUME NEW f \in All, Edit(f) PROVE Kept
  BY <1>1 DEF Edit
<1>2. ASSUME NEW p \in Procs, StartCommitHook(p) PROVE Kept
  BY <1>2 DEF StartCommitHook
<1>3. ASSUME NEW p \in Procs, StartFull(p) PROVE Kept
  BY <1>3 DEF StartFull
<1>4. ASSUME NEW f \in All, Receive(f) PROVE Kept
  BY <1>4 DEF Receive
<1>5. CASE EndBatch
  BY <1>5 DEF EndBatch
<1>6. CASE Notify
  BY <1>6 DEF Notify
<1>9. CASE WatcherEnds
  BY <1>9 DEF WatcherEnds
<1>7. ASSUME NEW p \in Procs, CallStep(p) PROVE Kept
  <2>1. CASE Queue(p)
    BY <2>1 DEF Queue
  <2>2. CASE Acquire(p)
    BY <2>2 DEF Acquire
  <2>3. CASE Contended(p)
    BY <2>3 DEF Contended
  <2>4. CASE Drain(p)
    BY <2>4 DEF Drain
  <2>5. CASE StartPass(p)
    BY <2>5 DEF StartPass
  <2>6. ASSUME NEW f \in Files, ReadFile(p, f) PROVE Kept
    BY <2>6 DEF ReadFile
  <2>15. ASSUME NEW f \in Files, SkipFile(p, f) PROVE Kept
    BY <2>15 DEF SkipFile
  <2>7. CASE Accept(p)
    <3>1. stale' \subseteq stale
      BY <2>7, PublishShrinks
    <3>2. \A q \in Procs : q # p => pc[q] \notin {"scan", "manifest"}
      BY <2>7 DEF Accept, LockHeldByPass
    <3> QED BY <2>7, <3>1, <3>2 DEF Accept
  <2>8. CASE CommitManifest(p)
    BY <2>8 DEF CommitManifest
  <2>9. CASE ClearNeedsUpdate(p)
    BY <2>9 DEF ClearNeedsUpdate
  <2>10. CASE Refuse(p)
    BY <2>10 DEF Refuse
  <2>11. CASE LateDrain(p)
    BY <2>11 DEF LateDrain
  <2>12. CASE LateDrainEnds(p)
    BY <2>12 DEF LateDrainEnds
  <2>13. CASE Unlock(p)
    BY <2>13 DEF Unlock
  <2>14. CASE Fail(p)
    BY <2>14 DEF Fail
  <2> QED BY <1>7, <2>1, <2>2, <2>3, <2>4, <2>5, <2>6, <2>7, <2>8, <2>9,
             <2>10, <2>11, <2>12, <2>13, <2>14, <2>15 DEF CallStep
<1>8. CASE UNCHANGED vars
  BY <1>8 DEF vars
<1> QED BY <1>1, <1>2, <1>3, <1>4, <1>5, <1>6, <1>7, <1>8, <1>9
        DEF Next, Environment

(* Every step keeps someone answering for each change.                     *)
LEMMA AnswerStep ==
  WatchInv /\ [Next]_vars => ChangesAnswered'
<1> SUFFICES ASSUME WatchInv, [Next]_vars, NEW g \in Files, g \in stale'
             PROVE  \/ g \in events' \cup journal' \cup lost' \cup warned'
                    \/ pc'[Watcher] = "batch" /\ g \in batch'
                    \/ \E q \in Procs : Answers(q, g)'
  BY TypeStep DEF ChangesAnswered, WatchInv, TypeOK
<1> DEFINE Answered == \/ g \in events' \cup journal' \cup lost' \cup warned'
                       \/ pc'[Watcher] = "batch" /\ g \in batch'
                       \/ \E q \in Procs : Answers(q, g)'
<1> USE WatchAssumption DEF WatchInv, TypeOK, Goto, Return, PassVars, progress,
        scanned, published, shared, history, Forget, Free, ChangesAnswered, Answers
<1>1. ASSUME NEW f \in All, Edit(f) PROVE Answered
  BY <1>1 DEF Edit
<1>2. ASSUME NEW p \in Procs, StartCommitHook(p) PROVE Answered
  BY <1>2 DEF StartCommitHook
<1>3. ASSUME NEW p \in Procs, StartFull(p) PROVE Answered
  BY <1>3 DEF StartFull
<1>4. ASSUME NEW f \in All, Receive(f) PROVE Answered
  BY <1>4 DEF Receive
<1>5. CASE EndBatch
  BY <1>5 DEF EndBatch
<1>6. CASE Notify
  BY <1>6 DEF Notify
<1>9. CASE WatcherEnds
  BY <1>9 DEF WatcherEnds, Carried
<1>7. ASSUME NEW p \in Procs, CallStep(p) PROVE Answered
  <2>1. CASE Queue(p)
    BY <2>1 DEF Queue
  <2>2. CASE Acquire(p)
    BY <2>2 DEF Acquire
  <2>3. CASE Contended(p)
    BY <2>3 DEF Contended
  <2>4. CASE Drain(p)
    BY <2>4 DEF Drain
  <2>5. CASE StartPass(p)
    BY <2>5 DEF StartPass, Targets
  <2>6. ASSUME NEW f \in Files, ReadFile(p, f) PROVE Answered
    BY <2>6 DEF ReadFile, Rereads, ManifestNeverAhead, Targets
  <2>15. ASSUME NEW f \in Files, SkipFile(p, f) PROVE Answered
    BY <2>15 DEF SkipFile, Rereads
  <2>7. CASE Accept(p)
    BY <2>7 DEF Accept, CandidatesCurrent
  <2>8. CASE CommitManifest(p)
    BY <2>8 DEF CommitManifest
  <2>9. CASE ClearNeedsUpdate(p)
    BY <2>9 DEF ClearNeedsUpdate
  <2>10. CASE Refuse(p)
    BY <2>10 DEF Refuse
  <2>11. CASE LateDrain(p)
    BY <2>11 DEF LateDrain
  <2>12. CASE LateDrainEnds(p)
    BY <2>12 DEF LateDrainEnds
  <2>13. CASE Unlock(p)
    BY <2>13 DEF Unlock
  <2>14. CASE Fail(p)
    BY <2>14 DEF Fail, Carried
  <2> QED BY <1>7, <2>1, <2>2, <2>3, <2>4, <2>5, <2>6, <2>7, <2>8, <2>9,
             <2>10, <2>11, <2>12, <2>13, <2>14, <2>15 DEF CallStep
<1>8. CASE UNCHANGED vars
  BY <1>8 DEF vars
<1> QED BY <1>1, <1>2, <1>3, <1>4, <1>5, <1>6, <1>7, <1>8, <1>9
        DEF Next, Environment

(* The inductive invariant holds in every reachable state.                 *)
THEOREM WatchInvariance == Spec => []WatchInv
<1>1. WatchInv /\ [Next]_vars => WatchInv'
  BY TypeStep, LockStep, PublishStep, AnswerStep DEF WatchInv
<1> QED BY InitInv, <1>1, PTL DEF Spec

(* Types, in particular the bound on the passes of one call.               *)
THEOREM WatchTypeCorrectness == Spec => []TypeOK
<1>1. WatchInv => TypeOK
  BY DEF WatchInv
<1> QED BY WatchInvariance, <1>1, PTL

(* A process is past its acquisition exactly when it holds the lock, also  *)
(* after failures, refusals and kills.                                     *)
THEOREM LockHonesty == Spec => []LockHeldByPass
<1>1. WatchInv => LockHeldByPass
  BY DEF WatchInv
<1> QED BY WatchInvariance, <1>1, PTL

(* A file the manifest calls unchanged is in the graph as it is.           *)
THEOREM ManifestSafety == Spec => []ManifestNeverAhead
<1>1. WatchInv => ManifestNeverAhead
  BY DEF WatchInv
<1> QED BY WatchInvariance, <1>1, PTL

(* No code change is forgotten by the journal protocol.                    *)
THEOREM NoChangeForgotten == Spec => []ChangesAccounted
<1>1. ASSUME WatchInv, NEW f \in stale, NEW p \in Procs,
             Answers(p, f)
      PROVE  \/ pc[p] = "queue" /\ f \in work[p]
             \/ Scanning(p, f)
  BY <1>1 DEF Answers, Scanning, Targets, WatchInv, TypeOK
<1>2. WatchInv => ChangesAccounted
  BY <1>1 DEF WatchInv, ChangesAnswered, ChangesAccounted
<1> QED BY WatchInvariance, <1>2, PTL

(* Publishing never takes the graph back: a step that makes a file stale   *)
(* is an edit.                                                             *)
THEOREM GraphMonotonicity == Spec => GraphNeverRegresses
<1>1. WatchInv /\ [Next]_vars
        => [stale' \ stale # {} => \E f \in Files : Edit(f)]_vars
  <2> SUFFICES ASSUME WatchInv, [Next]_vars, stale' \ stale # {}
               PROVE  \E f \in Files : Edit(f)
    OBVIOUS
  <2>1. ASSUME NEW p \in Procs, CallStep(p) PROVE stale' \subseteq stale
    <3>1. CASE Accept(p)
      BY <3>1, PublishShrinks DEF WatchInv
    <3>2. CASE ~Accept(p)
      BY <2>1, <3>2 DEF CallStep, Queue, Acquire, Contended, Drain, StartPass,
         ReadFile, SkipFile, CommitManifest, ClearNeedsUpdate, Refuse, LateDrain,
         LateDrainEnds, Unlock, Fail, published
    <3> QED BY <3>1, <3>2
  <2>2. ASSUME NEW p \in Procs, StartCommitHook(p) \/ StartFull(p)
        PROVE  stale' = stale
    BY <2>2 DEF StartCommitHook, StartFull, published
  <2>3. ASSUME NEW f \in All, Receive(f) PROVE stale' = stale
    BY <2>3 DEF Receive, published
  <2>4. CASE EndBatch \/ Notify \/ WatcherEnds \/ UNCHANGED vars
    BY <2>4 DEF EndBatch, Notify, WatcherEnds, vars, published
  <2>5. ASSUME NEW f \in All, Edit(f) PROVE \E g \in Files : Edit(g)
    BY <2>5 DEF Edit
  <2> QED BY <2>1, <2>2, <2>3, <2>4, <2>5 DEF Next, Environment
<1> QED BY WatchInvariance, <1>1, PTL DEF Spec, GraphNeverRegresses
=============================================================================
