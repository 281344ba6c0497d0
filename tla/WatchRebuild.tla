---------------------------- MODULE WatchRebuild ----------------------------
(***************************************************************************)
(* How the processes of one project share its graph: the file watcher, the *)
(* git hooks and `graphoxide update` (crates/graphoxide-cli/src/watch.rs   *)
(* and main.rs).  They meet in the output directory, in three files: the   *)
(* rebuild lock (an flock), the journal of changed paths waiting for a     *)
(* rebuild, and the needs_update notice about non-code changes.            *)
(*                                                                         *)
(* Contents are abstracted to what the properties tell apart: whether the  *)
(* published graph, or the candidate a pass is building, holds the current *)
(* content of a file.  `stale' is the set of files the published graph     *)
(* does not reflect; candidate[p] the set of files whose current content   *)
(* is in p's candidate.  Of the notes, whose change calls for no rebuild,  *)
(* only the events count.  Edits are unbounded.                            *)
(*                                                                         *)
(* PathsOnly chooses the executor: the legacy one re-reads only the paths  *)
(* it is handed, the isolated one scans the tree on every pass.  A graph   *)
(* and a manifest exist from the start.                                    *)
(***************************************************************************)
EXTENDS Naturals

CONSTANTS
  Files,          \* files whose change calls for a structural rebuild
  Notes,          \* the other watched files
  Watcher,        \* the `graphoxide watch` process
  CommitHooks,    \* post-commit hooks, given the changed paths
  CheckoutHooks,  \* post-checkout hooks, a full rebuild
  Updaters,       \* `graphoxide update` commands, which wait for the lock
  Nobody,         \* the lock is free
  PathsOnly,      \* BOOLEAN: the legacy executor
  MaxPasses,      \* PENDING_DRAIN_MAX_PASSES
  MayFail         \* BOOLEAN: files cannot be extracted, calls fail, are
                  \* refused, or are killed, the watcher ends

All == Files \cup Notes
Hooks == CommitHooks \cup CheckoutHooks
Procs == {Watcher} \cup Hooks \cup Updaters

ASSUME WatchAssumption ==
  /\ Files \cap Notes = {}
  /\ PathsOnly \in BOOLEAN
  /\ MayFail \in BOOLEAN
  /\ MaxPasses \in Nat \ {0}
  /\ Watcher \notin Hooks \cup Updaters
  /\ CommitHooks \cap CheckoutHooks = {}
  /\ Hooks \cap Updaters = {}
  /\ Nobody \notin Procs

VARIABLES
  stale,      \* files the published graph does not reflect
  recorded,   \* files whose manifest row matches their current content
  events,     \* file events in the watcher's channel
  batch,      \* what the watcher coalesced
  journal,    \* .pending_changes
  flag,       \* needs_update exists
  lock,       \* who holds .rebuild.lock
  pc,         \* where each process is
  work,       \* the paths a process answers for
  pass,       \* the pass it runs
  unread,     \* files its pass has yet to read
  skipped,    \* files its pass could not extract
  candidate,  \* files whose current content its candidate graph holds
  lost,       \* history: changes gone with a failed, refused or killed call,
              \* or made after the watcher ended
  warned      \* history: changes a pass skipped with a warning

scanned == <<unread, skipped, candidate>>
progress == <<pass, scanned>>
PassVars == <<work, progress>>
history == <<lost, warned>>
published == <<stale, recorded>>
shared == <<journal, flag, lock>>
vars == <<published, events, batch, shared, pc, history, PassVars>>

Locations == {"idle", "batch", "queue", "lock", "drain", "start", "scan",
              "manifest", "clear", "late", "unlock", "notify", "ended"}

Init ==
  /\ stale = {}
  /\ recorded = Files
  /\ events = {}
  /\ batch = {}
  /\ journal = {}
  /\ flag = FALSE
  /\ lock = Nobody
  /\ pc = [p \in Procs |-> "idle"]
  /\ work = [p \in Procs |-> {}]
  /\ pass = [p \in Procs |-> 0]
  /\ unread = [p \in Procs |-> {}]
  /\ skipped = [p \in Procs |-> {}]
  /\ candidate = [p \in Procs |-> {}]
  /\ lost = {}
  /\ warned = {}

(* Calls that name their changed paths: the watcher and post-commit.       *)
Explicit(p) == p \in {Watcher} \cup CommitHooks

(* `update' takes the lock without the journal when it is isolated.        *)
UsesJournal(p) == p \notin Updaters \/ PathsOnly

(* What a pass reads.                                                      *)
Targets(p) == IF PathsOnly /\ Explicit(p) THEN work[p] ELSE Files

Goto(p, from, to) ==
  /\ pc[p] = from
  /\ pc' = [pc EXCEPT ![p] = to]

(* Where a call returns: the watcher goes on to the notice.                *)
Return(p) == IF p = Watcher THEN "notify" ELSE "idle"

-----------------------------------------------------------------------------
(* The environment.                                                        *)

(* A file is written, created or removed under the watched tree.  The      *)
(* watcher, while there is one, gets an event: the change is a new one,    *)
(* whatever became of an earlier change of the file.                       *)
Edit(f) ==
  /\ stale' = stale \cup ({f} \cap Files)
  /\ recorded' = recorded \ {f}
  /\ candidate' = [p \in Procs |-> candidate[p] \ {f}]
  /\ warned' = warned \ {f}
  /\ \/ /\ pc[Watcher] # "ended"
        /\ events' = events \cup {f}
        /\ lost' = lost \ {f}
     \/ /\ pc[Watcher] = "ended"
        /\ lost' = lost \cup ({f} \cap Files)
        /\ UNCHANGED events
  /\ UNCHANGED <<batch, shared, pc, work, pass, unread, skipped>>

(* git runs a post-commit hook with the paths of the commit.               *)
StartCommitHook(p) ==
  /\ p \in CommitHooks
  /\ \E changed \in SUBSET Files \ {{}} : work' = [work EXCEPT ![p] = changed]
  /\ Goto(p, "idle", "queue")
  /\ UNCHANGED <<published, events, batch, shared, progress, history>>

(* A post-checkout hook, or a user who runs `graphoxide update'.           *)
StartFull(p) ==
  /\ p \in CheckoutHooks \cup Updaters
  /\ Goto(p, "idle", "lock")
  /\ UNCHANGED <<published, events, batch, shared, history, PassVars>>

-----------------------------------------------------------------------------
(* The watcher's loop.                                                     *)

(* Take one event; the first opens a batch.                                *)
Receive(f) ==
  /\ pc[Watcher] \in {"idle", "batch"}
  /\ f \in events
  /\ events' = events \ {f}
  /\ batch' = batch \cup {f}
  /\ pc' = [pc EXCEPT ![Watcher] = "batch"]
  /\ UNCHANGED <<published, shared, history, PassVars>>

(* Mutant: a batch with code changes drops its other changes.             *)
EndBatchCodeOnly ==
  /\ Goto(Watcher, "batch", IF batch \cap Files = {} THEN "notify" ELSE "queue")
  /\ work' = [work EXCEPT ![Watcher] = batch \cap Files]
  /\ batch' = IF batch \cap Files = {} THEN batch ELSE batch \cap Files
  /\ UNCHANGED <<published, events, shared, progress, history>>

(* The quiet period or the hard deadline ends the batch.                   *)
EndBatch ==
  /\ Goto(Watcher, "batch", IF batch \cap Files = {} THEN "notify" ELSE "queue")
  /\ work' = [work EXCEPT ![Watcher] = batch \cap Files]
  /\ UNCHANGED <<published, events, batch, shared, progress, history>>

(* After the rebuild, whatever it returned, the notice is written.         *)
Notify ==
  /\ Goto(Watcher, "notify", "idle")
  /\ flag' = (flag \/ batch \cap Notes # {})
  /\ batch' = {}
  /\ UNCHANGED <<published, events, journal, lock, history, PassVars>>

-----------------------------------------------------------------------------
(* One rebuild call.                                                       *)

(* Mutant: the paths are recorded only in the caller's memory.            *)
QueueUnrecorded(p) ==
  /\ Goto(p, "queue", "lock")
  /\ UNCHANGED <<published, events, batch, shared, history, PassVars>>

(* A call with paths records them before it tries the lock.                *)
Queue(p) ==
  /\ Goto(p, "queue", "lock")
  /\ journal' = journal \cup work[p]
  /\ UNCHANGED <<published, events, batch, flag, lock, history, PassVars>>

(* Mutant: the lock file is replaced, so that two processes lock two inodes. *)
AcquireOtherInode(p) ==
  /\ lock' = p
  /\ pass' = [pass EXCEPT ![p] = 1]
  /\ Goto(p, "lock", IF UsesJournal(p) THEN "drain" ELSE "start")
  /\ UNCHANGED <<published, events, batch, journal, flag, work, scanned,
                 history>>

(* The flock is granted: to a try, to a poll or to a blocked waiter.       *)
Acquire(p) ==
  /\ lock = Nobody
  /\ lock' = p
  /\ pass' = [pass EXCEPT ![p] = 1]
  /\ Goto(p, "lock", IF UsesJournal(p) THEN "drain" ELSE "start")
  /\ UNCHANGED <<published, events, batch, journal, flag, work, scanned,
                 history>>

(* A try finds the lock taken: the call returns Queued.                    *)
Contended(p) ==
  /\ p \notin Updaters
  /\ lock # Nobody
  /\ Goto(p, "lock", Return(p))
  /\ work' = [work EXCEPT ![p] = {}]
  /\ UNCHANGED <<published, events, batch, shared, progress, history>>

(* The first drain: a full rebuild discards what it takes.                 *)
Drain(p) ==
  /\ Goto(p, "drain", "start")
  /\ work' = [work EXCEPT ![p] = @ \cup journal]
  /\ journal' = {}
  /\ UNCHANGED <<published, events, batch, flag, lock, progress, history>>

(* What a pass keeps is gone with it.                                      *)
Forget(p) ==
  /\ unread' = [unread EXCEPT ![p] = {}]
  /\ skipped' = [skipped EXCEPT ![p] = {}]
  /\ candidate' = [candidate EXCEPT ![p] = {}]

(* A pass begins from the published graph.                                 *)
StartPass(p) ==
  /\ Goto(p, "start", "scan")
  /\ unread' = [unread EXCEPT ![p] = Targets(p)]
  /\ skipped' = [skipped EXCEPT ![p] = {}]
  /\ candidate' = [candidate EXCEPT ![p] = Files \ stale]
  /\ UNCHANGED <<published, events, batch, shared, work, pass, history>>

(* Incremental passes leave out a file whose manifest row still matches.   *)
Rereads(p, f) == f \notin recorded \/ (PathsOnly /\ p \notin Updaters)

ReadFile(p, f) ==
  /\ pc[p] = "scan"
  /\ f \in unread[p]
  /\ unread' = [unread EXCEPT ![p] = @ \ {f}]
  /\ candidate' =
       [candidate EXCEPT ![p] = IF Rereads(p, f) THEN @ \cup {f} ELSE @]
  /\ UNCHANGED <<published, events, batch, shared, pc, work, pass,
                 skipped, history>>

(* A file that cannot be extracted does not fail the pass: it is left out  *)
(* with a warning, and the candidate keeps what the graph has of it.       *)
SkipFile(p, f) ==
  /\ MayFail
  /\ pc[p] = "scan"
  /\ f \in unread[p]
  /\ PathsOnly => Rereads(p, f)
  /\ unread' = [unread EXCEPT ![p] = @ \ {f}]
  /\ skipped' = [skipped EXCEPT ![p] = @ \cup {f}]
  /\ warned' = warned \cup ({f} \cap stale \cap work[p])
  /\ UNCHANGED <<published, events, batch, shared, pc, work, pass,
                 candidate, lost>>

(* graph.json is replaced by the candidate (or found to equal it), also    *)
(* when files were skipped.                                                *)
Accept(p) ==
  /\ unread[p] = {}
  /\ Goto(p, "scan", "manifest")
  /\ stale' = Files \ candidate[p]
  /\ lost' = lost \ candidate[p]
  /\ warned' = warned \ candidate[p]
  /\ UNCHANGED <<recorded, events, batch, shared, PassVars>>

(* Mutant: rows are made from the files as they are when it is written.    *)
CommitManifestReopening(p) ==
  /\ Goto(p, "manifest", "clear")
  /\ recorded' = recorded \cup Targets(p)
  /\ work' = [work EXCEPT ![p] = {}]
  /\ Forget(p)
  /\ UNCHANGED <<stale, events, batch, shared, pass, history>>

(* Then the manifest: the rows of the files read, as they were read, over  *)
(* the rows it had.  A skipped file gets no row; the isolated executor     *)
(* drops the one it had.                                                   *)
CommitManifest(p) ==
  /\ Goto(p, "manifest", "clear")
  /\ recorded' = ((candidate[p] \cap Targets(p)) \ skipped[p])
                    \cup IF PathsOnly THEN recorded ELSE recorded \ skipped[p]
  /\ work' = [work EXCEPT ![p] = {}]
  /\ Forget(p)
  /\ UNCHANGED <<stale, events, batch, shared, pass, history>>

(* An accepted pass removes the notice.                                    *)
ClearNeedsUpdate(p) ==
  /\ Goto(p, "clear", IF Explicit(p) THEN "late" ELSE "unlock")
  /\ flag' = FALSE
  /\ UNCHANGED <<published, events, batch, journal, lock, history, PassVars>>

(* Mutant: the manifest is committed before the candidate is judged.       *)
RefuseRecorded(p) ==
  /\ MayFail
  /\ unread[p] = {}
  /\ Goto(p, "scan", IF Explicit(p) THEN "late" ELSE "unlock")
  /\ recorded' = recorded \cup candidate[p]
  /\ lost' = lost \cup (work[p] \cap stale)
  /\ work' = [work EXCEPT ![p] = {}]
  /\ Forget(p)
  /\ UNCHANGED <<stale, events, batch, shared, pass, warned>>

(* check_shrink refuses the candidate: the pass ends, the call goes on.    *)
Refuse(p) ==
  /\ MayFail
  /\ unread[p] = {}
  /\ Goto(p, "scan", IF Explicit(p) THEN "late" ELSE "unlock")
  /\ lost' = lost \cup (work[p] \cap stale)
  /\ work' = [work EXCEPT ![p] = {}]
  /\ Forget(p)
  /\ UNCHANGED <<published, events, batch, shared, pass, warned>>

(* Mutant: late passes are not counted.                                   *)
LateDrainUncounted(p) ==
  /\ pass[p] <= MaxPasses
  /\ journal # {}
  /\ Goto(p, "late", "start")
  /\ work' = [work EXCEPT ![p] = journal]
  /\ journal' = {}
  /\ UNCHANGED <<published, events, batch, flag, lock, progress, history>>

(* Only calls with paths look for late arrivals, up to the pass limit.     *)
LateDrain(p) ==
  /\ pass[p] <= MaxPasses
  /\ journal # {}
  /\ Goto(p, "late", "start")
  /\ work' = [work EXCEPT ![p] = journal]
  /\ journal' = {}
  /\ pass' = [pass EXCEPT ![p] = @ + 1]
  /\ UNCHANGED <<published, events, batch, flag, lock, scanned, history>>

(* Mutant: the last drain removes the journal without reading it.         *)
LateDrainEndsByRemoval(p) ==
  /\ pass[p] > MaxPasses \/ journal = {}
  /\ Goto(p, "late", "unlock")
  /\ journal' = {}
  /\ UNCHANGED <<published, events, batch, flag, lock, history, PassVars>>

LateDrainEnds(p) ==
  /\ pass[p] > MaxPasses \/ journal = {}
  /\ Goto(p, "late", "unlock")
  /\ UNCHANGED <<published, events, batch, shared, history, PassVars>>

Free(p) == IF lock = p THEN Nobody ELSE lock

(* The guard is dropped and the call returns.                              *)
Unlock(p) ==
  /\ Goto(p, "unlock", Return(p))
  /\ lock' = Free(p)
  /\ pass' = [pass EXCEPT ![p] = 0]
  /\ UNCHANGED <<published, events, batch, journal, flag, work, scanned,
                 history>>

(* What a call answers for and nobody else does.                           *)
Carried(p) == IF pc[p] \in {"queue", "start", "scan"} THEN work[p] ELSE {}

(* The call ends early: every step of it may fail with an error, and a hook *)
(* or a command may be killed.  The flock goes with the process.           *)
Fail(p) ==
  /\ MayFail
  /\ pc[p] \notin {"idle", "batch", "notify", "unlock", "ended"}
  /\ pc' = [pc EXCEPT ![p] = Return(p)]
  /\ lock' = Free(p)
  /\ lost' = lost \cup (Carried(p) \cap stale)
  /\ work' = [work EXCEPT ![p] = {}]
  /\ pass' = [pass EXCEPT ![p] = 0]
  /\ Forget(p)
  /\ UNCHANGED <<published, events, batch, journal, flag, warned>>

(* The watcher ends for good: the notice cannot be written, the channel is *)
(* disconnected, or it is killed, anywhere.  What it had not queued goes   *)
(* with it.                                                                *)
WatcherEnds ==
  /\ MayFail
  /\ pc[Watcher] # "ended"
  /\ pc' = [pc EXCEPT ![Watcher] = "ended"]
  /\ lock' = Free(Watcher)
  /\ lost' = lost \cup ((events \cup Carried(Watcher) \cup
                          IF pc[Watcher] = "batch" THEN batch ELSE {})
                        \cap stale)
  /\ events' = {}
  /\ batch' = {}
  /\ work' = [work EXCEPT ![Watcher] = {}]
  /\ pass' = [pass EXCEPT ![Watcher] = 0]
  /\ Forget(Watcher)
  /\ UNCHANGED <<published, journal, flag, warned>>

-----------------------------------------------------------------------------

CallStep(p) ==
  \/ Queue(p)
  \/ Acquire(p)
  \/ Contended(p)
  \/ Drain(p)
  \/ StartPass(p)
  \/ \E f \in Files : ReadFile(p, f) \/ SkipFile(p, f)
  \/ Accept(p)
  \/ CommitManifest(p)
  \/ ClearNeedsUpdate(p)
  \/ Refuse(p)
  \/ LateDrain(p)
  \/ LateDrainEnds(p)
  \/ Unlock(p)
  \/ Fail(p)

Environment ==
  \/ \E f \in All : Edit(f)
  \/ \E p \in Procs : StartCommitHook(p) \/ StartFull(p)

Next ==
  \/ Environment
  \/ \E f \in All : Receive(f)
  \/ EndBatch
  \/ Notify
  \/ WatcherEnds
  \/ \E p \in Procs : CallStep(p)

Spec == Init /\ [][Next]_vars

(* Every process runs.  The channel is first in, first out, so an event is  *)
(* not passed over for ever by a watcher that keeps receiving; EndBatch is  *)
(* fair on its own, as the hard deadline ends a batch however many events   *)
(* keep arriving.  Nothing obliges anyone to edit a file, to start a hook   *)
(* or to run a command.                                                     *)
FairSpec ==
  /\ Spec
  /\ \A f \in All : SF_vars(Receive(f))
  /\ WF_vars(EndBatch)
  /\ WF_vars(Notify)
  /\ \A p \in Procs : WF_vars(CallStep(p))

-----------------------------------------------------------------------------
(* Properties.                                                             *)

(* The types of the state; the lock is held exactly by the process between *)
(* its acquisition and its return, and a pass count stays within the limit. *)
TypeOK ==
  /\ stale \subseteq Files
  /\ recorded \subseteq Files
  /\ events \subseteq All
  /\ batch \subseteq All
  /\ journal \subseteq Files
  /\ flag \in BOOLEAN
  /\ lock \in Procs \cup {Nobody}
  /\ pc \in [Procs -> Locations]
  /\ work \in [Procs -> SUBSET Files]
  /\ pass \in [Procs -> 0..(MaxPasses + 1)]
  /\ unread \in [Procs -> SUBSET Files]
  /\ skipped \in [Procs -> SUBSET Files]
  /\ candidate \in [Procs -> SUBSET Files]
  /\ lost \subseteq Files
  /\ warned \subseteq Files

(* A pass that will still read f, or has read what f now holds.            *)
Scanning(p, f) ==
  \/ pc[p] = "start" /\ f \in Targets(p)
  \/ pc[p] = "scan" /\ f \in unread[p] \cup candidate[p]

(* No code change is silently forgotten: a file the graph does not reflect *)
(* is an event the watcher has yet to take, in its batch, about to be      *)
(* queued, in the journal, or read by a pass to come; or, since its last   *)
(* edit, a pass that answered for it reported that it could not be         *)
(* extracted (`warned'), or the call that answered for it failed, or the   *)
(* watcher had ended (`lost').  The last two are all the ways a change can *)
(* be dropped: a call that succeeds drops none but those it warned of.     *)
(* This is what recording the paths before trying the lock, draining       *)
(* before reading, and draining again afterwards are for.                  *)
ChangesAccounted ==
  \A f \in stale :
    \/ f \in events \cup journal \cup lost \cup warned
    \/ pc[Watcher] = "batch" /\ f \in batch
    \/ \E p \in Procs : \/ pc[p] = "queue" /\ f \in work[p]
                        \/ Scanning(p, f)

(* Sharper: every such change has someone who answers for it, a pass only  *)
(* for the paths handed to it, whatever else it happens to read.           *)
Answers(p, f) ==
  /\ f \in work[p]
  /\ \/ pc[p] \in {"queue", "start"}
     \/ pc[p] = "scan" /\ f \in unread[p] \cup candidate[p]

ChangesAnswered ==
  \A f \in stale :
    \/ f \in events \cup journal \cup lost \cup warned
    \/ pc[Watcher] = "batch" /\ f \in batch
    \/ \E p \in Procs : Answers(p, f)

(* A candidate lacks only what the graph lacks too, and once accepted it   *)
(* has nothing the graph lacks.                                            *)
CandidatesCurrent ==
  \A p \in Procs :
    /\ pc[p] = "scan" => Files \ stale \subseteq candidate[p]
    /\ pc[p] = "manifest" => candidate[p] \cap stale = {}

(* Publishing never takes the graph back: a file becomes stale only by     *)
(* being edited, never because a call put an older content, or an older    *)
(* graph it had loaded, over a newer one.  The lock must cover the whole   *)
(* pass, from loading the graph to replacing it.                           *)
GraphNeverRegresses == [][stale' \ stale # {} => \E f \in Files : Edit(f)]_vars

(* The manifest is never ahead of the graph: a file it calls unchanged is  *)
(* in the graph as it is.  A refused, failed or killed pass, and one that  *)
(* skipped the file, must leave the change visible to the next one, and a  *)
(* row must describe the content that was read, not the content at the     *)
(* time it is written.                                                     *)
ManifestNeverAhead == recorded \cap stale = {}

(* The lock is honest: a process is past its acquisition exactly when the  *)
(* lock names it, also after failures, refusals and kills.                 *)
LockHeldByPass ==
  \A p \in Procs :
    (pc[p] \in {"drain", "start", "scan", "manifest", "clear", "late",
                "unlock"})
      <=> (lock = p)

(* The inductive invariant: why no change is forgotten and the manifest    *)
(* never runs ahead, whatever fails and whoever else is at work.           *)
WatchInv ==
  /\ TypeOK
  /\ LockHeldByPass
  /\ CandidatesCurrent
  /\ ManifestNeverAhead
  /\ ChangesAnswered

(* A hook, and a turn of the watcher, always ends (the watcher with it,    *)
(* perhaps), even when files never stop changing: late arrivals are        *)
(* drained a bounded number of times, and a taken lock is not waited for.  *)
CallsEnd ==
  \A p \in {Watcher} \cup Hooks :
    pc[p] # "idle" ~> pc[p] \in {"idle", "ended"}

(* A non-code change raises the notice, whatever becomes of the rebuild    *)
(* that the same batch called for, unless the watcher ends: a notice that  *)
(* cannot be written is not passed over, the watcher stops with the error. *)
NoticeRaised ==
  \A n \in Notes : n \in events ~> flag \/ pc[Watcher] = "ended"

EditsStop == <>[][\A f \in All : ~Edit(f)]_vars

(* Once edits stop, and as long as commits keep admitting rebuilds, every  *)
(* change, also one that was only queued, reaches the graph.               *)
TriggersCatchUp ==
  EditsStop /\ []<>(\E p \in CommitHooks : pc[p] = "drain")
    => []<>(stale = {})

(* "Code changes trigger a debounced rebuild": once edits stop, a change   *)
(* the watcher saw reaches the graph.                                      *)
CodeChangesReachGraph == EditsStop => []<>(stale = {})
=============================================================================
