------------------------ MODULE SourceRegistryProofs ------------------------
(***************************************************************************)
(* Theorems about SourceRegistry, for any sources, paths, contents and     *)
(* processes. RegistryInv is inductive: every step keeps the types, a step *)
(* of one command leaves what the others rely on, because heads are never  *)
(* removed and captures only grow, and a command's own promises follow it  *)
(* from label to label up to the record it writes.                         *)
(***************************************************************************)
EXTENDS SourceRegistry, TLAPS

JobTypes == [source : Sources \union {None}, head : Heads \union {None},
             capture : Captures \union {None}, from : Paths \union {None}]

(* The parts of TypeOK that a command's step may change.                   *)
CommandTypes ==
  /\ pc \in [Procs -> Labels]
  /\ snap \in [Procs -> Trees \union {None}] /\ todo \in [Procs -> SUBSET Sources]
  /\ job \in [Procs -> JobTypes]
  /\ obs \in [Procs -> Observations \union {None}]

StoreTypes ==
  /\ disk \in [Paths -> Contents \union {None}]
  /\ head \in [Sources -> Heads \union {None}] /\ captures \subseteq Captures
  /\ row \in [Sources -> Observations \union {None}]
  /\ queued \subseteq Sources /\ lease \in [Sources -> Workers \union {None}]
  /\ held \in [Workers -> [source : Sources \union {None}, again : BOOLEAN]]

LEMMA TypeParts == TypeOK <=> CommandTypes /\ StoreTypes
  BY DEF TypeOK, CommandTypes, StoreTypes, JobTypes

LEMMA TypePartsNext == TypeOK' <=> CommandTypes' /\ StoreTypes'
  BY DEF TypeOK, CommandTypes, StoreTypes, JobTypes

AllLabels == {"idle", "open", "clear", "next", "note", "reread", "hash", "hashing", "record",
              "judge", "activate", "append", "append_capture", "new_capture", "advance",
              "track", "new_head", "write", "temporary"}

LEMMA LabelList == Labels = AllLabels
  BY DEF Labels, AllLabels, Scanning, Publishing, Creates, Replaces

(* A command's step changes nothing of another command.                    *)
Only(p) ==
  \A q \in Procs \ {p} :
    pc'[q] = pc[q] /\ snap'[q] = snap[q] /\ todo'[q] = todo[q] /\ job'[q] = job[q]

TreeGrows ==
  /\ \A s \in Sources : head[s] # None => head'[s] # None
  /\ captures \subseteq captures'

(* So the others' promises last as long as the tree only grows.            *)
LEMMA OthersSound ==
  ASSUME TypeOK, \A q \in Procs : JobSound(q),
         NEW p \in Procs, Only(p), TreeGrows, JobSound(p)'
  PROVE  (\A q \in Procs : JobSound(q))'
<1> SUFFICES ASSUME NEW q \in Procs \ {p} PROVE JobSound(q)'
  OBVIOUS
<1>1. JobSound(q) /\ pc'[q] = pc[q] /\ snap'[q] = snap[q] /\ todo'[q] = todo[q] /\ job'[q] = job[q]
  BY DEF Only
<1>2. pc[q] \in Publishing \union Creates \union Replaces => job[q].source \in Sources
  BY <1>1 DEF JobSound, TypeOK
<1> QED
  BY <1>1, <1>2 DEF JobSound, TreeGrows, Publishing, Creates, Replaces

(* A command that ends promises nothing.                                   *)
LEMMA ExitSound ==
  ASSUME CommandTypes, NEW p \in Procs, Exit(p)
  PROVE  CommandTypes' /\ Only(p) /\ JobSound(p)'
<1>1. CommandTypes'
  BY NoneAssumption DEF CommandTypes, Exit, Goto, NoJob, JobTypes, Labels
<1>2. Only(p)
  BY DEF CommandTypes, Exit, Goto, Only
<1>3. pc'[p] = "idle" /\ snap'[p] = None
  BY DEF CommandTypes, Exit, Goto
<1>4. JobSound(p)'
  BY <1>3 DEF JobSound, Scanning, Publishing, Creates, Replaces
<1> QED BY <1>1, <1>2, <1>4

(* An unchanged tree stays closed.                                         *)
LEMMA SameTree ==
  ASSUME Closed, UNCHANGED <<head, captures>>
  PROVE  Closed' /\ TreeGrows
  BY DEF Closed, TreeGrows, Tracked, Tree

Keeps(p) ==
  CommandTypes' /\ StoreTypes' /\ Closed' /\ TreeGrows /\ Only(p) /\ JobSound(p)'

(* What the steps below need of RegistryInv.                               *)
LEMMA InvParts ==
  ASSUME RegistryInv
  PROVE  /\ TypeOK /\ CommandTypes /\ StoreTypes /\ Closed
         /\ \A p \in Procs : JobSound(p)
  BY TypeParts DEF RegistryInv

(* A step that keeps its own part keeps the invariant.                     *)
LEMMA KeepsInv ==
  ASSUME RegistryInv, NEW p \in Procs, Keeps(p)
  PROVE  RegistryInv'
<1>1. TypeOK'
  BY TypePartsNext DEF Keeps
<1>2. (\A q \in Procs : JobSound(q))'
  BY InvParts, OthersSound DEF Keeps
<1> QED BY <1>1, <1>2 DEF RegistryInv, Keeps

(* The source a scan or a publication works on is one its snapshot tracks. *)
LEMMA SnapshotSource ==
  ASSUME RegistryInv, NEW p \in Procs, NEW s \in Sources,
         snap[p] # None, s \in todo[p]
  PROVE  snap[p] \in Trees /\ snap[p].head[s] \in Heads
<1>1. snap[p] \in Trees /\ todo[p] \subseteq Scannable(snap[p])
  BY InvParts DEF CommandTypes, JobSound
<1>2. snap[p].head \in [Sources -> Heads \union {None}] /\ snap[p].head[s] # None
  BY <1>1 DEF Trees, Scannable, Tracked
<1> QED BY <1>1, <1>2

LEMMA HeadPath ==
  ASSUME NEW h \in Heads
  PROVE  h.path \in Paths /\ h.capture \in Captures \union {None}
  BY DEF Heads

LEMMA HeadKinds ==
  /\ \A p \in Paths : Pending(p) \in Heads
  /\ \A c \in Captures : Active(c) \in Heads
  /\ \A h \in Heads : RetiredHead(h) \in Heads
<1>1. \A p \in Paths : Pending(p) \in Heads
  BY DEF Heads, Pending
<1>2. \A c \in Captures : Active(c) \in Heads
  BY DEF Heads, Active, Captures
<1>3. \A h \in Heads : RetiredHead(h) \in Heads
  BY HeadPath DEF Heads, RetiredHead
<1> QED BY <1>1, <1>2, <1>3

-----------------------------------------------------------------------------
(* Steps of the commands that load the tree.                               *)

LEMMA LoadKeeps == ASSUME RegistryInv, NEW p \in Procs, Load(p) PROVE Keeps(p)
<1> USE InvParts, NoneAssumption DEF Load, Goto, treeVars, queueVars, bounds
<1>1. Tree \in Trees
  BY DEF StoreTypes, Tree, Trees
<1>2. CommandTypes'
  BY <1>1, LabelList DEF CommandTypes, Scannable, Tracked, AllLabels
<1>3. StoreTypes' /\ Closed' /\ TreeGrows
  BY SameTree DEF StoreTypes
<1>4. pc'[p] = "open" /\ snap'[p] = Tree /\ todo'[p] = Scannable(Tree)
  BY DEF CommandTypes
<1>5. JobSound(p)'
  BY <1>1, <1>4 DEF JobSound, Scanning, Publishing, Creates, Replaces
<1>6. Only(p)
  BY DEF Only, CommandTypes
<1> QED BY <1>2, <1>3, <1>5, <1>6 DEF Keeps

LEMMA OpenKeeps == ASSUME RegistryInv, NEW p \in Procs, Open(p) PROVE Keeps(p)
<1> USE InvParts DEF Open, Goto, treeVars, queueVars, bounds
<1>1. CommandTypes' /\ StoreTypes'
  BY LabelList DEF CommandTypes, StoreTypes, AllLabels
<1>2. Closed' /\ TreeGrows
  BY SameTree
<1>3. pc'[p] \in {"next", "clear"} /\ pc[p] = "open"
  BY DEF CommandTypes
<1>4. JobSound(p)'
  BY <1>3 DEF JobSound, Scanning, Publishing, Creates, Replaces
<1>5. Only(p)
  BY DEF Only, CommandTypes
<1> QED BY <1>1, <1>2, <1>4, <1>5 DEF Keeps

LEMMA ClearKeeps == ASSUME RegistryInv, NEW p \in Procs, Clear(p) PROVE Keeps(p)
<1> USE InvParts DEF Clear, Goto, treeVars, bounds
<1>1. CommandTypes' /\ StoreTypes'
  BY LabelList DEF CommandTypes, StoreTypes, AllLabels
<1>2. Closed' /\ TreeGrows
  BY SameTree
<1>3. pc'[p] = "next" /\ pc[p] = "clear"
  BY DEF CommandTypes
<1>4. JobSound(p)'
  BY <1>3 DEF JobSound, Scanning, Publishing, Creates, Replaces
<1>5. Only(p)
  BY DEF Only, CommandTypes
<1> QED BY <1>1, <1>2, <1>4, <1>5 DEF Keeps

LEMMA FinishKeeps == ASSUME RegistryInv, NEW p \in Procs, Finish(p) PROVE Keeps(p)
<1>1. StoreTypes' /\ Closed' /\ TreeGrows
  BY InvParts, SameTree DEF Finish, StoreTypes, treeVars, queueVars
<1> QED BY <1>1, InvParts, ExitSound DEF Finish, Keeps

-----------------------------------------------------------------------------
(* Steps of a scan.                                                        *)

LEMMA StatKeeps ==
  ASSUME RegistryInv, NEW p \in Procs, NEW s \in Sources, Stat(p, s) PROVE Keeps(p)
<1> USE InvParts DEF Stat, Goto, treeVars, queueVars, bounds
<1>1. snap[p] # None /\ s \in todo[p]
  BY DEF JobSound
<1>2. CommandTypes' /\ StoreTypes'
  <2>1. [job[p] EXCEPT !.source = s] \in JobTypes
    BY DEF CommandTypes, JobTypes
  <2>2. job' \in [Procs -> JobTypes]
    BY <2>1 DEF CommandTypes
  <2>3. pc' \in [Procs -> Labels]
    BY LabelList DEF CommandTypes, AllLabels
  <2> QED BY <2>2, <2>3 DEF CommandTypes, StoreTypes
<1>3. Closed' /\ TreeGrows
  BY SameTree
<1>4. pc'[p] \in {"hash", "note", "reread"} /\ job'[p].source = s
      /\ snap'[p] = snap[p] /\ todo'[p] = todo[p]
  BY DEF CommandTypes, JobTypes
<1>5. todo[p] \subseteq Scannable(snap[p])
  BY <1>1 DEF JobSound
<1>6. JobSound(p)'
  BY <1>1, <1>4, <1>5 DEF JobSound, Scanning, Publishing, Creates, Replaces
<1>7. Only(p)
  BY DEF Only, CommandTypes
<1> QED BY <1>2, <1>3, <1>6, <1>7 DEF Keeps

(* What a scan relies on while it has a source in hand.                    *)
LEMMA ScanFacts ==
  ASSUME RegistryInv, NEW p \in Procs, pc[p] \in Scanning
  PROVE  /\ job[p].source \in Sources /\ job[p].source \in todo[p]
         /\ snap[p] # None /\ todo[p] \subseteq Scannable(snap[p])
         /\ ScanPath(p) \in Paths
<1>1. job[p].source \in todo[p] /\ snap[p] # None /\ todo[p] \subseteq Scannable(snap[p])
  BY InvParts DEF JobSound
<1>2. job[p].source \in Sources
  BY <1>1, InvParts DEF CommandTypes
<1> QED BY <1>1, <1>2, SnapshotSource, HeadPath DEF ScanPath

(* A step that stays within the scan keeps its promise.                    *)
LEMMA StillScanning ==
  ASSUME RegistryInv, NEW p \in Procs, pc[p] \in Scanning,
         NEW label \in Scanning, Goto(p, label), UNCHANGED <<head, captures, snap, todo, job>>
  PROVE  JobSound(p)' /\ Only(p) /\ Closed' /\ TreeGrows
<1>1. pc' = [pc EXCEPT ![p] = label] /\ pc'[p] = label
  BY InvParts DEF Goto, CommandTypes
<1>2. JobSound(p)'
  BY <1>1, ScanFacts DEF JobSound, Scanning, Publishing, Creates, Replaces
<1>3. Only(p)
  BY <1>1, InvParts DEF Only, CommandTypes
<1> QED BY <1>2, <1>3, InvParts, SameTree

(* A step back to the list, of one source less.                            *)
LEMMA BackToList ==
  ASSUME RegistryInv, NEW p \in Procs, NEW s \in Sources,
         snap[p] # None, todo[p] \subseteq Scannable(snap[p]),
         Goto(p, "next"), todo' = [todo EXCEPT ![p] = @ \ {s}],
         job' = [job EXCEPT ![p] = NoJob], UNCHANGED snap
  PROVE  JobSound(p)' /\ Only(p) /\ pc' \in [Procs -> Labels]
         /\ todo' \in [Procs -> SUBSET Sources] /\ job' \in [Procs -> JobTypes]
<1>1. pc'[p] = "next" /\ todo'[p] = todo[p] \ {s} /\ snap'[p] = snap[p]
  BY InvParts DEF Goto, CommandTypes
<1>2. JobSound(p)'
  BY <1>1 DEF JobSound, Scanning, Publishing, Creates, Replaces
<1>3. Only(p)
  BY InvParts DEF Only, Goto, CommandTypes
<1>4. pc' \in [Procs -> Labels] /\ todo' \in [Procs -> SUBSET Sources]
      /\ job' \in [Procs -> JobTypes]
  BY InvParts, LabelList DEF Goto, CommandTypes, AllLabels, NoJob, JobTypes
<1> QED BY <1>2, <1>3, <1>4

LEMMA NoteKeeps == ASSUME RegistryInv, NEW p \in Procs, Note(p) PROVE Keeps(p)
<1> USE InvParts DEF Note, Goto, treeVars, queueVars, bounds
<1>1. pc[p] \in Scanning /\ "reread" \in Scanning
  BY DEF Scanning
<1>2. [path |-> ScanPath(p), seen |-> None, current |-> FALSE] \in Observations
  BY <1>1, ScanFacts DEF Observations
<1>3. CommandTypes' /\ StoreTypes'
  BY <1>2, LabelList DEF CommandTypes, StoreTypes, AllLabels
<1> QED BY <1>1, <1>3, StillScanning DEF Keeps

LEMMA RereadKeeps == ASSUME RegistryInv, NEW p \in Procs, Reread(p) PROVE Keeps(p)
<1> USE InvParts DEF Reread, Goto, treeVars, queueVars, bounds
<1>1. pc[p] \in Scanning /\ "judge" \in Scanning
  BY DEF Scanning
<1>2. row[job[p].source] \in Observations \union {None}
  BY <1>1, ScanFacts DEF StoreTypes
<1>3. CommandTypes' /\ StoreTypes'
  BY <1>2, LabelList DEF CommandTypes, StoreTypes, AllLabels
<1> QED BY <1>1, <1>3, StillScanning DEF Keeps

LEMMA HashKeeps == ASSUME RegistryInv, NEW p \in Procs, Hash(p) PROVE Keeps(p)
<1> USE InvParts DEF treeVars, queueVars, bounds
<1> DEFINE c == disk[ScanPath(p)]
           label == IF c = None THEN "record" ELSE "hashing"
<1>1. pc[p] \in Scanning /\ label \in Scanning /\ Goto(p, label)
      /\ UNCHANGED <<head, captures, snap, todo, job>>
  BY DEF Hash, Scanning
<1>2. [path |-> ScanPath(p), seen |-> c, current |-> c # None] \in Observations
  BY <1>1, ScanFacts DEF StoreTypes, Observations
<1>3. CommandTypes' /\ StoreTypes'
  BY <1>2, LabelList DEF Hash, Goto, CommandTypes, StoreTypes, AllLabels
<1> HIDE DEF label
<1> QED BY <1>1, <1>3, StillScanning DEF Keeps

LEMMA VerifyKeeps == ASSUME RegistryInv, NEW p \in Procs, Verify(p) PROVE Keeps(p)
<1> USE InvParts DEF treeVars, queueVars, bounds
<1>1. StoreTypes' /\ UNCHANGED <<head, captures>>
  BY DEF Verify, StoreTypes
<1>2. CASE obs[p].current
  <2>1. pc[p] \in Scanning /\ "record" \in Scanning /\ Goto(p, "record")
        /\ UNCHANGED <<snap, todo, job, obs>>
    BY <1>2 DEF Verify, Scanning
  <2>2. CommandTypes'
    BY <2>1, LabelList DEF Goto, CommandTypes, AllLabels
  <2> QED BY <1>1, <2>1, <2>2, StillScanning DEF Keeps
<1>3. CASE ~obs[p].current
  BY <1>1, <1>3, ExitSound, SameTree DEF Verify, Keeps
<1> QED BY <1>2, <1>3

LEMMA StoreKeeps == ASSUME RegistryInv, NEW p \in Procs, Store(p) PROVE Keeps(p)
<1> USE InvParts DEF Store, Goto, treeVars, queueVars, bounds
<1>1. pc[p] \in Scanning /\ "judge" \in Scanning
  BY DEF Scanning
<1>2. CommandTypes' /\ StoreTypes'
  BY <1>1, ScanFacts, LabelList DEF CommandTypes, StoreTypes, AllLabels
<1> QED BY <1>1, <1>2, StillScanning DEF Keeps

(* Queueing keeps the queue's types.                                       *)
LEMMA EnqueueTypes ==
  ASSUME StoreTypes, NEW s \in Sources, Enqueue(s)
  PROVE  /\ queued' \subseteq Sources /\ lease' \in [Sources -> Workers \union {None}]
         /\ held' \in [Workers -> [source : Sources \union {None}, again : BOOLEAN]]
<1>1. queued' \subseteq Sources /\ lease' \in [Sources -> Workers \union {None}]
  BY DEF Enqueue, StoreTypes
<1>2. ASSUME NEW w \in Workers
      PROVE  (IF held[w].source = s THEN [held[w] EXCEPT !.again = TRUE] ELSE held[w])
               \in [source : Sources \union {None}, again : BOOLEAN]
  BY DEF StoreTypes
<1> QED BY <1>1, <1>2 DEF Enqueue, Outdate

LEMMA JudgeKeeps == ASSUME RegistryInv, NEW p \in Procs, Judge(p) PROVE Keeps(p)
<1> USE InvParts DEF treeVars, queueVars, bounds
<1> DEFINE s == job[p].source
<1>1. s \in Sources /\ snap[p] # None /\ todo[p] \subseteq Scannable(snap[p])
  BY ScanFacts DEF Judge, Scanning
<1>2. StoreTypes'
  BY <1>1, EnqueueTypes DEF Judge, StoreTypes
<1>3. obs' \in [Procs -> Observations \union {None}] /\ snap' \in [Procs -> Trees \union {None}]
  BY DEF Judge, CommandTypes
<1>4. Goto(p, "next") /\ todo' = [todo EXCEPT ![p] = @ \ {s}]
      /\ job' = [job EXCEPT ![p] = NoJob] /\ UNCHANGED <<snap, head, captures>>
  BY DEF Judge
<1> HIDE DEF s
<1>5. JobSound(p)' /\ Only(p) /\ pc' \in [Procs -> Labels]
      /\ todo' \in [Procs -> SUBSET Sources] /\ job' \in [Procs -> JobTypes]
  BY <1>1, <1>4, BackToList
<1> QED BY <1>2, <1>3, <1>4, <1>5, SameTree DEF Keeps, CommandTypes

-----------------------------------------------------------------------------
(* Steps of maintenance and of a publication.                              *)

(* A command that keeps its job and moves on, or ends.                     *)
LEMMA MovesOn ==
  ASSUME RegistryInv, NEW p \in Procs, NEW label \in Labels,
         \/ Goto(p, label) /\ UNCHANGED <<snap, todo, job, obs>>
         \/ Exit(p),
         Goto(p, label) /\ UNCHANGED <<snap, todo, job, obs>> => JobSound(p)',
         UNCHANGED <<disk, treeVars, row, queueVars, meta, bounds>>
  PROVE  Keeps(p)
<1> USE InvParts DEF treeVars, queueVars, bounds
<1>1. StoreTypes' /\ Closed' /\ TreeGrows
  BY SameTree DEF StoreTypes
<1>2. CASE Goto(p, label) /\ UNCHANGED <<snap, todo, job, obs>>
  BY <1>1, <1>2 DEF Goto, CommandTypes, Only, Keeps
<1>3. CASE Exit(p)
  BY <1>1, <1>3, ExitSound DEF Keeps
<1> QED BY <1>2, <1>3

(* What a command relies on while it has a record to write.                *)
LEMMA WriteFacts ==
  ASSUME RegistryInv, NEW p \in Procs, pc[p] \in Publishing \union Creates \union Replaces
  PROVE  /\ job[p].source \in Sources /\ job[p].head \in Heads
         /\ Matches(job[p].head, job[p].source)
         /\ snap[p] # None => todo[p] \subseteq Scannable(snap[p])
  BY InvParts DEF JobSound, CommandTypes, JobTypes

LEMMA BeginKeeps ==
  ASSUME RegistryInv, NEW p \in Procs, NEW s \in Sources, NEW h \in Heads,
         NEW label \in {"track", "write"}, Matches(h, s),
         h.capture \in captures \union {None},
         label = "track" => h.capture = None, label = "write" => head[s] # None,
         Begin(p, label, NewJob(s, h, None, None))
  PROVE  Keeps(p)
<1> USE InvParts DEF treeVars, queueVars
<1> DEFINE j == NewJob(s, h, None, None)
<1>1. j \in JobTypes /\ j.source = s /\ j.head = h
  BY DEF NewJob, JobTypes
<1>2. pc' = [pc EXCEPT ![p] = label] /\ job' = [job EXCEPT ![p] = j]
      /\ UNCHANGED <<disk, head, captures, row, queued, lease, held, snap, todo, obs>>
      /\ pc[p] = "idle"
  BY DEF Begin, Goto
<1> HIDE DEF j
<1>3. CommandTypes' /\ StoreTypes'
  BY <1>1, <1>2, LabelList DEF CommandTypes, StoreTypes, AllLabels
<1>4. Closed' /\ TreeGrows
  BY <1>2, SameTree
<1>5. pc'[p] = label /\ job'[p] = j /\ snap'[p] = snap[p] /\ todo'[p] = todo[p]
  BY <1>2 DEF CommandTypes
<1>6. snap[p] # None => todo[p] \subseteq Scannable(snap[p])
  BY DEF JobSound
<1>7. JobSound(p)'
  BY <1>1, <1>2, <1>5, <1>6, NoneAssumption
  DEF JobSound, Scanning, Publishing, Creates, Replaces
<1>8. Only(p)
  BY <1>2 DEF Only, CommandTypes
<1> QED BY <1>3, <1>4, <1>7, <1>8 DEF Keeps

LEMMA CommandBegins ==
  ASSUME RegistryInv, NEW p \in Procs,
         \/ \E s \in Sources, path \in Paths : Track(p, s, path) \/ Rename(p, s, path)
         \/ \E s \in Sources : Retire(p, s)
         \/ \E c \in Captures : Restore(p, c)
  PROVE  Keeps(p)
<1>1. ASSUME NEW s \in Sources, NEW q \in Paths, Track(p, s, q) PROVE Keeps(p)
  <2>1. Pending(q) \in Heads /\ Matches(Pending(q), s) /\ Pending(q).capture = None
    BY HeadKinds DEF Pending, Matches
  <2> QED BY <1>1, <2>1, BeginKeeps DEF Track
<1>2. ASSUME NEW s \in Sources, NEW q \in Paths, Rename(p, s, q) PROVE Keeps(p)
  <2>1. Pending(q) \in Heads /\ Matches(Pending(q), s) /\ Pending(q).capture = None
    BY HeadKinds DEF Pending, Matches
  <2> QED BY <1>2, <2>1, BeginKeeps DEF Rename, Tracked, Tree
<1>3. ASSUME NEW s \in Sources, Retire(p, s) PROVE Keeps(p)
  <2>1. head[s] \in Heads /\ head[s] # None
    BY <1>3, InvParts DEF Retire, Tracked, Tree, StoreTypes
  <2>2. RetiredHead(head[s]) \in Heads /\ RetiredHead(head[s]).capture = None
        /\ Matches(RetiredHead(head[s]), s)
    BY <2>1, HeadKinds DEF RetiredHead, Matches
  <2> QED BY <1>3, <2>1, <2>2, BeginKeeps DEF Retire
<1>4. ASSUME NEW c \in Captures, Restore(p, c) PROVE Keeps(p)
  <2>1. c \in captures /\ c.source \in Sources /\ head[c.source] # None
    BY <1>4, InvParts DEF Restore, Captures, Closed
  <2>2. Active(c) \in Heads /\ Active(c).capture = c /\ Matches(Active(c), c.source)
    BY HeadKinds DEF Active, Matches
  <2> QED BY <1>4, <2>1, <2>2, BeginKeeps DEF Restore
<1> QED BY <1>1, <1>2, <1>3, <1>4

LEMMA CreateHeadKeeps == ASSUME RegistryInv, NEW p \in Procs, CreateHead(p) PROVE Keeps(p)
<1>1. ASSUME Goto(p, "new_head"), UNCHANGED <<snap, todo, job, obs>> PROVE JobSound(p)'
  <2>1. pc'[p] = "new_head"
    BY <1>1, InvParts DEF Goto, CommandTypes
  <2> QED
    BY <1>1, <2>1, InvParts DEF CreateHead, JobSound, Scanning, Publishing, Creates, Replaces
<1>2. "new_head" \in Labels
  BY LabelList DEF AllLabels
<1> QED BY <1>1, <1>2, MovesOn DEF CreateHead

(* A head that matches its source, with its capture there, keeps the tree  *)
(* closed.                                                                 *)
LEMMA HeadWritten ==
  ASSUME RegistryInv, NEW s \in Sources, NEW h \in Heads, Matches(h, s),
         h.capture \in captures \union {None},
         head' = [head EXCEPT ![s] = h], captures' = captures
  PROVE  Closed' /\ TreeGrows /\ head' \in [Sources -> Heads \union {None}]
<1>1. head \in [Sources -> Heads \union {None}] /\ h # None /\ captures \subseteq Captures
  BY InvParts, NoneAssumption DEF StoreTypes
<1>2. TreeGrows
  BY <1>1 DEF TreeGrows
<1>3. Closed'
  BY <1>1, <1>2, InvParts DEF Closed, Matches, Tracked, Tree, TreeGrows, Captures
<1> QED BY <1>1, <1>2, <1>3

LEMMA FinishHeadKeeps == ASSUME RegistryInv, NEW p \in Procs, FinishHead(p) PROVE Keeps(p)
<1> USE InvParts DEF queueVars
<1>1. pc[p] \in Creates
  BY DEF FinishHead, Creates
<1>2. job[p].head.capture = None
  BY <1>1 DEF JobSound
<1>3. Closed' /\ TreeGrows /\ head' \in [Sources -> Heads \union {None}]
  BY <1>1, <1>2, WriteFacts, HeadWritten DEF FinishHead
<1>4. StoreTypes'
  BY <1>3 DEF FinishHead, StoreTypes
<1> QED BY <1>3, <1>4, ExitSound DEF FinishHead, Keeps

LEMMA WriteTemporaryKeeps ==
  ASSUME RegistryInv, NEW p \in Procs, WriteTemporary(p) PROVE Keeps(p)
<1>1. ASSUME Goto(p, "temporary"), UNCHANGED <<snap, todo, job, obs>> PROVE JobSound(p)'
  <2>1. pc'[p] = "temporary"
    BY <1>1, InvParts DEF Goto, CommandTypes
  <2> QED
    BY <1>1, <2>1, InvParts
    DEF WriteTemporary, treeVars, JobSound, Scanning, Publishing, Creates, Replaces
<1>2. "temporary" \in Labels
  BY LabelList DEF AllLabels
<1> QED BY <1>1, <1>2, MovesOn DEF WriteTemporary, treeVars

LEMMA RenameTemporaryKeeps ==
  ASSUME RegistryInv, NEW p \in Procs, RenameTemporary(p) PROVE Keeps(p)
<1> USE InvParts DEF queueVars
<1>1. pc[p] \in Replaces
  BY DEF RenameTemporary, Replaces
<1>2. job[p].head.capture \in captures \union {None}
  BY <1>1 DEF JobSound
<1>3. Closed' /\ TreeGrows /\ head' \in [Sources -> Heads \union {None}]
  BY <1>1, <1>2, WriteFacts, HeadWritten DEF RenameTemporary
<1>4. StoreTypes'
  BY <1>3 DEF RenameTemporary, StoreTypes
<1>5. CASE snap[p] # None
  <2>1. Goto(p, "next") /\ todo' = [todo EXCEPT ![p] = @ \ {job[p].source}]
        /\ job' = [job EXCEPT ![p] = NoJob] /\ UNCHANGED <<snap, obs>>
    BY <1>5 DEF RenameTemporary, NextSource
  <2>2. job[p].source \in Sources /\ todo[p] \subseteq Scannable(snap[p])
    BY <1>1, <1>5, WriteFacts
  <2>3. JobSound(p)' /\ Only(p) /\ pc' \in [Procs -> Labels]
        /\ todo' \in [Procs -> SUBSET Sources] /\ job' \in [Procs -> JobTypes]
    BY <1>5, <2>1, <2>2, BackToList
  <2> QED BY <1>3, <1>4, <2>1, <2>3 DEF CommandTypes, Keeps
<1>6. CASE snap[p] = None
  BY <1>3, <1>4, <1>6, ExitSound DEF RenameTemporary, Keeps
<1> QED BY <1>5, <1>6

LEMMA ObserveKeeps ==
  ASSUME RegistryInv, NEW p \in Procs, NEW s \in Sources, Observe(p, s) PROVE Keeps(p)
<1> USE InvParts, NoneAssumption DEF treeVars, queueVars, bounds
<1> DEFINE h == snap[p].head[s]
           c == [source |-> s, path |-> h.path, sha |-> row[s].seen]
           j == NewJob(s, Active(c), c, row[s].path)
           label == IF c \in snap[p].captures THEN "activate" ELSE "append"
           done == row[s] = None \/ row[s].seen = None \/ Published(h, row[s])
<1>1. snap[p] # None /\ s \in todo[p] /\ todo[p] \subseteq Scannable(snap[p])
  BY DEF Observe, JobSound
<1>2. h \in Heads /\ h.path \in Paths
  BY <1>1, SnapshotSource, HeadPath
<1>3. StoreTypes' /\ Closed' /\ TreeGrows
  BY SameTree DEF Observe, StoreTypes
<1>4. CASE done
  <2>1. todo' = [todo EXCEPT ![p] = @ \ {s}] /\ UNCHANGED <<pc, job, snap, obs>> /\ pc[p] = "next"
    BY <1>4 DEF Observe
  <2>2. CommandTypes' /\ Only(p) /\ todo'[p] = todo[p] \ {s}
    BY <2>1 DEF CommandTypes, Only
  <2>3. JobSound(p)'
    BY <1>1, <2>1, <2>2 DEF JobSound, Scanning, Publishing, Creates, Replaces
  <2> QED BY <1>3, <2>2, <2>3 DEF Keeps
<1>5. CASE ~done
  <2>1. job' = [job EXCEPT ![p] = j] /\ Goto(p, label) /\ UNCHANGED <<todo, snap, obs>>
    BY <1>5 DEF Observe
  <2>2. row[s] \in Observations /\ row[s].seen \in Contents /\ row[s].path \in Paths
    BY <1>5 DEF StoreTypes, Observations
  <2>3. c \in Captures /\ c.source = s
    BY <1>2, <2>2 DEF Captures
  <2>4. Active(c) \in Heads /\ Active(c).capture = c /\ Active(c).path = c.path
    BY <2>3, HeadKinds DEF Active
  <2> HIDE DEF c, done
  <2>5. j \in JobTypes /\ j.source = s /\ j.head = Active(c) /\ j.capture = c
    BY <2>2, <2>3, <2>4 DEF NewJob, JobTypes
  <2>6. Matches(j.head, j.source)
    BY <2>3, <2>4, <2>5 DEF Matches
  <2>7. label \in {"activate", "append"}
    OBVIOUS
  <2> HIDE DEF j, label
  <2>8. CommandTypes' /\ Only(p) /\ pc'[p] = label /\ job'[p] = j
        /\ snap'[p] = snap[p] /\ todo'[p] = todo[p]
    BY <2>1, <2>5, <2>7, LabelList DEF CommandTypes, Only, Goto, AllLabels
  <2>9. JobSound(p)'
    BY <1>1, <2>3, <2>4, <2>5, <2>6, <2>7, <2>8
    DEF JobSound, Scanning, Publishing, Creates, Replaces
  <2> QED BY <1>3, <2>8, <2>9 DEF Keeps
<1> QED BY <1>4, <1>5

(* A publication's promises as it moves from label to label.               *)
LEMMA PublishFacts ==
  ASSUME RegistryInv, NEW p \in Procs, pc[p] \in Publishing
  PROVE  /\ snap[p] # None /\ todo[p] \subseteq Scannable(snap[p])
         /\ job[p].source \in Sources /\ job[p].capture \in Captures
         /\ job[p].head = Active(job[p].capture) /\ job[p].head.capture = job[p].capture
         /\ job[p].capture.source = job[p].source /\ Matches(job[p].head, job[p].source)
<1>1. /\ snap[p] # None /\ todo[p] \subseteq Scannable(snap[p])
      /\ job[p].capture # None /\ job[p].head = Active(job[p].capture)
      /\ Matches(job[p].head, job[p].source)
  BY InvParts DEF JobSound
<1>2. job[p].source \in Sources /\ job[p].capture \in Captures
  BY <1>1, WriteFacts, InvParts DEF CommandTypes, JobTypes
<1>3. job[p].head.capture = job[p].capture
  BY <1>1 DEF Active
<1> QED BY <1>1, <1>2, <1>3, NoneAssumption DEF Matches

LEMMA ActivateKeeps == ASSUME RegistryInv, NEW p \in Procs, Activate(p) PROVE Keeps(p)
<1>1. ASSUME job[p].capture \in captures, Goto(p, "write"), UNCHANGED <<snap, todo, job, obs>>
      PROVE  JobSound(p)'
  <2>1. pc'[p] = "write"
    BY <1>1, InvParts DEF Goto, CommandTypes
  <2>2. pc[p] \in Publishing
    BY DEF Activate, Publishing
  <2>3. head[job[p].source] # None
    BY <1>1, <2>2, PublishFacts, InvParts DEF Closed
  <2> QED
    BY <1>1, <2>1, <2>2, <2>3, PublishFacts, WriteFacts, NoneAssumption
    DEF Activate, Reload, treeVars, JobSound, Scanning, Publishing, Creates, Replaces
<1>2. "write" \in Labels
  BY LabelList DEF AllLabels
<1>3. CASE job[p].capture \in captures
  BY <1>1, <1>2, <1>3, MovesOn DEF Activate, Reload
<1>4. CASE job[p].capture \notin captures
  <2>1. Exit(p) /\ UNCHANGED <<disk, treeVars, row, queueVars, meta, bounds>>
    BY <1>4 DEF Activate, Reload
  <2>2. StoreTypes' /\ Closed' /\ TreeGrows
    BY <2>1, InvParts, SameTree DEF StoreTypes, treeVars, queueVars
  <2> QED BY <2>1, <2>2, InvParts, ExitSound DEF Keeps
<1> QED BY <1>3, <1>4

(* One label of a publication to the next, with its head still there.      *)
LEMMA PublishingOn ==
  ASSUME RegistryInv, NEW p \in Procs, pc[p] \in Publishing,
         NEW label \in {"append_capture", "new_capture", "advance", "write"},
         Goto(p, label), UNCHANGED <<head, snap, todo, job, obs>>,
         head[job[p].source] # None,
         label \in {"advance", "write"} => job[p].capture \in captures'
  PROVE  JobSound(p)' /\ Only(p) /\ CommandTypes'
<1>1. pc'[p] = label
  BY InvParts DEF Goto, CommandTypes
<1>2. JobSound(p)'
  BY <1>1, PublishFacts, WriteFacts, NoneAssumption
  DEF JobSound, Scanning, Publishing, Creates, Replaces
<1>3. Only(p) /\ CommandTypes'
  BY InvParts, LabelList DEF Only, Goto, CommandTypes, AllLabels
<1> QED BY <1>2, <1>3

LEMMA AppendKeeps == ASSUME RegistryInv, NEW p \in Procs, Append(p) PROVE Keeps(p)
<1> USE InvParts DEF treeVars, queueVars, bounds
<1>1. StoreTypes' /\ Closed' /\ TreeGrows /\ pc[p] \in Publishing
      /\ UNCHANGED <<head, captures>>
  BY SameTree DEF Append, Reload, StoreTypes, Publishing
<1>2. CASE Loadable /\ head[job[p].source] # None
  <2>1. Goto(p, "append_capture") /\ UNCHANGED <<snap, todo, job, obs>>
    BY <1>2 DEF Append, Reload
  <2> QED BY <1>1, <1>2, <2>1, PublishingOn DEF Keeps
<1>3. CASE ~(Loadable /\ head[job[p].source] # None)
  <2>1. Exit(p)
    BY <1>3 DEF Append, Reload
  <2> QED BY <1>1, <2>1, ExitSound DEF Keeps
<1> QED BY <1>2, <1>3

LEMMA CreateCaptureKeeps ==
  ASSUME RegistryInv, NEW p \in Procs, CreateCapture(p) PROVE Keeps(p)
<1> USE InvParts DEF treeVars, queueVars, bounds
<1>1. StoreTypes' /\ Closed' /\ TreeGrows /\ pc[p] \in Publishing
      /\ UNCHANGED <<head, captures>> /\ head[job[p].source] # None
  BY SameTree DEF CreateCapture, StoreTypes, Publishing, JobSound
<1>2. CASE job[p].capture \notin captures \union Unfinished
  <2>1. Goto(p, "new_capture") /\ UNCHANGED <<snap, todo, job, obs>>
    BY <1>2 DEF CreateCapture
  <2> QED BY <1>1, <2>1, PublishingOn DEF Keeps
<1>3. CASE ~(job[p].capture \notin captures \union Unfinished)
  <2>1. Exit(p)
    BY <1>3 DEF CreateCapture
  <2> QED BY <1>1, <2>1, ExitSound DEF Keeps
<1> QED BY <1>2, <1>3

LEMMA FinishCaptureKeeps ==
  ASSUME RegistryInv, NEW p \in Procs, FinishCapture(p) PROVE Keeps(p)
<1> USE InvParts DEF queueVars, bounds
<1>1. pc[p] \in Publishing /\ Goto(p, "advance") /\ UNCHANGED <<head, snap, todo, job, obs>>
      /\ captures' = captures \union {job[p].capture} /\ head[job[p].source] # None
  BY DEF FinishCapture, Publishing, JobSound
<1>2. job[p].capture \in Captures /\ job[p].capture.source = job[p].source
  BY <1>1, PublishFacts
<1>3. StoreTypes'
  BY <1>1, <1>2 DEF FinishCapture, StoreTypes
<1>4. Closed' /\ TreeGrows
  BY <1>1, <1>2 DEF Closed, TreeGrows, Tracked, Tree
<1> QED BY <1>1, <1>3, <1>4, PublishingOn DEF Keeps

LEMMA AdvanceKeeps == ASSUME RegistryInv, NEW p \in Procs, Advance(p) PROVE Keeps(p)
<1> USE InvParts DEF treeVars, queueVars, bounds
<1>1. StoreTypes' /\ Closed' /\ TreeGrows /\ pc[p] \in Publishing /\ pc[p] = "advance"
      /\ UNCHANGED <<head, captures>>
  BY SameTree DEF Advance, Reload, StoreTypes, Publishing
<1>2. head[job[p].source] # None /\ job[p].capture \in captures
  BY <1>1, PublishFacts, NoneAssumption DEF JobSound
<1>3. CASE Loadable
  <2>1. Goto(p, "write") /\ UNCHANGED <<snap, todo, job, obs>>
    BY <1>3 DEF Advance, Reload
  <2> QED BY <1>1, <1>2, <2>1, PublishingOn DEF Keeps
<1>4. CASE ~Loadable
  <2>1. Exit(p)
    BY <1>4 DEF Advance, Reload
  <2> QED BY <1>1, <2>1, ExitSound DEF Keeps
<1> QED BY <1>3, <1>4

LEMMA AbortKeeps == ASSUME RegistryInv, NEW p \in Procs, Abort(p) PROVE Keeps(p)
<1>1. StoreTypes' /\ Closed' /\ TreeGrows
  BY InvParts, SameTree DEF Abort, StoreTypes, queueVars
<1> QED BY <1>1, InvParts, ExitSound DEF Abort, Keeps

-----------------------------------------------------------------------------
(* Steps outside the commands.                                             *)

(* Commands and tree are untouched.                                        *)
LEMMA Bystander ==
  ASSUME RegistryInv, StoreTypes',
         UNCHANGED <<head, captures, pc, snap, todo, job>>,
         obs' \in [Procs -> Observations \union {None}]
  PROVE  RegistryInv'
<1>1. TypeOK'
  BY InvParts, TypePartsNext DEF CommandTypes
<1>2. Closed'
  BY InvParts, SameTree
<1>3. (\A p \in Procs : JobSound(p))'
  BY InvParts DEF JobSound
<1> QED BY <1>1, <1>2, <1>3 DEF RegistryInv

LEMMA QueueKeeps ==
  ASSUME RegistryInv, NEW w \in Workers, Complete(w) \/ \E s \in Sources : Claim(w, s)
  PROVE  RegistryInv'
<1> USE InvParts, NoneAssumption DEF treeVars, procVars, bounds
<1>1. CASE Complete(w)
  <2>1. Nothing \in [source : Sources \union {None}, again : BOOLEAN]
    BY DEF Nothing
  <2>2. held' \in [Workers -> [source : Sources \union {None}, again : BOOLEAN]]
    BY <1>1, <2>1 DEF Complete, StoreTypes
  <2>3. queued' \subseteq Sources /\ lease' \in [Sources -> Workers \union {None}]
    BY <1>1 DEF Complete, StoreTypes
  <2>4. StoreTypes' /\ obs' = obs /\ UNCHANGED <<head, captures, pc, snap, todo, job>>
    BY <1>1, <2>2, <2>3 DEF Complete, StoreTypes
  <2> QED BY <2>4, Bystander DEF CommandTypes
<1>2. ASSUME NEW s \in Sources, Claim(w, s) PROVE RegistryInv'
  <2>1. StoreTypes' /\ obs' = obs /\ UNCHANGED <<head, captures, pc, snap, todo, job>>
    BY <1>2 DEF Claim, StoreTypes
  <2> QED BY <2>1, Bystander DEF CommandTypes
<1> QED BY <1>1, <1>2

LEMMA EditKeeps ==
  ASSUME RegistryInv, NEW path \in Paths, NEW content \in Contents \union {None},
         Edit(path, content)
  PROVE  RegistryInv'
<1> USE InvParts DEF treeVars, queueVars
<1>1. \A o \in Observations \union {None} : Stale(o, path) \in Observations \union {None}
  BY DEF Stale, Observations
<1>2. row' \in [Sources -> Observations \union {None}]
      /\ obs' \in [Procs -> Observations \union {None}]
  BY <1>1 DEF Edit, StoreTypes, CommandTypes
<1>3. StoreTypes'
  BY <1>2 DEF Edit, StoreTypes
<1> QED BY <1>2, <1>3, Bystander DEF Edit

(* RegistryInv is an invariant of every step.                              *)
LEMMA NextKeeps == RegistryInv /\ [Next]_vars => RegistryInv'
<1> SUFFICES ASSUME RegistryInv, [Next]_vars PROVE RegistryInv'
  OBVIOUS
<1>1. ASSUME NEW p \in Scanners, ScanStep(p) PROVE RegistryInv'
  <2>1. p \in Procs
    BY DEF Procs
  <2>2. Keeps(p)
    BY <1>1, <2>1, LoadKeeps, OpenKeeps, ClearKeeps, FinishKeeps, StatKeeps, NoteKeeps,
       RereadKeeps, HashKeeps, VerifyKeeps, StoreKeeps, JudgeKeeps DEF ScanStep
  <2> QED BY <2>1, <2>2, KeepsInv
<1>2. ASSUME NEW p \in Maintainers, MaintenanceStep(p) PROVE RegistryInv'
  <2>1. p \in Procs
    BY DEF Procs
  <2>2. CASE PublishStep(p)
    <3>1. Keeps(p)
      BY <2>1, <2>2, LoadKeeps, OpenKeeps, ClearKeeps, FinishKeeps, ObserveKeeps, ActivateKeeps,
         AppendKeeps, CreateCaptureKeeps, FinishCaptureKeeps, AdvanceKeeps,
         WriteTemporaryKeeps, RenameTemporaryKeeps DEF PublishStep
    <3> QED BY <2>1, <3>1, KeepsInv
  <2>3. CASE ~PublishStep(p)
    <3>1. Keeps(p)
      BY <1>2, <2>1, <2>3, CommandBegins, CreateHeadKeeps, FinishHeadKeeps DEF MaintenanceStep
    <3> QED BY <2>1, <3>1, KeepsInv
  <2> QED BY <2>2, <2>3
<1>3. ASSUME NEW p \in Procs, Abort(p) PROVE RegistryInv'
  BY <1>3, AbortKeeps, KeepsInv
<1>4. CASE Clean
  BY <1>4, InvParts, Bystander DEF Clean, StoreTypes, CommandTypes, queueVars, procVars
<1>5. CASE UNCHANGED vars
  BY <1>5, InvParts, Bystander
  DEF vars, treeVars, queueVars, procVars, StoreTypes, CommandTypes
<1> QED BY <1>1, <1>2, <1>3, <1>4, <1>5, QueueKeeps, EditKeeps DEF Next

LEMMA InitRegistry == Init => RegistryInv
<1> SUFFICES ASSUME Init PROVE RegistryInv
  OBVIOUS
<1>1. CommandTypes
  BY NoneAssumption, LabelList DEF Init, CommandTypes, AllLabels, NoJob, JobTypes
<1>2. StoreTypes
  BY RegistryAssumption DEF Init, StoreTypes, Nothing
<1>3. Closed /\ \A p \in Procs : JobSound(p)
  BY DEF Init, Closed, Tracked, Tree, JobSound, Scanning, Publishing, Creates, Replaces
<1> QED BY <1>1, <1>2, <1>3, TypeParts DEF RegistryInv

(* The tree stays closed and the commands' promises hold in every          *)
(* reachable state, whatever commands interleave and wherever they die.    *)
THEOREM RegistryInvariance == Spec => []RegistryInv
<1>1. Init => RegistryInv
  BY InitRegistry
<1>2. RegistryInv /\ [Next]_vars => RegistryInv'
  BY NextKeeps
<1> QED BY <1>1, <1>2, PTL DEF Spec

-----------------------------------------------------------------------------
(* Fingerprints.                                                           *)

TrueOf(o) == o # None => (o.current => o.seen = disk[o.path])

(* What a scan is about to store is as true as what is stored.             *)
FingerprintInv ==
  /\ \A s \in Sources : TrueOf(row[s])
  /\ \A p \in Procs : TrueOf(obs[p])

(* Rows and observations that a step leaves, or moves among each other,    *)
(* stay true while no file changes.                                        *)
LEMMA ObservationsMove ==
  ASSUME FingerprintInv, UNCHANGED disk,
         \A s \in Sources : \/ row'[s] = row[s]
                            \/ \E p \in Procs : row'[s] = obs[p]
                            \/ row'[s] # None /\ ~row'[s].current,
         \A p \in Procs : \/ obs'[p] \in {obs[p], None}
                          \/ \E s \in Sources : obs'[p] = row[s]
                          \/ obs'[p].seen = disk[obs'[p].path]
  PROVE  FingerprintInv'
<1>1. ASSUME NEW s \in Sources PROVE TrueOf(row[s])'
  BY DEF FingerprintInv, TrueOf
<1>2. ASSUME NEW p \in Procs PROVE TrueOf(obs[p])'
  BY DEF FingerprintInv, TrueOf
<1> QED BY <1>1, <1>2 DEF FingerprintInv

LEMMA ExitObservation ==
  ASSUME TypeOK, NEW p \in Procs, Exit(p)
  PROVE  \A q \in Procs : obs'[q] \in {obs[q], None}
  BY DEF TypeOK, Exit

LEMMA CommandFingerprints ==
  ASSUME RegistryInv, FingerprintInv, NEW p \in Procs,
         ScanStep(p) \/ MaintenanceStep(p) \/ Abort(p)
  PROVE  FingerprintInv'
<1> USE InvParts, NoneAssumption
<1>1. CASE Note(p)
  <2> DEFINE o == [path |-> ScanPath(p), seen |-> None, current |-> FALSE]
  <2>1. job[p].source \in Sources /\ ScanPath(p) \in Paths
    BY <1>1, ScanFacts DEF Note, Scanning
  <2>2. o \in Observations
    BY <2>1 DEF Observations
  <2>3. o # None /\ ~o.current
    <3>1. o.current = FALSE
      OBVIOUS
    <3> QED BY <2>2, <3>1, NoneAssumption
  <2>4. row' = [row EXCEPT ![job[p].source] = o] /\ UNCHANGED <<disk, obs>>
    BY <1>1 DEF Note
  <2> HIDE DEF o
  <2> QED BY <2>1, <2>3, <2>4, ObservationsMove DEF StoreTypes
<1>2. CASE Reread(p)
  <2>1. job[p].source \in Sources
    BY <1>2, ScanFacts DEF Reread, Scanning
  <2> QED BY <1>2, <2>1, ObservationsMove DEF Reread, CommandTypes
<1>3. CASE Hash(p)
  BY <1>3, ObservationsMove DEF Hash, CommandTypes
<1>4. CASE Store(p)
  <2>1. job[p].source \in Sources
    BY <1>4, ScanFacts DEF Store, Scanning
  <2> QED BY <1>4, <2>1, ObservationsMove DEF Store, StoreTypes
<1>5. CASE Judge(p)
  BY <1>5, ObservationsMove DEF Judge, CommandTypes
<1>6. CASE Abort(p) \/ Finish(p) \/ Verify(p) \/ CreateHead(p) \/ FinishHead(p)
           \/ CreateCapture(p) \/ RenameTemporary(p) \/ Activate(p) \/ Append(p) \/ Advance(p)
  <2>1. UNCHANGED <<disk, row>> /\ (Exit(p) \/ UNCHANGED obs)
    BY <1>6 DEF Abort, Finish, Verify, CreateHead, FinishHead, CreateCapture, RenameTemporary,
       NextSource, Activate, Append, Advance, Reload
  <2> QED BY <2>1, ExitObservation, ObservationsMove
<1>7. CASE ~(\/ Note(p) \/ Reread(p) \/ Hash(p) \/ Store(p) \/ Judge(p)
             \/ Abort(p) \/ Finish(p) \/ Verify(p) \/ CreateHead(p) \/ FinishHead(p)
             \/ CreateCapture(p) \/ RenameTemporary(p) \/ Activate(p) \/ Append(p) \/ Advance(p))
  <2>1. UNCHANGED <<disk, row, obs>>
    BY <1>7
    DEF ScanStep, MaintenanceStep, PublishStep, Load, Open, Clear, Stat, Observe, FinishCapture,
        WriteTemporary, Track, Rename, Retire, Restore, Begin
  <2> QED BY <2>1, ObservationsMove
<1> QED BY <1>1, <1>2, <1>3, <1>4, <1>5, <1>6, <1>7

LEMMA EditFingerprints ==
  ASSUME RegistryInv, FingerprintInv, NEW path \in Paths,
         NEW content \in Contents \union {None}, Edit(path, content)
  PROVE  FingerprintInv'
<1> USE InvParts, NoneAssumption
<1>1. ASSUME NEW o \in Observations \union {None}, TrueOf(o)
      PROVE  LET n == Stale(o, path) IN n # None => (n.current => n.seen = disk'[n.path])
  BY <1>1 DEF Stale, TrueOf, Edit, StoreTypes, Observations
<1>2. ASSUME NEW s \in Sources PROVE TrueOf(row[s])'
  <2>1. row[s] \in Observations \union {None} /\ TrueOf(row[s]) /\ row'[s] = Stale(row[s], path)
    BY DEF StoreTypes, FingerprintInv, Edit
  <2> QED BY <1>1, <2>1 DEF TrueOf
<1>3. ASSUME NEW p \in Procs PROVE TrueOf(obs[p])'
  <2>1. obs[p] \in Observations \union {None} /\ TrueOf(obs[p]) /\ obs'[p] = Stale(obs[p], path)
    BY DEF CommandTypes, FingerprintInv, Edit
  <2> QED BY <1>1, <2>1 DEF TrueOf
<1> QED BY <1>2, <1>3 DEF FingerprintInv

(* The stored fingerprint of a file whose stamps have not moved is that of *)
(* its content (scan_bound_file, record_observation, scan_disposition).    *)
THEOREM FingerprintsAreTrue == Spec => []FingerprintTruthful
<1>1. Init => FingerprintInv
  BY DEF Init, FingerprintInv, TrueOf
<1>2. RegistryInv /\ FingerprintInv /\ [Next]_vars => FingerprintInv'
  <2> SUFFICES ASSUME RegistryInv, FingerprintInv, [Next]_vars PROVE FingerprintInv'
    OBVIOUS
  <2>1. CASE Clean \/ (\E w \in Workers : Complete(w) \/ \E s \in Sources : Claim(w, s))
             \/ UNCHANGED vars
    <3>1. UNCHANGED <<disk, row, obs>>
      BY <2>1 DEF Clean, Complete, Claim, vars, procVars
    <3> QED BY <3>1, ObservationsMove
  <2> QED BY <2>1, CommandFingerprints, EditFingerprints DEF Next, Procs
<1>3. FingerprintInv => FingerprintTruthful
  BY DEF FingerprintInv, TrueOf, FingerprintTruthful
<1> QED BY <1>1, <1>2, <1>3, RegistryInvariance, PTL DEF Spec

-----------------------------------------------------------------------------
(* Leases.                                                                 *)

(* Who leases an item and works on it has seen it as it is queued.         *)
LeaseInv ==
  \A s \in Sources, w \in Workers :
    lease[s] = w /\ held[w].source = s => ~held[w].again

LEMMA EnqueueLease ==
  ASSUME StoreTypes, LeaseInv, NEW s \in Sources, Enqueue(s)
  PROVE  LeaseInv'
<1> SUFFICES ASSUME NEW t \in Sources, NEW w \in Workers, lease'[t] = w, held'[w].source = t
             PROVE  ~held'[w].again
  BY DEF LeaseInv
<1>1. t # s /\ lease[t] = w
  BY NoneAssumption DEF Enqueue, StoreTypes
<1>2. held[w].source = s => held'[w].source = s
  BY DEF Enqueue, Outdate, StoreTypes
<1>3. held'[w] = held[w]
  BY <1>1, <1>2 DEF Enqueue, Outdate, StoreTypes
<1> QED BY <1>1, <1>3 DEF LeaseInv

LEMMA LeaseStep == RegistryInv /\ LeaseInv /\ [Next]_vars => LeaseInv'
<1> SUFFICES ASSUME RegistryInv, LeaseInv, [Next]_vars PROVE LeaseInv'
  OBVIOUS
<1> USE InvParts, NoneAssumption
<1>1. ASSUME NEW p \in Procs, ScanStep(p) \/ MaintenanceStep(p) \/ Abort(p) PROVE LeaseInv'
  <2>1. CASE Judge(p)
    <3>1. job[p].source \in Sources
      BY <2>1, ScanFacts DEF Judge, Scanning
    <3>2. CASE Enqueue(job[p].source)
      BY <3>1, <3>2, EnqueueLease
    <3>3. CASE UNCHANGED queueVars
      BY <3>3 DEF LeaseInv, queueVars
    <3> QED BY <2>1, <3>2, <3>3 DEF Judge
  <2>2. CASE Clear(p)
    BY <2>2 DEF Clear, LeaseInv
  <2>3. CASE ~Judge(p) /\ ~Clear(p)
    <3>1. UNCHANGED queueVars
      BY <1>1, <2>3
      DEF ScanStep, MaintenanceStep, PublishStep, Load, Open, Finish, Stat, Note, Reread, Hash,
          Verify, Store, Observe, Activate, Append, Advance, Reload, CreateCapture, FinishCapture,
          WriteTemporary, RenameTemporary, Track, Rename, Retire, Restore, Begin, CreateHead,
          FinishHead, Abort
    <3> QED BY <3>1 DEF LeaseInv, queueVars
  <2> QED BY <2>1, <2>2, <2>3
<1>2. ASSUME NEW w \in Workers, Complete(w) PROVE LeaseInv'
  BY <1>2 DEF Complete, Nothing, LeaseInv, StoreTypes
<1>3. ASSUME NEW w \in Workers, NEW s \in Sources, Claim(w, s) PROVE LeaseInv'
  BY <1>3 DEF Claim, LeaseInv, StoreTypes
<1>4. CASE Clean \/ (\E path \in Paths, content \in Contents \union {None} : Edit(path, content))
           \/ UNCHANGED vars
  BY <1>4 DEF Clean, Edit, vars, queueVars, LeaseInv
<1> QED BY <1>1, <1>2, <1>3, <1>4 DEF Next, Procs

(* Completing work removes an item only for a worker that leased it since  *)
(* it was last queued (claim_next, enqueue, complete).                     *)
THEOREM NoQueuedWorkIsLost == Spec => NoWorkLost
<1>1. Init => LeaseInv
  BY NoneAssumption DEF Init, LeaseInv, Nothing
<1>2. RegistryInv /\ LeaseInv
      => (\A w \in Workers :
                    Complete(w) /\ held[w].source \in queued \ queued' => ~held[w].again)
  <2> SUFFICES ASSUME LeaseInv, RegistryInv, NEW w \in Workers,
                      Complete(w), held[w].source \in queued \ queued'
               PROVE  ~held[w].again
    OBVIOUS
  <2> QED BY InvParts DEF Complete, LeaseInv, StoreTypes
<1> QED BY <1>1, <1>2, LeaseStep, RegistryInvariance, PTL DEF Spec, NoWorkLost
=============================================================================
