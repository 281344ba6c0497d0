--------------------------- MODULE SourceRegistry ---------------------------
(***************************************************************************)
(* The source registry of graphoxide: a tree of JSON records (one head per *)
(* source, immutable captures) that several commands load whole and rewrite*)
(* record by record, and the local SQLite state beside it (the last scan   *)
(* of each source, the work queue, the tree revision it was opened for).   *)
(* Commands are separate processes without a common lock: a scan hashes    *)
(* the bound files and queues work, maintenance tracks, renames, retires,  *)
(* restores and publishes, workers lease and complete queued work. Other   *)
(* programs edit the files, and any command may be killed.                 *)
(*                                                                         *)
(* A capture's id is a function of its source, path and digest, so the     *)
(* record stands for the id. A digest is the content itself. Instead of    *)
(* time stamps an observation carries "current": the file still has the    *)
(* size, mtime and ctime observed with it; every edit changes a stamp. A   *)
(* lease may have expired whenever another worker looks at it. Loading the *)
(* tree is one step.                                                       *)
(***************************************************************************)
EXTENDS Naturals

CONSTANTS
  Sources,       \* source ids
  Paths,         \* relative paths below the bound origin
  Contents,      \* file contents
  Scanners,      \* processes that run "registry scan"
  Maintainers,   \* processes that run the commands that write the tree
  Workers,       \* lease owners of the work queue
  MaxEdits,      \* bound on edits of the files by other programs
  MaxChanges,    \* bound on track, rename, retire and restore commands
  Files,         \* the files at first
  None           \* no capture, row, file, lease ...

ASSUME RegistryAssumption ==
  /\ Scanners \intersect Maintainers = {}
  /\ Files \in [Paths -> Contents \union {None}]
  /\ MaxEdits \in Nat /\ MaxChanges \in Nat

Procs == Scanners \union Maintainers

Captures == [source : Sources, path : Paths, sha : Contents]
Heads    == [state : {"pending", "retired"}, path : Paths, capture : {None}]
              \union [state : {"active"}, path : Paths, capture : Captures]

(* A stored scan; seen is None for a missing or inaccessible file.         *)
Observations == [path : Paths, seen : Contents \union {None}, current : BOOLEAN]

Trees == [head : [Sources -> Heads \union {None}], captures : SUBSET Captures]

ASSUME NoneAssumption ==
  /\ None \notin Sources \union Contents \union Workers
  /\ None \notin Captures /\ None \notin Heads /\ None \notin Observations /\ None \notin Trees

VARIABLES
  disk,       \* the bound files
  head,       \* sources/<shard>/<source_id>.json
  captures,   \* captures/<shard>/<source_id>/<capture_id>.json
  debris,     \* unfinished records and temporaries of killed commands
  row,        \* source_scan
  queued, lease,   \* work_queue: its sources, and who leases them
  meta,       \* registry_meta: the tree the state was last opened for
  held,       \* per worker: the item it works on, and if that was queued again since
  pc, snap, todo, job, obs,  \* per command
  edits, changes             \* what the bounds have left

treeVars  == <<head, captures, debris>>
queueVars == <<queued, lease, held>>
procVars  == <<pc, snap, todo, job, obs>>
bounds    == <<edits, changes>>
vars == <<disk, treeVars, row, queueVars, meta, procVars, bounds>>

Tree == [head |-> head, captures |-> captures]
NoJob == [source |-> None, head |-> None, capture |-> None, from |-> None]
Nothing == [source |-> None, again |-> FALSE]

Active(c)      == [state |-> "active", path |-> c.path, capture |-> c]
Pending(p)     == [state |-> "pending", path |-> p, capture |-> None]
RetiredHead(h) == [state |-> "retired", path |-> h.path, capture |-> None]

Tracked(tree)   == { s \in Sources : tree.head[s] # None }
Scannable(tree) == { s \in Tracked(tree) : tree.head[s].state # "retired" }

-----------------------------------------------------------------------------
Init ==
  /\ disk = Files
  /\ head = [s \in Sources |-> None]
  /\ captures = {}
  /\ debris = {}
  /\ row = [s \in Sources |-> None]
  /\ queued = {}
  /\ lease = [s \in Sources |-> None]
  /\ meta = None
  /\ held = [w \in Workers |-> Nothing]
  /\ pc = [p \in Procs |-> "idle"]
  /\ snap = [p \in Procs |-> None]
  /\ todo = [p \in Procs |-> {}]
  /\ job = [p \in Procs |-> NoJob]
  /\ obs = [p \in Procs |-> None]
  /\ edits = MaxEdits /\ changes = MaxChanges

-----------------------------------------------------------------------------
(* The tree. *)

(* Commands whose record exists but is not complete, by what they write.   *)
Creating == { p \in Procs : pc[p] \in {"new_head", "new_capture"} }
Record(p) == IF pc[p] = "new_head" THEN job[p].source ELSE job[p].capture
Unfinished == debris \union { Record(p) : p \in Creating }
                     \union { <<"temporary", p>> : p \in { q \in Procs : pc[q] = "temporary" } }

(* validate_closure *)
Closed ==
  /\ \A s \in Tracked(Tree) :
       head[s].capture # None =>
         /\ head[s].capture \in captures
         /\ head[s].capture.source = s /\ head[s].capture.path = head[s].path
  /\ \A c \in captures : head[c.source] # None

(* RegistrySnapshot::load: one unfinished record or left-over file fails it. *)
Loadable == Unfinished = {} /\ Closed

Goto(p, label) == pc' = [pc EXCEPT ![p] = label]

(* The command returns or dies. *)
Exit(p) ==
  /\ Goto(p, "idle")
  /\ snap' = [snap EXCEPT ![p] = None]
  /\ todo' = [todo EXCEPT ![p] = {}]
  /\ job' = [job EXCEPT ![p] = NoJob]
  /\ obs' = [obs EXCEPT ![p] = None]

(* Killed, or a call returns an error: an unfinished record stays behind.  *)
Abort(p) ==
  /\ pc[p] # "idle"
  /\ debris' = debris \union IF p \in Creating THEN {Record(p)}
                             ELSE IF pc[p] = "temporary" THEN {<<"temporary", p>>}
                             ELSE {}
  /\ Exit(p)
  /\ UNCHANGED <<disk, head, captures, row, queueVars, meta, bounds>>

-----------------------------------------------------------------------------
(* Opening the local state, after the tree was loaded. *)

Load(p) ==
  /\ pc[p] = "idle" /\ Loadable
  /\ snap' = [snap EXCEPT ![p] = Tree]
  /\ todo' = [todo EXCEPT ![p] = Scannable(Tree)]
  /\ Goto(p, "open")
  /\ UNCHANGED <<disk, treeVars, row, queueVars, meta, job, obs, bounds>>

Open(p) ==
  /\ pc[p] = "open"
  /\ Goto(p, IF meta = snap[p] THEN "next" ELSE "clear")
  /\ UNCHANGED <<disk, treeVars, row, queueVars, meta, snap, todo, job, obs, bounds>>

(* Queue intent does not survive another revision of the tree. *)
Clear(p) ==
  /\ pc[p] = "clear"
  /\ queued' = {}
  /\ lease' = [s \in Sources |-> None]
  /\ meta' = snap[p]
  /\ Goto(p, "next")
  /\ UNCHANGED <<disk, treeVars, row, held, snap, todo, job, obs, bounds>>

Finish(p) ==
  /\ pc[p] = "next" /\ todo[p] = {}
  /\ Exit(p)
  /\ UNCHANGED <<disk, treeVars, row, queueVars, meta, bounds>>

-----------------------------------------------------------------------------
(* registry scan. The mode is chosen per source: "verify" hashes whatever  *)
(* the stored stamps say.                                                  *)

(* scan_disposition of a file that is there. *)
SameStamps(s, path) ==
  row[s] # None /\ row[s].path = path /\ row[s].seen # None /\ row[s].current

ScanPath(p) == snap[p].head[job[p].source].path

Stat(p, s) ==
  LET path == snap[p].head[s].path
      missing == disk[path] = None IN
  /\ p \in Scanners /\ pc[p] = "next" /\ s \in todo[p]
  /\ job' = [job EXCEPT ![p].source = s]
  /\ \/ Goto(p, "hash")
     \/ missing /\ Goto(p, "note")
     \/ ~missing /\ SameStamps(s, path) /\ Goto(p, "reread")
  /\ UNCHANGED <<disk, treeVars, row, queueVars, meta, snap, todo, obs, bounds>>

(* A missing file is noted without hashing. *)
Note(p) ==
  /\ pc[p] = "note"
  /\ row' = [row EXCEPT ![job[p].source] = [path |-> ScanPath(p), seen |-> None, current |-> FALSE]]
  /\ Goto(p, "reread")
  /\ UNCHANGED <<disk, treeVars, queueVars, meta, snap, todo, job, obs, bounds>>

(* Going on with the next source: nothing was hashed. *)
SkipUnchanged(p) ==
  /\ pc[p] = "reread"
  /\ todo' = [todo EXCEPT ![p] = @ \ {job[p].source}]
  /\ job' = [job EXCEPT ![p] = NoJob]
  /\ Goto(p, "next")
  /\ UNCHANGED <<disk, treeVars, row, queueVars, meta, snap, obs, bounds>>

Reread(p) ==
  /\ pc[p] = "reread"
  /\ obs' = [obs EXCEPT ![p] = row[job[p].source]]
  /\ Goto(p, "judge")
  /\ UNCHANGED <<disk, treeVars, row, queueVars, meta, snap, todo, job, bounds>>

(* scan_bound_file: the file's identity before, its bytes ... *)
Hash(p) ==
  LET c == disk[ScanPath(p)] IN
  /\ pc[p] = "hash"
  /\ obs' = [obs EXCEPT ![p] = [path |-> ScanPath(p), seen |-> c, current |-> c # None]]
  /\ Goto(p, IF c = None THEN "record" ELSE "hashing")
  /\ UNCHANGED <<disk, treeVars, row, queueVars, meta, snap, todo, job, bounds>>

(* ... and only the stamps after. *)
VerifyUnchecked(p) ==
  /\ pc[p] = "hashing"
  /\ obs' = [obs EXCEPT ![p].current = TRUE]
  /\ Goto(p, "record")
  /\ UNCHANGED <<disk, treeVars, row, queueVars, meta, snap, todo, job, bounds>>

(* ... and its identity after; a file that changed fails the scan. *)
Verify(p) ==
  /\ pc[p] = "hashing"
  /\ IF obs[p].current
     THEN Goto(p, "record") /\ UNCHANGED <<snap, todo, job, obs>>
     ELSE Exit(p)
  /\ UNCHANGED <<disk, treeVars, row, queueVars, meta, bounds>>

(* record_observation *)
Store(p) ==
  /\ pc[p] = "record"
  /\ row' = [row EXCEPT ![job[p].source] = obs[p]]
  /\ Goto(p, "judge")
  /\ UNCHANGED <<disk, treeVars, queueVars, meta, snap, todo, job, obs, bounds>>

(* What a worker holds of a source that is queued again is out of date.    *)
Outdate(s) ==
  held' = [w \in Workers |-> IF held[w].source = s THEN [held[w] EXCEPT !.again = TRUE]
                             ELSE held[w]]

(* Queueing that leaves a lease in force. *)
EnqueueKeepingLease(s) ==
  /\ queued' = queued \union {s}
  /\ UNCHANGED lease
  /\ Outdate(s)

(* enqueue; a queued item loses its lease. *)
Enqueue(s) ==
  /\ queued' = queued \union {s}
  /\ lease' = [lease EXCEPT ![s] = None]
  /\ Outdate(s)

(* The digest is not the one of the active capture, or there is none. *)
Differs(h, sha) == h.capture = None \/ h.capture.sha # sha

Judge(p) ==
  LET s == job[p].source IN
  /\ pc[p] = "judge"
  /\ IF obs[p].seen # None /\ Differs(snap[p].head[s], obs[p].seen)
     THEN Enqueue(s) ELSE UNCHANGED queueVars
  /\ todo' = [todo EXCEPT ![p] = @ \ {s}]
  /\ job' = [job EXCEPT ![p] = NoJob]
  /\ obs' = [obs EXCEPT ![p] = None]
  /\ Goto(p, "next")
  /\ UNCHANGED <<disk, treeVars, row, meta, snap, bounds>>

ScanStep(p) ==
  \/ Load(p) \/ Open(p) \/ Clear(p) \/ Finish(p)
  \/ \E s \in Sources : Stat(p, s)
  \/ Note(p) \/ Reread(p) \/ Hash(p) \/ Verify(p) \/ Store(p) \/ Judge(p)

-----------------------------------------------------------------------------
(* Maintenance. A command that changes a head loads the tree and replaces  *)
(* the record through a temporary file; a new record is written in place.  *)

NewJob(s, h, c, from) == [source |-> s, head |-> h, capture |-> c, from |-> from]

Begin(p, label, j) ==
  /\ p \in Maintainers /\ pc[p] = "idle" /\ Loadable
  /\ changes > 0 /\ changes' = changes - 1
  /\ job' = [job EXCEPT ![p] = j]
  /\ Goto(p, label)
  /\ UNCHANGED <<disk, treeVars, row, queueVars, meta, snap, todo, obs, edits>>

Track(p, s, path) == Begin(p, "track", NewJob(s, Pending(path), None, None))

(* A renamed head that keeps its capture. *)
RenameKeepingCapture(p, s, path) ==
  s \in Tracked(Tree) /\ Begin(p, "write", NewJob(s, [head[s] EXCEPT !.path = path], None, None))

Rename(p, s, path) == s \in Tracked(Tree) /\ Begin(p, "write", NewJob(s, Pending(path), None, None))

Retire(p, s) == s \in Tracked(Tree) /\ Begin(p, "write", NewJob(s, RetiredHead(head[s]), None, None))

(* activate_capture, of the commands restore and resolve-source. *)
Restore(p, c) == c \in captures /\ Begin(p, "write", NewJob(c.source, Active(c), None, None))

(* write_new_record of a head: refused when the record exists. *)
CreateHead(p) ==
  LET s == job[p].source IN
  /\ pc[p] = "track"
  /\ IF head[s] = None /\ s \notin Unfinished
     THEN Goto(p, "new_head") /\ UNCHANGED <<snap, todo, job, obs>>
     ELSE Exit(p)
  /\ UNCHANGED <<disk, treeVars, row, queueVars, meta, bounds>>

FinishHead(p) ==
  /\ pc[p] = "new_head"
  /\ head' = [head EXCEPT ![job[p].source] = job[p].head]
  /\ Exit(p)
  /\ UNCHANGED <<disk, captures, debris, row, queueVars, meta, bounds>>

(* write_replacing_record: the temporary file, then the rename. *)
WriteTemporary(p) ==
  /\ pc[p] = "write"
  /\ Goto(p, "temporary")
  /\ UNCHANGED <<disk, treeVars, row, queueVars, meta, snap, todo, job, obs, bounds>>

(* The source a publish is done with leaves its list. *)
NextSource(p) ==
  /\ todo' = [todo EXCEPT ![p] = @ \ {job[p].source}]
  /\ job' = [job EXCEPT ![p] = NoJob]
  /\ Goto(p, "next")
  /\ UNCHANGED <<snap, obs>>

RenameTemporary(p) ==
  /\ pc[p] = "temporary"
  /\ head' = [head EXCEPT ![job[p].source] = job[p].head]
  /\ IF snap[p] # None THEN NextSource(p) ELSE Exit(p)
  /\ UNCHANGED <<disk, captures, debris, row, queueVars, meta, bounds>>

(* registry publish, of one source. Its path is the snapshot's, its digest *)
(* the stored one, for whatever path that was taken.                       *)
Published(h, o) == h.capture # None /\ h.capture.sha = o.seen /\ h.capture.path = h.path

(* Appending without looking for the capture first. *)
ObserveAppending(p, s) ==
  LET h == snap[p].head[s]
      c == [source |-> s, path |-> h.path, sha |-> row[s].seen] IN
  /\ p \in Maintainers /\ pc[p] = "next" /\ s \in todo[p]
  /\ IF row[s] = None \/ row[s].seen = None \/ Published(h, row[s])
     THEN /\ todo' = [todo EXCEPT ![p] = @ \ {s}]
          /\ UNCHANGED <<pc, job>>
     ELSE /\ job' = [job EXCEPT ![p] = NewJob(s, Active(c), c, row[s].path)]
          /\ Goto(p, "append")
          /\ UNCHANGED todo
  /\ UNCHANGED <<disk, treeVars, row, queueVars, meta, snap, obs, bounds>>

Observe(p, s) ==
  LET h == snap[p].head[s]
      c == [source |-> s, path |-> h.path, sha |-> row[s].seen] IN
  /\ p \in Maintainers /\ pc[p] = "next" /\ s \in todo[p]
  /\ IF row[s] = None \/ row[s].seen = None \/ Published(h, row[s])
     THEN /\ todo' = [todo EXCEPT ![p] = @ \ {s}]
          /\ UNCHANGED <<pc, job>>
     ELSE /\ job' = [job EXCEPT ![p] = NewJob(s, Active(c), c, row[s].path)]
          /\ Goto(p, IF c \in snap[p].captures THEN "activate" ELSE "append")
          /\ UNCHANGED todo
  /\ UNCHANGED <<disk, treeVars, row, queueVars, meta, snap, obs, bounds>>

(* The calls of publish load the tree again; when that fails, so do they.  *)
Reload(p, ok, label) ==
  /\ IF Loadable /\ ok
     THEN Goto(p, label) /\ UNCHANGED <<snap, todo, job, obs>>
     ELSE Exit(p)
  /\ UNCHANGED <<disk, treeVars, row, queueVars, meta, bounds>>

Activate(p) == pc[p] = "activate" /\ Reload(p, job[p].capture \in captures, "write")

Append(p) == pc[p] = "append" /\ Reload(p, head[job[p].source] # None, "append_capture")

CreateCapture(p) ==
  LET c == job[p].capture IN
  /\ pc[p] = "append_capture"
  /\ IF c \notin captures \union Unfinished
     THEN Goto(p, "new_capture") /\ UNCHANGED <<snap, todo, job, obs>>
     ELSE Exit(p)
  /\ UNCHANGED <<disk, treeVars, row, queueVars, meta, bounds>>

FinishCapture(p) ==
  /\ pc[p] = "new_capture"
  /\ captures' = captures \union {job[p].capture}
  /\ Goto(p, "advance")
  /\ UNCHANGED <<disk, head, debris, row, queueVars, meta, snap, todo, job, obs, bounds>>

Advance(p) == pc[p] = "advance" /\ Reload(p, TRUE, "write")

PublishStep(p) ==
  \/ Load(p) \/ Open(p) \/ Clear(p) \/ Finish(p)
  \/ \E s \in Sources : Observe(p, s)
  \/ Activate(p) \/ Append(p) \/ CreateCapture(p) \/ FinishCapture(p) \/ Advance(p)
  \/ WriteTemporary(p) \/ RenameTemporary(p)

MaintenanceStep(p) ==
  \/ PublishStep(p)
  \/ \E s \in Sources, path \in Paths : Track(p, s, path) \/ Rename(p, s, path)
  \/ \E s \in Sources : Retire(p, s)
  \/ \E c \in Captures : Restore(p, c)
  \/ CreateHead(p) \/ FinishHead(p)

-----------------------------------------------------------------------------
(* The work queue's other side. *)

(* claim_next: an item nobody leases, or whose lease has run out. What the *)
(* worker held before it died with an earlier process of its name.         *)
Claim(w, s) ==
  /\ s \in queued
  /\ lease' = [lease EXCEPT ![s] = w]
  /\ held' = [held EXCEPT ![w] = [source |-> s, again |-> FALSE]]
  /\ UNCHANGED <<disk, treeVars, row, queued, meta, procVars, bounds>>

(* complete: deletes the item if it still carries the caller's lease; an   *)
(* error otherwise, and the caller is done with it either way.             *)
Complete(w) ==
  LET s == held[w].source IN
  /\ s # None
  /\ held' = [held EXCEPT ![w] = Nothing]
  /\ IF s \in queued /\ lease[s] = w
     THEN queued' = queued \ {s} /\ lease' = [lease EXCEPT ![s] = None]
     ELSE UNCHANGED <<queued, lease>>
  /\ UNCHANGED <<disk, treeVars, row, meta, procVars, bounds>>

-----------------------------------------------------------------------------
(* Other programs. *)

Stale(o, path) == IF o # None /\ o.path = path THEN [o EXCEPT !.current = FALSE] ELSE o

(* A file is written, replaced, created or removed. *)
Edit(path, content) ==
  /\ content # None \/ disk[path] # None
  /\ disk' = [disk EXCEPT ![path] = content]
  /\ row' = [s \in Sources |-> Stale(row[s], path)]
  /\ obs' = [p \in Procs |-> Stale(obs[p], path)]
  /\ edits > 0 /\ edits' = edits - 1
  /\ UNCHANGED <<treeVars, queueVars, meta, pc, snap, todo, job, changes>>

(* The user removes what killed commands left in the tree. *)
Clean ==
  /\ debris # {}
  /\ debris' = {}
  /\ UNCHANGED <<disk, head, captures, row, queueVars, meta, procVars, bounds>>

Next ==
  \/ \E p \in Scanners : ScanStep(p)
  \/ \E p \in Maintainers : MaintenanceStep(p)
  \/ \E p \in Procs : Abort(p)
  \/ \E w \in Workers : Complete(w) \/ \E s \in Sources : Claim(w, s)
  \/ \E path \in Paths, content \in Contents \union {None} : Edit(path, content)
  \/ Clean

Spec == Init /\ [][Next]_vars

(* A command that runs goes on. *)
FairSpec ==
  /\ Spec
  /\ \A p \in Scanners : WF_vars(pc[p] # "idle" /\ ScanStep(p))
  /\ \A p \in Maintainers : WF_vars(pc[p] # "idle" /\ MaintenanceStep(p))

-----------------------------------------------------------------------------
(* Properties. *)

Scanning   == {"note", "reread", "hash", "hashing", "record", "judge"}
Publishing == {"activate", "append", "append_capture", "new_capture", "advance"}
Creates    == {"track", "new_head"}
Replaces   == {"write", "temporary"}
Labels == {"idle", "open", "clear", "next"} \union Scanning \union Publishing
            \union Creates \union Replaces

(* The type invariant. *)
TypeOK ==
  /\ disk \in [Paths -> Contents \union {None}]
  /\ head \in [Sources -> Heads \union {None}] /\ captures \subseteq Captures
  /\ row \in [Sources -> Observations \union {None}]
  /\ queued \subseteq Sources /\ lease \in [Sources -> Workers \union {None}]
  /\ held \in [Workers -> [source : Sources \union {None}, again : BOOLEAN]]
  /\ pc \in [Procs -> Labels]
  /\ snap \in [Procs -> Trees \union {None}] /\ todo \in [Procs -> SUBSET Sources]
  /\ job \in [Procs -> [source : Sources \union {None}, head : Heads \union {None},
                        capture : Captures \union {None}, from : Paths \union {None}]]
  /\ obs \in [Procs -> Observations \union {None}]

(* What the commands under way rely on. *)
Matches(h, s) == h.capture # None => h.capture.source = s /\ h.capture.path = h.path

JobSound(p) ==
  /\ pc[p] \in {"open", "clear", "next"} \union Scanning \union Publishing => snap[p] # None
  /\ snap[p] # None => todo[p] \subseteq Scannable(snap[p])
  /\ pc[p] \in Scanning => job[p].source \in todo[p]
  /\ pc[p] \in Publishing \union Creates \union Replaces =>
       /\ job[p].source # None /\ job[p].head # None
       /\ Matches(job[p].head, job[p].source)
  /\ pc[p] \in Creates => job[p].head.capture = None
  /\ pc[p] \in Publishing => job[p].capture # None /\ job[p].head = Active(job[p].capture)
  /\ pc[p] \in Replaces \union {"append_capture", "new_capture", "advance"} =>
       head[job[p].source] # None
  /\ pc[p] \in Replaces \union {"advance"} =>
       job[p].head.capture \in captures \union {None}

(* The tree stays closed through every interleaving and every kill: the     *)
(* capture a head names exists and is of that source and path, and every    *)
(* capture has a head. Only unfinished records can keep a command out.      *)
RegistryInv == TypeOK /\ Closed /\ \A p \in Procs : JobSound(p)

(* The stored fingerprint of a file whose stamps have not moved is the      *)
(* digest of what the file holds: an unchanged scan may trust it, whatever  *)
(* was edited while some scan hashed, and whichever path the source had.    *)
FingerprintTruthful ==
  \A s \in Sources :
    row[s] # None => (row[s].current => row[s].seen = disk[row[s].path])

(* Completing work removes an item only for a worker that leased it after   *)
(* it was last queued: a change queued while a worker was busy with the     *)
(* earlier one is not lost with it.                                         *)
NoWorkLost ==
  [][\A w \in Workers :
       Complete(w) /\ held[w].source \in queued \ queued' => ~held[w].again]_vars

(* A source whose file differs from its capture, for a scan to find.        *)
OutOfDate(s) ==
  /\ s \in Scannable(Tree)
  /\ disk[head[s].path] # None /\ Differs(head[s], disk[head[s].path])

(* Once nothing else happens, scans that are started again and again find  *)
(* and queue every source whose file is not the captured one: also one     *)
(* whose change an earlier scan stored but did not live to queue.          *)
ScansCatchUp ==
  (/\ <>[][\E p \in Scanners : ScanStep(p)]_vars
   /\ []<><<\E p \in Scanners : Load(p)>>_vars)
  => <>[](\A s \in Sources : OutOfDate(s) => s \in queued)

(* The head shows the stored digest. *)
Shown(s) ==
  s \in Scannable(Tree) /\ row[s] # None /\ row[s].seen # None => Published(head[s], row[s])

(* Once nothing else happens, publishes that are started again and again   *)
(* bring every head to the stored digest: also where an earlier one was    *)
(* killed between its capture and its head, and the capture exists already.*)
PublishCatchesUp ==
  (/\ <>[][\E p \in Maintainers : PublishStep(p)]_vars
   /\ []<><<\E p \in Maintainers : Load(p)>>_vars)
  => <>[](\A s \in Sources : Shown(s))

(* A published capture says of a path what was hashed at that path.         *)
CaptureVerified ==
  [][\A p \in Maintainers :
       captures' # captures /\ FinishCapture(p) => job[p].from = job[p].capture.path]_vars
=============================================================================
