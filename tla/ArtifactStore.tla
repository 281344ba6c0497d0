--------------------------- MODULE ArtifactStore ---------------------------
(***************************************************************************)
(* One shard of the runtime cache: append-only artifact segments and an    *)
(* append-only catalog of records that locate a payload in a segment. The  *)
(* owner appends and flushes the artifact, then appends and flushes its    *)
(* record. The process may be killed and the machine may lose power        *)
(* between any two steps, every file operation may fail, and the store is  *)
(* opened again on what is left.                                           *)
(*                                                                         *)
(* A segment is a sequence of cells, the unit in which sizes are counted;  *)
(* the frame of a payload is its cells in order, and its checksums let a   *)
(* reader tell exactly those cells from any others. Directory operations   *)
(* are durable in order; data is durable up to the last successful flush.  *)
(***************************************************************************)
EXTENDS Integers, Sequences, FiniteSetsExt, SequencesExt, Functions

CONSTANTS
  Keys, Payloads,
  NoPayload, Rejected,  \* a miss, and a record whose payload cannot be read
  Size,             \* cells of the frame of each payload
  MaxSegment,       \* max_segment_bytes
  MaxArtifacts,     \* max_total_artifact_bytes
  MaxCatalog,       \* max_catalog_bytes, in records
  MaxShardEntries,
  MaxGeneration,    \* u64::MAX
  SealCheckFails    \* whether the look at a renamed segment may fail

ASSUME StoreAssumption ==
  /\ Size \in [Payloads -> 1 .. MaxSegment]
  /\ {MaxSegment, MaxArtifacts, MaxCatalog, MaxShardEntries} \subseteq Nat \ {0}
  /\ MaxGeneration \in Nat
  /\ {NoPayload, Rejected} \cap Payloads = {} /\ NoPayload # Rejected
  /\ SealCheckFails \in BOOLEAN

VARIABLES
  files,      \* on disk: segment name -> cells
  flushed,    \* segment name -> cells that survive a power loss
  catalog,    \* on disk: the records that decode
  torn,       \* and whether bytes that do not follow them
  recorded,   \* records of it that survive a power loss
  up, entries, generation, length, exists, catalogLen, total, disabled,   \* the owner
  pc, put,    \* the put in progress
  possible    \* history: what a reader may find after a crash, per key

disk == <<files, flushed, catalog, torn, recorded>>
owner == <<up, entries, generation, length, exists, catalogLen, total, disabled>>
vars == <<disk, owner, pc, put, possible>>

Generations == 0 .. MaxGeneration
Active(g) == <<"active", g>>
Sealed(g) == <<"sealed", g>>
Names == {"active", "sealed"} \X Generations

Frame(p) == [i \in 1 .. Size[p] |-> <<p, i>>]
Junk == <<>>
NoPut == <<>>

Init ==
  /\ files = [n \in {} |-> <<>>] /\ flushed = [n \in {} |-> 0]
  /\ catalog = <<>> /\ torn = FALSE /\ recorded = 0
  /\ up = FALSE /\ entries = <<>>
  /\ generation = 0 /\ length = 0 /\ exists = FALSE
  /\ catalogLen = 0 /\ total = 0 /\ disabled = FALSE
  /\ pc = "idle" /\ put = NoPut
  /\ possible = [k \in Keys |-> {NoPayload}]

-----------------------------------------------------------------------------
(* Reading. *)

FileLen(n) == IF n \in DOMAIN files THEN Len(files[n]) ELSE 0

(* artifact_path *)
PathOf(g) == IF exists /\ g = generation THEN Active(g) ELSE Sealed(g)

(* read_artifact_frame *)
FrameAt(n, loc) ==
  /\ n \in DOMAIN files
  /\ loc.offset + Size[loc.payload] <= Len(files[n])
  /\ SubSeq(files[n], loc.offset + 1, loc.offset + Size[loc.payload]) = Frame(loc.payload)

(* The answers a probe may give now: the file of a key in the index may    *)
(* hold no frame of its payload, and reading it may fail.                  *)
Probe(k) ==
  IF k \notin DOMAIN entries THEN {NoPayload}
  ELSE {Rejected} \union
       (IF FrameAt(PathOf(entries[k].generation), entries[k]) THEN {entries[k].payload} ELSE {})

-----------------------------------------------------------------------------
(* Opening. *)

(* read_catalog: a later record of a key replaces an earlier one. *)
Recorded(k) == { i \in DOMAIN catalog : catalog[i].key = k }

LastRecords == [k \in { r.key : r \in Range(catalog) } |-> catalog[Max(Recorded(k))]]

(* discover_shard_artifacts *)
ActiveGenerations == { g \in Generations : Active(g) \in DOMAIN files }
SealedGenerations == { g \in Generations : Sealed(g) \in DOMAIN files }

Discoverable ==
  /\ Cardinality(DOMAIN files) + (IF catalog = <<>> /\ ~torn THEN 0 ELSE 1) <= MaxShardEntries
  /\ \A g, h \in ActiveGenerations : g = h
  /\ \A g \in ActiveGenerations, s \in SealedGenerations : s < g

LastGeneration == IF SealedGenerations = {} THEN 0 ELSE Max(SealedGenerations)

NextGeneration == IF SealedGenerations = {} THEN 0 ELSE Max(SealedGenerations) + 1

(* Read a catalog within its limit, else fail open (below).                *)
WithinLimit == Len(catalog) <= MaxCatalog

(* truncate_catalog_tail, which open does before anything else. If the     *)
(* flush of the truncated file fails, this open fails and a later one      *)
(* finds no tail.                                                          *)
Repair ==
  /\ ~up /\ torn /\ WithinLimit
  /\ torn' = FALSE
  /\ recorded' \in {recorded, Len(catalog)}
  /\ UNCHANGED <<files, flushed, catalog, owner, pc, put, possible>>

(* The rest of open: which segment takes the next artifact.                *)
Discover ==
  /\ ~up /\ Discoverable
  /\ up' = TRUE
  /\ IF ActiveGenerations # {}
     THEN LET g == Max(ActiveGenerations) IN
          /\ generation' = g /\ exists' = TRUE /\ length' = FileLen(Active(g))
          /\ disabled' = (g = MaxGeneration)
     ELSE /\ generation' = Min({NextGeneration, MaxGeneration})
          /\ exists' = FALSE /\ length' = 0
          /\ disabled' = (NextGeneration > MaxGeneration)
  /\ total' = MapThenSumSet(FileLen, DOMAIN files)
  /\ UNCHANGED <<disk, pc, put, possible>>

Open ==
  /\ ~torn /\ WithinLimit
  /\ Discover
  /\ entries' = LastRecords
  /\ catalogLen' = Len(catalog)

(* A catalog that is over the limit, or cannot be opened or read whole,    *)
(* does not fail the open: the index is empty, its length is set so that   *)
(* no put is admitted, and its tail is left alone.                         *)
OpenBlind ==
  /\ Discover
  /\ entries' = <<>>
  /\ catalogLen' = MaxCatalog + 1

-----------------------------------------------------------------------------
(* put *)

(* The refusals of put, which change nothing. *)
Admissible(p) ==
  /\ ~disabled
  /\ total + Size[p] <= MaxArtifacts
  /\ catalogLen + 1 <= MaxCatalog

Rotates(p) == length > 0 /\ length + Size[p] > MaxSegment

Begin(k, p) ==
  /\ up /\ pc = "idle" /\ Admissible(p)
  /\ put' = <<k, p>>
  /\ pc' = IF Rotates(p) THEN "seal" ELSE "append"
  /\ UNCHANGED <<disk, owner, possible>>

Fail == pc' = "idle" /\ put' = NoPut

(* put returns an error and the owner takes no further put. *)
FailAndDisable == Fail /\ disabled' = TRUE

Exhausted ==
  /\ pc = "seal" /\ generation = MaxGeneration
  /\ FailAndDisable
  /\ UNCHANGED <<disk, up, entries, generation, length, exists, catalogLen, total, possible>>

RenameActive ==
  /\ files' = [n \in (DOMAIN files \ {Active(generation)}) \union {Sealed(generation)} |->
                 IF n = Sealed(generation) THEN files[Active(generation)] ELSE files[n]]
  /\ flushed' = [n \in DOMAIN files' |->
                 IF n = Sealed(generation) THEN flushed[Active(generation)] ELSE flushed[n]]
  /\ UNCHANGED <<catalog, torn, recorded>>

StartSegment ==
  /\ generation' = generation + 1 /\ length' = 0 /\ exists' = FALSE
  /\ pc' = "append"
  /\ UNCHANGED <<put, up, entries, catalogLen, total, disabled, possible>>

(* seal_active_segment *)
Seal ==
  /\ pc = "seal" /\ generation < MaxGeneration
  /\ \/ /\ Active(generation) \notin DOMAIN files
        /\ StartSegment /\ UNCHANGED disk
     \/ /\ Active(generation) \in DOMAIN files /\ Sealed(generation) \notin DOMAIN files
        /\ RenameActive /\ StartSegment

(* An error before the rename, or of the look at the renamed file. *)
SealFails ==
  /\ pc = "seal" /\ generation < MaxGeneration
  /\ \/ UNCHANGED disk
     \/ /\ SealCheckFails
        /\ Active(generation) \in DOMAIN files /\ Sealed(generation) \notin DOMAIN files
        /\ RenameActive
  /\ Fail
  /\ UNCHANGED <<owner, possible>>

(* append_durable on the active segment: the write. *)
AppendCells(cells) ==
  LET n == Active(generation)
      old == IF n \in DOMAIN files THEN files[n] ELSE <<>>
      kept == IF n \in DOMAIN files THEN flushed[n] ELSE 0 IN
  /\ files' = [m \in DOMAIN files \union {n} |-> IF m = n THEN old \o cells ELSE files[m]]
  /\ flushed' = [m \in DOMAIN files \union {n} |-> IF m = n THEN kept ELSE flushed[m]]
  /\ UNCHANGED <<catalog, torn, recorded>>

WriteArtifact ==
  /\ pc = "append"
  /\ AppendCells(Frame(put[2]))
  /\ pc' = "flush"
  /\ UNCHANGED <<owner, put, possible>>

Observe(len) ==
  /\ length' = len
  /\ total' = total + Max({0, len - length})

(* The write fails having written part of the frame; put takes the length  *)
(* it can observe.                                                         *)
WriteArtifactFails ==
  /\ pc = "append"
  /\ \/ UNCHANGED <<disk, length, total>>
     \/ \E j \in 0 .. Size[put[2]] - 1 :
          /\ AppendCells(SubSeq(Frame(put[2]), 1, j))
          /\ \/ UNCHANGED <<length, total>>
             \/ Observe(Len(files'[Active(generation)]))
  /\ FailAndDisable
  /\ UNCHANGED <<up, entries, generation, exists, catalogLen, possible>>

FlushActive == flushed' = [flushed EXCEPT ![Active(generation)] = Len(files[Active(generation)])]

FlushArtifactLater ==
  /\ pc = "flush"
  /\ length' = length + Size[put[2]] /\ exists' = TRUE /\ total' = total + Size[put[2]]
  /\ pc' = "record"
  /\ UNCHANGED <<disk, up, entries, generation, catalogLen, disabled, put, possible>>

FlushArtifact ==
  /\ pc = "flush"
  /\ FlushActive
  /\ length' = length + Size[put[2]] /\ exists' = TRUE /\ total' = total + Size[put[2]]
  /\ pc' = "record"
  /\ UNCHANGED <<files, catalog, torn, recorded, up, entries, generation, catalogLen, disabled, put,
                 possible>>

(* The flush, or the look at the file after it, fails. *)
FlushArtifactFails ==
  /\ pc = "flush"
  /\ FlushActive \/ UNCHANGED flushed
  /\ \/ UNCHANGED <<length, total>>
     \/ Observe(FileLen(Active(generation)))
  /\ FailAndDisable
  /\ UNCHANGED <<files, catalog, torn, recorded, up, entries, generation, exists, catalogLen, possible>>

Location ==
  [key |-> put[1], payload |-> put[2], generation |-> generation,
   offset |-> length - Size[put[2]]]

(* append_durable on the catalog: the write, whole or partial. *)
WriteRecord ==
  /\ pc = "record"
  /\ catalog' = Append(catalog, Location)
  /\ possible' = [possible EXCEPT ![put[1]] = @ \union {put[2]}]
  /\ pc' = "commit"
  /\ UNCHANGED <<files, flushed, torn, recorded, owner, put>>

WriteRecordFails ==
  /\ pc = "record"
  /\ torn' \in BOOLEAN
  /\ FailAndDisable
  /\ UNCHANGED <<files, flushed, catalog, recorded, up, entries, generation, length, exists, catalogLen,
                 total, possible>>

(* The index with the record of the put.                                   *)
Indexed ==
  [k \in DOMAIN entries \union {put[1]} |-> IF k = put[1] THEN Last(catalog) ELSE entries[k]]

CommitBeforeFlush ==
  /\ pc = "commit"
  /\ catalogLen' = catalogLen + 1
  /\ entries' = Indexed
  /\ possible' = [possible EXCEPT ![put[1]] = {put[2]}]
  /\ Fail
  /\ UNCHANGED <<disk, up, generation, length, exists, total, disabled>>

(* The record is flushed and put returns Ok. *)
Commit ==
  /\ pc = "commit"
  /\ recorded' = Len(catalog)
  /\ catalogLen' = catalogLen + 1
  /\ entries' = Indexed
  /\ possible' = [possible EXCEPT ![put[1]] = {put[2]}]
  /\ pc' = "idle" /\ put' = NoPut
  /\ UNCHANGED <<files, flushed, catalog, torn, up, generation, length, exists, total, disabled>>

CommitFails ==
  /\ pc = "commit"
  /\ recorded' \in {recorded, Len(catalog)}
  /\ FailAndDisable
  /\ UNCHANGED <<files, flushed, catalog, torn, up, entries, generation, length, exists, catalogLen,
                 total, possible>>

-----------------------------------------------------------------------------
(* The process ends, between any two steps. Its lock goes with it. *)
Stop ==
  /\ up' = FALSE
  /\ entries' = <<>>
  /\ generation' = 0 /\ length' = 0 /\ exists' = FALSE
  /\ catalogLen' = 0 /\ total' = 0 /\ disabled' = FALSE
  /\ pc' = "idle" /\ put' = NoPut

Exit == up /\ Stop /\ UNCHANGED <<disk, possible>>

(* Cells that were not flushed may be lost, or read back as junk. *)
Leftovers(cells, kept) ==
  UNION { { SubSeq(cells, 1, good) \o [i \in 1 .. junk |-> Junk] : junk \in 0 .. Len(cells) - good } :
            good \in kept .. Len(cells) }

PowerLoss ==
  /\ Stop
  /\ files' \in { f \in [DOMAIN files -> UNION { Leftovers(files[n], flushed[n]) : n \in DOMAIN files }] :
                    \A n \in DOMAIN files : f[n] \in Leftovers(files[n], flushed[n]) }
  /\ flushed' = [n \in DOMAIN files |-> Len(files'[n])]
  /\ \E n \in recorded .. Len(catalog) :
       /\ catalog' = SubSeq(catalog, 1, n)
       /\ torn' \in {FALSE} \union {torn, n < Len(catalog)}
  /\ recorded' = Len(catalog')
  /\ UNCHANGED possible

-----------------------------------------------------------------------------
Next ==
  \/ Repair \/ Open \/ OpenBlind
  \/ \E k \in Keys, p \in Payloads : Begin(k, p)
  \/ Exhausted \/ Seal \/ SealFails
  \/ WriteArtifact \/ WriteArtifactFails \/ FlushArtifact \/ FlushArtifactFails
  \/ WriteRecord \/ WriteRecordFails \/ Commit \/ CommitFails
  \/ Exit \/ PowerLoss

Spec == Init /\ [][Next]_vars
-----------------------------------------------------------------------------
(* Properties. *)

(* A record in the catalog, flushed or not, refers to the flushed frame of  *)
(* its payload: a crash leaves at most an artifact nothing refers to.       *)
Backed(r) ==
  \E n \in DOMAIN files :
    /\ n[2] = r.generation
    /\ FrameAt(n, r) /\ r.offset + Size[r.payload] <= flushed[n]

RecordsBacked == \A i \in DOMAIN catalog : Backed(catalog[i])

(* Whatever a crash or an error leaves, the store can be opened again, and  *)
(* no generation is ever both sealed and active.                            *)
Reopenable == Discoverable

(* The store keeps the promise of a crash-safe map that fails open: what   *)
(* put acknowledged is found by every later life that can read its catalog, *)
(* whatever other lives, kills and power losses lie between; a life that   *)
(* cannot read it finds nothing, takes no put and spoils nothing; and no   *)
(* probe ever answers with another payload.                                *)
Abstract ==
  INSTANCE CrashSafeMap WITH
    blind <- up /\ catalogLen > MaxCatalog,
    visible <- [k \in Keys |-> IF up THEN Probe(k) ELSE {}]

IsCrashSafeMap == Abstract!Spec
=============================================================================
