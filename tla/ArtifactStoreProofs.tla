------------------------ MODULE ArtifactStoreProofs ------------------------
(***************************************************************************)
(* Theorems about ArtifactStore, for any keys, payloads and limits, of a   *)
(* build in which the look at a renamed segment does not fail: records     *)
(* refer to flushed artifacts, the store is a crash-safe map that fails    *)
(* open, and it can be opened again unless its directory is full. The      *)
(* invariant ties the disk to the fields of the owner, and the catalog     *)
(* with every prefix of it that a crash may leave to what was promised.    *)
(***************************************************************************)
EXTENDS ArtifactStore, FiniteSetTheorems, SequenceTheorems, WellFoundedInduction, TLAPS

Cell == (Payloads \X Nat) \union {Junk}

Record == [key : Keys, payload : Payloads, generation : Generations, offset : Nat]

(* The cells of a frame, one by one.                                       *)
Holds(s, loc) ==
  /\ loc.offset + Size[loc.payload] <= Len(s)
  /\ \A i \in 1 .. Size[loc.payload] : s[loc.offset + i] = <<loc.payload, i>>

Disk ==
  /\ DOMAIN files \subseteq Names /\ DOMAIN flushed = DOMAIN files
  /\ \A n \in DOMAIN files : files[n] \in Seq(Cell) /\ flushed[n] \in 0 .. Len(files[n])
  /\ catalog \in Seq(Record)
  /\ recorded \in 0 .. Len(catalog)

Fields ==
  /\ up \in BOOLEAN /\ exists \in BOOLEAN /\ disabled \in BOOLEAN
  /\ generation \in Generations /\ length \in Nat
  /\ pc \in {"idle", "seal", "append", "flush", "record", "commit"}
  /\ put \in (Keys \X Payloads) \union {NoPut}
  /\ pc # "idle" => put \in Keys \X Payloads /\ up /\ ~disabled
  /\ possible \in [Keys -> SUBSET (Payloads \union {NoPayload})]

(* One active segment at most, younger than every sealed one.              *)
Apart ==
  /\ \A g, h \in Generations : Active(g) \in DOMAIN files /\ Active(h) \in DOMAIN files => g = h
  /\ \A g, s \in Generations : Active(g) \in DOMAIN files /\ Sealed(s) \in DOMAIN files => s < g

(* What the owner believes of the segments.                                *)
Segments ==
  up =>
    /\ \A g \in Generations : Active(g) \in DOMAIN files => g = generation
    /\ ~disabled => \A s \in Generations : Sealed(s) \in DOMAIN files => s < generation
    /\ ~disabled /\ pc \in {"idle", "seal", "append"} =>
         /\ exists <=> Active(generation) \in DOMAIN files
         /\ length = FileLen(Active(generation))
    /\ pc = "seal" => length > 0

(* The artifact of the put in progress.                                    *)
InProgress ==
  LET n == Active(generation)
      loc(o) == [key |-> put[1], payload |-> put[2], generation |-> generation, offset |-> o]
  IN /\ pc = "flush" =>
          /\ n \in DOMAIN files /\ Len(files[n]) = length + Size[put[2]]
          /\ Holds(files[n], loc(length))
     /\ pc \in {"record", "commit"} =>
          /\ n \in DOMAIN files /\ exists /\ length >= Size[put[2]]
          /\ Len(files[n]) = length /\ flushed[n] = length
          /\ Holds(files[n], loc(length - Size[put[2]]))
     /\ pc = "commit" => catalog # <<>> /\ Last(catalog) = Location

(* Every entry of the index can be read.                                   *)
Readable ==
  up => \A k \in DOMAIN entries :
          /\ k \in Keys /\ entries[k] \in Record
          /\ LET n == PathOf(entries[k].generation)
             IN n \in DOMAIN files /\ Holds(files[n], entries[k])

(* What a reader finds after a crash that leaves the first n records.      *)
Promised ==
  \A n \in recorded .. Len(catalog), k \in Keys :
    /\ (\A i \in 1 .. n : catalog[i].key # k) => NoPayload \in possible[k]
    /\ \A i \in 1 .. n :
         catalog[i].key = k /\ (\A j \in i + 1 .. n : catalog[j].key # k)
           => catalog[i].payload \in possible[k]

BackedBy(r, n) ==
  n[2] = r.generation /\ Holds(files[n], r) /\ r.offset + Size[r.payload] <= flushed[n]

AllBacked == \A i \in DOMAIN catalog : \E n \in DOMAIN files : BackedBy(catalog[i], n)

StoreInv ==
  /\ Disk /\ Fields /\ Apart /\ Segments /\ InProgress /\ Readable /\ Promised /\ AllBacked

-----------------------------------------------------------------------------
(* Names, frames and largest elements.                                     *)

LEMMA NamesDiffer ==
  /\ \A g, h : Active(g) # Sealed(h)
  /\ \A g, h : Active(g) = Active(h) => g = h
  /\ \A g, h : Sealed(g) = Sealed(h) => g = h
  /\ \A g : Active(g)[2] = g /\ Sealed(g)[2] = g
  /\ \A n \in Names : n[2] \in Generations /\ (n = Active(n[2]) \/ n = Sealed(n[2]))
BY DEF Active, Sealed, Names

LEMMA SizesPositive == \A p \in Payloads : Size[p] \in Nat /\ Size[p] > 0 /\ Size[p] <= MaxSegment
BY StoreAssumption

LEMMA FirstGeneration == 0 \in Generations
BY StoreAssumption DEF Generations

LEMMA FrameIsSeq ==
  ASSUME NEW p \in Payloads
  PROVE  /\ Frame(p) \in Seq(Cell) /\ Len(Frame(p)) = Size[p]
         /\ \A i \in 1 .. Size[p] : Frame(p)[i] = <<p, i>>
BY SizesPositive DEF Frame, Cell

LEMMA FrameSeen ==
  ASSUME NEW s \in Seq(Cell), NEW p \in Payloads, NEW o \in Nat, o + Size[p] <= Len(s)
  PROVE  SubSeq(s, o + 1, o + Size[p]) = Frame(p)
           <=> \A i \in 1 .. Size[p] : s[o + i] = <<p, i>>
<1> DEFINE t == SubSeq(s, o + 1, o + Size[p])
<1>1. Size[p] \in Nat /\ Size[p] > 0
  BY SizesPositive
<1>2. \A i \in o + 1 .. o + Size[p] : s[i] \in Cell
  <2>1. \A i \in o + 1 .. o + Size[p] : i \in 1 .. Len(s)
    BY <1>1
  <2> QED BY <2>1, ElementOfSeq
<1>3. t \in Seq(Cell) /\ Len(t) = Size[p] /\ \A i \in 1 .. Size[p] : t[i] = s[o + i]
  <2>1. /\ t \in Seq(Cell)
        /\ Len(t) = IF o + 1 <= o + Size[p] THEN o + Size[p] - (o + 1) + 1 ELSE 0
        /\ \A i \in 1 .. o + Size[p] - (o + 1) + 1 : t[i] = s[o + 1 + i - 1]
    BY <1>1, <1>2, SubSeqProperties
  <2> QED BY <1>1, <2>1
<1> HIDE DEF t
<1>4. Frame(p) \in Seq(Cell) /\ Len(Frame(p)) = Size[p]
      /\ \A i \in 1 .. Size[p] : Frame(p)[i] = <<p, i>>
  BY FrameIsSeq
<1>5. t = Frame(p) <=> \A i \in 1 .. Size[p] : t[i] = Frame(p)[i]
  <2>1. ASSUME \A i \in 1 .. Size[p] : t[i] = Frame(p)[i] PROVE t = Frame(p)
    BY <1>3, <1>4, <2>1, SeqEqual
  <2> QED BY <2>1
<1>6. t = Frame(p) <=> \A i \in 1 .. Size[p] : s[o + i] = <<p, i>>
  BY <1>3, <1>4, <1>5
<1> QED BY <1>6 DEF t

LEMMA FrameHeld ==
  ASSUME Disk, NEW n, NEW loc, loc.payload \in Payloads, loc.offset \in Nat
  PROVE  FrameAt(n, loc) <=> n \in DOMAIN files /\ Holds(files[n], loc)
<1>1. CASE n \in DOMAIN files /\ loc.offset + Size[loc.payload] <= Len(files[n])
  BY <1>1, FrameSeen DEF Disk, FrameAt, Holds
<1>2. CASE ~(n \in DOMAIN files /\ loc.offset + Size[loc.payload] <= Len(files[n]))
  BY <1>2 DEF FrameAt, Holds
<1> QED BY <1>1, <1>2

LEMMA HoldsGrown ==
  ASSUME NEW s \in Seq(Cell), NEW t \in Seq(Cell), NEW m \in 0 .. Len(s), m <= Len(t),
         \A i \in 1 .. m : t[i] = s[i],
         NEW r \in Record, Holds(s, r), r.offset + Size[r.payload] <= m
  PROVE  Holds(t, r)
<1>1. r.offset \in Nat /\ Size[r.payload] \in Nat
  BY SizesPositive DEF Record
<1>2. \A i \in 1 .. Size[r.payload] : r.offset + i \in 1 .. m
  BY <1>1
<1>3. \A i \in 1 .. Size[r.payload] : s[r.offset + i] = <<r.payload, i>>
  BY DEF Holds
<1>4. \A i \in 1 .. Size[r.payload] : t[r.offset + i] = <<r.payload, i>>
  BY <1>2, <1>3
<1>5. Len(t) \in Nat /\ r.offset + Size[r.payload] <= Len(t)
  BY <1>1
<1> QED BY <1>4, <1>5 DEF Holds

LEMMA LeftoversKeep ==
  ASSUME NEW cells \in Seq(Cell), NEW kept \in 0 .. Len(cells), NEW t \in Leftovers(cells, kept)
  PROVE  t \in Seq(Cell) /\ kept <= Len(t) /\ \A i \in 1 .. kept : t[i] = cells[i]
<1>0. PICK good \in kept .. Len(cells) :
        \E j \in 0 .. Len(cells) - good : t = SubSeq(cells, 1, good) \o [i \in 1 .. j |-> Junk]
  BY DEF Leftovers
<1>1. PICK junk \in 0 .. Len(cells) - good : t = SubSeq(cells, 1, good) \o [i \in 1 .. junk |-> Junk]
  BY <1>0
<1> DEFINE front == SubSeq(cells, 1, good)
           back == [i \in 1 .. junk |-> Junk]
<1>2. good \in Nat /\ junk \in Nat /\ kept \in Nat /\ kept <= good /\ Len(cells) \in Nat
  BY <1>1
<1>3. \A i \in 1 .. good : cells[i] \in Cell
  <2>1. \A i \in 1 .. good : i \in 1 .. Len(cells)
    BY <1>1, <1>2
  <2> QED BY <2>1, ElementOfSeq
<1>4. front \in Seq(Cell) /\ Len(front) = good /\ \A i \in 1 .. good : front[i] = cells[i]
  <2>1. /\ front \in Seq(Cell) /\ Len(front) = IF 1 <= good THEN good - 1 + 1 ELSE 0
        /\ \A i \in 1 .. good - 1 + 1 : front[i] = cells[1 + i - 1]
    BY <1>2, <1>3, SubSeqProperties
  <2> QED BY <1>2, <2>1
<1>5. back \in Seq(Cell)
  BY <1>2 DEF Cell
<1> HIDE DEF front, back
<1>6. t = front \o back
  BY <1>1 DEF front, back
<1>7. t \in Seq(Cell) /\ Len(t) = good + Len(back) /\ Len(back) \in Nat
      /\ \A i \in 1 .. good : t[i] = front[i]
  <2>1. /\ t \in Seq(Cell) /\ Len(t) = Len(front) + Len(back)
        /\ \A i \in 1 .. Len(front) + Len(back) :
             t[i] = IF i <= Len(front) THEN front[i] ELSE back[i - Len(front)]
    BY <1>4, <1>5, <1>6, ConcatProperties
  <2>2. Len(back) \in Nat
    BY <1>5
  <2>3. ASSUME NEW i \in 1 .. good PROVE t[i] = front[i]
    <3>1. i \in 1 .. Len(front) + Len(back) /\ i <= Len(front)
      BY <1>2, <1>4, <2>2
    <3> QED BY <2>1, <3>1
  <2> QED BY <1>4, <2>1, <2>2, <2>3
<1> QED BY <1>2, <1>4, <1>7

(* Segments only grow, and what is flushed with them.                      *)
Grown ==
  \A n \in DOMAIN files :
    /\ n \in DOMAIN files' /\ Len(files[n]) <= Len(files'[n]) /\ flushed[n] <= flushed'[n]
    /\ \A i \in 1 .. Len(files[n]) : files'[n][i] = files[n][i]

LEMMA GrowthKeepsBacked ==
  ASSUME Disk, Disk', Grown, AllBacked, catalog' = catalog
  PROVE  AllBacked'
<1>1. SUFFICES ASSUME NEW i \in DOMAIN catalog PROVE \E n \in DOMAIN files' : BackedBy(catalog[i], n)'
  BY DEF AllBacked
<1>2. PICK n \in DOMAIN files : BackedBy(catalog[i], n)
  BY DEF AllBacked
<1>3. catalog[i] \in Record
  BY ElementOfSeq DEF Disk
<1> DEFINE r == catalog[i]
<1>4. /\ n \in DOMAIN files' /\ files[n] \in Seq(Cell) /\ files'[n] \in Seq(Cell)
      /\ Len(files[n]) \in Nat /\ Len(files[n]) <= Len(files'[n])
      /\ \A j \in 1 .. Len(files[n]) : files'[n][j] = files[n][j]
      /\ flushed[n] \in Nat /\ flushed'[n] \in Nat /\ flushed[n] <= flushed'[n]
  BY DEF Grown, Disk
<1>5. r.offset \in Nat /\ Size[r.payload] \in Nat
  BY <1>3, SizesPositive DEF Record
<1>6. Holds(files[n], r) /\ r.offset + Size[r.payload] <= Len(files[n])
  BY <1>2 DEF BackedBy, Holds
<1> HIDE DEF r
<1>7. r \in Record
  BY <1>3 DEF r
<1>8. Holds(files'[n], r)
  BY <1>4, <1>6, <1>7, HoldsGrown
<1>9. r.offset + Size[r.payload] <= flushed'[n] /\ n[2] = r.generation
  BY <1>2, <1>4, <1>5 DEF BackedBy, r
<1> QED BY <1>4, <1>8, <1>9 DEF BackedBy, r

LEMMA GrowthKeepsReadable ==
  ASSUME Disk, Disk', Grown, Readable, up, UNCHANGED <<entries, exists, generation>>
  PROVE  Readable'
<1>1. SUFFICES ASSUME NEW k \in DOMAIN entries
               PROVE  LET n == PathOf(entries[k].generation)
                      IN n \in DOMAIN files' /\ Holds(files'[n], entries[k])
  BY DEF Readable, PathOf
<1> DEFINE n == PathOf(entries[k].generation)
<1>2. n \in DOMAIN files /\ Holds(files[n], entries[k]) /\ entries[k] \in Record
  BY DEF Readable
<1>3. /\ n \in DOMAIN files' /\ files[n] \in Seq(Cell) /\ files'[n] \in Seq(Cell)
      /\ Len(files[n]) \in Nat /\ Len(files[n]) <= Len(files'[n])
      /\ \A j \in 1 .. Len(files[n]) : files'[n][j] = files[n][j]
  BY <1>2 DEF Grown, Disk
<1>4. entries[k].offset + Size[entries[k].payload] <= Len(files[n])
  BY <1>2 DEF Holds
<1> HIDE DEF n
<1>5. Holds(files'[n], entries[k])
  <2>1. Len(files[n]) \in 0 .. Len(files[n])
    BY <1>3
  <2> QED BY <1>2, <1>3, <1>4, <2>1, HoldsGrown
<1> QED BY <1>3, <1>5 DEF n

(* An append to the active segment.                                        *)
LEMMA AppendGrows ==
  ASSUME StoreInv, up, ~disabled, NEW cells \in Seq(Cell), AppendCells(cells)
  PROVE  LET n == Active(generation)
         IN /\ Disk' /\ Apart' /\ Grown /\ catalog' = catalog
            /\ DOMAIN files' = DOMAIN files \union {n}
            /\ \A g \in Generations : Active(g) \in DOMAIN files' => g = generation
            /\ Len(files'[n]) = FileLen(n) + Len(cells)
            /\ \A i \in 1 .. Len(cells) : files'[n][FileLen(n) + i] = cells[i]
<1> DEFINE n == Active(generation)
           old == IF n \in DOMAIN files THEN files[n] ELSE <<>>
           kept == IF n \in DOMAIN files THEN flushed[n] ELSE 0
<1>1. generation \in Generations /\ n \in Names
  BY DEF StoreInv, Fields, Active, Names
<1>2. old \in Seq(Cell) /\ Len(old) = FileLen(n) /\ kept \in 0 .. Len(old)
  BY DEF StoreInv, Disk, FileLen
<1>3. /\ DOMAIN files' = DOMAIN files \union {n} /\ DOMAIN flushed' = DOMAIN files'
      /\ files'[n] = old \o cells /\ flushed'[n] = kept
      /\ \A m \in DOMAIN files \ {n} : files'[m] = files[m] /\ flushed'[m] = flushed[m]
      /\ UNCHANGED <<catalog, recorded>>
  BY DEF AppendCells, StoreInv, Disk
<1> HIDE DEF n, old, kept
<1>4. /\ files'[n] \in Seq(Cell) /\ Len(files'[n]) = Len(old) + Len(cells)
      /\ Len(old) \in Nat /\ Len(cells) \in Nat
      /\ \A i \in 1 .. Len(old) : files'[n][i] = old[i]
      /\ \A i \in 1 .. Len(cells) : files'[n][Len(old) + i] = cells[i]
  <2>1. /\ files'[n] \in Seq(Cell) /\ Len(files'[n]) = Len(old) + Len(cells)
        /\ \A i \in 1 .. Len(old) + Len(cells) :
             files'[n][i] = IF i <= Len(old) THEN old[i] ELSE cells[i - Len(old)]
    BY <1>2, <1>3, ConcatProperties
  <2>2. Len(old) \in Nat /\ Len(cells) \in Nat
    BY <1>2
  <2>3. ASSUME NEW i \in 1 .. Len(cells) PROVE files'[n][Len(old) + i] = cells[i]
    <3>1. Len(old) + i \in 1 .. Len(old) + Len(cells) /\ ~(Len(old) + i <= Len(old))
          /\ Len(old) + i - Len(old) = i
      BY <2>2
    <3> QED BY <2>1, <3>1
  <2>4. ASSUME NEW i \in 1 .. Len(old) PROVE files'[n][i] = old[i]
    <3>1. i \in 1 .. Len(old) + Len(cells) /\ i <= Len(old)
      BY <2>2
    <3> QED BY <2>1, <3>1
  <2> QED BY <2>1, <2>2, <2>3, <2>4
<1>5. n \in DOMAIN files => old = files[n] /\ kept = flushed[n]
  BY DEF old, kept
<1>6. Disk'
  <2>1. \A m \in DOMAIN files' : files'[m] \in Seq(Cell) /\ flushed'[m] \in 0 .. Len(files'[m])
    <3>1. flushed'[n] \in 0 .. Len(files'[n])
      BY <1>2, <1>3, <1>4
    <3> QED BY <1>3, <1>4, <3>1 DEF StoreInv, Disk
  <2> QED BY <1>1, <1>3, <2>1 DEF StoreInv, Disk
<1>7. Grown
  <2>1. ASSUME NEW m \in DOMAIN files
        PROVE  /\ m \in DOMAIN files' /\ Len(files[m]) <= Len(files'[m]) /\ flushed[m] <= flushed'[m]
               /\ \A i \in 1 .. Len(files[m]) : files'[m][i] = files[m][i]
    <3>1. files[m] \in Seq(Cell) /\ flushed[m] \in Nat /\ Len(files[m]) \in Nat
      BY DEF StoreInv, Disk
    <3>2. CASE m = n
      BY <1>3, <1>4, <1>5, <3>1, <3>2
    <3>3. CASE m # n
      BY <1>3, <3>1, <3>3
    <3> QED BY <3>2, <3>3
  <2> QED BY <2>1 DEF Grown
<1>8. \A g \in Generations : Active(g) \in DOMAIN files' => g = generation
  BY <1>3, NamesDiffer DEF StoreInv, Segments, n
<1>9. \A s \in Generations : Sealed(s) \in DOMAIN files' => s < generation
  BY <1>3, NamesDiffer DEF StoreInv, Segments, n
<1>10. Apart'
  BY <1>8, <1>9 DEF Apart
<1> QED BY <1>2, <1>3, <1>4, <1>6, <1>7, <1>8, <1>10 DEF n

-----------------------------------------------------------------------------
(* Steps that leave the segments and the catalog alone.                    *)

LEMMA InitStore == Init => StoreInv
<1> SUFFICES ASSUME Init PROVE StoreInv
  OBVIOUS
<1>1. /\ DOMAIN files = {} /\ DOMAIN flushed = {} /\ catalog = <<>> /\ recorded = 0 /\ up = FALSE
      /\ pc = "idle" /\ put = NoPut /\ possible = [k \in Keys |-> {NoPayload}]
  BY DEF Init
<1>2. Disk
  BY <1>1 DEF Disk
<1>3. Fields
  BY <1>1, FirstGeneration DEF Init, Fields
<1>4. Apart /\ Segments /\ InProgress /\ Readable /\ AllBacked
  BY <1>1 DEF Apart, Segments, InProgress, Readable, AllBacked
<1>5. Promised
  <2>1. Len(catalog) = 0
    BY <1>1
  <2>2. \A n \in recorded .. Len(catalog) : n = 0
    BY <1>1, <2>1
  <2> QED BY <1>1, <2>2 DEF Promised
<1> QED BY <1>2, <1>3, <1>4, <1>5 DEF StoreInv

LEMMA BeginKeeps ==
  ASSUME StoreInv, NEW k \in Keys, NEW p \in Payloads, Begin(k, p)
  PROVE  StoreInv'
<1> USE DEF disk, owner
<1>1. /\ UNCHANGED <<files, flushed, catalog, recorded, up, entries, generation, length, exists,
                     disabled, possible>>
      /\ put' = <<k, p>> /\ pc' \in {"seal", "append"} /\ up /\ ~disabled /\ pc = "idle"
      /\ pc' = "seal" => length > 0
  BY DEF Begin, Admissible, Rotates
<1>2. Fields'
  BY <1>1 DEF StoreInv, Fields
<1>3. Segments'
  BY <1>1 DEF StoreInv, Segments, FileLen
<1>4. Readable'
  BY <1>1 DEF StoreInv, Readable, PathOf
<1> QED BY <1>1, <1>2, <1>3, <1>4 DEF StoreInv, Disk, Apart, InProgress, Promised, AllBacked, BackedBy

(* A put fails and leaves the segments as they are.                        *)
LEMMA FailureKeeps ==
  ASSUME StoreInv, pc' = "idle", put' = NoPut, disabled' \in {disabled, TRUE},
         disabled' \/ pc \in {"idle", "seal", "append"},
         UNCHANGED <<files, flushed, catalog, up, entries, generation, exists, possible>>,
         length' \in Nat, disabled' \/ length' = length,
         recorded' \in recorded .. Len(catalog)
  PROVE  StoreInv'
<1>1. Fields'
  BY DEF StoreInv, Fields
<1>2. Segments'
  BY DEF StoreInv, Segments, FileLen
<1>3. Readable'
  BY DEF StoreInv, Readable, PathOf
<1>4. Disk' /\ Promised'
  <2>1. Len(catalog) \in Nat /\ recorded \in Nat
    BY DEF StoreInv, Disk
  <2>2. recorded' .. Len(catalog) \subseteq recorded .. Len(catalog) /\ recorded' \in 0 .. Len(catalog)
    BY <2>1
  <2> QED BY <2>2 DEF StoreInv, Disk, Promised
<1> QED BY <1>1, <1>2, <1>3, <1>4 DEF StoreInv, Apart, InProgress, AllBacked, BackedBy

LEMMA SealGivesUp ==
  ASSUME ~SealCheckFails, StoreInv, Exhausted \/ SealFails
  PROVE  StoreInv'
<1>1. /\ UNCHANGED <<files, flushed, catalog, recorded, up, entries, generation, length, exists, possible>>
      /\ pc' = "idle" /\ put' = NoPut /\ pc = "seal" /\ disabled' \in {disabled, TRUE}
  BY DEF Exhausted, SealFails, disk, owner, Fail, FailAndDisable, StoreInv, Fields
<1>2. length' \in Nat /\ recorded' \in recorded .. Len(catalog)
  BY <1>1 DEF StoreInv, Fields, Disk
<1> QED BY <1>1, <1>2, FailureKeeps

LEMMA RepairKeeps ==
  ASSUME StoreInv, Repair
  PROVE  StoreInv'
<1>1. /\ UNCHANGED <<files, flushed, catalog, up, entries, generation, length, exists, disabled,
                     pc, put, possible>>
      /\ recorded' \in {recorded, Len(catalog)} /\ up = FALSE
  BY DEF Repair, owner, StoreInv, Fields
<1>2. Len(catalog) \in Nat /\ recorded \in 0 .. Len(catalog)
  BY DEF StoreInv, Disk
<1>3. Promised' /\ Disk'
  <2>1. recorded' .. Len(catalog) \subseteq recorded .. Len(catalog) /\ recorded' \in 0 .. Len(catalog)
    BY <1>1, <1>2
  <2> QED BY <1>1, <2>1 DEF StoreInv, Disk, Promised
<1>4. Fields'
  BY <1>1 DEF StoreInv, Fields
<1>5. InProgress'
  BY <1>1, <1>4 DEF InProgress, Fields
<1> QED BY <1>1, <1>3, <1>4, <1>5 DEF StoreInv, Apart, Segments, Readable, AllBacked, BackedBy

(* The owner is gone.                                                      *)
LEMMA StopKeeps ==
  ASSUME StoreInv, Stop, UNCHANGED possible, Disk', Apart', Promised', AllBacked'
  PROVE  StoreInv'
<1>1. up' = FALSE /\ pc' = "idle" /\ put' = NoPut
  BY DEF Stop
<1>2. Fields'
  BY <1>1, FirstGeneration DEF Stop, StoreInv, Fields
<1> QED BY <1>1, <1>2 DEF StoreInv, Segments, InProgress, Readable

LEMMA ExitKeeps ==
  ASSUME StoreInv, Exit
  PROVE  StoreInv'
<1>1. UNCHANGED <<files, flushed, catalog, recorded, possible>> /\ Stop
  BY DEF Exit, disk
<1>2. Disk' /\ Apart' /\ Promised' /\ AllBacked'
  BY <1>1 DEF StoreInv, Disk, Apart, Promised, AllBacked, BackedBy
<1> QED BY <1>1, <1>2, StopKeeps

LEMMA PowerLossKeeps ==
  ASSUME StoreInv, PowerLoss
  PROVE  StoreInv'
<1>1. /\ Stop /\ UNCHANGED possible /\ DOMAIN files' = DOMAIN files
      /\ DOMAIN flushed' = DOMAIN files
      /\ \A n \in DOMAIN files : /\ files'[n] \in Leftovers(files[n], flushed[n])
                                 /\ flushed'[n] = Len(files'[n])
      /\ recorded' = Len(catalog')
  BY DEF PowerLoss
<1>2. PICK last \in recorded .. Len(catalog) : catalog' = SubSeq(catalog, 1, last)
  BY DEF PowerLoss
<1>3. Len(catalog) \in Nat /\ recorded \in 0 .. Len(catalog) /\ last \in 0 .. Len(catalog)
  BY <1>2 DEF StoreInv, Disk
<1>4. /\ catalog' \in Seq(Record) /\ Len(catalog') = last
      /\ \A i \in 1 .. last : catalog'[i] = catalog[i] /\ i \in DOMAIN catalog
  <2>1. \A i \in 1 .. last : i \in 1 .. Len(catalog)
    BY <1>3
  <2>2. \A i \in 1 .. last : catalog[i] \in Record
    BY <2>1, ElementOfSeq DEF StoreInv, Disk
  <2>3. /\ catalog' \in Seq(Record) /\ Len(catalog') = IF 1 <= last THEN last - 1 + 1 ELSE 0
        /\ \A i \in 1 .. last - 1 + 1 : catalog'[i] = catalog[1 + i - 1]
    BY <1>2, <1>3, <2>2, SubSeqProperties
  <2>4. DOMAIN catalog = 1 .. Len(catalog)
    BY DEF StoreInv, Disk
  <2> QED BY <1>3, <2>1, <2>3, <2>4
<1>5. \A n \in DOMAIN files :
        /\ files[n] \in Seq(Cell) /\ files'[n] \in Seq(Cell) /\ flushed[n] \in 0 .. Len(files[n])
        /\ flushed[n] <= Len(files'[n])
        /\ \A i \in 1 .. flushed[n] : files'[n][i] = files[n][i]
  BY <1>1, LeftoversKeep DEF StoreInv, Disk
<1>6. Disk'
  <2>1. \A n \in DOMAIN files : Len(files'[n]) \in Nat
    BY <1>5
  <2> QED BY <1>1, <1>3, <1>4, <1>5, <2>1 DEF StoreInv, Disk
<1>7. Apart'
  BY <1>1 DEF StoreInv, Apart
<1>8. Promised'
  <2>1. \A n \in recorded' .. Len(catalog') : n = last
    BY <1>1, <1>3, <1>4
  <2>2. \A i \in 1 .. last : \A j \in i + 1 .. last : j \in 1 .. last
    BY <1>3
  <2>3. SUFFICES ASSUME NEW k \in Keys
                 PROVE  /\ (\A i \in 1 .. last : catalog'[i].key # k) => NoPayload \in possible[k]
                        /\ \A i \in 1 .. last :
                             catalog'[i].key = k /\ (\A j \in i + 1 .. last : catalog'[j].key # k)
                               => catalog'[i].payload \in possible[k]
    BY <1>1, <2>1 DEF Promised
  <2> QED BY <1>2, <1>4, <2>2 DEF StoreInv, Promised
<1>9. AllBacked'
  <2>1. SUFFICES ASSUME NEW i \in 1 .. last
                 PROVE  \E n \in DOMAIN files' : BackedBy(catalog[i], n)'
    <3>1. DOMAIN catalog' = 1 .. last
      BY <1>4
    <3> QED BY <1>4, <3>1 DEF AllBacked, BackedBy
  <2> DEFINE r == catalog[i]
  <2>2. PICK n \in DOMAIN files : BackedBy(r, n)
    BY <1>4 DEF StoreInv, AllBacked
  <2>3. r \in Record
    BY <1>4, ElementOfSeq DEF StoreInv, Disk
  <2>4. r.offset \in Nat /\ Size[r.payload] \in Nat
    BY <2>3, SizesPositive DEF Record
  <2>5. BackedBy(catalog[i], n)'
    <3>1. r' = r /\ catalog'[i] = r
      BY <1>4
    <3> HIDE DEF r
    <3>2. Holds(files'[n], r)
      BY <1>5, <2>2, <2>3, HoldsGrown DEF BackedBy
    <3>3. r.offset + Size[r.payload] <= flushed'[n]
      BY <1>1, <1>5, <2>2, <2>4 DEF BackedBy
    <3>4. n[2] = r.generation
      BY <2>2 DEF BackedBy
    <3> QED BY <3>1, <3>2, <3>3, <3>4 DEF BackedBy, r
  <2> QED BY <1>1, <2>5
<1> QED BY <1>1, <1>6, <1>7, <1>8, <1>9, StopKeeps

-----------------------------------------------------------------------------
(* The artifact is appended and flushed.                                   *)

LEMMA DisabledKeeps ==
  ASSUME StoreInv, up, Disk', Apart', Grown, UNCHANGED <<catalog, recorded>>,
         \A g \in Generations : Active(g) \in DOMAIN files' => g = generation,
         disabled' = TRUE, pc' = "idle", put' = NoPut, length' \in Nat,
         UNCHANGED <<up, entries, generation, exists, possible>>
  PROVE  StoreInv'
<1>1. Fields'
  BY DEF StoreInv, Fields
<1>2. AllBacked' /\ Readable'
  BY GrowthKeepsBacked, GrowthKeepsReadable DEF StoreInv
<1> QED BY <1>1, <1>2 DEF StoreInv, Segments, InProgress, Promised

LEMMA WriteArtifactKeeps ==
  ASSUME StoreInv, WriteArtifact
  PROVE  StoreInv'
<1> DEFINE n == Active(generation)
<1>1. /\ up /\ ~disabled /\ put \in Keys \X Payloads /\ pc = "append" /\ pc' = "flush"
      /\ UNCHANGED <<up, entries, generation, length, exists, disabled, put, possible>>
      /\ AppendCells(Frame(put[2])) /\ put[2] \in Payloads /\ length \in Nat
  BY DEF WriteArtifact, owner, StoreInv, Fields
<1>2. /\ Frame(put[2]) \in Seq(Cell) /\ Len(Frame(put[2])) = Size[put[2]]
      /\ \A i \in 1 .. Size[put[2]] : Frame(put[2])[i] = <<put[2], i>>
  BY <1>1, FrameIsSeq
<1>3. /\ Disk' /\ Apart' /\ Grown /\ catalog' = catalog
      /\ DOMAIN files' = DOMAIN files \union {n}
      /\ \A g \in Generations : Active(g) \in DOMAIN files' => g = generation
      /\ Len(files'[n]) = FileLen(n) + Size[put[2]]
      /\ \A i \in 1 .. Size[put[2]] : files'[n][FileLen(n) + i] = <<put[2], i>>
  BY <1>1, <1>2, AppendGrows
<1>4. FileLen(n) = length
  BY <1>1 DEF StoreInv, Segments
<1>5. Fields'
  BY <1>1 DEF StoreInv, Fields
<1>6. Segments'
  BY <1>1, <1>3, NamesDiffer DEF StoreInv, Segments
<1>7. InProgress'
  BY <1>1, <1>3, <1>4 DEF InProgress, Holds
<1>8. AllBacked' /\ Readable'
  BY <1>1, <1>3, GrowthKeepsBacked, GrowthKeepsReadable DEF StoreInv
<1>9. Promised'
  BY <1>1, <1>3 DEF StoreInv, Promised, AppendCells
<1> QED BY <1>3, <1>5, <1>6, <1>7, <1>8, <1>9 DEF StoreInv

LEMMA SameIsGrown ==
  ASSUME Disk, files' = files, \A n \in DOMAIN files : flushed[n] <= flushed'[n]
  PROVE  Grown
BY DEF Grown, Disk

LEMMA WriteArtifactFailsKeeps ==
  ASSUME StoreInv, WriteArtifactFails
  PROVE  StoreInv'
<1> DEFINE n == Active(generation)
<1>1. /\ up /\ ~disabled /\ put[2] \in Payloads /\ length \in Nat
      /\ disabled' = TRUE /\ pc' = "idle" /\ put' = NoPut
      /\ UNCHANGED <<up, entries, generation, exists, possible>>
  BY DEF WriteArtifactFails, FailAndDisable, Fail, StoreInv, Fields
<1>2. CASE UNCHANGED <<disk, length, total>>
  <2>1. \A m \in DOMAIN files : flushed[m] <= flushed'[m]
    BY <1>2 DEF disk, StoreInv, Disk
  <2>2. Grown
    BY <1>2, <2>1, SameIsGrown DEF disk, StoreInv
  <2> QED BY <1>1, <1>2, <2>2, DisabledKeeps DEF disk, StoreInv, Disk, Apart, Segments
<1>3. ASSUME NEW j \in 0 .. Size[put[2]] - 1, AppendCells(SubSeq(Frame(put[2]), 1, j)),
             UNCHANGED length \/ Observe(Len(files'[n]))
      PROVE  StoreInv'
  <2>1. SubSeq(Frame(put[2]), 1, j) \in Seq(Cell)
    <3>1. j \in Int /\ \A i \in 1 .. j : i \in 1 .. Size[put[2]]
      BY <1>1, SizesPositive
    <3>2. \A i \in 1 .. j : Frame(put[2])[i] \in Cell
      BY <1>1, <3>1, FrameIsSeq, ElementOfSeq
    <3> QED BY <3>1, <3>2, SubSeqProperties
  <2>2. /\ Disk' /\ Apart' /\ Grown /\ catalog' = catalog
        /\ DOMAIN files' = DOMAIN files \union {n}
        /\ \A g \in Generations : Active(g) \in DOMAIN files' => g = generation
    BY <1>1, <1>3, <2>1, AppendGrows
  <2>3. length' \in Nat
    BY <1>1, <1>3, <2>2 DEF Observe, Disk
  <2>4. recorded' = recorded
    BY <1>3 DEF AppendCells
  <2> QED BY <1>1, <2>2, <2>3, <2>4, DisabledKeeps
<1> QED BY <1>2, <1>3 DEF WriteArtifactFails

LEMMA FlushGrows ==
  ASSUME StoreInv, up, pc = "flush", files' = files, FlushActive \/ UNCHANGED flushed,
         UNCHANGED <<catalog, recorded>>
  PROVE  /\ Disk' /\ Apart' /\ Grown
         /\ Len(files[Active(generation)]) = length + Size[put[2]]
<1> DEFINE n == Active(generation)
<1>1. n \in DOMAIN files /\ Len(files[n]) = length + Size[put[2]]
  BY DEF StoreInv, InProgress
<1>2. /\ DOMAIN flushed' = DOMAIN files
      /\ \A m \in DOMAIN files : flushed'[m] \in {flushed[m], Len(files[m])}
  BY <1>1 DEF FlushActive, StoreInv, Disk
<1>3. \A m \in DOMAIN files : flushed'[m] \in 0 .. Len(files[m]) /\ flushed[m] <= flushed'[m]
  <2>1. ASSUME NEW m \in DOMAIN files
        PROVE  flushed'[m] \in 0 .. Len(files[m]) /\ flushed[m] <= flushed'[m]
    <3>1. flushed[m] \in 0 .. Len(files[m]) /\ Len(files[m]) \in Nat
      BY DEF StoreInv, Disk
    <3> QED BY <1>2, <3>1
  <2> QED BY <2>1
<1>4. Disk' /\ Apart'
  BY <1>2, <1>3 DEF StoreInv, Disk, Apart
<1> QED BY <1>1, <1>3, <1>4, SameIsGrown DEF StoreInv

LEMMA FlushArtifactFailsKeeps ==
  ASSUME StoreInv, FlushArtifactFails
  PROVE  StoreInv'
<1>1. /\ up /\ pc = "flush" /\ disabled' = TRUE /\ pc' = "idle" /\ put' = NoPut
      /\ UNCHANGED <<files, catalog, recorded, up, entries, generation, exists, possible>>
      /\ FlushActive \/ UNCHANGED flushed
  BY DEF FlushArtifactFails, FailAndDisable, Fail, StoreInv, Fields
<1>2. Disk' /\ Apart' /\ Grown
  BY <1>1, FlushGrows
<1>3. length' \in Nat
  <2>1. FileLen(Active(generation)) \in Nat
    BY DEF FileLen, StoreInv, Disk
  <2> QED BY <2>1 DEF FlushArtifactFails, Observe, StoreInv, Fields
<1>4. \A g \in Generations : Active(g) \in DOMAIN files' => g = generation
  BY <1>1 DEF StoreInv, Segments
<1> QED BY <1>1, <1>2, <1>3, <1>4, DisabledKeeps

LEMMA FlushArtifactKeeps ==
  ASSUME StoreInv, FlushArtifact
  PROVE  StoreInv'
<1> DEFINE n == Active(generation)
<1>1. /\ up /\ ~disabled /\ pc = "flush" /\ pc' = "record" /\ exists' = TRUE
      /\ length' = length + Size[put[2]] /\ put[2] \in Payloads /\ length \in Nat
      /\ UNCHANGED <<files, catalog, recorded, up, entries, generation, disabled, put, possible>>
      /\ FlushActive
  BY DEF FlushArtifact, StoreInv, Fields
<1>2. Disk' /\ Apart' /\ Grown /\ Len(files[n]) = length + Size[put[2]]
  BY <1>1, FlushGrows
<1>3. n \in DOMAIN files /\ flushed'[n] = Len(files[n])
  BY <1>1 DEF StoreInv, InProgress, FlushActive, Disk
<1>4. Size[put[2]] \in Nat
  BY <1>1, SizesPositive
<1>5. Fields'
  BY <1>1, <1>4 DEF StoreInv, Fields
<1>6. Segments'
  BY <1>1 DEF StoreInv, Segments
<1>7. InProgress'
  <2>1. length' - Size[put[2]] = length /\ length' >= Size[put[2]]
    BY <1>1, <1>4
  <2> QED BY <1>1, <1>2, <1>3, <2>1 DEF StoreInv, InProgress
<1>8. Readable'
  <2>1. ASSUME NEW k \in DOMAIN entries
        PROVE  PathOf(entries[k].generation)' = PathOf(entries[k].generation)
    <3>1. PathOf(entries[k].generation) \in DOMAIN files /\ entries[k].generation \in Generations
      BY <1>1 DEF StoreInv, Readable, Record
    <3>2. entries[k].generation = generation => exists
      BY <1>1, <3>1 DEF PathOf, StoreInv, Segments, Fields, Generations
    <3> QED BY <1>1, <3>2 DEF PathOf
  <2> QED BY <1>1, <2>1 DEF StoreInv, Readable
<1>9. AllBacked' /\ Promised'
  BY <1>1, <1>2, GrowthKeepsBacked DEF StoreInv, Promised
<1> QED BY <1>2, <1>5, <1>6, <1>7, <1>8, <1>9 DEF StoreInv

-----------------------------------------------------------------------------
(* The record of the artifact.                                             *)

LEMMA WriteRecordKeeps ==
  ASSUME StoreInv, WriteRecord
  PROVE  StoreInv'
<1> DEFINE len == Len(catalog)
           n == Active(generation)
<1>1. /\ up /\ ~disabled /\ pc = "record" /\ pc' = "commit" /\ put \in Keys \X Payloads
      /\ put[1] \in Keys /\ put[2] \in Payloads
      /\ UNCHANGED <<files, flushed, recorded, up, entries, generation, length, exists, disabled, put>>
      /\ catalog' = Append(catalog, Location)
      /\ possible' = [possible EXCEPT ![put[1]] = @ \union {put[2]}]
  BY DEF WriteRecord, owner, StoreInv, Fields
<1>2. /\ n \in DOMAIN files /\ exists /\ length >= Size[put[2]] /\ flushed[n] = length
      /\ Holds(files[n], [key |-> put[1], payload |-> put[2], generation |-> generation,
                          offset |-> length - Size[put[2]]])
  BY <1>1 DEF StoreInv, InProgress
<1>3. Size[put[2]] \in Nat /\ length \in Nat /\ generation \in Generations
  BY <1>1, SizesPositive DEF StoreInv, Fields
<1>4. /\ Location \in Record /\ Location.key = put[1] /\ Location.payload = put[2]
      /\ Location.generation = generation /\ Location.offset = length - Size[put[2]]
  BY <1>1, <1>2, <1>3 DEF Location, Record
<1>5. /\ catalog' \in Seq(Record) /\ Len(catalog') = len + 1 /\ len \in Nat
      /\ catalog'[len + 1] = Location
      /\ \A i \in 1 .. len : catalog'[i] = catalog[i]
      /\ DOMAIN catalog = 1 .. len /\ DOMAIN catalog' = 1 .. len + 1
  BY <1>1, <1>4 DEF StoreInv, Disk
<1>6. Disk' /\ Apart'
  BY <1>1, <1>5 DEF StoreInv, Disk, Apart
<1>7. Fields'
  BY <1>1 DEF StoreInv, Fields
<1>8. Segments' /\ Readable'
  BY <1>1 DEF StoreInv, Segments, Readable, PathOf
<1>9. InProgress'
  <2>1. Location' = Location
    BY <1>1 DEF Location
  <2>2. catalog' # <<>> /\ Last(catalog') = Location'
    BY <1>5, <2>1 DEF Last
  <2> QED BY <1>1, <1>2, <2>2 DEF StoreInv, InProgress
<1>10. AllBacked'
  <2>1. BackedBy(Location, n)
    BY <1>2, <1>3, <1>4, NamesDiffer DEF BackedBy, Location
  <2>2. ASSUME NEW i \in 1 .. len + 1 PROVE \E m \in DOMAIN files : BackedBy(catalog'[i], m)
    <3>1. CASE i = len + 1
      BY <1>2, <1>5, <2>1, <3>1
    <3>2. CASE i # len + 1
      <4>1. i \in 1 .. len
        BY <1>5, <3>2
      <4> QED BY <1>5, <4>1 DEF StoreInv, AllBacked
    <3> QED BY <3>1, <3>2
  <2> QED BY <1>1, <1>5, <2>2 DEF AllBacked, BackedBy
<1>11. Promised'
  <2>1. \A k \in Keys : possible[k] \subseteq possible'[k]
    BY <1>1 DEF StoreInv, Fields
  <2>2. put[2] \in possible'[put[1]]
    BY <1>1 DEF StoreInv, Fields
  <2>3. ASSUME NEW m \in recorded .. len + 1, NEW k \in Keys
        PROVE  /\ (\A i \in 1 .. m : catalog'[i].key # k) => NoPayload \in possible'[k]
               /\ \A i \in 1 .. m :
                    catalog'[i].key = k /\ (\A j \in i + 1 .. m : catalog'[j].key # k)
                      => catalog'[i].payload \in possible'[k]
    <3>1. recorded \in 0 .. len
      BY DEF StoreInv, Disk
    <3>2. CASE m # len + 1
      <4>1. m \in recorded .. len /\ (\A i \in 1 .. m : i \in 1 .. len)
            /\ \A i \in 1 .. m : \A j \in i + 1 .. m : j \in 1 .. len
        BY <1>5, <3>1, <3>2
      <4> QED BY <1>5, <2>1, <4>1 DEF StoreInv, Promised
    <3>3. CASE m = len + 1 /\ k = put[1]
      <4>1. ASSUME NEW i \in 1 .. m, catalog'[i].key = k,
                   \A j \in i + 1 .. m : catalog'[j].key # k
            PROVE  i = len + 1
        <5>1. i # len + 1 => len + 1 \in i + 1 .. m
          BY <1>5, <3>3
        <5> QED BY <1>4, <1>5, <3>3, <4>1, <5>1
      <4>2. len + 1 \in 1 .. m
        BY <1>5, <3>3
      <4> QED BY <1>4, <1>5, <2>2, <3>3, <4>1, <4>2
    <3>4. CASE m = len + 1 /\ k # put[1]
      <4>1. len \in recorded .. len /\ \A i \in 1 .. len : i \in 1 .. m
        BY <1>5, <3>1, <3>4
      <4>2. ASSUME \A i \in 1 .. m : catalog'[i].key # k PROVE NoPayload \in possible[k]
        BY <1>5, <4>1, <4>2 DEF StoreInv, Promised
      <4>3. ASSUME NEW i \in 1 .. m, catalog'[i].key = k,
                   \A j \in i + 1 .. m : catalog'[j].key # k
            PROVE  catalog'[i].payload \in possible[k]
        <5>1. i \in 1 .. len
          BY <1>4, <1>5, <3>4, <4>3
        <5>2. \A j \in i + 1 .. len : j \in i + 1 .. m /\ j \in 1 .. len
          BY <1>5, <3>4, <5>1
        <5> QED BY <1>5, <4>1, <4>3, <5>1, <5>2 DEF StoreInv, Promised
      <4> QED BY <2>1, <4>2, <4>3
    <3> QED BY <3>2, <3>3, <3>4
  <2> QED BY <1>1, <1>5, <2>3 DEF Promised
<1> QED BY <1>6, <1>7, <1>8, <1>9, <1>10, <1>11 DEF StoreInv

LEMMA RecordFailures ==
  ASSUME StoreInv, WriteRecordFails \/ CommitFails
  PROVE  StoreInv'
<1>1. /\ pc' = "idle" /\ put' = NoPut /\ disabled' = TRUE
      /\ UNCHANGED <<files, flushed, catalog, up, entries, generation, length, exists, possible>>
      /\ recorded' \in {recorded, Len(catalog)}
  BY DEF WriteRecordFails, CommitFails, FailAndDisable, Fail
<1>2. recorded' \in recorded .. Len(catalog) /\ length' \in Nat
  BY <1>1 DEF StoreInv, Disk, Fields
<1> QED BY <1>1, <1>2, FailureKeeps

(* What a commit acknowledges is the last record.                          *)
LEMMA CommitFacts ==
  ASSUME StoreInv, pc = "commit"
  PROVE  /\ up /\ ~disabled /\ put[1] \in Keys /\ put[2] \in Payloads
         /\ Len(catalog) \in Nat /\ Len(catalog) > 0 /\ Last(catalog) = catalog[Len(catalog)]
         /\ Last(catalog) \in Record /\ Last(catalog).key = put[1] /\ Last(catalog).payload = put[2]
         /\ PathOf(Last(catalog).generation) \in DOMAIN files
         /\ Holds(files[PathOf(Last(catalog).generation)], Last(catalog))
         /\ put[2] \in possible[put[1]]
<1> DEFINE len == Len(catalog)
<1>1. up /\ ~disabled /\ put[1] \in Keys /\ put[2] \in Payloads
  BY DEF StoreInv, Fields
<1>2. len \in Nat /\ len > 0 /\ Last(catalog) = catalog[len] /\ Last(catalog) = Location
  BY EmptySeq DEF StoreInv, Disk, InProgress, Last
<1>3. Last(catalog) \in Record
  <2>1. len \in 1 .. len /\ catalog \in Seq(Record)
    BY <1>2 DEF StoreInv, Disk
  <2> QED BY <1>2, <2>1, ElementOfSeq
<1>4. /\ Last(catalog).key = put[1] /\ Last(catalog).payload = put[2]
      /\ Last(catalog).generation = generation
  BY <1>2 DEF Location
<1>5. /\ PathOf(generation) = Active(generation) /\ Active(generation) \in DOMAIN files
      /\ Holds(files[Active(generation)], Location)
  BY DEF StoreInv, InProgress, PathOf, Location
<1>6. put[2] \in possible[put[1]]
  <2>1. len \in recorded .. len /\ len \in 1 .. len /\ \A j : ~(j \in len + 1 .. len)
    BY <1>2 DEF StoreInv, Disk
  <2> QED BY <1>1, <1>2, <1>4, <2>1 DEF StoreInv, Promised
<1> QED BY <1>1, <1>2, <1>3, <1>4, <1>5, <1>6

LEMMA CommitKeeps ==
  ASSUME StoreInv, Commit
  PROVE  StoreInv'
<1> DEFINE len == Len(catalog)
<1>1. /\ pc = "commit" /\ pc' = "idle" /\ put' = NoPut /\ recorded' = len
      /\ UNCHANGED <<files, flushed, catalog, up, generation, length, exists, disabled>>
      /\ entries' = Indexed
      /\ possible' = [possible EXCEPT ![put[1]] = {put[2]}]
  BY DEF Commit
<1>2. /\ up /\ ~disabled /\ put[1] \in Keys /\ put[2] \in Payloads
      /\ len \in Nat /\ len > 0 /\ Last(catalog) = catalog[len]
      /\ Last(catalog) \in Record /\ Last(catalog).key = put[1] /\ Last(catalog).payload = put[2]
      /\ PathOf(Last(catalog).generation) \in DOMAIN files
      /\ Holds(files[PathOf(Last(catalog).generation)], Last(catalog))
  BY <1>1, CommitFacts
<1>3. Disk' /\ Apart'
  BY <1>1, <1>2 DEF StoreInv, Disk, Apart
<1>4. Fields'
  BY <1>1, <1>2 DEF StoreInv, Fields
<1>5. Segments'
  BY <1>1 DEF StoreInv, Segments, InProgress, FileLen
<1>6. Readable'
  <2>1. /\ DOMAIN entries' = DOMAIN entries \union {put[1]} /\ entries'[put[1]] = Last(catalog)
        /\ \A k \in DOMAIN entries \ {put[1]} : entries'[k] = entries[k]
    BY <1>1 DEF Indexed
  <2> QED BY <1>1, <1>2, <2>1 DEF StoreInv, Readable, PathOf
<1>7. Promised'
  <2>1. \A m \in recorded' .. Len(catalog') : m = len
    BY <1>1, <1>2
  <2>2. SUFFICES ASSUME NEW k \in Keys
                 PROVE  /\ (\A i \in 1 .. len : catalog[i].key # k) => NoPayload \in possible'[k]
                        /\ \A i \in 1 .. len :
                             catalog[i].key = k /\ (\A j \in i + 1 .. len : catalog[j].key # k)
                               => catalog[i].payload \in possible'[k]
    BY <1>1, <2>1 DEF Promised
  <2>3. CASE k # put[1]
    <3>1. possible'[k] = possible[k] /\ len \in recorded .. len
      BY <1>1, <1>2, <2>3 DEF StoreInv, Fields, Disk
    <3> QED BY <3>1 DEF StoreInv, Promised
  <2>4. CASE k = put[1]
    <3>1. possible'[k] = {put[2]}
      BY <1>1, <2>4 DEF StoreInv, Fields
    <3>2. ASSUME NEW i \in 1 .. len, \A j \in i + 1 .. len : catalog[j].key # k PROVE i = len
      <4>1. i # len => len \in i + 1 .. len
        BY <1>2
      <4> QED BY <1>2, <2>4, <3>2, <4>1
    <3>3. len \in 1 .. len
      BY <1>2
    <3> QED BY <1>2, <2>4, <3>1, <3>2, <3>3
  <2> QED BY <2>3, <2>4
<1>8. AllBacked' /\ InProgress'
  BY <1>1 DEF StoreInv, AllBacked, BackedBy, InProgress
<1> QED BY <1>3, <1>4, <1>5, <1>6, <1>7, <1>8 DEF StoreInv
-----------------------------------------------------------------------------
(* The active segment is sealed.                                           *)

LEMMA SealKeeps ==
  ASSUME StoreInv, Seal
  PROVE  StoreInv'
<1> DEFINE g == generation
           a == Active(generation)
           s == Sealed(generation)
<1>1. /\ up /\ ~disabled /\ length > 0 /\ g \in Generations /\ g < MaxGeneration
      /\ exists <=> a \in DOMAIN files
      /\ length = FileLen(a)
      /\ \A h \in Generations : Active(h) \in DOMAIN files => h = g
      /\ \A h \in Generations : Sealed(h) \in DOMAIN files => h < g
  BY DEF Seal, StoreInv, Fields, Segments
<1>2. a \in DOMAIN files /\ exists
  BY <1>1 DEF FileLen
<1>3. s \notin DOMAIN files /\ RenameActive /\ StartSegment
  BY <1>2 DEF Seal
<1>4. /\ DOMAIN files' = (DOMAIN files \ {a}) \union {s} /\ DOMAIN flushed' = DOMAIN files'
      /\ files'[s] = files[a] /\ flushed'[s] = flushed[a]
      /\ \A n \in DOMAIN files \ {a} : files'[n] = files[n] /\ flushed'[n] = flushed[n]
      /\ UNCHANGED <<catalog, recorded>>
  BY <1>3 DEF RenameActive
<1>5. /\ generation' = g + 1 /\ length' = 0 /\ exists' = FALSE /\ pc' = "append"
      /\ UNCHANGED <<put, up, entries, disabled, possible>>
  BY <1>3 DEF StartSegment
<1>6. g + 1 \in Generations /\ g \in Nat /\ MaxGeneration \in Nat
  BY <1>1, StoreAssumption DEF Generations
<1>7. s \in Names
  BY <1>1 DEF Sealed, Names
<1> HIDE DEF a, s
<1>8. Disk'
  BY <1>2, <1>4, <1>7 DEF StoreInv, Disk
<1>9. \A h \in Generations : Active(h) \notin DOMAIN files'
  BY <1>1, <1>4, NamesDiffer DEF a, s
<1>10. \A h \in Generations : Sealed(h) \in DOMAIN files' => h < g + 1
  <2>1. \A h \in Generations : Sealed(h) \in DOMAIN files' => h = g \/ h < g
    BY <1>1, <1>4, NamesDiffer DEF s
  <2> QED BY <1>6, <2>1 DEF Generations
<1>11. Fields'
  BY <1>1, <1>5, <1>6 DEF StoreInv, Fields, Seal
<1>12. Segments'
  <2>1. FileLen(Active(generation))' = 0 /\ Active(generation') \notin DOMAIN files'
    BY <1>5, <1>6, <1>9 DEF FileLen
  <2> QED BY <1>5, <1>9, <1>10, <2>1 DEF Segments
<1>13. Readable'
  <2>1. ASSUME NEW k \in DOMAIN entries
        PROVE  /\ k \in Keys /\ entries[k] \in Record
               /\ Sealed(entries[k].generation) \in DOMAIN files'
               /\ Holds(files'[Sealed(entries[k].generation)], entries[k])
    <3> DEFINE h == entries[k].generation
    <3>1. /\ k \in Keys /\ entries[k] \in Record
          /\ PathOf(h) \in DOMAIN files /\ Holds(files[PathOf(h)], entries[k])
      BY <1>1 DEF StoreInv, Readable
    <3> HIDE DEF h
    <3>2. CASE h = g
      <4>1. PathOf(h) = a /\ Sealed(h) = s
        BY <1>2, <3>2 DEF PathOf, a, s
      <4> QED BY <1>4, <3>1, <4>1 DEF h
    <3>3. CASE h # g
      <4>1. PathOf(h) = Sealed(h) /\ Sealed(h) # a
        BY <3>3, NamesDiffer DEF PathOf, a
      <4> QED BY <1>4, <3>1, <4>1 DEF h
    <3> QED BY <3>2, <3>3
  <2>2. \A h : PathOf(h)' = Sealed(h)
    BY <1>5 DEF PathOf
  <2> QED BY <1>5, <2>1, <2>2 DEF Readable
<1>14. AllBacked'
  <2>1. SUFFICES ASSUME NEW i \in DOMAIN catalog PROVE \E n \in DOMAIN files' : BackedBy(catalog[i], n)'
    BY <1>4 DEF AllBacked
  <2>2. PICK n \in DOMAIN files : BackedBy(catalog[i], n)
    BY DEF StoreInv, AllBacked
  <2>3. CASE n = a
    <3>1. s[2] = a[2] /\ s \in DOMAIN files'
      BY <1>4, NamesDiffer DEF a, s
    <3> QED BY <1>4, <2>2, <2>3, <3>1 DEF BackedBy
  <2>4. CASE n # a
    BY <1>4, <2>2, <2>4 DEF BackedBy
  <2> QED BY <2>3, <2>4
<1> QED BY <1>4, <1>5, <1>8, <1>9, <1>11, <1>12, <1>13, <1>14
        DEF StoreInv, Apart, InProgress, Promised

-----------------------------------------------------------------------------
(* The store is opened.                                                    *)

(* A bounded set of numbers has a greatest member.                         *)
LEMMA GreatestIndex ==
  ASSUME NEW M \in Nat, NEW S \in SUBSET (0 .. M), S # {}
  PROVE  Max(S) \in S /\ \A y \in S : Max(S) >= y
<1> DEFINE Above(x) == { y \in S : y > x }
           T == { Above(x) : x \in S }
<1>0. \A x \in S : x \in Nat /\ x <= M
  OBVIOUS
<1>1. ASSUME NEW x \in S PROVE Above(x) \in FiniteSubsetsOf(S)
  <2>1. Above(x) \in SUBSET Nat /\ \A y \in Above(x) : y <= M
    BY <1>0
  <2>2. IsFiniteSet(Above(x))
    BY <2>1, FS_BoundedSetOfNaturals, Zenon
  <2> QED BY <2>2 DEF FiniteSubsetsOf
<1>2. T \subseteq FiniteSubsetsOf(S) /\ T # {}
  BY <1>1
<1>3. PICK t \in T : \A u \in T : ~ (<<u, t>> \in StrictSubsetOrdering(S))
  <2> HIDE DEF T
  <2> QED BY <1>2, FS_StrictSubsetOrderingWellFounded, WFMin
<1>4. PICK x \in S : t = Above(x)
  BY <1>3
<1>5. ASSUME NEW y \in S, y > x PROVE FALSE
  <2>1. Above(y) \subseteq Above(x) /\ y \in Above(x) /\ y \notin Above(y)
    <3>1. y \in Nat /\ x \in Nat /\ ~ (y > y)
      BY <1>0
    <3>2. \A z \in S : z > y => z > x
      BY <1>0, <1>5, <3>1
    <3> QED BY <1>5, <3>1, <3>2
  <2>2. Above(y) \in SUBSET S /\ Above(x) \in SUBSET S
    OBVIOUS
  <2>3. <<Above(y), Above(x)>> \in StrictSubsetOrdering(S)
    BY <2>1, <2>2 DEF StrictSubsetOrdering
  <2>4. Above(y) \in T
    OBVIOUS
  <2> QED BY <1>3, <1>4, <2>3, <2>4
<1>6. \A y \in S : x >= y
  BY <1>0, <1>5
<1> QED BY <1>6 DEF Max

LEMMA Smaller ==
  ASSUME NEW m \in Nat, NEW n \in Nat
  PROVE  Min({m, n}) = IF m <= n THEN m ELSE n
<1>1. Min({m, n}) \in {m, n} /\ \A y \in {m, n} : Min({m, n}) <= y
  <2>1. \E x \in {m, n} : \A y \in {m, n} : x <= y
    OBVIOUS
  <2> QED BY <2>1 DEF Min
<1> QED BY <1>1

(* What the opened index holds: the last record of each key.               *)
LEMMA IndexFacts ==
  ASSUME StoreInv, NEW k \in DOMAIN LastRecords
  PROVE  \E i \in 1 .. Len(catalog) :
           /\ LastRecords[k] = catalog[i] /\ catalog[i].key = k /\ catalog[i] \in Record
           /\ \A j \in 1 .. Len(catalog) : catalog[j].key = k => j <= i
<1> DEFINE len == Len(catalog)
           S == Recorded(k)
<1>1. len \in Nat /\ DOMAIN catalog = 1 .. len /\ catalog \in Seq(Record)
  BY DEF StoreInv, Disk
<1>2. k \in { r.key : r \in Range(catalog) } /\ LastRecords[k] = catalog[Max(S)]
  BY DEF LastRecords
<1>3. PICK j \in 1 .. len : catalog[j].key = k
  BY <1>1, <1>2 DEF Range
<1>4. S = { i \in 1 .. len : catalog[i].key = k }
  BY <1>1 DEF Recorded
<1> HIDE DEF S
<1>5. S \in SUBSET (0 .. len) /\ S # {}
  BY <1>1, <1>3, <1>4
<1>6. Max(S) \in S /\ \A y \in S : Max(S) >= y
  BY <1>1, <1>5, GreatestIndex
<1>7. Max(S) \in 1 .. len /\ catalog[Max(S)].key = k
  BY <1>4, <1>6
<1>8. catalog[Max(S)] \in Record
  BY <1>1, <1>7, ElementOfSeq
<1>9. \A i \in 1 .. len : catalog[i].key = k => i <= Max(S)
  BY <1>4, <1>6, <1>7
<1> QED BY <1>2, <1>7, <1>8, <1>9

LEMMA IndexedKeys ==
  ASSUME StoreInv
  PROVE  /\ DOMAIN LastRecords \subseteq Keys
         /\ \A k \in Keys : k \notin DOMAIN LastRecords => \A i \in 1 .. Len(catalog) : catalog[i].key # k
<1>1. DOMAIN catalog = 1 .. Len(catalog) /\ catalog \in Seq(Record)
  BY DEF StoreInv, Disk
<1>2. \A i \in 1 .. Len(catalog) : catalog[i] \in Record
  BY <1>1, ElementOfSeq
<1>3. DOMAIN LastRecords = { catalog[i].key : i \in 1 .. Len(catalog) }
  BY <1>1 DEF LastRecords, Range
<1> QED BY <1>2, <1>3 DEF Record

(* The generation the owner takes, and where it finds each segment.        *)
LEMMA OpenGeneration ==
  ASSUME StoreInv, Discover
  PROVE  /\ generation' \in Generations /\ length' \in Nat
         /\ exists' \in BOOLEAN /\ disabled' \in BOOLEAN
         /\ \A g \in Generations : Active(g) \in DOMAIN files => g = generation'
         /\ ~disabled' => \A s \in Generations : Sealed(s) \in DOMAIN files => s < generation'
         /\ exists' <=> Active(generation') \in DOMAIN files
         /\ length' = FileLen(Active(generation'))
         /\ \A n \in DOMAIN files : PathOf(n[2])' = n
<1>0. /\ MaxGeneration \in Nat /\ ActiveGenerations \in SUBSET (0 .. MaxGeneration)
      /\ SealedGenerations \in SUBSET (0 .. MaxGeneration)
      /\ \A g \in Generations : g \in Nat /\ g <= MaxGeneration
  BY StoreAssumption DEF ActiveGenerations, SealedGenerations, Generations
<1>1. \A n \in DOMAIN files : n[2] \in Generations /\ (n = Active(n[2]) \/ n = Sealed(n[2]))
  BY NamesDiffer DEF StoreInv, Disk
<1>2. CASE ActiveGenerations # {}
  <2> DEFINE g == Max(ActiveGenerations)
  <2>1. g \in ActiveGenerations
    BY <1>0, <1>2, GreatestIndex
  <2>2. generation' = g /\ exists' = TRUE /\ length' = FileLen(Active(g)) /\ disabled' = (g = MaxGeneration)
    BY <1>2 DEF Discover
  <2> HIDE DEF g
  <2>3. g \in Generations /\ Active(g) \in DOMAIN files
    BY <2>1 DEF ActiveGenerations
  <2>4. /\ \A h \in Generations : Active(h) \in DOMAIN files => h = g
        /\ \A s \in Generations : Sealed(s) \in DOMAIN files => s < g
    BY <2>3 DEF StoreInv, Apart
  <2>5. FileLen(Active(g)) \in Nat
    BY <2>3 DEF FileLen, StoreInv, Disk
  <2>6. ASSUME NEW n \in DOMAIN files PROVE PathOf(n[2])' = n
    <3>1. CASE n = Active(n[2])
      BY <1>1, <2>2, <2>4, <3>1 DEF PathOf
    <3>2. CASE n = Sealed(n[2])
      <4>1. n[2] < g /\ n[2] \in Nat
        BY <1>0, <1>1, <2>4, <3>2
      <4>2. n[2] # g
        BY <1>0, <2>3, <4>1
      <4> QED BY <2>2, <3>2, <4>2 DEF PathOf
    <3> QED BY <1>1, <3>1, <3>2
  <2> QED BY <2>2, <2>3, <2>4, <2>5, <2>6
<1>3. CASE ActiveGenerations = {}
  <2>1. /\ generation' = Min({NextGeneration, MaxGeneration}) /\ exists' = FALSE /\ length' = 0
        /\ disabled' = (NextGeneration > MaxGeneration)
    BY <1>3 DEF Discover
  <2>2. \A h \in Generations : Active(h) \notin DOMAIN files
    BY <1>3 DEF ActiveGenerations
  <2>3. NextGeneration \in Nat /\ \A s \in Generations : Sealed(s) \in DOMAIN files => s < NextGeneration
    <3>1. CASE SealedGenerations = {}
      BY <3>1 DEF NextGeneration, SealedGenerations
    <3>2. CASE SealedGenerations # {}
      <4>1. Max(SealedGenerations) \in SealedGenerations /\ \A s \in SealedGenerations : Max(SealedGenerations) >= s
        BY <1>0, <3>2, GreatestIndex
      <4>2. \A s \in Generations : Sealed(s) \in DOMAIN files => s \in SealedGenerations
        BY DEF SealedGenerations
      <4> DEFINE m == Max(SealedGenerations)
      <4>3. NextGeneration = m + 1 /\ m \in Nat
        <5>1. NextGeneration = m + 1
          BY <3>2 DEF NextGeneration
        <5>2. m \in SealedGenerations
          BY <4>1
        <5> HIDE DEF m
        <5>3. m \in Nat
          BY <1>0, <5>2
        <5> QED BY <5>1, <5>3
      <4> HIDE DEF m
      <4>4. \A s \in SealedGenerations : s \in Nat /\ s <= m
        BY <1>0, <4>1, <4>3 DEF m
      <4> QED BY <4>2, <4>3, <4>4
    <3> QED BY <3>1, <3>2
  <2>4. generation' = IF NextGeneration <= MaxGeneration THEN NextGeneration ELSE MaxGeneration
    BY <1>0, <2>1, <2>3, Smaller
  <2>5. generation' \in Generations /\ (~disabled' => generation' = NextGeneration)
    <3>1. ~disabled' => ~(NextGeneration > MaxGeneration)
      BY <2>1
    <3>2. ~(NextGeneration > MaxGeneration) => NextGeneration <= MaxGeneration
      BY <1>0, <2>3
    <3>3. IF NextGeneration <= MaxGeneration THEN NextGeneration \in Generations
                                             ELSE MaxGeneration \in Generations
      BY <1>0, <2>3 DEF Generations
    <3> QED BY <2>4, <3>1, <3>2, <3>3
  <2>6. FileLen(Active(generation')) = 0
    BY <2>2, <2>5 DEF FileLen
  <2>7. \A n \in DOMAIN files : PathOf(n[2])' = n
    BY <1>1, <2>1, <2>2 DEF PathOf
  <2>8. disabled' \in BOOLEAN /\ exists' \in BOOLEAN /\ length' \in Nat
    <3>1. disabled' \in BOOLEAN
      <4>1. disabled' = TRUE \/ disabled' = FALSE
        <5>1. CASE NextGeneration > MaxGeneration
          BY <2>1, <5>1
        <5>2. CASE ~(NextGeneration > MaxGeneration)
          <6>1. (NextGeneration > MaxGeneration) = FALSE
            BY <5>2
          <6> QED BY <2>1, <6>1
        <5> QED BY <5>1, <5>2
      <4> QED BY <4>1
    <3>2. exists' \in BOOLEAN
      BY <2>1
    <3>3. length' \in Nat
      BY <2>1
    <3> QED BY <3>1, <3>2, <3>3
  <2>9. ~disabled' => \A s \in Generations : Sealed(s) \in DOMAIN files => s < generation'
    BY <2>3, <2>5
  <2>10. exists' <=> Active(generation') \in DOMAIN files
    BY <2>1, <2>2, <2>5
  <2> QED BY <2>1, <2>2, <2>5, <2>6, <2>7, <2>8, <2>9, <2>10
<1> QED BY <1>2, <1>3

LEMMA OpenKeeps ==
  ASSUME StoreInv, Open \/ OpenBlind
  PROVE  StoreInv'
<1>0. Discover /\ (entries' = LastRecords \/ DOMAIN entries' = {})
  BY DEF Open, OpenBlind
<1>1. /\ ~up /\ up' = TRUE /\ pc = "idle" /\ pc' = pc /\ put' = put
      /\ UNCHANGED <<files, flushed, catalog, recorded, possible>>
  BY <1>0 DEF Discover, disk, StoreInv, Fields
<1>2. /\ generation' \in Generations /\ length' \in Nat
      /\ exists' \in BOOLEAN /\ disabled' \in BOOLEAN
      /\ \A g \in Generations : Active(g) \in DOMAIN files => g = generation'
      /\ ~disabled' => \A s \in Generations : Sealed(s) \in DOMAIN files => s < generation'
      /\ exists' <=> Active(generation') \in DOMAIN files
      /\ length' = FileLen(Active(generation'))
      /\ \A n \in DOMAIN files : PathOf(n[2])' = n
  BY <1>0, OpenGeneration
<1>3. Fields'
  BY <1>1, <1>2 DEF StoreInv, Fields
<1>4. Segments'
  <2>1. FileLen(Active(generation))' = FileLen(Active(generation'))
    BY <1>1 DEF FileLen
  <2> QED BY <1>1, <1>2, <2>1 DEF Segments
<1>5. Readable'
  <2>1. ASSUME NEW k \in DOMAIN LastRecords
        PROVE  /\ k \in Keys /\ LastRecords[k] \in Record
               /\ \E n \in DOMAIN files : n[2] = LastRecords[k].generation /\ Holds(files[n], LastRecords[k])
    <3>1. PICK i \in 1 .. Len(catalog) : LastRecords[k] = catalog[i] /\ catalog[i] \in Record
      BY IndexFacts
    <3>2. i \in DOMAIN catalog
      BY <3>1 DEF StoreInv, Disk
    <3>3. PICK n \in DOMAIN files : BackedBy(catalog[i], n)
      BY <3>2 DEF StoreInv, AllBacked
    <3> QED BY <3>1, <3>3, IndexedKeys DEF BackedBy
  <2>2. \A n \in DOMAIN files :
          n = IF exists' /\ n[2] = generation' THEN Active(n[2]) ELSE Sealed(n[2])
    BY <1>2 DEF PathOf
  <2>3. CASE entries' = LastRecords
    BY <1>1, <2>1, <2>2, <2>3 DEF Readable, PathOf
  <2>4. CASE DOMAIN entries' = {}
    BY <2>4 DEF Readable
  <2> QED BY <1>0, <2>3, <2>4
<1> QED BY <1>1, <1>3, <1>4, <1>5 DEF StoreInv, Disk, Apart, InProgress, Promised, AllBacked, BackedBy

LEMMA StoreInductive ==
  ~SealCheckFails /\ StoreInv /\ [Next]_vars => StoreInv'
<1> SUFFICES ASSUME ~SealCheckFails, StoreInv, [Next]_vars PROVE StoreInv'
  OBVIOUS
<1>1. CASE Repair
  BY <1>1, RepairKeeps
<1>2. CASE Open \/ OpenBlind
  BY <1>2, OpenKeeps
<1>3. ASSUME NEW k \in Keys, NEW p \in Payloads, Begin(k, p) PROVE StoreInv'
  BY <1>3, BeginKeeps
<1>4. CASE Exhausted \/ SealFails
  BY <1>4, SealGivesUp
<1>5. CASE Seal
  BY <1>5, SealKeeps
<1>6. CASE WriteArtifact
  BY <1>6, WriteArtifactKeeps
<1>7. CASE WriteArtifactFails
  BY <1>7, WriteArtifactFailsKeeps
<1>8. CASE FlushArtifact
  BY <1>8, FlushArtifactKeeps
<1>9. CASE FlushArtifactFails
  BY <1>9, FlushArtifactFailsKeeps
<1>10. CASE WriteRecord
  BY <1>10, WriteRecordKeeps
<1>11. CASE WriteRecordFails \/ CommitFails
  BY <1>11, RecordFailures
<1>12. CASE Commit
  BY <1>12, CommitKeeps
<1>13. CASE Exit
  BY <1>13, ExitKeeps
<1>14. CASE PowerLoss
  BY <1>14, PowerLossKeeps
<1>15. CASE UNCHANGED vars
  <2>1. UNCHANGED <<files, flushed, catalog, recorded, up, entries, generation, length, exists,
                    disabled, pc, put, possible>>
    BY <1>15 DEF vars, disk, owner
  <2>2. Fields' /\ Segments' /\ Readable'
    BY <2>1 DEF StoreInv, Fields, Segments, Readable, FileLen, PathOf
  <2>3. Disk' /\ Apart' /\ InProgress' /\ Promised' /\ AllBacked'
    BY <2>1 DEF StoreInv, Disk, Apart, InProgress, Location, Promised, AllBacked, BackedBy
  <2> QED BY <2>2, <2>3 DEF StoreInv
<1> QED BY <1>1, <1>2, <1>3, <1>4, <1>5, <1>6, <1>7, <1>8, <1>9, <1>10, <1>11, <1>12, <1>13, <1>14,
           <1>15 DEF Next

(* The disk, the owner and the promises agree in every reachable state of  *)
(* a build whose look at a renamed segment does not fail.                  *)
THEOREM StoreInvariance == ~SealCheckFails => (Spec => []StoreInv)
<1> SUFFICES ASSUME ~SealCheckFails PROVE Spec => []StoreInv
  OBVIOUS
<1>1. Init => StoreInv
  BY InitStore
<1>2. StoreInv /\ [Next]_vars => StoreInv'
  BY StoreInductive
<1> QED BY <1>1, <1>2, PTL DEF Spec

-----------------------------------------------------------------------------
(* What follows.                                                           *)

LEMMA StoreBacks == StoreInv => RecordsBacked
<1> SUFFICES ASSUME StoreInv, NEW i \in DOMAIN catalog PROVE Backed(catalog[i])
  BY DEF RecordsBacked
<1> DEFINE r == catalog[i]
<1>1. PICK n \in DOMAIN files : BackedBy(r, n)
  BY DEF StoreInv, AllBacked
<1>2. r \in Record
  BY ElementOfSeq DEF StoreInv, Disk
<1>3. r.payload \in Payloads /\ r.offset \in Nat
  BY <1>2 DEF Record
<1>4. FrameAt(n, r)
  BY <1>1, <1>3, FrameHeld DEF StoreInv, BackedBy
<1> QED BY <1>1, <1>4 DEF Backed, BackedBy

(* Every record of the catalog, flushed or not, refers to the flushed      *)
(* frame of its payload, through rotations, failures, kills, power losses  *)
(* and opens: put flushes the artifact before it writes the record.        *)
THEOREM RecordsAreBacked == ~SealCheckFails => (Spec => []RecordsBacked)
BY StoreInvariance, StoreBacks, PTL

(* A put in progress has found room for its record, which a life without   *)
(* its index never does.                                                   *)
Limited ==
  /\ catalogLen \in Nat
  /\ pc # "idle" => catalogLen < MaxCatalog

LEMMA LimitedInductive == StoreInv /\ Limited /\ [Next]_vars => Limited'
<1> SUFFICES ASSUME StoreInv, Limited, [Next]_vars PROVE Limited'
  OBVIOUS
<1>1. MaxCatalog \in Nat /\ Len(catalog) \in Nat
  BY StoreAssumption DEF StoreInv, Disk
<1>2. CASE Repair
  BY <1>2 DEF Repair, owner, Limited
<1>3. CASE Open \/ OpenBlind
  <2>1. ~up /\ pc' = pc /\ catalogLen' \in {Len(catalog), MaxCatalog + 1}
    BY <1>3 DEF Open, OpenBlind, Discover
  <2>2. pc = "idle"
    BY <2>1 DEF StoreInv, Fields
  <2> QED BY <1>1, <2>1, <2>2 DEF Limited
<1>4. ASSUME NEW k \in Keys, NEW p \in Payloads, Begin(k, p) PROVE Limited'
  <2>1. catalogLen' = catalogLen /\ catalogLen + 1 <= MaxCatalog
    BY <1>4 DEF Begin, Admissible, owner
  <2> QED BY <1>1, <2>1 DEF Limited
<1>5. CASE Exhausted \/ SealFails
  BY <1>5 DEF Exhausted, SealFails, Fail, FailAndDisable, owner, Limited
<1>6. CASE Seal
  BY <1>6 DEF Seal, StartSegment, Limited
<1>7. CASE WriteArtifact \/ WriteArtifactFails
  BY <1>7 DEF WriteArtifact, WriteArtifactFails, Fail, FailAndDisable, owner, Limited
<1>8. CASE FlushArtifact \/ FlushArtifactFails
  BY <1>8 DEF FlushArtifact, FlushArtifactFails, Fail, FailAndDisable, Limited
<1>9. CASE WriteRecord \/ WriteRecordFails \/ CommitFails
  BY <1>9 DEF WriteRecord, WriteRecordFails, CommitFails, Fail, FailAndDisable, owner, Limited
<1>10. CASE Commit
  BY <1>10 DEF Commit, Limited
<1>11. CASE Exit \/ PowerLoss
  <2>1. Stop
    BY <1>11 DEF Exit, PowerLoss
  <2> QED BY <2>1 DEF Stop, Limited
<1>12. CASE UNCHANGED vars
  BY <1>12 DEF vars, owner, Limited
<1> QED BY <1>2, <1>3, <1>4, <1>5, <1>6, <1>7, <1>8, <1>9, <1>10, <1>11, <1>12 DEF Next

LEMMA LimitInvariance == ~SealCheckFails => (Spec => []Limited)
<1> SUFFICES ASSUME ~SealCheckFails PROVE Spec => []Limited
  OBVIOUS
<1>1. Init => Limited
  BY DEF Init, Limited
<1>2. StoreInv /\ Limited /\ [Next]_vars => Limited'
  BY LimitedInductive
<1> QED BY <1>1, <1>2, StoreInvariance, PTL DEF Spec

(* The answers a probe may get now, and what the index says of them.       *)
Shown == [k \in Keys |-> IF up THEN Probe(k) ELSE {}]

Indexes(k) == IF k \in DOMAIN entries THEN entries[k].payload ELSE NoPayload

Listed == [k \in Keys |-> IF up THEN Abstract!Answers(Indexes(k)) ELSE {}]

Trusted == Shown = Listed

Blind == up /\ catalogLen > MaxCatalog

LEMMA NothingMisread == StoreInv => Trusted
<1> SUFFICES ASSUME StoreInv, up, NEW k \in Keys PROVE Probe(k) = Abstract!Answers(Indexes(k))
  BY DEF Trusted, Shown, Listed
<1>1. CASE k \in DOMAIN entries
  <2>1. /\ entries[k] \in Record
        /\ LET n == PathOf(entries[k].generation) IN n \in DOMAIN files /\ Holds(files[n], entries[k])
    BY <1>1 DEF StoreInv, Readable
  <2>2. entries[k].payload \in Payloads /\ entries[k].offset \in Nat
    BY <2>1 DEF Record
  <2>3. FrameAt(PathOf(entries[k].generation), entries[k])
    BY <2>1, <2>2, FrameHeld DEF StoreInv
  <2>4. Probe(k) = {Rejected} \union {entries[k].payload}
    BY <1>1, <2>3 DEF Probe
  <2>5. entries[k].payload # NoPayload
    BY <2>2, StoreAssumption
  <2> QED BY <1>1, <2>4, <2>5 DEF Abstract!Answers, Indexes
<1>2. CASE k \notin DOMAIN entries
  BY <1>2 DEF Probe, Abstract!Answers, Indexes
<1> QED BY <1>1, <1>2

(* A step that leaves the index, its limit and the promises alone.         *)
LEMMA SameShown ==
  UNCHANGED <<up, entries, catalogLen, possible>> /\ Shown = Listed /\ Shown' = Listed'
    => UNCHANGED Abstract!vars
<1> SUFFICES ASSUME UNCHANGED <<up, entries, catalogLen, possible>>, Shown = Listed, Shown' = Listed'
             PROVE  UNCHANGED Abstract!vars
  OBVIOUS
<1>1. Listed' = Listed
  BY DEF Listed, Indexes, Abstract!Answers
<1>2. Shown' = Shown /\ Blind' = Blind
  BY <1>1 DEF Blind
<1> QED BY <1>2 DEF Shown, Blind, Abstract!vars

LEMMA OpenShows ==
  ASSUME StoreInv, Open, Shown' = Listed'
  PROVE  Abstract!Open
<1>1. /\ ~up /\ up' /\ entries' = LastRecords /\ possible' = possible
      /\ catalogLen' = Len(catalog) /\ Len(catalog) <= MaxCatalog
  BY DEF Open, Discover, WithinLimit
<1>2. ~Blind'
  <2>1. Len(catalog) \in Nat /\ MaxCatalog \in Nat
    BY StoreAssumption DEF StoreInv, Disk
  <2> QED BY <1>1, <2>1 DEF Blind
<1> DEFINE found == [k \in Keys |-> IF k \in DOMAIN LastRecords THEN LastRecords[k].payload ELSE NoPayload]
<1>3. Shown' = [k \in Keys |-> Abstract!Answers(found[k])]
  BY <1>1 DEF Listed, Indexes, Abstract!Answers
<1>4. ASSUME NEW k \in Keys
      PROVE  found[k] \in possible[k] /\ found[k] \in Payloads \union {NoPayload}
  <2> DEFINE len == Len(catalog)
  <2>1. len \in recorded .. len
    BY DEF StoreInv, Disk
  <2>2. CASE k \notin DOMAIN LastRecords
    <3>1. NoPayload \in possible[k]
      BY <2>1, <2>2, IndexedKeys DEF StoreInv, Promised
    <3> QED BY <2>2, <3>1
  <2>3. CASE k \in DOMAIN LastRecords
    <3>1. PICK i \in 1 .. len :
            /\ LastRecords[k] = catalog[i] /\ catalog[i].key = k /\ catalog[i] \in Record
            /\ \A j \in 1 .. len : catalog[j].key = k => j <= i
      BY <2>3, IndexFacts
    <3>2. \A j \in i + 1 .. len : catalog[j].key # k
      <4>1. \A j \in i + 1 .. len : j \in 1 .. len /\ ~(j <= i)
        BY <2>1, <3>1
      <4> QED BY <3>1, <4>1
    <3>3. catalog[i].payload \in possible[k] /\ catalog[i].payload \in Payloads
      BY <2>1, <3>1, <3>2 DEF StoreInv, Promised, Record
    <3> QED BY <2>3, <3>1, <3>3
  <2> QED BY <2>2, <2>3
<1>5. found \in [Keys -> Payloads \union {NoPayload}] /\ \A k \in Keys : found[k] \in possible[k]
  BY <1>4
<1> HIDE DEF found
<1> QED BY <1>1, <1>2, <1>3, <1>5 DEF Abstract!Open, Shown, Blind

LEMMA OpenBlindShows ==
  ASSUME OpenBlind, Shown' = Listed'
  PROVE  Abstract!OpenBlind
<1>1. ~up /\ up' /\ DOMAIN entries' = {} /\ possible' = possible /\ catalogLen' = MaxCatalog + 1
  BY DEF OpenBlind, Discover
<1>2. Blind'
  BY <1>1, StoreAssumption DEF Blind
<1>3. Shown' = [k \in Keys |-> {NoPayload}]
  BY <1>1 DEF Listed, Indexes, Abstract!Answers
<1> QED BY <1>1, <1>2, <1>3 DEF Abstract!OpenBlind, Shown, Blind

LEMMA CommitShows ==
  ASSUME StoreInv, Limited, Commit, Shown = Listed, Shown' = Listed'
  PROVE  Abstract!Acknowledge(put[1], put[2])
<1>1. /\ up /\ up' = up /\ put[1] \in Keys /\ put[2] \in possible[put[1]]
      /\ Last(catalog).payload = put[2]
      /\ entries' = Indexed /\ possible' = [possible EXCEPT ![put[1]] = {put[2]}]
  BY CommitFacts DEF Commit
<1>2. ~Blind /\ ~Blind'
  <2>1. catalogLen \in Nat /\ catalogLen < MaxCatalog /\ MaxCatalog \in Nat /\ catalogLen' = catalogLen + 1
    BY StoreAssumption DEF Limited, Commit
  <2> QED BY <2>1 DEF Blind
<1>3. Listed' = [Listed EXCEPT ![put[1]] = Abstract!Answers(put[2])]
  BY <1>1 DEF Listed, Indexes, Indexed, Abstract!Answers
<1>4. Shown' = [Shown EXCEPT ![put[1]] = Abstract!Answers(put[2])]
  BY <1>3
<1> QED BY <1>1, <1>2, <1>4 DEF Abstract!Acknowledge, Shown, Blind

LEMMA StoreStepRefines ==
  StoreInv /\ Limited /\ Trusted /\ Trusted' /\ [Next]_vars => [Abstract!Next]_(Abstract!vars)
<1> SUFFICES ASSUME StoreInv, Limited, Shown = Listed, Shown' = Listed', [Next]_vars
             PROVE  [Abstract!Next]_(Abstract!vars)
  BY DEF Trusted
<1>1. CASE UNCHANGED <<up, entries, catalogLen, possible>>
  BY <1>1, SameShown
<1>2. CASE Open
  BY <1>2, OpenShows DEF Abstract!Next
<1>3. CASE OpenBlind
  BY <1>3, OpenBlindShows DEF Abstract!Next
<1>4. CASE WriteRecord
  <2>1. up /\ put[1] \in Keys /\ put[2] \in Payloads /\ pc # "idle"
    BY <1>4 DEF WriteRecord, StoreInv, Fields
  <2>2. /\ UNCHANGED <<up, entries, catalogLen>>
        /\ possible' = [possible EXCEPT ![put[1]] = @ \union {put[2]}]
    BY <1>4 DEF WriteRecord, owner
  <2>3. Shown' = Shown
    <3>1. Listed' = Listed
      BY <2>2 DEF Listed, Indexes, Abstract!Answers
    <3> QED BY <3>1
  <2>4. ~Blind /\ Blind' = Blind
    <3>1. catalogLen \in Nat /\ MaxCatalog \in Nat /\ catalogLen < MaxCatalog
      BY <2>1, StoreAssumption DEF Limited
    <3>2. ~Blind
      BY <3>1 DEF Blind
    <3> QED BY <2>2, <3>2 DEF Blind
  <2>5. Abstract!Attempt(put[1], put[2])
    BY <2>1, <2>2, <2>3, <2>4 DEF Abstract!Attempt, Shown, Blind
  <2> QED BY <2>1, <2>5 DEF Abstract!Next
<1>5. CASE Commit
  <2>1. put[1] \in Keys /\ put[2] \in Payloads
    BY <1>5 DEF Commit, StoreInv, Fields
  <2> QED BY <1>5, <2>1, CommitShows DEF Abstract!Next
<1>6. CASE Exit \/ PowerLoss
  <2>1. up' = FALSE /\ possible' = possible
    BY <1>6 DEF Exit, PowerLoss, Stop
  <2>2. Shown' = [k \in Keys |-> {}] /\ Blind' = FALSE
    BY <2>1 DEF Shown, Blind
  <2>3. Abstract!Crash
    BY <2>1, <2>2 DEF Abstract!Crash, Shown, Blind
  <2> QED BY <2>3 DEF Abstract!Next
<1>7. \/ UNCHANGED <<up, entries, catalogLen, possible>>
      \/ Open \/ OpenBlind \/ WriteRecord \/ Commit \/ Exit \/ PowerLoss
  BY DEF Next, vars, owner, Repair, Begin, Exhausted, Seal, StartSegment, SealFails, WriteArtifact,
         WriteArtifactFails, FlushArtifact, FlushArtifactFails, WriteRecordFails, CommitFails
<1> QED BY <1>1, <1>2, <1>3, <1>4, <1>5, <1>6, <1>7

(* The store keeps the promise of a crash-safe map that fails open: what   *)
(* put acknowledged is found by every later life that can read its         *)
(* catalog, whatever kills, power losses and lives that could not lie      *)
(* between; an interrupted put happened or did not; a life that cannot     *)
(* read its catalog finds nothing and writes nothing; and a probe answers  *)
(* with that payload, or that it could not be read, never with another.    *)
THEOREM StoreImplementsMap == ~SealCheckFails => (Spec => IsCrashSafeMap)
<1> SUFFICES ASSUME ~SealCheckFails PROVE Spec => IsCrashSafeMap
  OBVIOUS
<1>1. Init => Abstract!Init
  BY DEF Init, Abstract!Init
<1>2. StoreInv => Trusted
  BY NothingMisread
<1>3. StoreInv /\ Limited /\ Trusted /\ Trusted' /\ [Next]_vars => [Abstract!Next]_(Abstract!vars)
  BY StoreStepRefines
<1>4. Spec => []StoreInv
  BY StoreInvariance
<1>5. Spec => []Limited
  BY LimitInvariance
<1> QED BY <1>1, <1>2, <1>3, <1>4, <1>5, PTL DEF Spec, IsCrashSafeMap, Abstract!Spec

-----------------------------------------------------------------------------
(* Opening.                                                                *)

UsedGenerations == { n[2] : n \in DOMAIN files }

(* A generation is sealed or active, never both: it has one file.          *)
LEMMA OneFileEach ==
  ASSUME StoreInv
  PROVE  /\ UsedGenerations \subseteq Generations /\ IsFiniteSet(UsedGenerations)
         /\ Cardinality(DOMAIN files) = Cardinality(UsedGenerations)
         /\ Cardinality(DOMAIN files) \in Nat
<1> DEFINE D == DOMAIN files
           G == UsedGenerations
           f == [n \in D |-> n[2]]
<1>1. D \subseteq Names
  BY DEF StoreInv, Disk
<1>2. ASSUME NEW n \in D
      PROVE  \E g \in Generations : n[2] = g /\ (n = Active(g) \/ n = Sealed(g))
  BY <1>1 DEF Names, Active, Sealed
<1>3. G \subseteq Generations
  BY <1>2 DEF UsedGenerations
<1>4. IsFiniteSet(Generations)
  BY FS_Interval, StoreAssumption DEF Generations
<1>5. IsFiniteSet(G)
  BY <1>3, <1>4, FS_Subset
<1>6. ASSUME NEW m \in D, NEW n \in D, m[2] = n[2]
      PROVE  m = n
  <2>1. PICK g \in Generations : m[2] = g /\ (m = Active(g) \/ m = Sealed(g))
    BY <1>2
  <2>2. n = Active(g) \/ n = Sealed(g)
    BY <1>2, <1>6, <2>1
  <2>3. ~(Active(g) \in D /\ Sealed(g) \in D)
    BY StoreAssumption DEF StoreInv, Apart, Generations
  <2> QED BY <2>1, <2>2, <2>3
<1>7. f \in Injection(D, G) /\ f \in Surjection(D, G)
  BY <1>6 DEF Injection, IsInjective, Surjection, UsedGenerations
<1> HIDE DEF D, G, f
<1>8. IsFiniteSet(D) /\ Cardinality(D) = Cardinality(G)
  BY <1>5, <1>7, FS_Injection
<1>9. Cardinality(D) \in Nat
  BY <1>8, FS_CardinalityType
<1> QED BY <1>3, <1>5, <1>8, <1>9 DEF D, G

LEMMA OpensUnlessFull ==
  StoreInv => (Cardinality(UsedGenerations) < MaxShardEntries => Reopenable)
<1> SUFFICES ASSUME StoreInv, Cardinality(UsedGenerations) < MaxShardEntries
             PROVE  Discoverable
  BY DEF Reopenable
<1>1. /\ \A g, h \in ActiveGenerations : g = h
      /\ \A g \in ActiveGenerations, s \in SealedGenerations : s < g
  BY DEF StoreInv, Apart, ActiveGenerations, SealedGenerations
<1>2. Cardinality(DOMAIN files) \in Nat /\ Cardinality(DOMAIN files) < MaxShardEntries
  BY OneFileEach
<1>3. Cardinality(DOMAIN files) + (IF catalog = <<>> /\ ~torn THEN 0 ELSE 1) <= MaxShardEntries
  BY <1>2, StoreAssumption
<1> QED BY <1>1, <1>3 DEF Discoverable

(* Whatever kills, power losses and errors leave, open finds one active    *)
(* segment at most, younger than the sealed ones: it can refuse a shard    *)
(* for the number of its segments only.                                    *)
THEOREM OnlyFullStoresAreRefused ==
  ~SealCheckFails =>
    (Spec => [](Cardinality(UsedGenerations) < MaxShardEntries => Reopenable))
BY StoreInvariance, OpensUnlessFull, PTL

(* A shard whose generation numbers fit in its directory can be opened     *)
(* again in every reachable state.                                         *)
THEOREM StoreReopens ==
  ~SealCheckFails /\ MaxGeneration + 2 <= MaxShardEntries => (Spec => []Reopenable)
<1> SUFFICES ASSUME ~SealCheckFails, MaxGeneration + 2 <= MaxShardEntries
             PROVE  Spec => []Reopenable
  OBVIOUS
<1>1. StoreInv => Reopenable
  <2> SUFFICES ASSUME StoreInv PROVE Reopenable
    OBVIOUS
  <2>1. Cardinality(UsedGenerations) <= Cardinality(Generations)
    <3>1. IsFiniteSet(Generations)
      BY FS_Interval, StoreAssumption DEF Generations
    <3>2. UsedGenerations \in SUBSET Generations
      BY OneFileEach
    <3> QED BY <3>1, <3>2, FS_Subset
  <2>2. Cardinality(Generations) = MaxGeneration + 1 /\ MaxGeneration \in Nat
    BY FS_Interval, StoreAssumption DEF Generations
  <2>3. Cardinality(UsedGenerations) \in Nat
    BY OneFileEach
  <2>4. Cardinality(UsedGenerations) < MaxShardEntries
    BY <2>1, <2>2, <2>3, StoreAssumption
  <2> QED BY <2>4, OpensUnlessFull
<1> QED BY <1>1, StoreInvariance, PTL
=============================================================================
