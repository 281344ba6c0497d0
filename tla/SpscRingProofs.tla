--------------------------- MODULE SpscRingProofs ---------------------------
(***************************************************************************)
(* The SPSC ring is correct for every capacity that divides the cursor     *)
(* modulus, every cursor width, every set of values and every number of    *)
(* sends.                                                                  *)
(***************************************************************************)
EXTENDS SpscRing, SequenceTheorems, TLAPS

-----------------------------------------------------------------------------
(* Cursor arithmetic. *)

LEMMA ModDef ==
  ASSUME NEW m \in Nat \ {0}, NEW x \in Int
  PROVE  /\ x % m \in 0 .. m - 1
         /\ x \div m \in Int
         /\ x = m * (x \div m) + (x % m)
  OBVIOUS

LEMMA ModUnique ==
  ASSUME NEW m \in Nat \ {0}, NEW q \in Int, NEW r \in 0 .. m - 1
  PROVE  (m * q + r) % m = r
  OBVIOUS

(* On words, the wrapping operations are a comparison and an addition. *)
LEMMA WrapAddCases ==
  ASSUME NEW a \in Words, NEW n \in 0 .. Modulus - 1
  PROVE  /\ WrapAdd(a, n) \in Words
         /\ WrapAdd(a, n) = IF a + n < Modulus THEN a + n ELSE a + n - Modulus
<1> USE RingAssumption DEF Words
<1>1. CASE a + n < Modulus
  <2>1. (Modulus * 0 + (a + n)) % Modulus = a + n
    BY <1>1, ModUnique
  <2> QED BY <1>1, <2>1 DEF WrapAdd
<1>2. CASE ~(a + n < Modulus)
  <2>1. (Modulus * 1 + (a + n - Modulus)) % Modulus = a + n - Modulus
    BY <1>2, ModUnique
  <2> QED BY <1>2, <2>1 DEF WrapAdd
<1> QED BY <1>1, <1>2

LEMMA WrapSubCases ==
  ASSUME NEW a \in Words, NEW b \in Words
  PROVE  /\ WrapSub(a, b) \in Words
         /\ WrapSub(a, b) = IF b <= a THEN a - b ELSE a - b + Modulus
<1> USE RingAssumption DEF Words
<1>1. CASE b <= a
  <2>1. (Modulus * 0 + (a - b)) % Modulus = a - b
    BY <1>1, ModUnique
  <2> QED BY <1>1, <2>1 DEF WrapSub
<1>2. CASE ~(b <= a)
  <2>1. (Modulus * (-1) + (a - b + Modulus)) % Modulus = a - b + Modulus
    BY <1>2, ModUnique
  <2> QED BY <1>2, <2>1 DEF WrapSub
<1> QED BY <1>1, <1>2

(* A loaded view lies between what the thread saw last and the cursor. *)
LEMMA ViewBounds ==
  ASSUME NEW seen \in Words, NEW now \in Words, NEW v \in Views(seen, now)
  PROVE  /\ v \in Words
         /\ WrapSub(now, v) <= WrapSub(now, seen)
         /\ WrapSub(v, seen) = WrapSub(now, seen) - WrapSub(now, v)
<1>1. PICK k \in 0 .. WrapSub(now, seen) : v = WrapAdd(seen, k)
  BY DEF Views
<1>2. WrapSub(now, seen) \in Words
  BY WrapSubCases
<1>3. k \in 0 .. Modulus - 1
  BY <1>2, RingAssumption DEF Words
<1>4. v \in Words /\ v = IF seen + k < Modulus THEN seen + k ELSE seen + k - Modulus
  BY <1>1, <1>3, WrapAddCases
<1>5. WrapSub(now, seen) = IF seen <= now THEN now - seen ELSE now - seen + Modulus
  BY WrapSubCases
<1>6. WrapSub(now, v) = IF v <= now THEN now - v ELSE now - v + Modulus
  BY <1>4, WrapSubCases
<1>7. WrapSub(v, seen) = IF seen <= v THEN v - seen ELSE v - seen + Modulus
  BY <1>4, WrapSubCases
<1> QED BY <1>4, <1>5, <1>6, <1>7, RingAssumption DEF Words

LEMMA DistanceZero ==
  ASSUME NEW a \in Words, NEW b \in Words, WrapSub(a, b) = 0
  PROVE  a = b
<1>1. WrapSub(a, b) = IF b <= a THEN a - b ELSE a - b + Modulus
  BY WrapSubCases
<1> QED BY <1>1, RingAssumption DEF Words

(* Distances along the ring of words add up while they stay below a lap.   *)
LEMMA DistanceSplit ==
  ASSUME NEW a \in Words, NEW b \in Words, NEW c \in Words,
         WrapSub(c, b) <= WrapSub(c, a)
  PROVE  WrapSub(b, a) = WrapSub(c, a) - WrapSub(c, b)
<1>1. WrapSub(c, b) = IF b <= c THEN c - b ELSE c - b + Modulus
  BY WrapSubCases
<1>2. WrapSub(c, a) = IF a <= c THEN c - a ELSE c - a + Modulus
  BY WrapSubCases
<1>3. WrapSub(b, a) = IF a <= b THEN b - a ELSE b - a + Modulus
  BY WrapSubCases
<1>4. CASE b <= c
  BY <1>1, <1>2, <1>3, <1>4, RingAssumption DEF Words
<1>5. CASE ~(b <= c)
  BY <1>1, <1>2, <1>3, <1>5, RingAssumption DEF Words
<1> QED BY <1>4, <1>5

LEMMA DistanceJoin ==
  ASSUME NEW b \in Words, NEW c \in Words, NEW v \in Words,
         WrapSub(c, b) + WrapSub(b, v) < Modulus
  PROVE  WrapSub(c, v) = WrapSub(c, b) + WrapSub(b, v)
<1>1. WrapSub(c, b) = IF b <= c THEN c - b ELSE c - b + Modulus
  BY WrapSubCases
<1>2. WrapSub(c, v) = IF v <= c THEN c - v ELSE c - v + Modulus
  BY WrapSubCases
<1>3. WrapSub(b, v) = IF v <= b THEN b - v ELSE b - v + Modulus
  BY WrapSubCases
<1>4. CASE b <= c
  BY <1>1, <1>2, <1>3, <1>4, RingAssumption DEF Words
<1>5. CASE ~(b <= c)
  BY <1>1, <1>2, <1>3, <1>5, RingAssumption DEF Words
<1> QED BY <1>4, <1>5

LEMMA DistanceBetween ==
  ASSUME NEW a \in Words, NEW b \in Words, NEW c \in Words, NEW v \in Words,
         WrapSub(c, b) <= WrapSub(c, a), WrapSub(b, v) <= WrapSub(b, a)
  PROVE  /\ WrapSub(c, b) <= WrapSub(c, v)
         /\ WrapSub(c, v) <= WrapSub(c, a)
<1>1. /\ WrapSub(c, b) \in Words /\ WrapSub(c, a) \in Words
      /\ WrapSub(b, v) \in Words /\ WrapSub(b, a) \in Words
  BY WrapSubCases
<1>2. WrapSub(b, a) = WrapSub(c, a) - WrapSub(c, b)
  BY DistanceSplit
<1>3. WrapSub(c, b) + WrapSub(b, v) < Modulus
  BY <1>1, <1>2, RingAssumption DEF Words
<1>4. WrapSub(c, v) = WrapSub(c, b) + WrapSub(b, v)
  BY <1>3, DistanceJoin
<1> QED BY <1>1, <1>2, <1>4, RingAssumption DEF Words

(* Two cursors less than a full ring apart use different slots. *)
LEMMA AheadDistinct ==
  ASSUME CapacityDividesModulus, NEW c \in Words,
         NEW i \in 0 .. Capacity - 1, NEW j \in 0 .. Capacity - 1, i < j
  PROVE  Ahead(c, i) # Ahead(c, j)
<1> USE RingAssumption DEF Words
<1> DEFINE x == WrapAdd(c, i)
           y == WrapAdd(c, j)
           Q == Modulus \div Capacity
<1>1. x \in Int /\ y \in Int /\ (y = x + (j - i) \/ y = x + (j - i) - Modulus)
  <2>1. i \in 0 .. Modulus - 1 /\ j \in 0 .. Modulus - 1
    OBVIOUS
  <2>2. x = IF c + i < Modulus THEN c + i ELSE c + i - Modulus
    BY <2>1, WrapAddCases
  <2>3. y = IF c + j < Modulus THEN c + j ELSE c + j - Modulus
    BY <2>1, WrapAddCases
  <2> HIDE DEF x, y
  <2> QED BY <2>2, <2>3
<1>2. Q \in Int /\ Modulus = Capacity * Q
  BY ModDef DEF CapacityDividesModulus
<1>3. SUFFICES ASSUME x % Capacity = y % Capacity PROVE FALSE
  BY DEF Ahead, IndexOf
<1> DEFINE p == x \div Capacity
           q == y \div Capacity
<1>4. p \in Int /\ q \in Int /\ x - y = Capacity * (p - q)
  <2> HIDE DEF x, y
  <2>1. x = Capacity * p + (x % Capacity) /\ p \in Int /\ x % Capacity \in Int
    BY <1>1, ModDef
  <2>2. y = Capacity * q + (y % Capacity) /\ q \in Int /\ y % Capacity \in Int
    BY <1>1, ModDef
  <2> HIDE DEF p, q
  <2>3. Capacity * (p - q) = Capacity * p - Capacity * q
    BY <2>1, <2>2
  <2> QED BY <2>1, <2>2, <2>3, <1>1, <1>3
<1> HIDE DEF x, y, p, q, Q
<1>5. ASSUME NEW z \in Int, Capacity * z = j - i PROVE FALSE
  <2>1. z > 0 BY <1>5
  <2>2. Capacity * z >= Capacity BY <2>1
  <2> QED BY <1>5, <2>2
<1>6. CASE y = x + (j - i)
  <2>1. Capacity * (q - p) = j - i BY <1>1, <1>4, <1>6
  <2> QED BY <2>1, <1>4, <1>5
<1>7. CASE y = x + (j - i) - Modulus
  <2>1. Capacity * (q - p + Q) = j - i BY <1>1, <1>2, <1>4, <1>7
  <2> QED BY <2>1, <1>2, <1>4, <1>5
<1> QED BY <1>1, <1>6, <1>7

LEMMA AdvanceCases ==
  ASSUME NEW a \in Words
  PROVE  /\ Advance(a) \in Words
         /\ Advance(a) = IF a + 1 < Modulus THEN a + 1 ELSE 0
<1>1. 1 \in 0 .. Modulus - 1
  BY RingAssumption
<1> QED BY <1>1, WrapAddCases, RingAssumption DEF Advance, Words

LEMMA AdvanceDistance ==
  ASSUME NEW a \in Words, NEW c \in Words, WrapSub(c, a) # 0
  PROVE  WrapSub(c, Advance(a)) = WrapSub(c, a) - 1
<1> DEFINE b == Advance(a)
<1>1. b \in Words /\ b = IF a + 1 < Modulus THEN a + 1 ELSE 0
  BY AdvanceCases
<1>2. WrapSub(c, a) = IF a <= c THEN c - a ELSE c - a + Modulus
  BY WrapSubCases
<1>3. WrapSub(c, b) = IF b <= c THEN c - b ELSE c - b + Modulus
  BY <1>1, WrapSubCases
<1> HIDE DEF b
<1>4. WrapSub(c, b) = WrapSub(c, a) - 1
  BY <1>1, <1>2, <1>3, RingAssumption DEF Words
<1> QED BY <1>4 DEF b

LEMMA AheadAdvance ==
  ASSUME NEW c \in Words, NEW j \in Nat, j + 1 < Modulus
  PROVE  Ahead(Advance(c), j) = Ahead(c, j + 1)
<1>1. Advance(c) \in Words /\ Advance(c) = IF c + 1 < Modulus THEN c + 1 ELSE 0
  BY AdvanceCases
<1>2. WrapAdd(Advance(c), j) = IF Advance(c) + j < Modulus
                               THEN Advance(c) + j ELSE Advance(c) + j - Modulus
  <2>1. j \in 0 .. Modulus - 1
    BY RingAssumption
  <2> QED BY <1>1, <2>1, WrapAddCases
<1>3. WrapAdd(c, j + 1) = IF c + (j + 1) < Modulus
                          THEN c + (j + 1) ELSE c + (j + 1) - Modulus
  <2>1. j + 1 \in 0 .. Modulus - 1
    BY RingAssumption
  <2> QED BY <2>1, WrapAddCases
<1>4. WrapAdd(Advance(c), j) = WrapAdd(c, j + 1)
  BY <1>1, <1>2, <1>3, RingAssumption DEF Words
<1> QED BY <1>4 DEF Ahead

LEMMA AheadIsSlot ==
  ASSUME NEW c \in Words, NEW j \in 0 .. Capacity - 1
  PROVE  /\ Ahead(c, j) \in SlotIndex
         /\ IndexOf(c) \in SlotIndex
         /\ Ahead(c, 0) = IndexOf(c)
<1>1. j \in 0 .. Modulus - 1 /\ 0 \in 0 .. Modulus - 1
  BY RingAssumption
<1>2. WrapAdd(c, j) \in Words /\ WrapAdd(c, 0) = c
  <2>1. WrapAdd(c, j) \in Words
    BY <1>1, WrapAddCases
  <2>2. WrapAdd(c, 0) = IF c + 0 < Modulus THEN c + 0 ELSE c + 0 - Modulus
    BY <1>1, WrapAddCases
  <2> QED BY <2>1, <2>2, RingAssumption DEF Words
<1>3. \A x \in Int : x % Capacity \in SlotIndex
  BY ModDef, RingAssumption DEF SlotIndex
<1> QED BY <1>2, <1>3 DEF Ahead, IndexOf, Words

(* The slot at tail is the one just past the values inside. *)
LEMMA TailSlot ==
  ASSUME NEW h \in Words, NEW t \in Words, WrapSub(t, h) <= Capacity
  PROVE  Ahead(h, WrapSub(t, h)) = IndexOf(t)
<1>1. WrapSub(t, h) \in 0 .. Modulus - 1
  BY WrapSubCases DEF Words
<1>2. WrapSub(t, h) = IF h <= t THEN t - h ELSE t - h + Modulus
  BY WrapSubCases
<1>3. WrapAdd(h, WrapSub(t, h)) = IF h + WrapSub(t, h) < Modulus
        THEN h + WrapSub(t, h) ELSE h + WrapSub(t, h) - Modulus
  BY <1>1, WrapAddCases
<1>4. WrapAdd(h, WrapSub(t, h)) = t
  BY <1>1, <1>2, <1>3, RingAssumption DEF Words
<1> QED BY <1>4 DEF Ahead

(* Any two distinct slots of a window of one ring length differ. *)
LEMMA WindowDistinct ==
  ASSUME CapacityDividesModulus, NEW c \in Words
  PROVE  \A i, j \in 0 .. Capacity - 1 : Ahead(c, i) = Ahead(c, j) => i = j
<1> SUFFICES ASSUME NEW i \in 0 .. Capacity - 1, NEW j \in 0 .. Capacity - 1,
                    Ahead(c, i) = Ahead(c, j), i # j
             PROVE  FALSE
  OBVIOUS
<1>1. i < j \/ j < i
  BY RingAssumption
<1> QED BY <1>1, AheadDistinct

-----------------------------------------------------------------------------
(* The invariant holds initially. *)

LEMMA RingInvInit == Init => RingInv
<1> SUFFICES ASSUME Init PROVE RingInv
  OBVIOUS
<1> USE RingAssumption DEF Init
<1>1. TypeOK
  BY DEF TypeOK, Words, SlotIndex
<1>2. Inside = 0 /\ WrapSub(0, 0) = 0
  BY WrapSubCases DEF Inside, Words
<1>3. CursorInv
  BY <1>2 DEF CursorInv
<1>4. HistoryInv
  BY DEF HistoryInv
<1>5. SlotInv
  BY <1>2 DEF SlotInv
<1> QED BY <1>1, <1>3, <1>4, <1>5 DEF RingInv

-----------------------------------------------------------------------------
(* Every action preserves it. The state facts the steps share come first.  *)

LEMMA WindowFacts ==
  ASSUME CapacityDividesModulus, RingInv, ~freed
  PROVE  /\ \A i, j \in 0 .. Capacity - 1 : Ahead(head, i) = Ahead(head, j) => i = j
         /\ \A j \in 0 .. Capacity - 1 : Ahead(head, j) \in SlotIndex
         /\ Ahead(head, 0) = IndexOf(head)
         /\ Ahead(head, Inside) = IndexOf(tail)
         /\ IndexOf(tail) \in SlotIndex
         /\ IndexOf(head) \in SlotIndex
         /\ Len(sent) \in Nat /\ Len(received) \in Nat
         /\ Len(sent) = Len(received) + Inside
<1>1. head \in Words /\ tail \in Words /\ sent \in Seq(Values)
      /\ received \in Seq(Values \union {Uninit})
  BY DEF RingInv, TypeOK
<1>2. WrapSub(tail, head) = Inside /\ Inside \in 0 .. Capacity
  BY DEF RingInv, CursorInv
<1>3. Ahead(head, Inside) = IndexOf(tail)
  BY <1>1, <1>2, TailSlot
<1>4. 0 \in 0 .. Capacity - 1
  BY RingAssumption
<1>5. Len(sent) \in Nat /\ Len(received) \in Nat /\ Len(sent) = Len(received) + Inside
  BY <1>1 DEF Inside
<1> QED BY <1>1, <1>3, <1>4, <1>5, WindowDistinct, AheadIsSlot

(* Loads of the other side's cursor change nothing the invariant counts.   *)
LEMMA LoadHeadStep ==
  ASSUME RingInv, prodHead' \in Views(prodHead, head)
  PROVE  /\ prodHead' \in Words
         /\ Inside <= WrapSub(tail, prodHead')
         /\ WrapSub(tail, prodHead') <= WrapSub(tail, prodHead)
<1>1. head \in Words /\ tail \in Words /\ prodHead \in Words
  BY DEF RingInv, TypeOK
<1>2. prodHead' \in Words /\ WrapSub(head, prodHead') <= WrapSub(head, prodHead)
  BY <1>1, ViewBounds
<1>3. Inside = WrapSub(tail, head) /\ Inside <= WrapSub(tail, prodHead)
      /\ Inside \in 0 .. Capacity /\ WrapSub(tail, prodHead) <= Capacity
  BY DEF RingInv, CursorInv
<1> QED BY <1>1, <1>2, <1>3, DistanceBetween

LEMMA LoadTailStep ==
  ASSUME RingInv, consTail' \in Views(consTail, tail)
  PROVE  /\ consTail' \in Words
         /\ WrapSub(tail, consTail') <= Inside
         /\ head # consTail' => Inside > 0 /\ WrapSub(tail, consTail') < Inside
<1>1. head \in Words /\ tail \in Words /\ consTail \in Words
  BY DEF RingInv, TypeOK
<1>2. consTail' \in Words /\ WrapSub(tail, consTail') <= WrapSub(tail, consTail)
  BY <1>1, ViewBounds
<1>3. Inside = WrapSub(tail, head) /\ WrapSub(tail, consTail) <= Inside
      /\ Inside \in 0 .. Capacity
  BY DEF RingInv, CursorInv
<1>4. WrapSub(tail, consTail') \in Words /\ WrapSub(tail, consTail) \in Words
  BY <1>1, <1>2, WrapSubCases
<1>5. WrapSub(tail, consTail') <= Inside
  BY <1>2, <1>3, <1>4, RingAssumption DEF Words
<1>6. ASSUME head # consTail' PROVE WrapSub(tail, consTail') # Inside
  <2>1. SUFFICES ASSUME WrapSub(tail, consTail') = Inside PROVE FALSE
    OBVIOUS
  <2>2. WrapSub(consTail', head) = 0
    BY <1>1, <1>2, <1>3, <1>4, <2>1, DistanceSplit DEF Words
  <2> QED BY <1>1, <1>2, <1>6, <2>2, DistanceZero
<1> QED BY <1>2, <1>3, <1>4, <1>5, <1>6, RingAssumption DEF Words

LEMMA ProducerLoadPreserves ==
  ASSUME RingInv, TrySendFull \/ (\E v \in Values : TrySendRoom(v)) \/ AvailableSlots
  PROVE  RingInv'
<1>1. /\ prodHead' \in Words
      /\ Inside <= WrapSub(tail, prodHead')
      /\ WrapSub(tail, prodHead') <= WrapSub(tail, prodHead)
  BY LoadHeadStep DEF TrySendFull, TrySendRoom, AvailableSlots
<1>2. /\ prod = "idle" /\ prod' \in {"idle", "checked"}
      /\ prod' = "checked" \/ reserved' => ~Full(tail, prodHead') \/ reserved
      /\ prod' = "checked" => ~Full(tail, prodHead')
      /\ prod' = "checked" => pending' \in Values
      /\ pending' \in Values \union {Uninit}
      /\ reserved' \in BOOLEAN
      /\ UNCHANGED <<tail, sent, consVars, dropVars, slots>>
  BY DEF TrySendFull, TrySendRoom, AvailableSlots, RingInv, TypeOK
<1>3. TypeOK'
  BY <1>1, <1>2 DEF RingInv, TypeOK, consVars, dropVars, Words, SlotIndex
<1>4. CursorInv'
  <2>1. tail \in Words /\ prodHead \in Words /\ head \in Words
    BY DEF RingInv, TypeOK
  <2>2. WrapSub(tail, prodHead') \in Words /\ WrapSub(tail, prodHead) \in Words
    BY <1>1, <2>1, WrapSubCases
  <2>3. Inside' = Inside /\ WrapSub(tail, head)' = WrapSub(tail, head)
        /\ WrapSub(tail, consTail)' = WrapSub(tail, consTail)
        /\ WrapSub(tail, prodHead)' = WrapSub(tail, prodHead')
    BY <1>2 DEF Inside, consVars, WrapSub
  <2>4. CursorInv
    BY DEF RingInv
  <2>5. prod' \in {"checked", "written"} \/ reserved' => WrapSub(tail, prodHead') < Capacity
    BY <1>1, <1>2, <2>2, <2>4, RingAssumption DEF CursorInv, Full, Words
  <2> QED BY <1>1, <1>2, <2>2, <2>3, <2>4, <2>5, RingAssumption DEF CursorInv, consVars, Words
<1>5. HistoryInv'
  BY <1>2 DEF RingInv, HistoryInv, consVars, dropVars
<1>6. ~freed
  BY <1>2 DEF RingInv
<1>7. SlotInv'
  BY <1>2, <1>6 DEF RingInv, SlotInv, consVars, dropVars, Ahead, WrapAdd, IndexOf, Inside, SlotIndex
<1> QED BY <1>2, <1>3, <1>4, <1>5, <1>6, <1>7 DEF RingInv, dropVars

LEMMA WriteSlotPreserves ==
  ASSUME CapacityDividesModulus, RingInv, WriteSlot
  PROVE  RingInv'
<1> USE DEF WriteSlot
<1>1. ~freed
  BY DEF RingInv
<1>2. TypeOK'
  BY DEF RingInv, TypeOK, consVars, dropVars, Words
<1>3. CursorInv'
  BY DEF RingInv, CursorInv, Inside, WrapSub, consVars
<1>4. HistoryInv'
  BY DEF RingInv, HistoryInv, consVars, dropVars
<1>5. SlotInv'
  <2>1. Inside < Capacity /\ Inside \in Nat
    <3>1. CursorInv
      BY DEF RingInv
    <3>2. WrapSub(tail, prodHead) \in Words
      BY WrapSubCases DEF RingInv, TypeOK
    <3> QED BY <3>1, <3>2, RingAssumption DEF CursorInv, Words
  <2>2. \A j \in 0 .. Inside - 1 : Ahead(head, j) \in SlotIndex /\ Ahead(head, j) # IndexOf(tail)
    BY <1>1, <2>1, WindowFacts, RingAssumption
  <2>3. slots' = [slots EXCEPT ![IndexOf(tail)] = pending] /\ IndexOf(tail) \in SlotIndex
        /\ slots \in [SlotIndex -> Values \union {Uninit}]
    BY <1>1, WindowFacts DEF RingInv, TypeOK
  <2>4. Inside' = Inside /\ \A j : Ahead(head, j)' = Ahead(head, j)
    BY DEF Inside, Ahead, IndexOf, WrapAdd, consVars
  <2>5. SlotInv
    BY <1>1 DEF RingInv
  <2>6. IndexOf(tail)' = IndexOf(tail)
    BY DEF IndexOf
  <2> QED BY <2>2, <2>3, <2>4, <2>5, <2>6 DEF SlotInv, consVars, SlotIndex
<1> QED BY <1>1, <1>2, <1>3, <1>4, <1>5 DEF RingInv, dropVars

LEMMA PublishTailPreserves ==
  ASSUME CapacityDividesModulus, RingInv, PublishTail
  PROVE  RingInv'
<1> USE DEF PublishTail
<1>1. ~freed /\ CursorInv /\ HistoryInv /\ SlotInv /\ TypeOK
  BY DEF RingInv
<1>2. /\ head \in Words /\ tail \in Words /\ prodHead \in Words /\ consTail \in Words
      /\ sent \in Seq(Values) /\ received \in Seq(Values \union {Uninit})
      /\ pending \in Values
  BY <1>1 DEF TypeOK, CursorInv
<1>3. /\ Len(sent) \in Nat /\ Len(received) \in Nat /\ Len(sent) = Len(received) + Inside
      /\ Inside \in Nat /\ Inside <= WrapSub(tail, prodHead) /\ WrapSub(tail, prodHead) < Capacity
      /\ WrapSub(tail, prodHead) \in Nat /\ WrapSub(tail, consTail) \in Nat
      /\ WrapSub(tail, head) = Inside /\ WrapSub(tail, consTail) <= Inside
  BY <1>1, <1>2, WindowFacts, WrapSubCases, RingAssumption DEF CursorInv, Words
<1>4. /\ Len(sent') = Len(sent) + 1 /\ sent'[Len(sent) + 1] = pending
      /\ \A n \in 1 .. Len(sent) : sent'[n] = sent[n]
      /\ sent' \in Seq(Values)
  BY <1>2
<1>5. Inside' = Inside + 1
  BY <1>2, <1>3, <1>4 DEF Inside, consVars
<1>6. ASSUME NEW c \in Words, WrapSub(tail, c) < Capacity
      PROVE  WrapSub(tail', c) = WrapSub(tail, c) + 1
  <2>1. tail' \in Words /\ tail' = IF tail + 1 < Modulus THEN tail + 1 ELSE 0
    BY <1>2, AdvanceCases
  <2>2. WrapSub(tail, c) = IF c <= tail THEN tail - c ELSE tail - c + Modulus
    BY <1>2, WrapSubCases
  <2>3. WrapSub(tail', c) = IF c <= tail' THEN tail' - c ELSE tail' - c + Modulus
    BY <2>1, WrapSubCases
  <2> QED BY <1>2, <1>6, <2>1, <2>2, <2>3, RingAssumption DEF Words
<1>7. TypeOK'
  <2>1. tail' \in Words
    BY <1>2, AdvanceCases
  <2>2. /\ head' = head /\ prodHead' = prodHead /\ consTail' = consTail /\ slots' = slots
        /\ cons' = cons /\ held' = held /\ received' = received
        /\ destroyed' = destroyed /\ freed' = freed
    BY DEF consVars, dropVars
  <2>3. prod' = "idle" /\ pending' = Uninit /\ reserved' = FALSE
    OBVIOUS
  <2> HIDE DEF PublishTail
  <2>4. Words' = Words /\ SlotIndex' = SlotIndex
    BY DEF Words, SlotIndex
  <2>5. sent' \in Seq(Values)
    BY <1>4
  <2>6. reserved' \in BOOLEAN /\ freed' \in BOOLEAN
    BY <1>1, <2>2, <2>3, Zenon DEF TypeOK
  <2> QED BY <1>1, <2>1, <2>2, <2>3, <2>4, <2>5, <2>6 DEF TypeOK
<1>8. CursorInv'
  <2>1. /\ WrapSub(tail, head)' = Inside + 1
        /\ WrapSub(tail, prodHead)' = WrapSub(tail, prodHead) + 1
        /\ WrapSub(tail, consTail)' = WrapSub(tail, consTail) + 1
    <3>1. head' = head /\ consTail' = consTail /\ prodHead' = prodHead
      BY DEF consVars
    <3>2. WrapSub(tail, head) < Capacity /\ WrapSub(tail, consTail) < Capacity
      BY <1>3, RingAssumption
    <3>3. /\ WrapSub(tail', head) = WrapSub(tail, head) + 1
          /\ WrapSub(tail', consTail) = WrapSub(tail, consTail) + 1
          /\ WrapSub(tail', prodHead) = WrapSub(tail, prodHead) + 1
      BY <1>2, <1>3, <1>6, <3>2
    <3> QED BY <1>3, <3>1, <3>3 DEF WrapSub
  <2> QED BY <1>1, <1>3, <1>5, <2>1, RingAssumption DEF CursorInv, consVars
<1>9. HistoryInv'
  <2>1. received' = received /\ cons' = cons /\ held' = held /\ freed' = freed
        /\ destroyed' = destroyed
    BY DEF consVars, dropVars
  <2>2. cons = "read" => Inside > 0
    BY <1>1 DEF CursorInv
  <2> QED BY <1>1, <1>3, <1>4, <2>1, <2>2 DEF HistoryInv
<1>10. SlotInv'
  <2>1. \A j : Ahead(head, j)' = Ahead(head, j)
    BY DEF Ahead, IndexOf, WrapAdd, consVars
  <2>2. slots' = slots /\ cons' = cons /\ received' = received /\ prod' = "idle"
    BY DEF consVars
  <2>3. Ahead(head, Inside) = IndexOf(tail)
    BY <1>1, WindowFacts
  <2>4. cons = "read" => Inside > 0
    BY <1>1 DEF CursorInv
  <2>5. slots[Ahead(head, Inside)] = pending
    BY <1>1, <2>3 DEF SlotInv
  <2>6. ASSUME NEW j \in 0 .. Inside
        PROVE  slots[Ahead(head, j)] =
                 IF cons = "read" /\ j = 0 THEN Uninit ELSE sent'[Len(received) + 1 + j]
    <3>1. CASE j = Inside
      BY <3>1, <2>4, <2>5, <1>3, <1>4
    <3>2. CASE j # Inside
      <4>1. j \in 0 .. Inside - 1 /\ Len(received) + 1 + j \in 1 .. Len(sent)
        BY <3>2, <1>3
      <4> QED BY <4>1, <1>1, <1>4 DEF SlotInv
    <3> QED BY <3>1, <3>2
  <2>7. ASSUME NEW i \in SlotIndex, slots[i] # Uninit
        PROVE  \E j \in 0 .. Inside : i = Ahead(head, j)
    <3>1. CASE \E j \in 0 .. Inside - 1 : i = Ahead(head, j)
      BY <3>1, <1>3
    <3>2. CASE i = IndexOf(tail)
      BY <3>2, <2>3, <1>3
    <3> QED BY <1>1, <2>7, <3>1, <3>2 DEF SlotInv
  <2>8. Inside' - 1 = Inside
    BY <1>3, <1>5
  <2> QED BY <2>1, <2>2, <2>6, <2>7, <2>8 DEF SlotInv, SlotIndex
<1> QED BY <1>1, <1>7, <1>8, <1>9, <1>10 DEF RingInv, dropVars

LEMMA ReadSlotPreserves ==
  ASSUME CapacityDividesModulus, RingInv, ReadSlot
  PROVE  RingInv'
<1> USE DEF ReadSlot
<1>1. ~freed /\ CursorInv /\ HistoryInv /\ SlotInv /\ TypeOK
  BY DEF RingInv
<1>2. Inside > 0 /\ Inside \in 0 .. Capacity /\ 0 \in 0 .. Inside - 1
  BY <1>1, RingAssumption DEF CursorInv
<1>3. Ahead(head, 0) = IndexOf(head) /\ IndexOf(head) \in SlotIndex
  BY <1>1, WindowFacts
<1>4. slots[IndexOf(head)] = sent[Len(received) + 1]
  <2>1. Len(received) + 1 + 0 = Len(received) + 1
    BY <1>1, WindowFacts
  <2> QED BY <1>1, <1>2, <1>3, <2>1 DEF SlotInv
<1>5. slots' = [slots EXCEPT ![IndexOf(head)] = Uninit] /\ slots \in [SlotIndex -> Values \union {Uninit}]
  BY <1>1 DEF TypeOK
<1>6. TypeOK'
  BY <1>1, <1>3, <1>5 DEF TypeOK, prodVars, dropVars, Words
<1>7. CursorInv'
  BY <1>1, <1>2 DEF CursorInv, Inside, WrapSub, prodVars
<1>8. HistoryInv'
  BY <1>1, <1>4 DEF HistoryInv, prodVars, dropVars
<1>9. SlotInv'
  <2>1. \A j \in 1 .. Inside - 1 : Ahead(head, j) \in SlotIndex /\ Ahead(head, j) # IndexOf(head)
    BY <1>1, <1>2, <1>3, WindowFacts, RingAssumption
  <2>2. prod = "written" => IndexOf(tail) # IndexOf(head) /\ IndexOf(tail) \in SlotIndex
    <3>1. SUFFICES ASSUME prod = "written" PROVE IndexOf(tail) # IndexOf(head) /\ IndexOf(tail) \in SlotIndex
      OBVIOUS
    <3>2. WrapSub(tail, prodHead) \in Words
      BY <1>1, WrapSubCases DEF TypeOK
    <3>3. Inside \in 0 .. Capacity - 1 /\ 0 \in 0 .. Capacity - 1
      BY <1>1, <1>2, <3>1, <3>2, RingAssumption DEF CursorInv, Words
    <3> QED BY <1>1, <1>2, <1>3, <3>3, WindowFacts
  <2>3. /\ \A j : Ahead(head, j)' = Ahead(head, j)
        /\ Inside' = Inside /\ IndexOf(tail)' = IndexOf(tail)
        /\ sent' = sent /\ received' = received /\ prod' = prod /\ pending' = pending
    BY DEF Ahead, IndexOf, WrapAdd, Inside, prodVars
  <2>4. ASSUME NEW j \in 0 .. Inside - 1
        PROVE  slots'[Ahead(head, j)] = IF j = 0 THEN Uninit ELSE sent[Len(received) + 1 + j]
    <3>1. CASE j = 0
      BY <3>1, <1>3, <1>5
    <3>2. CASE j # 0
      <4>1. j \in 1 .. Inside - 1
        BY <3>2
      <4> QED BY <4>1, <3>2, <2>1, <1>1, <1>5 DEF SlotInv
    <3> QED BY <3>1, <3>2
  <2>5. prod = "written" => slots'[IndexOf(tail)] = pending
    BY <2>2, <1>1, <1>5 DEF SlotInv
  <2>6. \A i \in SlotIndex : slots'[i] # Uninit => slots[i] # Uninit
    BY <1>3, <1>5
  <2> QED BY <1>1, <2>3, <2>4, <2>5, <2>6 DEF SlotInv, SlotIndex
<1> QED BY <1>1, <1>6, <1>7, <1>8, <1>9 DEF RingInv, dropVars

LEMMA PublishHeadPreserves ==
  ASSUME CapacityDividesModulus, RingInv, PublishHead
  PROVE  RingInv'
<1>1. ~freed /\ CursorInv /\ HistoryInv /\ SlotInv /\ TypeOK /\ cons = "read"
  BY DEF RingInv, PublishHead
<1>2. /\ head \in Words /\ tail \in Words /\ prodHead \in Words /\ consTail \in Words
      /\ sent \in Seq(Values) /\ received \in Seq(Values \union {Uninit})
      /\ held \in Values \union {Uninit}
  BY <1>1 DEF TypeOK
<1>3. /\ Len(sent) \in Nat /\ Len(received) \in Nat /\ Len(sent) = Len(received) + Inside
      /\ Inside \in 1 .. Capacity
      /\ WrapSub(tail, head) = Inside
  BY <1>1, <1>2, WindowFacts, RingAssumption DEF CursorInv
<1>4. /\ Len(received') = Len(received) + 1 /\ received'[Len(received) + 1] = held
      /\ \A n \in 1 .. Len(received) : received'[n] = received[n]
      /\ received' \in Seq(Values \union {Uninit})
  BY <1>2 DEF PublishHead
<1>5. /\ sent' = sent /\ tail' = tail /\ prodHead' = prodHead /\ consTail' = consTail
      /\ slots' = slots /\ prod' = prod /\ pending' = pending /\ reserved' = reserved
      /\ destroyed' = destroyed /\ freed' = freed /\ cons' = "idle" /\ held' = Uninit
  BY DEF PublishHead, prodVars, dropVars
<1>6. Inside' = Inside - 1
  BY <1>3, <1>4, <1>5 DEF Inside
<1>7. head' \in Words /\ WrapSub(tail, head') = Inside - 1
  <2>1. head' = Advance(head)
    BY DEF PublishHead
  <2> QED BY <1>2, <1>3, <2>1, AdvanceCases, AdvanceDistance
<1>8. TypeOK'
  <2>1. Words' = Words /\ SlotIndex' = SlotIndex
    BY DEF Words, SlotIndex
  <2>2. reserved' \in BOOLEAN /\ freed' \in BOOLEAN
    BY <1>1, <1>5, Zenon DEF TypeOK
  <2>3. received' \in Seq(Values \union {Uninit}) /\ head' \in Words
    BY <1>4, <1>7
  <2> QED BY <1>1, <1>5, <2>1, <2>2, <2>3 DEF TypeOK
<1>9. HistoryInv'
  <2>1. ASSUME NEW n \in 1 .. Len(received) + 1 PROVE received'[n] = sent[n]
    <3>1. CASE n = Len(received) + 1
      BY <3>1, <1>1, <1>4 DEF HistoryInv
    <3>2. CASE n # Len(received) + 1
      <4>1. n \in 1 .. Len(received)
        BY <3>2, <1>3
      <4> QED BY <4>1, <1>1, <1>4 DEF HistoryInv
    <3> QED BY <3>1, <3>2
  <2> QED BY <1>1, <1>4, <1>5, <2>1 DEF HistoryInv
<1>10. SlotInv'
  <2>1. ASSUME NEW j \in 0 .. Inside - 2
        PROVE  Ahead(head', j) = Ahead(head, j + 1)
    <3>1. j \in Nat /\ j + 1 < Modulus
      BY <1>3, RingAssumption
    <3>2. head' = Advance(head)
      BY DEF PublishHead
    <3> QED BY <1>2, <3>1, <3>2, AheadAdvance
  <2>2. ASSUME NEW j \in 0 .. Inside - 2
        PROVE  slots[Ahead(head', j)] = sent[Len(received') + 1 + j]
    <3>1. j + 1 \in 0 .. Inside - 1 /\ Len(received) + 1 + (j + 1) = Len(received') + 1 + j /\ j + 1 # 0
      BY <1>3, <1>4
    <3> QED BY <1>1, <2>1, <3>1 DEF SlotInv
  <2>3. slots[Ahead(head, 0)] = Uninit
    <3>1. 0 \in 0 .. Inside - 1
      BY <1>3
    <3> QED BY <1>1, <3>1 DEF SlotInv
  <2>4. ASSUME NEW i \in SlotIndex, slots[i] # Uninit
        PROVE  (\E j \in 0 .. Inside - 2 : i = Ahead(head', j)) \/ (prod = "written" /\ i = IndexOf(tail))
    <3>1. ASSUME NEW k \in 0 .. Inside - 1, i = Ahead(head, k)
          PROVE  \E j \in 0 .. Inside - 2 : i = Ahead(head', j)
      <4>1. k # 0
        BY <2>3, <2>4, <3>1
      <4>2. k - 1 \in 0 .. Inside - 2 /\ (k - 1) + 1 = k
        BY <4>1, <1>3
      <4> QED BY <2>1, <3>1, <4>2
    <3> QED BY <1>1, <2>4, <3>1 DEF SlotInv
  <2>5. Inside' - 1 = Inside - 2
    BY <1>3, <1>6
  <2>6. \A j : Ahead(head, j)' = Ahead(head', j)
    BY DEF Ahead, IndexOf, WrapAdd
  <2>7. IndexOf(tail)' = IndexOf(tail)
    BY <1>5 DEF IndexOf
  <2> QED BY <1>1, <1>5, <2>2, <2>4, <2>5, <2>6, <2>7 DEF SlotInv, SlotIndex
<1>11. CursorInv'
  <2>1. WrapSub(tail, head)' = Inside - 1 /\ WrapSub(tail, prodHead)' = WrapSub(tail, prodHead)
        /\ WrapSub(tail, consTail)' = WrapSub(tail, consTail)
    BY <1>5, <1>7 DEF WrapSub
  <2>2. WrapSub(tail, consTail) <= Inside - 1 /\ WrapSub(tail, consTail) \in Nat
    <3>1. WrapSub(tail, consTail) < Inside
      BY <1>1 DEF CursorInv
    <3>2. WrapSub(tail, consTail) \in Words
      BY <1>2, WrapSubCases
    <3> QED BY <3>1, <3>2, <1>3 DEF Words
  <2>3. WrapSub(tail, prodHead) \in Nat
    BY <1>2, WrapSubCases, RingAssumption DEF Words
  <2>4. /\ Inside <= WrapSub(tail, prodHead) /\ WrapSub(tail, prodHead) <= Capacity
        /\ prod \in {"checked", "written"} \/ reserved => WrapSub(tail, prodHead) < Capacity
        /\ prod = "checked" \/ prod = "written" => pending \in Values
    BY <1>1 DEF CursorInv
  <2> QED BY <1>3, <1>5, <1>6, <2>1, <2>2, <2>3, <2>4, RingAssumption DEF CursorInv
<1> QED BY <1>1, <1>5, <1>8, <1>9, <1>10, <1>11 DEF RingInv

LEMMA ConsumerLoadPreserves ==
  ASSUME RingInv, TryRecvEmpty \/ TryRecvSome
  PROVE  RingInv'
<1>1. /\ cons = "idle" /\ cons' \in {"idle", "checked"}
      /\ cons' = "checked" => head # consTail'
      /\ UNCHANGED <<held, head, received, prodVars, dropVars, slots>>
  BY DEF TryRecvEmpty, TryRecvSome
<1>2. /\ consTail' \in Words
      /\ WrapSub(tail, consTail') <= Inside
      /\ head # consTail' => Inside > 0 /\ WrapSub(tail, consTail') < Inside
  BY LoadTailStep DEF TryRecvEmpty, TryRecvSome
<1>3. TypeOK'
  BY <1>1, <1>2 DEF RingInv, TypeOK, prodVars, dropVars, Words, SlotIndex
<1>4. CursorInv'
  <2>1. Inside' = Inside /\ WrapSub(tail, head)' = WrapSub(tail, head)
        /\ WrapSub(tail, consTail)' = WrapSub(tail, consTail')
        /\ WrapSub(tail, prodHead)' = WrapSub(tail, prodHead)
    BY <1>1 DEF Inside, prodVars, WrapSub
  <2> QED BY <1>1, <1>2, <2>1 DEF RingInv, CursorInv, prodVars
<1>5. HistoryInv'
  BY <1>1 DEF RingInv, HistoryInv, prodVars, dropVars
<1>6. ~freed /\ SlotInv
  BY <1>1 DEF RingInv
<1>7. SlotInv'
  BY <1>1, <1>6 DEF SlotInv, prodVars, dropVars, Ahead, WrapAdd, IndexOf, Inside, SlotIndex
<1> QED BY <1>1, <1>3, <1>4, <1>5, <1>6, <1>7 DEF RingInv, dropVars

LEMMA DropEndpointPreserves ==
  ASSUME RingInv, DropProducer \/ DropConsumer
  PROVE  RingInv'
<1>1. CASE DropProducer
  <2>1. ~freed /\ prod = "idle" /\ prod' = "dropped" /\ UNCHANGED <<prodHead, pending, reserved,
           tail, sent, consVars, dropVars, slots>>
    BY <1>1 DEF DropProducer, RingInv
  <2>2. TypeOK'
    BY <2>1 DEF RingInv, TypeOK, consVars, dropVars, Words, SlotIndex
  <2>3. CursorInv'
    BY <2>1 DEF RingInv, CursorInv, consVars, Inside, WrapSub
  <2>4. HistoryInv'
    BY <2>1 DEF RingInv, HistoryInv, consVars, dropVars
  <2>5. SlotInv'
    BY <2>1 DEF RingInv, SlotInv, consVars, dropVars, Ahead, WrapAdd, IndexOf, Inside, SlotIndex
  <2> QED BY <2>1, <2>2, <2>3, <2>4, <2>5 DEF RingInv, dropVars
<1>2. CASE DropConsumer
  <2>1. ~freed /\ cons = "idle" /\ cons' = "dropped" /\ UNCHANGED <<consTail, held, head, received,
           prodVars, dropVars, slots>>
    BY <1>2 DEF DropConsumer, RingInv
  <2>2. TypeOK'
    BY <2>1 DEF RingInv, TypeOK, prodVars, dropVars, Words, SlotIndex
  <2>3. CursorInv'
    BY <2>1 DEF RingInv, CursorInv, prodVars, Inside, WrapSub
  <2>4. HistoryInv'
    BY <2>1 DEF RingInv, HistoryInv, prodVars, dropVars
  <2>5. SlotInv'
    BY <2>1 DEF RingInv, SlotInv, prodVars, dropVars, Ahead, WrapAdd, IndexOf, Inside, SlotIndex
  <2> QED BY <2>1, <2>2, <2>3, <2>4, <2>5 DEF RingInv, dropVars
<1> QED BY <1>1, <1>2

(* What Drop for SpscInner destroys is exactly what was never returned.    *)
LEMMA DropRingDestroys ==
  ASSUME CapacityDividesModulus, RingInv, DropRing
  PROVE  /\ destroyed' = SubSeq(sent, Len(received) + 1, Len(sent))
         /\ \A i \in SlotIndex : slots'[i] = Uninit
<1>1. ~freed /\ CursorInv /\ HistoryInv /\ SlotInv /\ TypeOK /\ prod = "dropped" /\ cons = "dropped"
  BY DEF RingInv, DropRing
<1>2. /\ Len(sent) \in Nat /\ Len(received) \in Nat /\ Len(sent) = Len(received) + Inside
      /\ Inside \in 0 .. Capacity /\ WrapSub(tail, head) = Inside
      /\ sent \in Seq(Values)
  BY <1>1, WindowFacts DEF CursorInv, TypeOK
<1>3. Queued = Inside
  BY <1>2, RingAssumption DEF Queued, Full
<1>4. \A j : DropIndex(j) = Ahead(head, j)
  BY DEF DropIndex, Ahead
<1>5. destroyed' = [n \in 1 .. Inside |-> slots[Ahead(head, n - 1)]]
  BY <1>3, <1>4 DEF DropRing
<1>6. ASSUME NEW n \in 1 .. Inside
      PROVE  slots[Ahead(head, n - 1)] = sent[Len(received) + n]
  <2>1. n - 1 \in 0 .. Inside - 1 /\ Len(received) + 1 + (n - 1) = Len(received) + n
    BY <1>2
  <2> QED BY <1>1, <2>1 DEF SlotInv
<1>7. destroyed' = [n \in 1 .. Inside |-> sent[Len(received) + n]]
  BY <1>5, <1>6
<1>8. SubSeq(sent, Len(received) + 1, Len(sent)) = [n \in 1 .. Inside |-> sent[Len(received) + n]]
  <2>1. SubSeq(sent, Len(received) + 1, Len(sent))
          = [n \in 1 .. Len(sent) - Len(received) |-> sent[Len(received) + n]]
    BY <1>2
  <2> QED BY <1>2, <2>1
<1>9. ASSUME NEW i \in SlotIndex PROVE slots'[i] = Uninit
  <2>1. slots'[i] = IF \E n \in 0 .. Inside - 1 : i = Ahead(head, n) THEN Uninit ELSE slots[i]
    BY <1>3, <1>4 DEF DropRing
  <2> QED BY <1>1, <2>1 DEF SlotInv
<1> QED BY <1>7, <1>8, <1>9

LEMMA DropRingPreserves ==
  ASSUME CapacityDividesModulus, RingInv, DropRing
  PROVE  RingInv'
<1>1. ~freed /\ CursorInv /\ HistoryInv /\ TypeOK
  BY DEF RingInv, DropRing
<1>2. /\ freed' = TRUE /\ prod' = "dropped" /\ cons' = "dropped" /\ reserved' = reserved
      /\ head' = head /\ tail' = tail /\ prodHead' = prodHead /\ consTail' = consTail
      /\ pending' = pending /\ held' = held /\ sent' = sent /\ received' = received
      /\ prod' = prod /\ cons' = cons
  BY DEF DropRing, prodVars, consVars
<1>3. /\ destroyed' = SubSeq(sent, Len(received) + 1, Len(sent))
      /\ \A i \in SlotIndex : slots'[i] = Uninit
  BY DropRingDestroys
<1>4. TypeOK'
  <2>1. slots' \in [SlotIndex -> Values \union {Uninit}]
    <3>1. slots' = [i \in SlotIndex |-> slots'[i]]
      BY DEF DropRing
    <3> QED BY <1>3, <3>1
  <2>2. destroyed' \in Seq(Values \union {Uninit})
    <3>1. sent \in Seq(Values) /\ received \in Seq(Values \union {Uninit})
      BY <1>1 DEF TypeOK
    <3>2. sent \in Seq(Values \union {Uninit}) /\ Len(received) + 1 \in 1 .. Len(sent) + 1
      BY <1>1, <3>1, RingAssumption DEF CursorInv, Inside
    <3>3. \A x \in Len(received) + 1 .. Len(sent) : sent[x] \in Values \union {Uninit}
      BY <3>1, <3>2
    <3> QED BY <1>3, <3>1, <3>2, <3>3
  <2>3. Words' = Words /\ SlotIndex' = SlotIndex
    BY DEF Words, SlotIndex
  <2> QED BY <1>1, <1>2, <2>1, <2>2, <2>3 DEF TypeOK
<1>5. CursorInv'
  BY <1>1, <1>2 DEF CursorInv, Inside, WrapSub
<1>6. HistoryInv'
  BY <1>1, <1>2, <1>3 DEF HistoryInv
<1>7. SlotIndex' = SlotIndex
  BY DEF SlotIndex
<1> QED BY <1>2, <1>3, <1>4, <1>5, <1>6, <1>7 DEF RingInv

LEMMA RingInvStep ==
  ASSUME CapacityDividesModulus, RingInv, [Next]_vars
  PROVE  RingInv'
<1>1. CASE Producer
  BY <1>1, ProducerLoadPreserves, WriteSlotPreserves, PublishTailPreserves,
     DropEndpointPreserves DEF Producer
<1>2. CASE Consumer
  BY <1>2, ConsumerLoadPreserves, ReadSlotPreserves, PublishHeadPreserves,
     DropEndpointPreserves DEF Consumer
<1>3. CASE DropRing
  BY <1>3, DropRingPreserves
<1>4. CASE UNCHANGED vars
  BY <1>4 DEF vars, prodVars, consVars, dropVars, RingInv, TypeOK, CursorInv, HistoryInv,
     SlotInv, Ahead, WrapAdd, WrapSub, IndexOf, Inside, SlotIndex, Words
<1> QED BY <1>1, <1>2, <1>3, <1>4 DEF Next

-----------------------------------------------------------------------------
(* The results. *)

(* The inductive invariant of the ring: which slots hold which values, and *)
(* how stale a loaded cursor may be.                                       *)
THEOREM RingInvariance ==
  ASSUME CapacityDividesModulus
  PROVE  Spec => []RingInv
<1>1. Init => RingInv
  BY RingInvInit
<1>2. RingInv /\ [Next]_vars => RingInv'
  BY RingInvStep
<1> QED BY <1>1, <1>2, PTL DEF Spec

(* Every variable keeps its type; the cursors never leave their word.      *)
THEOREM TypeCorrectness ==
  ASSUME CapacityDividesModulus
  PROVE  Spec => []TypeOK
<1>1. RingInv => TypeOK
  BY DEF RingInv
<1> QED BY <1>1, RingInvariance, PTL

(* try_send and try_recv never touch the same slot at the same time, and   *)
(* try_recv never reads a slot that holds no value.                        *)
THEOREM SlotRaceFreedom ==
  ASSUME CapacityDividesModulus
  PROVE  Spec => []NoSlotRace
<1>1. RingInv => NoSlotRace
  <2> SUFFICES ASSUME RingInv, cons = "checked"
               PROVE  /\ ~(prod = "checked" /\ IndexOf(tail) = IndexOf(head))
                      /\ slots[IndexOf(head)] # Uninit
    BY DEF NoSlotRace
  <2>1. ~freed /\ CursorInv /\ SlotInv /\ TypeOK
    BY DEF RingInv
  <2>2. Inside \in 1 .. Capacity /\ 0 \in 0 .. Inside - 1
    BY <2>1, RingAssumption DEF CursorInv
  <2>3. slots[IndexOf(head)] # Uninit
    <3>1. Ahead(head, 0) = IndexOf(head) /\ Len(sent) = Len(received) + Inside
          /\ Len(received) \in Nat /\ Len(received) + 1 + 0 = Len(received) + 1
      BY <2>1, WindowFacts
    <3>2. slots[IndexOf(head)] = sent[Len(received) + 1]
      BY <2>1, <2>2, <3>1 DEF SlotInv
    <3>3. Len(received) + 1 \in 1 .. Len(sent) /\ sent \in Seq(Values)
      BY <2>1, <2>2, <3>1 DEF TypeOK
    <3> QED BY <3>2, <3>3, RingAssumption
  <2>4. prod = "checked" => IndexOf(tail) # IndexOf(head)
    <3>1. SUFFICES ASSUME prod = "checked" PROVE IndexOf(tail) # IndexOf(head)
      OBVIOUS
    <3>2. WrapSub(tail, prodHead) \in Words
      BY <2>1, WrapSubCases DEF TypeOK
    <3>3. Inside \in 0 .. Capacity - 1 /\ 0 \in 0 .. Capacity - 1
      BY <2>1, <2>2, <3>1, <3>2, RingAssumption DEF CursorInv, Words
    <3> QED BY <2>1, <2>2, <3>3, WindowFacts
  <2> QED BY <2>3, <2>4
<1> QED BY <1>1, RingInvariance, PTL

(* A write never lands on a value that is still to be read.                *)
THEOREM ExactlyOnceConsumption ==
  ASSUME CapacityDividesModulus
  PROVE  Spec => []ReadBeforeRewrite
<1>1. RingInv => ReadBeforeRewrite
  <2> SUFFICES ASSUME RingInv, prod = "checked", slots[IndexOf(tail)] # Uninit
               PROVE  FALSE
    BY DEF ReadBeforeRewrite
  <2>1. ~freed /\ CursorInv /\ SlotInv /\ TypeOK
    BY DEF RingInv
  <2>2. WrapSub(tail, prodHead) \in Words
    BY <2>1, WrapSubCases DEF TypeOK
  <2>3. Inside \in 0 .. Capacity - 1
    BY <2>1, <2>2, RingAssumption DEF CursorInv, Words
  <2>4. PICK j \in 0 .. Inside - 1 : IndexOf(tail) = Ahead(head, j)
    BY <2>1, WindowFacts DEF SlotInv
  <2>5. j \in 0 .. Capacity - 1 /\ Ahead(head, Inside) = Ahead(head, j)
    BY <2>1, <2>3, <2>4, WindowFacts, RingAssumption
  <2> QED BY <2>1, <2>3, <2>4, <2>5, WindowFacts
<1> QED BY <1>1, RingInvariance, PTL

(* Dropping the ring destroys exactly the values that were never returned. *)
THEOREM DropIsExact ==
  ASSUME CapacityDividesModulus
  PROVE  Spec => []NothingLeaked
<1>1. RingInv => NothingLeaked
  <2> SUFFICES ASSUME RingInv, freed
               PROVE  sent = received \o destroyed /\ \A i \in SlotIndex : slots[i] = Uninit
    BY DEF NothingLeaked
  <2>1. /\ HistoryInv /\ CursorInv /\ TypeOK
        /\ \A i \in SlotIndex : slots[i] = Uninit
    BY DEF RingInv
  <2>2. /\ sent \in Seq(Values) /\ received \in Seq(Values \union {Uninit})
        /\ Len(sent) - Len(received) \in Nat
        /\ Len(sent) \in Nat /\ Len(received) \in Nat
    BY <2>1, RingAssumption DEF TypeOK, CursorInv, Inside
  <2>3. destroyed = SubSeq(sent, Len(received) + 1, Len(sent))
    BY <2>1 DEF HistoryInv
  <2>4. /\ destroyed \in Seq(Values)
        /\ Len(destroyed) = Len(sent) - Len(received)
        /\ \A n \in 1 .. Len(destroyed) : destroyed[n] = sent[Len(received) + n]
    BY <2>2, <2>3
  <2>5. /\ received \o destroyed \in Seq(Values \union {Uninit})
        /\ Len(received \o destroyed) = Len(sent)
        /\ \A n \in 1 .. Len(sent) : (received \o destroyed)[n] = sent[n]
    <3>1. Len(received \o destroyed) = Len(sent)
      BY <2>2, <2>4
    <3>2. ASSUME NEW n \in 1 .. Len(sent) PROVE (received \o destroyed)[n] = sent[n]
      <4>1. CASE n <= Len(received)
        BY <4>1, <2>1, <2>2, <2>4 DEF HistoryInv
      <4>2. CASE ~(n <= Len(received))
        <5>1. n - Len(received) \in 1 .. Len(destroyed)
          BY <4>2, <2>2, <2>4
        <5> QED BY <4>2, <5>1, <2>2, <2>4
      <4> QED BY <4>1, <4>2
    <3>3. received \o destroyed \in Seq(Values \union {Uninit})
      BY <2>2, <2>4
    <3> QED BY <3>1, <3>2, <3>3
  <2>6. sent \in Seq(Values \union {Uninit})
    BY <2>2
  <2>7. sent = received \o destroyed
    BY <2>2, <2>5, <2>6, SeqEqual
  <2> QED BY <2>1, <2>7
<1> QED BY <1>1, RingInvariance, PTL

(* available_slots is a promise: only an accepted send ends it.            *)
THEOREM ReservationsHold ==
  ASSUME CapacityDividesModulus
  PROVE  Spec => ReservationHonoured
<1>1. RingInv /\ [Next]_vars => [reserved /\ ~reserved' => Len(sent') = Len(sent) + 1]_vars
  <2> SUFFICES ASSUME RingInv, Next, reserved, ~reserved'
               PROVE  Len(sent') = Len(sent) + 1
    OBVIOUS
  <2>1. /\ WrapSub(tail, prodHead) < Capacity
        /\ WrapSub(tail, prodHead) \in Words
        /\ sent \in Seq(Values) /\ tail \in Words
    BY WrapSubCases DEF RingInv, CursorInv, TypeOK
  <2>2. ASSUME prodHead' \in Views(prodHead, head) PROVE ~Full(tail, prodHead')
    <3>1. prodHead' \in Words /\ WrapSub(tail, prodHead') <= WrapSub(tail, prodHead)
      BY <2>2, LoadHeadStep
    <3>2. WrapSub(tail, prodHead') \in Words
      BY <2>1, <3>1, WrapSubCases
    <3> QED BY <2>1, <3>1, <3>2, RingAssumption DEF Full, Words
  <2>3. ~TrySendFull
    BY <2>2 DEF TrySendFull
  <2>4. ~AvailableSlots
    BY <2>2 DEF AvailableSlots
  <2>5. CASE PublishTail
    BY <2>1, <2>5 DEF PublishTail
  <2> QED BY <2>3, <2>4, <2>5 DEF Next, Producer, Consumer, TrySendRoom, WriteSlot, DropProducer,
             TryRecvEmpty, TryRecvSome, ReadSlot, PublishHead, DropConsumer, DropRing,
             prodVars
<1> QED BY <1>1, RingInvariance, PTL DEF Spec, ReservationHonoured

(* The ring implements the bounded FIFO queue.                             *)
THEOREM RingImplementsFifo ==
  ASSUME CapacityDividesModulus
  PROVE  Spec => RingIsFifo
<1>1. Init => Fifo!Init
  BY DEF Init, Fifo!Init
<1>2. RingInv /\ [Next]_vars => [Fifo!Next]_(Fifo!fifoVars)
  <2> SUFFICES ASSUME RingInv, [Next]_vars PROVE [Fifo!Next]_(Fifo!fifoVars)
    OBVIOUS
  <2>1. CASE PublishTail
    <3>1. ~freed /\ CursorInv /\ TypeOK
      BY <2>1 DEF RingInv, PublishTail
    <3>2. WrapSub(tail, prodHead) \in Words
      BY <3>1, WrapSubCases DEF TypeOK
    <3>3. Len(sent) - Len(received) < Capacity
      BY <2>1, <3>1, <3>2, RingAssumption DEF PublishTail, CursorInv, Inside, Words
    <3>4. pending \in Values
      BY <2>1, <3>1 DEF PublishTail, CursorInv
    <3>5. Fifo!Send(pending)
      BY <2>1, <3>1, <3>3 DEF PublishTail, Fifo!Send, consVars, dropVars
    <3> QED BY <3>4, <3>5 DEF Fifo!Next
  <2>2. CASE PublishHead
    <3>1. ~freed /\ CursorInv /\ HistoryInv /\ TypeOK
      BY <2>2 DEF RingInv, PublishHead
    <3>2. Len(received) < Len(sent) /\ held = sent[Len(received) + 1]
      BY <2>2, <3>1 DEF PublishHead, CursorInv, HistoryInv, Inside, TypeOK
    <3> QED BY <2>2, <3>1, <3>2 DEF PublishHead, prodVars, dropVars, Fifo!Next, Fifo!Receive
  <2>3. CASE DropRing
    <3>1. destroyed' = SubSeq(sent, Len(received) + 1, Len(sent))
      BY <2>3, DropRingDestroys
    <3> QED BY <2>3, <3>1 DEF DropRing, prodVars, consVars, Fifo!Next, Fifo!Destroy
  <2>4. CASE UNCHANGED <<sent, received, destroyed, freed>>
    BY <2>4 DEF Fifo!fifoVars
  <2> QED BY <2>1, <2>2, <2>3, <2>4 DEF Next, Producer, Consumer, TrySendFull, TrySendRoom,
             WriteSlot, AvailableSlots, DropProducer, TryRecvEmpty, TryRecvSome, ReadSlot,
             DropConsumer, vars, prodVars, consVars, dropVars
<1> QED BY <1>1, <1>2, RingInvariance, PTL DEF Spec, RingIsFifo, Fifo!Spec
=============================================================================
