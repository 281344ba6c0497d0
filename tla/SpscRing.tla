------------------------------ MODULE SpscRing ------------------------------
(***************************************************************************)
(* The lock-free single-producer/single-consumer ring of                   *)
(* graphoxide-index-runtime, one action per access to shared memory.       *)
(*                                                                         *)
(* The two cursors are machine words: they wrap at Modulus (2^64 on the    *)
(* production targets) and are reduced modulo Capacity only to pick a      *)
(* slot. An Acquire load of the other side's cursor may return any value   *)
(* that side has published since this side's previous load: the owner's    *)
(* cursor and the slot contents behind a loaded cursor are never stale.    *)
(*                                                                         *)
(* A slot that holds no live value is Uninit, both before its first write  *)
(* and after its value was moved out.                                      *)
(***************************************************************************)
EXTENDS Integers, Sequences

CONSTANTS
  Values,     \* the values sent through the ring
  Uninit,     \* content of a slot without a live value
  Capacity,   \* number of slots
  Modulus,    \* number of values of a cursor word
  MaxSends    \* bound on accepted values, for model checking

ASSUME RingAssumption ==
  /\ Uninit \notin Values
  /\ Capacity \in Nat \ {0}
  /\ Modulus \in Nat
  /\ Capacity < Modulus
  /\ MaxSends \in Nat

VARIABLES
  head, tail,    \* the two atomic cursors
  slots,         \* the slot contents
  prod,          \* producer: between calls, after its check, after its write, dropped
  prodHead,      \* the head the producer loaded last
  pending,       \* the value of the try_send in progress
  reserved,      \* available_slots answered more than zero since the last try_send
  cons,          \* consumer: between calls, after its check, after its read, dropped
  consTail,      \* the tail the consumer loaded last
  held,          \* the value moved out by the try_recv in progress
  sent, received, destroyed,  \* histories of accepted, returned, dropped values
  freed          \* the shared ring has been dropped

prodVars == <<prod, prodHead, pending, reserved, tail, sent>>
consVars == <<cons, consTail, held, head, received>>
dropVars == <<destroyed, freed>>
vars == <<prodVars, consVars, dropVars, slots>>

SlotIndex == 0 .. Capacity - 1
Words     == 0 .. Modulus - 1

-----------------------------------------------------------------------------
(* Arithmetic of the cursors. *)

WrapSub(a, b) == (a - b) % Modulus
WrapAdd(a, n) == (a + n) % Modulus

Advance(c) == WrapAdd(c, 1)

IndexOf(c) == c % Capacity

FullOffByOne(t, h) == WrapSub(t, h) > Capacity
Full(t, h) == WrapSub(t, h) >= Capacity

(* The wrap is seamless only when the slots divide the words. The pipeline's *)
(* rings satisfy this (two slots, cursors of a power of two).                *)
CapacityDividesModulus == Modulus % Capacity = 0

(* What an Acquire load of `now` may return to a thread that last saw `seen`. *)
Views(seen, now) == { WrapAdd(seen, k) : k \in 0 .. WrapSub(now, seen) }

-----------------------------------------------------------------------------
Init ==
  /\ head = 0 /\ tail = 0
  /\ slots = [i \in SlotIndex |-> Uninit]
  /\ prod = "idle" /\ prodHead = 0 /\ pending = Uninit /\ reserved = FALSE
  /\ cons = "idle" /\ consTail = 0 /\ held = Uninit
  /\ sent = <<>> /\ received = <<>> /\ destroyed = <<>>
  /\ freed = FALSE

(* SpscProducer::try_send: load head, refuse when full. *)
TrySendFull ==
  /\ prod = "idle"
  /\ prodHead' \in Views(prodHead, head)
  /\ Full(tail, prodHead')
  /\ reserved' = FALSE
  /\ UNCHANGED <<prod, pending, tail, sent, consVars, dropVars, slots>>

(* ... or go on to the slot at tail. *)
TrySendRoom(v) ==
  /\ prod = "idle"
  /\ Len(sent) < MaxSends
  /\ prodHead' \in Views(prodHead, head)
  /\ ~Full(tail, prodHead')
  /\ prod' = "checked"
  /\ pending' = v
  /\ UNCHANGED <<reserved, tail, sent, consVars, dropVars, slots>>

WriteSlot ==
  /\ prod = "checked"
  /\ slots' = [slots EXCEPT ![IndexOf(tail)] = pending]
  /\ prod' = "written"
  /\ UNCHANGED <<prodHead, pending, reserved, tail, sent, consVars, dropVars>>

(* The release store of tail publishes the value and ends the call. *)
PublishTail ==
  /\ prod = "written"
  /\ tail' = Advance(tail)
  /\ sent' = Append(sent, pending)
  /\ prod' = "idle"
  /\ pending' = Uninit
  /\ reserved' = FALSE
  /\ UNCHANGED <<prodHead, consVars, dropVars, slots>>

(* SpscProducer::available_slots. *)
AvailableSlotsInclusive ==
  /\ prod = "idle"
  /\ prodHead' \in Views(prodHead, head)
  /\ reserved' = ~FullOffByOne(tail, prodHead')
  /\ UNCHANGED <<prod, pending, tail, sent, consVars, dropVars, slots>>

AvailableSlots ==
  /\ prod = "idle"
  /\ prodHead' \in Views(prodHead, head)
  /\ reserved' = ~Full(tail, prodHead')
  /\ UNCHANGED <<prod, pending, tail, sent, consVars, dropVars, slots>>

DropProducer ==
  /\ prod = "idle"
  /\ prod' = "dropped"
  /\ UNCHANGED <<prodHead, pending, reserved, tail, sent, consVars, dropVars, slots>>

(* SpscConsumer::try_recv: load tail, answer None when the ring looks empty. *)
TryRecvEmpty ==
  /\ cons = "idle"
  /\ consTail' \in Views(consTail, tail)
  /\ head = consTail'
  /\ UNCHANGED <<cons, held, head, received, prodVars, dropVars, slots>>

TryRecvSome ==
  /\ cons = "idle"
  /\ consTail' \in Views(consTail, tail)
  /\ head # consTail'
  /\ cons' = "checked"
  /\ UNCHANGED <<held, head, received, prodVars, dropVars, slots>>

ReadSlot ==
  /\ cons = "checked"
  /\ held' = slots[IndexOf(head)]
  /\ slots' = [slots EXCEPT ![IndexOf(head)] = Uninit]
  /\ cons' = "read"
  /\ UNCHANGED <<consTail, head, received, prodVars, dropVars>>

(* The release store of head gives the slot back and returns the value. *)
PublishHead ==
  /\ cons = "read"
  /\ head' = Advance(head)
  /\ received' = Append(received, held)
  /\ cons' = "idle"
  /\ held' = Uninit
  /\ UNCHANGED <<consTail, prodVars, dropVars, slots>>

DropConsumer ==
  /\ cons = "idle"
  /\ cons' = "dropped"
  /\ UNCHANGED <<consTail, held, head, received, prodVars, dropVars, slots>>

(* Drop for SpscInner, run by whichever endpoint goes last. *)
Queued == IF Full(tail, head) THEN Capacity ELSE WrapSub(tail, head)

DropIndexFromZero(offset) == IndexOf(offset)
DropIndex(offset) == IndexOf(WrapAdd(head, offset))

DropRing ==
  /\ prod = "dropped" /\ cons = "dropped" /\ ~freed
  /\ freed' = TRUE
  /\ destroyed' = [n \in 1 .. Queued |-> slots[DropIndex(n - 1)]]
  /\ slots' = [i \in SlotIndex |->
                 IF \E n \in 0 .. Queued - 1 : i = DropIndex(n)
                 THEN Uninit ELSE slots[i]]
  /\ UNCHANGED <<prodVars, consVars>>

Producer ==
  \/ TrySendFull
  \/ \E v \in Values : TrySendRoom(v)
  \/ WriteSlot
  \/ PublishTail
  \/ AvailableSlots
  \/ DropProducer

Consumer == TryRecvEmpty \/ TryRecvSome \/ ReadSlot \/ PublishHead \/ DropConsumer

Next == Producer \/ Consumer \/ DropRing

Spec == Init /\ [][Next]_vars

-----------------------------------------------------------------------------
(* Properties. *)

(* Every variable has its type: in particular the cursors stay words.      *)
TypeOK ==
  /\ head \in Words /\ tail \in Words
  /\ slots \in [SlotIndex -> Values \union {Uninit}]
  /\ prod \in {"idle", "checked", "written", "dropped"}
  /\ prodHead \in Words
  /\ pending \in Values \union {Uninit}
  /\ reserved \in BOOLEAN
  /\ cons \in {"idle", "checked", "read", "dropped"}
  /\ consTail \in Words
  /\ held \in Values \union {Uninit}
  /\ sent \in Seq(Values)
  /\ received \in Seq(Values \union {Uninit})
  /\ destroyed \in Seq(Values \union {Uninit})
  /\ freed \in BOOLEAN

(* Invariants 1 and 2 of Slot: the producer is never writing the slot the  *)
(* consumer is reading, and the consumer never reads a slot before the     *)
(* write it was published for.                                             *)
NoSlotRace ==
  /\ ~(prod = "checked" /\ cons = "checked" /\ IndexOf(tail) = IndexOf(head))
  /\ cons = "checked" => slots[IndexOf(head)] # Uninit

(* Invariant 3 of Slot: a slot is read exactly once before the next write  *)
(* re-initializes it, so a write never lands on a value still to be read.  *)
ReadBeforeRewrite ==
  prod = "checked" => slots[IndexOf(tail)] = Uninit

(* A positive answer of available_slots holds until the producer's next    *)
(* send: the reservation ends with an accepted value, never with a refusal *)
(* (run_io_worker reserves a slot, reads a file, and only then sends).     *)
ReservationHonoured ==
  [][reserved /\ ~reserved' => Len(sent') = Len(sent) + 1]_vars

(* Drop for SpscInner destroys exactly the values that were accepted and   *)
(* never returned: none is leaked, destroyed twice, or read uninitialized. *)
NothingLeaked ==
  freed => /\ sent = received \o destroyed
           /\ \A i \in SlotIndex : slots[i] = Uninit

(***************************************************************************)
(* The inductive invariant behind the safety properties.                   *)
(***************************************************************************)
Inside == Len(sent) - Len(received)
Ahead(c, j) == IndexOf(WrapAdd(c, j))

(* The cursors count what was sent and received, and a loaded cursor is     *)
(* never ahead of the one it was loaded from nor more than a ring behind.   *)
CursorInv ==
  /\ Inside \in 0 .. Capacity
  /\ WrapSub(tail, head) = Inside
  /\ Inside <= WrapSub(tail, prodHead)
  /\ WrapSub(tail, prodHead) <= Capacity
  /\ WrapSub(tail, consTail) <= Inside
  /\ prod \in {"checked", "written"} \/ reserved => WrapSub(tail, prodHead) < Capacity
  /\ cons \in {"checked", "read"} => Inside > 0 /\ WrapSub(tail, consTail) < Inside
  /\ prod = "checked" \/ prod = "written" => pending \in Values

(* The slots from head on hold the values still to be returned, the slot a  *)
(* producer has written but not published holds its value, the rest nothing.*)
SlotInv ==
  /\ \A j \in 0 .. Inside - 1 :
        slots[Ahead(head, j)] =
          IF cons = "read" /\ j = 0 THEN Uninit ELSE sent[Len(received) + 1 + j]
  /\ prod = "written" => slots[IndexOf(tail)] = pending
  /\ \A i \in SlotIndex : slots[i] # Uninit =>
        \/ \E j \in 0 .. Inside - 1 : i = Ahead(head, j)
        \/ prod = "written" /\ i = IndexOf(tail)

HistoryInv ==
  /\ \A n \in 1 .. Len(received) : received[n] = sent[n]
  /\ cons = "read" => held = sent[Len(received) + 1]
  /\ destroyed = IF freed THEN SubSeq(sent, Len(received) + 1, Len(sent)) ELSE <<>>

RingInv ==
  /\ TypeOK
  /\ CursorInv
  /\ HistoryInv
  /\ IF freed
     THEN /\ prod = "dropped" /\ cons = "dropped"
          /\ \A i \in SlotIndex : slots[i] = Uninit
     ELSE SlotInv

(* The ring is a bounded FIFO queue. *)
Fifo == INSTANCE BoundedFifo WITH closed <- freed
RingIsFifo == Fifo!Spec
=============================================================================
