------------------------- MODULE CacheServiceProofs -------------------------
(***************************************************************************)
(* Theorems about CacheService, for any calls, costs and capacities. The   *)
(* inductive invariant says where the credit of a call may be: with its    *)
(* client, in the queue, or with the owner thread, and nowhere once an     *)
(* answer other than a hit is on its way; and the ledger's counter is what *)
(* the calls hold. A second invariant says that a waiting client's command *)
(* is in the queue or with the owner thread, or that thread has ended.     *)
(***************************************************************************)
EXTENDS CacheService, FiniteSetTheorems, TLAPS

PcLabels == {"new", "reserve", "send", "wait", "holding", "done"}
Results  == {"missing", "present", "stored", "error", "snapshot"}

Types ==
  /\ pc \in [Calls -> PcLabels]
  /\ DOMAIN outcome = Calls
  /\ lease \in [Calls -> Nat]
  /\ queue \in Seq(Calls \union {Stop})
  /\ worker \in {"receive", "work", "respond", "exited"}
  /\ worker \in {"work", "respond"} => job \in Calls
  /\ worker \in {"receive", "exited"} => job = Idle

(* A command that was sent waits for its answer, or nobody does any more. *)
Sent ==
  /\ \A c \in Calls : c \in Range(queue) \/ job = c => pc[c] \in {"wait", "holding", "done"}
  /\ \A c \in Calls : outcome[c] # Absent => pc[c] \in {"holding", "done"}

(* The credit of a call that was answered, or is about to be, is back,     *)
(* unless the answer is a hit.                                             *)
AnswersFree ==
  /\ \A c \in Calls : outcome[c] \in Results => lease[c] = 0
  /\ worker = "respond" /\ answer # "hit" => lease[job] = 0
  /\ \A c \in Calls : Kind[c] = "snapshot" => lease[c] = 0

Held == \A c \in Calls : lease[c] > 0 => InHand(c)

ServiceInv == Types /\ Sent /\ AnswersFree /\ Held

(* What the ledger counts is what is lent, and no more than there is. *)
Ledger ==
  /\ IsFiniteSet(Credits(lease, Calls))
  /\ reserved = Cardinality(Credits(lease, Calls))
  /\ reserved <= Capacity

-----------------------------------------------------------------------------
(* Elements of a queue.                                                    *)

LEMMA RangeAppend ==
  ASSUME NEW S, NEW q \in Seq(S), NEW e \in S
  PROVE  Append(q, e) \in Seq(S) /\ Range(q) \subseteq Range(Append(q, e))
         /\ e \in Range(Append(q, e))
<1>1. Append(q, e) \in Seq(S) /\ Len(Append(q, e)) = Len(q) + 1
      /\ \A i \in 1 .. Len(q) : Append(q, e)[i] = q[i]
      /\ Append(q, e)[Len(q) + 1] = e
  OBVIOUS
<1>2. DOMAIN q = 1 .. Len(q) /\ DOMAIN Append(q, e) = 1 .. Len(q) + 1 /\ Len(q) \in Nat
  BY <1>1
<1> QED BY <1>1, <1>2 DEF Range

LEMMA AppendOnly ==
  ASSUME NEW S, NEW q \in Seq(S), NEW e \in S
  PROVE  \A x \in Range(Append(q, e)) : x = e \/ x \in Range(q)
<1> TAKE x \in Range(Append(q, e))
<1>1. /\ DOMAIN q = 1 .. Len(q) /\ DOMAIN Append(q, e) = 1 .. Len(q) + 1 /\ Len(q) \in Nat
      /\ \A i \in 1 .. Len(q) : Append(q, e)[i] = q[i]
      /\ Append(q, e)[Len(q) + 1] = e
  OBVIOUS
<1>2. PICK i \in 1 .. Len(q) + 1 : x = Append(q, e)[i]
  BY <1>1 DEF Range
<1> QED BY <1>1, <1>2 DEF Range

LEMMA RangeTail ==
  ASSUME NEW S, NEW q \in Seq(S), q # <<>>
  PROVE  Tail(q) \in Seq(S) /\ Head(q) \in S
         /\ Head(q) \in Range(q) /\ Range(Tail(q)) \subseteq Range(q)
         /\ \A e \in Range(q) : e = Head(q) \/ e \in Range(Tail(q))
<1>1. Tail(q) \in Seq(S) /\ Head(q) \in S /\ Len(q) \in Nat \ {0} /\ Len(Tail(q)) = Len(q) - 1
      /\ \A i \in 1 .. Len(q) - 1 : Tail(q)[i] = q[i + 1]
      /\ Head(q) = q[1]
  OBVIOUS
<1>2. DOMAIN q = 1 .. Len(q) /\ DOMAIN Tail(q) = 1 .. Len(q) - 1
  BY <1>1
<1>3. ASSUME NEW e \in Range(q), e # Head(q) PROVE e \in Range(Tail(q))
  <2>1. PICK i \in 1 .. Len(q) : e = q[i]
    BY <1>2 DEF Range
  <2>2. i # 1 /\ i - 1 \in 1 .. Len(q) - 1 /\ Tail(q)[i - 1] = q[i]
    BY <1>1, <1>3, <2>1
  <2> QED BY <1>2, <2>1, <2>2 DEF Range
<1>4. Head(q) \in Range(q) /\ Range(Tail(q)) \subseteq Range(q)
  BY <1>1, <1>2 DEF Range
<1> QED BY <1>1, <1>3, <1>4

-----------------------------------------------------------------------------
(* The ledger. *)

LEMMA DisjointUnion ==
  ASSUME NEW A, NEW B, A \cap B = {}, IsFiniteSet(A), IsFiniteSet(B)
  PROVE  /\ IsFiniteSet(A \union B)
         /\ Cardinality(A \union B) = Cardinality(A) + Cardinality(B)
<1>1. Cardinality(A \cap B) = 0
  BY FS_EmptySet
<1>2. /\ IsFiniteSet(A \union B)
      /\ Cardinality(A \union B) = Cardinality(A) + Cardinality(B) - Cardinality(A \cap B)
  BY FS_Union
<1>3. Cardinality(A) \in Nat /\ Cardinality(B) \in Nat
  BY FS_CardinalityType
<1> QED BY <1>1, <1>2, <1>3

(* The credits of disjoint groups of calls are counted apart.              *)
LEMMA CreditsApart ==
  ASSUME NEW l, NEW cs, NEW ds, cs \cap ds = {},
         IsFiniteSet(Credits(l, cs)), IsFiniteSet(Credits(l, ds))
  PROVE  /\ IsFiniteSet(Credits(l, cs \union ds))
         /\ Cardinality(Credits(l, cs \union ds))
              = Cardinality(Credits(l, cs)) + Cardinality(Credits(l, ds))
<1>1. Credits(l, cs \union ds) = Credits(l, cs) \union Credits(l, ds)
  BY DEF Credits
<1>2. Credits(l, cs) \cap Credits(l, ds) = {}
  BY DEF Credits
<1>3. /\ IsFiniteSet(Credits(l, cs) \union Credits(l, ds))
      /\ Cardinality(Credits(l, cs) \union Credits(l, ds))
           = Cardinality(Credits(l, cs)) + Cardinality(Credits(l, ds))
  BY <1>2, DisjointUnion
<1> QED BY <1>1, <1>3, Zenon

(* The credits of one call are as many as its lease says.                  *)
LEMMA CreditsOfOne ==
  ASSUME NEW l, NEW c, l[c] \in Nat
  PROVE  IsFiniteSet(Credits(l, {c})) /\ Cardinality(Credits(l, {c})) = l[c]
<1>1. Credits(l, {c}) = {c} \X (1 .. l[c])
  BY DEF Credits
<1>2. IsFiniteSet({c}) /\ Cardinality({c}) = 1
  BY FS_Singleton
<1>3. IsFiniteSet(1 .. l[c]) /\ Cardinality(1 .. l[c]) = l[c]
  BY FS_Interval
<1>4. /\ IsFiniteSet({c} \X (1 .. l[c]))
      /\ Cardinality({c} \X (1 .. l[c])) = Cardinality({c}) * Cardinality(1 .. l[c])
  BY <1>2, <1>3, FS_Product
<1>5. Cardinality({c}) * Cardinality(1 .. l[c]) = l[c]
  BY <1>2, <1>3
<1> QED BY <1>1, <1>4, <1>5

(* Part of a finite ledger is finite, and the rest is the difference.      *)
LEMMA CreditsWithout ==
  ASSUME NEW l, NEW cs, NEW ds, ds \subseteq cs, IsFiniteSet(Credits(l, cs))
  PROVE  /\ IsFiniteSet(Credits(l, ds)) /\ IsFiniteSet(Credits(l, cs \ ds))
         /\ Cardinality(Credits(l, ds)) \in Nat
         /\ Cardinality(Credits(l, cs \ ds)) \in Nat
         /\ Cardinality(Credits(l, cs))
              = Cardinality(Credits(l, cs \ ds)) + Cardinality(Credits(l, ds))
<1>1. Credits(l, ds) \subseteq Credits(l, cs) /\ Credits(l, cs \ ds) \subseteq Credits(l, cs)
  BY DEF Credits
<1>2. IsFiniteSet(Credits(l, ds)) /\ IsFiniteSet(Credits(l, cs \ ds))
  BY <1>1, FS_Subset
<1>3. cs = (cs \ ds) \union ds /\ (cs \ ds) \cap ds = {}
  OBVIOUS
<1> QED BY <1>2, <1>3, CreditsApart, FS_CardinalityType

(* One lease takes another value.                                          *)
LEMMA LeaseSet ==
  ASSUME NEW S, NEW l \in [S -> Nat], NEW m \in [S -> Nat], NEW c \in S,
         \A d \in S \ {c} : m[d] = l[d], IsFiniteSet(Credits(l, S))
  PROVE  /\ IsFiniteSet(Credits(m, S))
         /\ Cardinality(Credits(m, S)) = Cardinality(Credits(l, S)) - l[c] + m[c]
<1>1. Credits(m, S \ {c}) = Credits(l, S \ {c})
  BY DEF Credits
<1>2. /\ IsFiniteSet(Credits(l, S \ {c})) /\ Cardinality(Credits(l, S \ {c})) \in Nat
      /\ Cardinality(Credits(l, S)) = Cardinality(Credits(l, S \ {c})) + l[c]
  <2>1. {c} \subseteq S /\ l[c] \in Nat
    OBVIOUS
  <2>2. Cardinality(Credits(l, {c})) = l[c]
    BY <2>1, CreditsOfOne
  <2>3. /\ IsFiniteSet(Credits(l, S \ {c})) /\ Cardinality(Credits(l, S \ {c})) \in Nat
        /\ Cardinality(Credits(l, S))
             = Cardinality(Credits(l, S \ {c})) + Cardinality(Credits(l, {c}))
    BY <2>1, CreditsWithout
  <2> QED BY <2>2, <2>3
<1>3. m[c] \in Nat /\ l[c] \in Nat
  OBVIOUS
<1>4. IsFiniteSet(Credits(m, {c})) /\ Cardinality(Credits(m, {c})) = m[c]
  BY <1>3, CreditsOfOne
<1>5. S = (S \ {c}) \union {c} /\ (S \ {c}) \cap {c} = {}
  OBVIOUS
<1>6. /\ IsFiniteSet(Credits(m, S))
      /\ Cardinality(Credits(m, S)) = Cardinality(Credits(m, S \ {c})) + m[c]
  <2>1. (S \ {c}) \cap {c} = {} /\ IsFiniteSet(Credits(m, S \ {c})) /\ IsFiniteSet(Credits(m, {c}))
    BY <1>1, <1>2, <1>4
  <2>2. /\ IsFiniteSet(Credits(m, (S \ {c}) \union {c}))
        /\ Cardinality(Credits(m, (S \ {c}) \union {c}))
             = Cardinality(Credits(m, S \ {c})) + Cardinality(Credits(m, {c}))
    BY <2>1, CreditsApart, Zenon
  <2> QED BY <1>4, <1>5, <2>2
<1> QED BY <1>1, <1>2, <1>3, <1>6

(* Several leases end at once.                                             *)
LEMMA LeasesEnd ==
  ASSUME NEW S, NEW l \in [S -> Nat], NEW cs, cs \subseteq S, NEW m,
         m = [c \in S |-> IF c \in cs THEN 0 ELSE l[c]], IsFiniteSet(Credits(l, S))
  PROVE  /\ IsFiniteSet(Credits(m, S))
         /\ Cardinality(Credits(m, S)) = Cardinality(Credits(l, S)) - Cardinality(Credits(l, cs))
<1>1. Credits(m, S) = Credits(l, S \ cs)
  <2>1. \A c \in S \ cs : m[c] = l[c]
    OBVIOUS
  <2>2. \A c \in cs : 1 .. m[c] = {}
    OBVIOUS
  <2>3. Credits(m, S \ cs) = Credits(l, S \ cs)
    BY <2>1 DEF Credits
  <2>4. Credits(m, S) = Credits(m, S \ cs)
    BY <2>2 DEF Credits
  <2> QED BY <2>3, <2>4
<1>2. /\ IsFiniteSet(Credits(l, S \ cs))
      /\ Cardinality(Credits(l, S \ cs)) \in Nat /\ Cardinality(Credits(l, cs)) \in Nat
      /\ Cardinality(Credits(l, S)) = Cardinality(Credits(l, S \ cs)) + Cardinality(Credits(l, cs))
  BY CreditsWithout
<1> QED BY <1>1, <1>2

-----------------------------------------------------------------------------
LEMMA InitService == Init => ServiceInv
<1> SUFFICES ASSUME Init PROVE ServiceInv
  OBVIOUS
<1>1. Types
  BY DEF Init, Types, PcLabels
<1>2. Range(queue) = {} /\ job \notin Calls
  BY ServiceAssumption DEF Init, Range
<1>3. Sent /\ AnswersFree /\ Held
  BY <1>2 DEF Init, Sent, AnswersFree, Held, Absent, Results
<1> QED BY <1>1, <1>3 DEF ServiceInv

LEMMA CostFacts ==
  /\ Cost \in [Calls -> Nat]
  /\ \A c \in Calls : Kind[c] = "snapshot" => Cost[c] = 0
  /\ Stop \notin Calls /\ Idle \notin Calls
  BY ServiceAssumption

(* Steps of a client.                                                      *)
LEMMA ClientKeeps ==
  ASSUME ServiceInv, NEW c \in Calls, ClientStep(c) \/ Cancel(c)
  PROVE  ServiceInv'
<1> USE CostFacts DEF ServiceInv, client, credit, owner, Goto, Absent, Results
<1>1. CASE Begin(c) \/ Cancel(c)
  <2>1. UNCHANGED <<outcome, lease, queue, worker, job, answer>>
    BY <1>1 DEF Begin, Cancel
  <2>2. Types' /\ AnswersFree'
    BY <1>1, <2>1 DEF Begin, Cancel, Types, AnswersFree, PcLabels
  <2>3. Held' /\ Sent'
    BY <1>1, <2>1 DEF Begin, Cancel, Types, Held, InHand, Sent
  <2> QED BY <2>2, <2>3
<1>2. CASE Reserve(c)
  <2>1. Types'
    BY <1>2 DEF Reserve, Types, PcLabels
  <2>2. outcome[c] = Absent /\ c \notin Range(queue) /\ job # c
    BY <1>2 DEF Reserve, Sent
  <2>3. AnswersFree'
    BY <1>2, <2>2 DEF Reserve, AnswersFree, Types
  <2>4. Held' /\ Sent'
    BY <1>2, <2>2 DEF Reserve, Types, Held, InHand, Sent
  <2> QED BY <2>1, <2>3, <2>4
<1>3. CASE EncodeFails(c) \/ SendDisconnected(c) \/ DropHit(c)
  <2>1. /\ pc' = [pc EXCEPT ![c] = "done"] /\ lease' = [lease EXCEPT ![c] = 0]
        /\ outcome' = outcome \/ \E r : outcome' = [outcome EXCEPT ![c] = r]
        /\ UNCHANGED <<cancelled, queue, worker, job, answer, service>>
    BY <1>3 DEF EncodeFails, SendDisconnected, DropHit, Answered, Release
  <2>2. Types'
    BY <2>1 DEF Types, PcLabels
  <2>3. AnswersFree' /\ Held'
    BY <2>1 DEF AnswersFree, Held, InHand, Types
  <2>4. Sent'
    BY <2>1 DEF Sent, Types
  <2> QED BY <2>2, <2>3, <2>4
<1>4. CASE Send(c)
  <2>1. queue' \in Seq(Calls \union {Stop}) /\ Range(queue) \subseteq Range(queue')
        /\ c \in Range(queue')
    BY <1>4, RangeAppend DEF Send, Types
  <2>2. \A e \in Range(queue') : e = c \/ e \in Range(queue)
    <3>1. queue \in Seq(Calls \union {Stop}) /\ c \in Calls \union {Stop}
      BY DEF Types
    <3>2. \A e \in Range(Append(queue, c)) : e = c \/ e \in Range(queue)
      BY <3>1, AppendOnly, Zenon
    <3>3. queue' = Append(queue, c)
      BY <1>4 DEF Send
    <3> QED BY <3>2, <3>3, Zenon
  <2>3. Types' /\ AnswersFree'
    BY <1>4, <2>1 DEF Send, Types, AnswersFree, PcLabels
  <2>4. Held' /\ Sent'
    BY <1>4, <2>1, <2>2 DEF Send, Held, InHand, Sent, Types
  <2> QED BY <2>3, <2>4
<1>5. CASE GiveUp(c)
  <2>1. /\ pc' = [pc EXCEPT ![c] = "done"] /\ outcome' = [outcome EXCEPT ![c] = "cancelled"]
        /\ UNCHANGED <<cancelled, queue, worker, job, answer, service>>
        /\ \/ pc[c] = "wait" /\ UNCHANGED lease
           \/ pc[c] # "wait" /\ lease' = [lease EXCEPT ![c] = 0]
    BY <1>5 DEF GiveUp, Answered, Release
  <2>2. Types'
    BY <2>1 DEF Types, PcLabels
  <2>3. Sent'
    BY <2>1 DEF Sent, Types
  <2>4. AnswersFree'
    BY <2>1 DEF AnswersFree, Types
  <2>5. Held'
    BY <2>1 DEF Held, InHand, Types
  <2> QED BY <2>2, <2>3, <2>4, <2>5
<1>6. CASE WaitDisconnected(c)
  <2>1. /\ pc' = [pc EXCEPT ![c] = "done"] /\ outcome' = [outcome EXCEPT ![c] = "unavailable"]
        /\ pc[c] = "wait" /\ job # c /\ c \notin Range(queue)
        /\ UNCHANGED <<lease, cancelled, queue, worker, job, answer, service>>
    BY <1>6 DEF WaitDisconnected, Answered
  <2>2. Types' /\ AnswersFree'
    BY <2>1 DEF Types, AnswersFree, PcLabels
  <2>3. Sent' /\ Held'
    BY <2>1 DEF Sent, Types, Held, InHand
  <2> QED BY <2>2, <2>3
<1> QED BY <1>1, <1>2, <1>3, <1>4, <1>5, <1>6 DEF ClientStep

(* Steps of the owner thread.                                              *)
LEMMA WorkerKeeps ==
  ASSUME ServiceInv, WorkerStep
  PROVE  ServiceInv'
<1> USE CostFacts DEF ServiceInv, client, credit, owner, Goto, Absent, Results
<1>1. CASE Receive
  <2>1. queue' \in Seq(Calls \union {Stop}) /\ job' \in Calls
        /\ (\A e \in Range(queue) : e = job' \/ e \in Range(queue'))
        /\ (\A e \in Range(queue') : e \in Range(queue)) /\ job' \in Range(queue)
    BY <1>1, RangeTail DEF Receive, Types
  <2>2. job = Idle
    BY <1>1 DEF Receive, Types
  <2>3. Types' /\ AnswersFree'
    BY <1>1, <2>1 DEF Receive, Types, AnswersFree, PcLabels
  <2>4. Held' /\ Sent'
    BY <1>1, <2>1, <2>2 DEF Receive, Held, InHand, Sent, Types
  <2> QED BY <2>3, <2>4
<1>2. CASE WorkCancelled \/ WorkProbe \/ WorkPersist \/ WorkSnapshot
  <2>1. job \in Calls /\ worker' = "respond" /\ UNCHANGED <<client, queue, job>>
    BY <1>2 DEF WorkCancelled, WorkProbe, WorkPersist, WorkSnapshot, Answer, Types
  <2>3. lease' = lease \/ lease' = [lease EXCEPT ![job] = 0]
    BY <1>2 DEF WorkCancelled, WorkProbe, WorkPersist, WorkSnapshot, Release
  <2>4. answer' = "hit" \/ lease'[job] = 0
    BY <1>2, <2>1
    DEF WorkCancelled, WorkProbe, WorkPersist, WorkSnapshot, Release, Answer, Types, AnswersFree
  <2>5. Types' /\ Sent'
    BY <2>1, <2>3 DEF Types, Sent, PcLabels
  <2>6. AnswersFree'
    BY <2>1, <2>3, <2>4 DEF AnswersFree, Types
  <2>7. Held'
    BY <2>1, <2>3 DEF Held, InHand, Types
  <2> QED BY <2>5, <2>6, <2>7
<1>3. CASE Respond
  <2>1. job \in Calls
    BY <1>3 DEF Respond, Types
  <2>2. Types' /\ Sent'
    <3>1. pc' = [pc EXCEPT ![job] = "holding"] \/ pc' = [pc EXCEPT ![job] = "done"]
      BY <1>3 DEF Respond
    <3>2. Types'
      BY <1>3, <2>1, <3>1 DEF Respond, Types, PcLabels
    <3>3. Sent'
      BY <1>3, <2>1, <3>1 DEF Respond, Types, Sent
    <3> QED BY <3>2, <3>3
  <2>3. AnswersFree' /\ Held'
    BY <1>3, <2>1 DEF Respond, AnswersFree, Held, InHand, Types
  <2> QED BY <2>2, <2>3
<1>4. CASE Discard
  <2>1. /\ lease' = [lease EXCEPT ![job] = 0] /\ worker' = "receive" /\ job' = Idle
        /\ answer' = Absent /\ UNCHANGED <<client, cancelled, queue, service>>
    BY <1>4 DEF Discard, Release
  <2>2. Types' /\ Sent' /\ AnswersFree'
    BY <1>4, <2>1 DEF Discard, Types, Sent, AnswersFree, PcLabels
  <2>3. Held'
    BY <2>1 DEF Held, InHand, Types
  <2> QED BY <2>2, <2>3
<1>5. CASE WorkerExits \/ WorkerPanics
  <2>1. \E cs : ReleaseAll(cs) /\ Left \subseteq cs /\ (job \in Calls => job \in cs)
    <3>1. CASE WorkerExits
      <4>1. ReleaseAll(Left) /\ job \notin Calls
        BY <3>1 DEF WorkerExits, Types
      <4> QED BY <4>1
    <3>2. CASE WorkerPanics
      <4>1. ReleaseAll(Left \union {job})
        BY <3>2 DEF WorkerPanics
      <4>2. Left \subseteq Left \union {job} /\ job \in Left \union {job}
        OBVIOUS
      <4> QED BY <4>1, <4>2
    <3> QED BY <1>5, <3>1, <3>2
  <2>2. worker' = "exited" /\ queue' = <<>> /\ job' = Idle
        /\ UNCHANGED client
    BY <1>5 DEF WorkerExits, WorkerPanics, Types
  <2>3. Range(queue') = {}
    BY <2>2 DEF Range
  <2>4. lease' \in [Calls -> Nat] /\ \A d \in Calls :
          /\ lease'[d] = lease[d] \/ lease'[d] = 0
          /\ d \in Range(queue) \/ job = d => lease'[d] = 0
    <3>1. PICK cs : ReleaseAll(cs) /\ Left \subseteq cs /\ (job \in Calls => job \in cs)
      BY <2>1
    <3> QED BY <3>1 DEF ReleaseAll, Left, Types
  <2>5. Types' /\ Sent'
    BY <2>2, <2>3, <2>4 DEF Types, Sent, PcLabels
  <2>6. AnswersFree'
    BY <2>2, <2>4 DEF AnswersFree, Types
  <2>7. Held'
    <3>1. SUFFICES ASSUME NEW d \in Calls, lease'[d] > 0 PROVE InHand(d)'
      BY DEF Held
    <3>2. lease'[d] = lease[d] /\ d \notin Range(queue) /\ job # d
      BY <2>4, <3>1
    <3>3. pc[d] \in {"send", "holding"} /\ pc' = pc
      BY <2>2, <3>1, <3>2 DEF Held, InHand
    <3> QED BY <3>3 DEF InHand
  <2> QED BY <2>5, <2>6, <2>7
<1> QED BY <1>1, <1>2, <1>3, <1>4, <1>5 DEF WorkerStep

(* Steps of the holder of the service.                                     *)
LEMMA HolderKeeps ==
  ASSUME ServiceInv, ServiceStep
  PROVE  ServiceInv'
<1> USE CostFacts DEF ServiceInv, client, credit, owner
<1>1. CASE SendStop
  <2>1. queue' \in Seq(Calls \union {Stop}) /\ Range(queue) \subseteq Range(queue')
    BY <1>1, RangeAppend DEF SendStop, Types
  <2>2. \A e \in Range(queue') : e = Stop \/ e \in Range(queue)
    <3>1. queue \in Seq(Calls \union {Stop}) /\ Stop \in Calls \union {Stop}
      BY DEF Types
    <3>2. \A e \in Range(Append(queue, Stop)) : e = Stop \/ e \in Range(queue)
      BY <3>1, AppendOnly, Zenon
    <3>3. queue' = Append(queue, Stop)
      BY <1>1 DEF SendStop
    <3> QED BY <3>2, <3>3, Zenon
  <2> QED BY <1>1, <2>1, <2>2 DEF SendStop, Types, Sent, AnswersFree, Held, InHand
<1>2. CASE StopDisconnected \/ Join
  BY <1>2 DEF StopDisconnected, Join, Types, Sent, AnswersFree, Held, InHand
<1> QED BY <1>1, <1>2 DEF ServiceStep

LEMMA ServiceInductive == ServiceInv /\ [Next]_vars => ServiceInv'
<1> SUFFICES ASSUME ServiceInv, [Next]_vars PROVE ServiceInv'
  OBVIOUS
<1>1. CASE UNCHANGED vars
  BY <1>1 DEF vars, client, credit, owner, ServiceInv, Types, Sent, AnswersFree, Held, InHand
<1> QED BY <1>1, ClientKeeps, WorkerKeeps, HolderKeeps DEF Next, Finished

-----------------------------------------------------------------------------
(* The ledger at every step.                                               *)

LEMMA InitLedger == Init => Ledger
<1> SUFFICES ASSUME Init PROVE Ledger
  OBVIOUS
<1>1. \A c \in Calls : 1 .. lease[c] = {}
  BY DEF Init
<1>2. Credits(lease, Calls) = {}
  BY <1>1 DEF Credits
<1>3. Capacity \in Nat
  BY ServiceAssumption
<1>4. IsFiniteSet(Credits(lease, Calls)) /\ Cardinality(Credits(lease, Calls)) = 0
  BY <1>2, FS_EmptySet, Zenon
<1>5. reserved = 0 /\ reserved <= Capacity
  BY <1>3 DEF Init
<1> QED BY <1>4, <1>5 DEF Ledger

LEMMA LedgerLent == Ledger => reserved \in Nat /\ Capacity \in Nat
  BY FS_CardinalityType, ServiceAssumption DEF Ledger

LEMMA LedgerUnchanged ==
  ASSUME Ledger, UNCHANGED credit
  PROVE  Ledger'
  BY DEF Ledger, credit, Credits

LEMMA LedgerReleases ==
  ASSUME Types, Ledger, NEW c \in Calls, Release(c)
  PROVE  Ledger'
<1>1. lease \in [Calls -> Nat] /\ lease' = [lease EXCEPT ![c] = 0] /\ reserved' = reserved - lease[c]
  BY DEF Types, Release
<1>2. /\ IsFiniteSet(Credits(lease', Calls))
      /\ Cardinality(Credits(lease', Calls)) = Cardinality(Credits(lease, Calls)) - lease[c] + 0
  <2>1. /\ IsFiniteSet(Credits(lease, Calls))
        /\ lease \in [Calls -> Nat] /\ lease' \in [Calls -> Nat]
        /\ lease'[c] = 0 /\ \A d \in Calls \ {c} : lease'[d] = lease[d]
    BY <1>1 DEF Ledger
  <2>2. /\ IsFiniteSet(Credits(lease', Calls))
        /\ Cardinality(Credits(lease', Calls))
             = Cardinality(Credits(lease, Calls)) - lease[c] + lease'[c]
    BY <2>1, LeaseSet, Zenon
  <2> QED BY <2>1, <2>2
<1>3. reserved \in Nat /\ Capacity \in Nat /\ lease[c] \in Nat
  BY <1>1, LedgerLent
<1>4. reserved' = Cardinality(Credits(lease', Calls)) /\ reserved' <= Capacity
  BY <1>1, <1>2, <1>3 DEF Ledger
<1> QED BY <1>2, <1>4 DEF Ledger, Credits

LEMMA LedgerReleasesAll ==
  ASSUME Types, Ledger, NEW cs, cs \subseteq Calls, ReleaseAll(cs)
  PROVE  Ledger'
<1>1. /\ lease \in [Calls -> Nat]
      /\ lease' = [c \in Calls |-> IF c \in cs THEN 0 ELSE lease[c]]
      /\ reserved' = reserved - Cardinality(Credits(lease, cs))
  BY DEF Types, ReleaseAll
<1>2. /\ IsFiniteSet(Credits(lease', Calls))
      /\ Cardinality(Credits(lease', Calls))
           = Cardinality(Credits(lease, Calls)) - Cardinality(Credits(lease, cs))
  BY <1>1, LeasesEnd DEF Ledger
<1>3. reserved \in Nat /\ Capacity \in Nat /\ Cardinality(Credits(lease, cs)) \in Nat
  BY LedgerLent, CreditsWithout DEF Ledger
<1>4. reserved' = Cardinality(Credits(lease', Calls)) /\ reserved' <= Capacity
  BY <1>1, <1>2, <1>3 DEF Ledger
<1> QED BY <1>2, <1>4 DEF Ledger, Credits

LEMMA LedgerReserves ==
  ASSUME ServiceInv, Ledger, NEW c \in Calls, Reserve(c)
  PROVE  Ledger'
<1>1. /\ lease \in [Calls -> Nat] /\ Cost[c] \in Nat
      /\ lease' = [lease EXCEPT ![c] = Cost[c]]
      /\ reserved' = reserved + Cost[c] /\ reserved + Cost[c] <= Capacity
  BY CostFacts DEF ServiceInv, Types, Reserve
<1>2. lease[c] = 0
  BY <1>1 DEF ServiceInv, Held, InHand, Sent, Reserve
<1>3. /\ IsFiniteSet(Credits(lease', Calls))
      /\ Cardinality(Credits(lease', Calls)) = Cardinality(Credits(lease, Calls)) - lease[c] + Cost[c]
  <2>1. /\ IsFiniteSet(Credits(lease, Calls))
        /\ lease \in [Calls -> Nat] /\ lease' \in [Calls -> Nat]
        /\ lease'[c] = Cost[c] /\ \A d \in Calls \ {c} : lease'[d] = lease[d]
    BY <1>1 DEF Ledger
  <2>2. /\ IsFiniteSet(Credits(lease', Calls))
        /\ Cardinality(Credits(lease', Calls))
             = Cardinality(Credits(lease, Calls)) - lease[c] + lease'[c]
    BY <2>1, LeaseSet, Zenon
  <2> QED BY <2>1, <2>2
<1>4. reserved \in Nat /\ Capacity \in Nat
  BY LedgerLent
<1>5. reserved' = Cardinality(Credits(lease', Calls)) /\ reserved' <= Capacity
  BY <1>1, <1>2, <1>3, <1>4 DEF Ledger
<1> QED BY <1>3, <1>5 DEF Ledger, Credits

LEMMA LedgerInductive == ServiceInv /\ Ledger /\ [Next]_vars => Ledger'
<1> SUFFICES ASSUME ServiceInv, Ledger, [Next]_vars PROVE Ledger'
  OBVIOUS
<1> USE DEF ServiceInv
<1>1. ASSUME NEW c \in Calls, ClientStep(c) \/ Cancel(c) PROVE Ledger'
  <2>1. UNCHANGED credit \/ Release(c) \/ Reserve(c)
    BY <1>1 DEF ClientStep, Begin, EncodeFails, Send, SendDisconnected, GiveUp,
                WaitDisconnected, DropHit, Cancel
  <2> QED BY <2>1, LedgerUnchanged, LedgerReleases, LedgerReserves
<1>2. CASE WorkerStep
  <2>1. CASE Receive \/ Respond \/ WorkSnapshot
    BY <2>1, LedgerUnchanged DEF Receive, Respond, WorkSnapshot
  <2>2. CASE WorkCancelled \/ WorkProbe \/ WorkPersist \/ Discard
    <3>1. job \in Calls /\ (UNCHANGED credit \/ Release(job))
      BY <2>2 DEF WorkCancelled, WorkProbe, WorkPersist, Discard, Types
    <3> QED BY <3>1, LedgerUnchanged, LedgerReleases
  <2>3. CASE WorkerExits \/ WorkerPanics
    <3>1. Left \subseteq Calls
      BY DEF Types, Left, Range
    <3>2. CASE WorkerExits
      BY <3>1, <3>2, LedgerReleasesAll DEF WorkerExits
    <3>3. CASE WorkerPanics
      <4>1. Left \union {job} \subseteq Calls /\ ReleaseAll(Left \union {job})
        BY <3>1, <3>3 DEF WorkerPanics, Types
      <4> QED BY <4>1, LedgerReleasesAll
    <3> QED BY <2>3, <3>2, <3>3
  <2> QED BY <1>2, <2>1, <2>2, <2>3 DEF WorkerStep
<1>3. CASE ServiceStep \/ Finished \/ UNCHANGED vars
  <2>1. UNCHANGED credit
    BY <1>3 DEF ServiceStep, SendStop, StopDisconnected, Join, Finished, vars, credit
  <2> QED BY <2>1, LedgerUnchanged
<1> QED BY <1>1, <1>2, <1>3 DEF Next

-----------------------------------------------------------------------------
(* Credit is held by a command that is under way or by a hit in use, and   *)
(* by nothing else: at every step, after a panic and a shutdown too.       *)
THEOREM ServiceInvariance == Spec => []ServiceInv
<1> QED BY InitService, ServiceInductive, PTL DEF Spec

(* CreditsOwned: at every step the counter is what the calls hold, and     *)
(* what a call holds is in somebody's hands; a panic or a shutdown with    *)
(* commands still queued loses none. The counter stays within the capacity.*)
THEOREM CreditIsNeverLost == Spec => [](CreditsOwned /\ reserved <= Capacity)
<1>1. Init => ServiceInv /\ Ledger
  BY InitService, InitLedger
<1>2. (ServiceInv /\ Ledger) /\ [Next]_vars => (ServiceInv /\ Ledger)'
  BY ServiceInductive, LedgerInductive
<1>3. ServiceInv /\ Ledger => CreditsOwned /\ reserved <= Capacity
  BY DEF ServiceInv, Ledger, Held, CreditsOwned
<1> QED BY <1>1, <1>2, <1>3, PTL DEF Spec

(* ReleasedBeforeAnswer: whoever hears a result other than a hit finds the *)
(* memory of the call given back, for any number of clients.               *)
THEOREM AnswersComeReleased == Spec => []ReleasedBeforeAnswer
<1>1. ServiceInv => ReleasedBeforeAnswer
  BY DEF ServiceInv, AnswersFree, Results, ReleasedBeforeAnswer
<1> QED BY <1>1, ServiceInvariance, PTL

-----------------------------------------------------------------------------
(* Who waits is waiting for something.                                     *)
Waiting ==
  /\ \A c \in Calls : pc[c] = "wait" => worker = "exited" \/ job = c \/ c \in Range(queue)
  /\ worker = "respond" => answer # "unavailable"
  /\ UnavailableOnceEnded

LEMMA InitWaiting == Init => Waiting
BY DEF Init, Waiting, UnavailableOnceEnded, Absent

LEMMA ClientWaits ==
  ASSUME ServiceInv, Waiting, NEW c \in Calls, ClientStep(c) \/ Cancel(c)
  PROVE  Waiting'
<1> USE DEF Waiting, UnavailableOnceEnded, owner, client
<1>1. pc \in [Calls -> PcLabels] /\ DOMAIN outcome = Calls /\ queue \in Seq(Calls \union {Stop})
  BY DEF ServiceInv, Types
<1>2. CASE Send(c)
  <2>1. Range(queue) \subseteq Range(queue') /\ c \in Range(queue')
    BY <1>1, <1>2, RangeAppend DEF Send
  <2> QED BY <1>1, <1>2, <2>1 DEF Send, Goto
<1>3. CASE SendDisconnected(c)
  BY <1>1, <1>3 DEF SendDisconnected, Answered, Goto
<1>4. CASE WaitDisconnected(c)
  BY <1>1, <1>4 DEF WaitDisconnected, Answered, Goto
<1>5. CASE EncodeFails(c) \/ GiveUp(c)
  <2>1. UNCHANGED <<queue, worker, job, answer>> /\ pc' = [pc EXCEPT ![c] = "done"]
        /\ \E r \in {"error", "cancelled"} : outcome' = [outcome EXCEPT ![c] = r]
    BY <1>5 DEF EncodeFails, GiveUp, Answered, Goto
  <2> QED BY <1>1, <2>1
<1>6. CASE Begin(c) \/ Reserve(c) \/ DropHit(c) \/ Cancel(c)
  <2>1. /\ UNCHANGED <<outcome, queue, worker, job, answer>>
        /\ pc' = pc \/ \E at \in {"send", "reserve", "done"} : pc' = [pc EXCEPT ![c] = at]
    BY <1>6 DEF Begin, Reserve, DropHit, Cancel, Goto
  <2> QED BY <1>1, <2>1
<1> QED BY <1>2, <1>3, <1>4, <1>5, <1>6 DEF ClientStep

LEMMA WorkerAnswers ==
  ASSUME ServiceInv, Waiting, WorkerStep
  PROVE  Waiting'
<1> USE DEF Waiting, UnavailableOnceEnded, owner, client
<1>1. /\ pc \in [Calls -> PcLabels] /\ DOMAIN outcome = Calls /\ queue \in Seq(Calls \union {Stop})
      /\ worker \in {"receive", "work", "respond", "exited"}
      /\ worker = "receive" => job = Idle
      /\ worker \in {"work", "respond"} => job \in Calls
  BY DEF ServiceInv, Types
<1>2. CASE Receive
  <2>1. queue \in Seq(Calls \union {Stop}) /\ queue # <<>>
    BY <1>1, <1>2 DEF Receive
  <2>2. \A e \in Range(queue) : e = Head(queue) \/ e \in Range(Tail(queue))
    BY <2>1, RangeTail, Zenon
  <2>3. \A c \in Calls : c \in Range(queue) => job' = c \/ c \in Range(queue')
    BY <1>2, <2>2 DEF Receive
  <2>4. UNCHANGED <<pc, outcome, answer>> /\ worker = "receive" /\ worker' = "work" /\ job = Idle
    BY <1>1, <1>2 DEF Receive
  <2>5. \A c \in Calls : job # c
    BY <2>4, ServiceAssumption
  <2> QED BY <2>3, <2>4, <2>5
<1>3. CASE WorkCancelled \/ WorkProbe \/ WorkPersist \/ WorkSnapshot
  <2>1. UNCHANGED <<pc, outcome, queue, job>> /\ worker = "work" /\ worker' = "respond"
        /\ answer' # "unavailable"
    BY <1>3 DEF WorkCancelled, WorkProbe, WorkPersist, WorkSnapshot, Answer
  <2> QED BY <1>1, <2>1
<1>4. CASE Respond
  <2>1. /\ UNCHANGED queue /\ worker = "respond" /\ worker' = "receive"
        /\ outcome' = [outcome EXCEPT ![job] = answer]
        /\ pc'[job] # "wait" /\ \A c \in Calls \ {job} : pc'[c] = pc[c]
    BY <1>1, <1>4 DEF Respond, Goto
  <2>2. ASSUME NEW c \in Calls
        PROVE  /\ pc'[c] = "wait" => c \in Range(queue')
               /\ outcome'[c] # "unavailable"
    <3>1. CASE c = job
      BY <1>1, <2>1, <3>1
    <3>2. CASE c # job
      BY <1>1, <2>1, <3>2
    <3> QED BY <3>1, <3>2
  <2> QED BY <2>1, <2>2
<1>5. CASE Discard
  BY <1>1, <1>5 DEF Discard
<1>6. CASE WorkerExits \/ WorkerPanics
  BY <1>6 DEF WorkerExits, WorkerPanics
<1> QED BY <1>2, <1>3, <1>4, <1>5, <1>6 DEF WorkerStep

LEMMA WaitingInductive == ServiceInv /\ Waiting /\ [Next]_vars => Waiting'
<1> SUFFICES ASSUME ServiceInv, Waiting, [Next]_vars PROVE Waiting'
  OBVIOUS
<1>1. CASE SendStop
  <2>1. Range(queue) \subseteq Range(queue')
    BY <1>1, RangeAppend DEF SendStop, ServiceInv, Types
  <2> QED BY <1>1, <2>1 DEF SendStop, owner, client, Waiting, UnavailableOnceEnded
<1>2. CASE StopDisconnected \/ Join \/ Finished \/ UNCHANGED vars
  BY <1>2 DEF StopDisconnected, Join, Finished, vars, owner, client, Waiting, UnavailableOnceEnded
<1> QED BY <1>1, <1>2, ClientWaits, WorkerAnswers DEF Next, ServiceStep

(* UnavailableOnceEnded: the owner thread answers every command it takes,  *)
(* so that no client hears of an unavailable service while it lives.       *)
THEOREM EveryCommandIsAnswered == Spec => []UnavailableOnceEnded
<1>1. Init => Waiting
  BY InitWaiting
<1>2. ServiceInv /\ Waiting /\ [Next]_vars => Waiting'
  BY WaitingInductive
<1>3. Waiting => UnavailableOnceEnded
  BY DEF Waiting
<1> QED BY <1>1, <1>2, <1>3, ServiceInvariance, PTL DEF Spec
=============================================================================
