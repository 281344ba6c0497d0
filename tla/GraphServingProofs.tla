------------------------- MODULE GraphServingProofs -------------------------
(***************************************************************************)
(* Theorems about GraphServing, for any number of graphs, writers and      *)
(* requests: publishing implements PublishedGraph, answers are fresh, and  *)
(* the cache stays bounded. The first two rest on ServingInv. Its first    *)
(* part bounds what a power loss may bring back by what writers know of: a *)
(* version is at least the confirmed one, and a writer that synced has     *)
(* seen to its own. Its second part follows a request: while the server    *)
(* runs the file never goes back, so what is read after the stamp is no    *)
(* older than the stamp. CacheInv adds the eviction order, which may hold  *)
(* one path too many while the default graph is in it.                     *)
(***************************************************************************)
EXTENDS GraphServing, FiniteSetTheorems, SequenceTheorems, TLAPS

WriterLabels  == {"idle", "written", "flushed", "renamed", "synced"}
RequestLabels == {"idle", "lookup", "load", "insert", "answered"}

Types ==
  /\ file \in [Graphs -> Nat] /\ last \in [Graphs -> Nat]
  /\ confirmed \in [Graphs -> Nat]
  /\ survivors \in [Graphs -> SUBSET Nat] /\ unflushed \in [Graphs -> SUBSET Nat]
  /\ wpc \in [Writers -> WriterLabels]
  /\ target \in [Writers -> Graphs] /\ mine \in [Writers -> Nat]
  /\ values \in [Graphs -> [stamp : Nat, graph : Nat]]
  /\ rpc \in [Requests -> RequestLabels]
  /\ path \in [Requests -> Graphs] /\ asDefault \in [Requests -> BOOLEAN]
  /\ stamp \in [Requests -> Nat] /\ graph \in [Requests -> Nat]

(* What the directory may name after a power loss is complete, and between *)
(* the confirmed version and the last one.                                 *)
DirectorySound ==
  \A g \in Graphs :
    /\ unflushed[g] = {}
    /\ file[g] \in survivors[g]
    /\ \A v \in survivors[g] : confirmed[g] <= v /\ v <= last[g]

WritersSound ==
  \A w \in Writers :
    /\ wpc[w] \in {"renamed", "synced"} => mine[w] <= file[target[w]]
    /\ wpc[w] = "synced" => \A v \in survivors[target[w]] : mine[w] <= v

RequestsSound ==
  /\ \A g \in Graphs : values[g].stamp <= values[g].graph
  /\ \A r \in Requests :
       /\ rpc[r] \in {"lookup", "load"} => stamp[r] <= file[path[r]]
       /\ rpc[r] \in {"insert", "answered"} => stamp[r] <= graph[r]

ServingInv == Types /\ DirectorySound /\ WritersSound /\ RequestsSound

(* Nothing has been published by the writers at first.                     *)
LEMMA InitServing == Init => ServingInv
<1> SUFFICES ASSUME Init PROVE ServingInv
  OBVIOUS
<1>1. Types
  BY ServingAssumption DEF Init, Types, NoEntry, WriterLabels, RequestLabels
<1>2. DirectorySound
  BY DEF Init, DirectorySound
<1>3. WritersSound /\ RequestsSound
  BY DEF Init, WritersSound, RequestsSound, NoEntry
<1> QED BY <1>1, <1>2, <1>3 DEF ServingInv

(* Steps of a writer.                                                      *)
LEMMA WriterKeeps ==
  ASSUME ServingInv, NEW w \in Writers, WriterStep(w)
  PROVE  ServingInv'
<1> USE DEF ServingInv, fileVars, cacheVars, reqVars
<1>1. CASE \E g \in Published : Write(w, g)
  <2>1. PICK g \in Graphs : Write(w, g)
    BY <1>1, ServingAssumption
  <2>2. Types'
    BY <2>1 DEF Write, Types, WriterGoto, WriterLabels
  <2>3. DirectorySound' /\ RequestsSound'
    BY <2>1 DEF Write, DirectorySound, RequestsSound
  <2>4. WritersSound'
    BY <2>1 DEF Write, WritersSound, WriterGoto, Types
  <2> QED BY <2>2, <2>3, <2>4
<1>2. CASE Flush(w)
  <2>1. Types'
    BY <1>2 DEF Flush, Types, WriterGoto, WriterLabels
  <2>2. DirectorySound' /\ RequestsSound'
    BY <1>2 DEF Flush, DirectorySound, RequestsSound
  <2>3. WritersSound'
    BY <1>2 DEF Flush, WritersSound, WriterGoto, Types
  <2> QED BY <2>1, <2>2, <2>3
<1>3. CASE Replace(w)
  <2> DEFINE g == target[w]
             v == last[g] + 1
  <2>1. g \in Graphs /\ v \in Nat /\ file[g] < v
    BY DEF Types, DirectorySound
  <2>2. Types'
    BY <1>3, <2>1 DEF Replace, Types, WriterGoto, WriterLabels
  <2>3. DirectorySound'
    BY <1>3, <2>1 DEF Replace, DirectorySound, Types
  <2>4. WritersSound'
    BY <1>3, <2>1 DEF Replace, WritersSound, WriterGoto, Types
  <2>5. RequestsSound'
    BY <1>3, <2>1 DEF Replace, RequestsSound, Types
  <2> QED BY <2>2, <2>3, <2>4, <2>5
<1>4. CASE SyncDirectory(w)
  <2>1. Types'
    BY <1>4 DEF SyncDirectory, Types, WriterGoto, WriterLabels
  <2>2. DirectorySound' /\ RequestsSound'
    BY <1>4 DEF SyncDirectory, DirectorySound, RequestsSound, Types
  <2>3. WritersSound'
    BY <1>4 DEF SyncDirectory, WritersSound, DirectorySound, WriterGoto, Types
  <2> QED BY <2>1, <2>2, <2>3
<1>5. CASE Confirm(w)
  <2>1. Types'
    BY <1>5, ServingAssumption DEF Confirm, Types, WriterEnds, WriterGoto, WriterLabels
  <2>2. DirectorySound'
    BY <1>5 DEF Confirm, DirectorySound, WritersSound, Types
  <2>3. WritersSound' /\ RequestsSound'
    BY <1>5 DEF Confirm, WritersSound, RequestsSound, WriterEnds, WriterGoto, Types
  <2> QED BY <2>1, <2>2, <2>3
<1>6. CASE GiveUp(w)
  <2>1. Types'
    BY <1>6, ServingAssumption DEF GiveUp, Types, WriterEnds, WriterGoto, WriterLabels
  <2>2. DirectorySound' /\ WritersSound' /\ RequestsSound'
    BY <1>6 DEF GiveUp, DirectorySound, WritersSound, RequestsSound, WriterEnds, WriterGoto, Types
  <2> QED BY <2>1, <2>2
<1> QED BY <1>1, <1>2, <1>3, <1>4, <1>5, <1>6 DEF WriterStep

(* Steps of a request leave the files and the writers alone.               *)
LEMMA RequestKeeps ==
  ASSUME ServingInv, NEW r \in Requests, RequestStep(r)
  PROVE  ServingInv'
<1> USE DEF ServingInv, fileVars, writerVars
<1>1. UNCHANGED <<fileVars, writerVars>>
  BY DEF RequestStep, Stat, Hit, Miss, Read, Insert
<1>2. DirectorySound' /\ WritersSound'
  BY <1>1 DEF DirectorySound, WritersSound
<1>3. Types' /\ RequestsSound'
  <2>1. ASSUME NEW g \in Graphs, NEW default \in BOOLEAN, Stat(r, g, default)
        PROVE  Types' /\ RequestsSound'
    BY <2>1 DEF Stat, Types, RequestsSound, RequestGoto, RequestLabels, cacheVars
  <2>2. CASE Hit(r)
    BY <2>2, ServingAssumption DEF Hit, Types, RequestsSound, Returns, RequestGoto, RequestLabels
  <2>3. CASE Miss(r)
    BY <2>3 DEF Miss, Types, RequestsSound, RequestGoto, RequestLabels
  <2>4. CASE Read(r)
    <3>1. CASE rpc'[r] = "insert"
      <4>1. graph' = [graph EXCEPT ![r] = file[path[r]]] /\ RequestGoto(r, "insert")
            /\ UNCHANGED <<path, asDefault, stamp>>
        BY <2>4, <3>1, ServingAssumption DEF Read, Returns, RequestGoto, Types
      <4>2. stamp[r] <= file[path[r]]
        BY <2>4 DEF Read, RequestsSound
      <4> QED
        BY <1>1, <2>4, <4>1, <4>2 DEF Read, Types, RequestsSound, RequestGoto, RequestLabels
    <3>2. CASE rpc'[r] # "insert"
      <4>1. stamp' = [stamp EXCEPT ![r] = 0] /\ Returns(r, "idle") /\ UNCHANGED graph
        BY <2>4, <3>2 DEF Read, RequestGoto, Types
      <4> QED
        BY <1>1, <2>4, <4>1, ServingAssumption
        DEF Read, Types, RequestsSound, Returns, RequestGoto, RequestLabels
    <3> QED BY <3>1, <3>2
  <2>5. CASE Insert(r)
    <3>1. \A g \in Graphs : values'[g] \in {NoEntry, values[g], [stamp |-> stamp[r], graph |-> graph[r]]}
      BY <2>5 DEF Insert
    <3>2. values' \in [Graphs -> [stamp : Nat, graph : Nat]]
      BY <2>5 DEF Insert, Types, NoEntry
    <3>3. \A g \in Graphs : values'[g].stamp <= values'[g].graph
      BY <2>5, <3>1 DEF Insert, Types, RequestsSound, NoEntry
    <3> QED
      BY <2>5, <3>2, <3>3, ServingAssumption
      DEF Insert, Types, RequestsSound, Returns, RequestGoto, RequestLabels
  <2> QED BY <2>1, <2>2, <2>3, <2>4, <2>5 DEF RequestStep
<1> QED BY <1>2, <1>3

(* A server that stops forgets its cache and its requests.                 *)
LEMMA StoppedSound ==
  ASSUME Types, StopServer
  PROVE  /\ (values \in [Graphs -> [stamp : Nat, graph : Nat]])'
         /\ (rpc \in [Requests -> RequestLabels])' /\ (path \in [Requests -> Graphs])'
         /\ (asDefault \in [Requests -> BOOLEAN])'
         /\ (stamp \in [Requests -> Nat])' /\ (graph \in [Requests -> Nat])'
         /\ RequestsSound'
  BY ServingAssumption DEF StopServer, RequestsSound, NoEntry, RequestLabels

(* Power may fail at any step: no writer and no request outlives it.       *)
LEMMA PowerLossKeeps ==
  ASSUME ServingInv, PowerLoss
  PROVE  ServingInv'
<1> USE DEF ServingInv
<1>1. \A g \in Graphs : file'[g] \in survivors[g]
  BY DEF PowerLoss, Remains, DirectorySound
<1>2. file' \in [Graphs -> Nat]
  BY <1>1 DEF PowerLoss, Types
<1>3. Types'
  BY <1>2, StoppedSound, ServingAssumption DEF PowerLoss, Types, WriterLabels
<1>4. DirectorySound'
  BY <1>1 DEF PowerLoss, DirectorySound
<1>5. WritersSound' /\ RequestsSound'
  BY StoppedSound DEF PowerLoss, WritersSound
<1> QED BY <1>3, <1>4, <1>5

(* ServingInv is an invariant of every step.                               *)
LEMMA NextKeeps == ServingInv /\ [Next]_vars => ServingInv'
<1> SUFFICES ASSUME ServingInv, [Next]_vars PROVE ServingInv'
  OBVIOUS
<1>1. CASE Restart
  <2>1. UNCHANGED <<fileVars, writerVars>> /\ StopServer
    BY <1>1 DEF Restart
  <2>2. Types'
    BY <2>1, StoppedSound DEF ServingInv, Types, fileVars, writerVars
  <2>3. DirectorySound' /\ WritersSound' /\ RequestsSound'
    BY <2>1, StoppedSound DEF ServingInv, DirectorySound, WritersSound, fileVars, writerVars
  <2> QED BY <2>2, <2>3 DEF ServingInv
<1>2. CASE UNCHANGED vars
  BY <1>2 DEF vars, fileVars, writerVars, cacheVars, reqVars, ServingInv, Types, DirectorySound,
     WritersSound, RequestsSound
<1> QED BY <1>1, <1>2, WriterKeeps, RequestKeeps, PowerLossKeeps DEF Next

(* ServingInv holds of every reachable state.                              *)
THEOREM ServingInvariance == Spec => []ServingInv
<1>1. Init => ServingInv
  BY InitServing
<1>2. ServingInv /\ [Next]_vars => ServingInv'
  BY NextKeeps
<1> QED BY <1>1, <1>2, PTL DEF Spec

(* An answer is at least as new as the file was when its request arrived   *)
(* (load_graph_context).                                                   *)
THEOREM AnswersAreFresh == Spec => []FreshAnswer
<1>1. ServingInv => FreshAnswer
  BY DEF ServingInv, Types, RequestsSound, FreshAnswer
<1> QED BY <1>1, ServingInvariance, PTL

-----------------------------------------------------------------------------
(* The refinement.                                                         *)

LEMMA InitRefines == Init => Abstract!Init
  BY DEF Init, Abstract!Init

(* The rename publishes, the return of a writer confirms, a power loss is  *)
(* one, and no other step shows.                                           *)
LEMMA StepRefines ==
  ServingInv /\ [Next]_vars => [Abstract!Next]_(Abstract!vars)
<1> SUFFICES ASSUME ServingInv, [Next]_vars
             PROVE  Abstract!Next \/ UNCHANGED Abstract!vars
  OBVIOUS
<1> USE DEF ServingInv, Abstract!vars, fileVars
<1>1. ASSUME NEW w \in Writers, Replace(w)
      PROVE  Abstract!Next
  <2>1. target[w] \in Graphs
    BY DEF Types
  <2>2. Abstract!Publish(target[w])
    BY <1>1 DEF Replace, Abstract!Publish
  <2> QED BY <2>1, <2>2 DEF Abstract!Next
<1>2. ASSUME NEW w \in Writers, Confirm(w)
      PROVE  Abstract!Next
  <2> DEFINE g == target[w]
             v == IF mine[w] > confirmed[g] THEN mine[w] ELSE confirmed[g]
  <2>1. g \in Graphs
    BY DEF Types
  <2>2. confirmed[g] <= file[g] /\ mine[w] <= file[g]
    BY <1>2, <2>1 DEF Confirm, DirectorySound, WritersSound
  <2>3. v \in confirmed[g] .. file[g]
    BY <2>1, <2>2 DEF Types
  <2>4. Abstract!Confirm(g)
    BY <1>2, <2>3 DEF Confirm, Abstract!Confirm
  <2> QED BY <2>1, <2>4 DEF Abstract!Next
<1>3. CASE PowerLoss
  <2>1. \A g \in Graphs : file'[g] \in survivors[g]
    BY <1>3 DEF PowerLoss, Remains, DirectorySound
  <2>2. file' \in [Graphs -> Nat]
    BY <1>3, <2>1 DEF PowerLoss, Types
  <2>3. \A g \in Graphs : file'[g] \in confirmed[g] .. last[g]
    BY <2>1 DEF Types, DirectorySound
  <2> QED BY <1>3, <2>2, <2>3 DEF PowerLoss, Abstract!PowerLoss, Abstract!Next
<1>4. ASSUME NEW w \in Writers, WriterStep(w), ~Replace(w), ~Confirm(w)
      PROVE  UNCHANGED Abstract!vars
  BY <1>4 DEF WriterStep, Write, Flush, SyncDirectory, GiveUp
<1>5. ASSUME NEW r \in Requests, RequestStep(r)
      PROVE  UNCHANGED Abstract!vars
  BY <1>5 DEF RequestStep, Stat, Hit, Miss, Read, Insert
<1>6. CASE Restart
  BY <1>6 DEF Restart
<1>7. CASE UNCHANGED vars
  BY <1>7 DEF vars
<1> QED BY <1>1, <1>2, <1>3, <1>4, <1>5, <1>6, <1>7 DEF Next

(* atomic_write_destination keeps the promise of PublishedGraph: complete  *)
(* versions only, and none older than what a writer was told of, whatever  *)
(* writers run at once and wherever they and the power stop.               *)
THEOREM PublicationIsSafe == Spec => PublicationSafe
<1>1. Init => Abstract!Init
  BY InitRefines
<1>2. ServingInv /\ [Next]_vars => [Abstract!Next]_(Abstract!vars)
  BY StepRefines
<1> QED BY <1>1, <1>2, ServingInvariance, PTL DEF Spec, PublicationSafe, Abstract!Spec

-----------------------------------------------------------------------------
(* The cache.                                                              *)

(* The eviction order holds one path more than MaxContexts only while the  *)
(* default graph, kept anyway, waits in it because a project named it.     *)
OrderBounded ==
  \/ Len(order) <= MaxContexts
  \/ Default \in ToSet(order) /\ Len(order) <= MaxContexts + 1

OrderSound ==
  /\ order \in Seq(Graphs) /\ IsInjective(order)
  /\ ToSet(order) \subseteq Cached
  /\ Cached \subseteq ToSet(order) \union {Default}

(* A request that works on the cache saw a file, and asks as the default   *)
(* one for the default graph only.                                         *)
RequestsKnow ==
  \A r \in Requests :
    rpc[r] \in {"lookup", "load", "insert"} =>
      stamp[r] > 0 /\ (asDefault[r] => path[r] = Default)

CacheInv == ServingInv /\ OrderSound /\ OrderBounded /\ RequestsKnow

LEMMA OneInterval ==
  \A i \in Nat : IsFiniteSet(1 .. i) /\ Cardinality(1 .. i) = i
BY FS_Interval

(* An interval without one of its elements.                                *)
LEMMA HoledInterval ==
  ASSUME NEW i \in Nat, NEW p \in Nat, p > 0
  PROVE  Cardinality((1 .. i) \ {p}) = IF p <= i THEN i - 1 ELSE i
<1>1. Cardinality((1 .. i) \ {p}) = IF p \in 1 .. i THEN Cardinality(1 .. i) - 1 ELSE Cardinality(1 .. i)
  BY OneInterval, FS_RemoveElement, Zenon
<1>2. Cardinality(1 .. i) = i
  BY OneInterval
<1>3. p \in 1 .. i <=> p <= i
  OBVIOUS
<1> QED BY <1>1, <1>2, <1>3

(* What retain leaves of an order that names each path once: the order     *)
(* itself, or the order less one position.                                 *)
LEMMA WithoutKeeps ==
  ASSUME order \in Seq(Graphs), IsInjective(order), NEW g
  PROVE  /\ Without(g) \in Seq(Graphs) /\ IsInjective(Without(g))
         /\ ToSet(Without(g)) = ToSet(order) \ {g}
         /\ Len(Without(g)) = IF g \in ToSet(order) THEN Len(order) - 1 ELSE Len(order)
<1> DEFINE n == Len(order)
           t == Without(g)
           kept == { i \in DOMAIN order : order[i] # g }
           Rank(i) == Cardinality({ k \in kept : k <= i })
           At(j) == CHOOSE i \in kept : Rank(i) = j
<1>1. n \in Nat /\ DOMAIN order = 1 .. n /\ \A i \in 1 .. n : order[i] \in Graphs
  BY LenProperties, ElementOfSeq
<1>2. t = [j \in 1 .. Cardinality(kept) |-> order[At(j)]]
  BY DEF Without
<1>3. CASE g \notin ToSet(order)
  <2>1. kept = 1 .. n
    BY <1>1, <1>3 DEF ToSet
  <2>2. ASSUME NEW i \in 1 .. n PROVE Rank(i) = i
    <3>1. { k \in kept : k <= i } = 1 .. i
      BY <1>1, <2>1
    <3>2. i \in Nat
      BY <1>1
    <3> HIDE DEF kept
    <3> QED BY <3>1, <3>2, OneInterval
  <2>3. ASSUME NEW j \in 1 .. n PROVE At(j) = j
    BY <2>1, <2>2
  <2>4. Cardinality(kept) = n
    BY <1>1, <2>1, OneInterval
  <2> HIDE DEF kept, At
  <2>5. \A j \in 1 .. n : t[j] = order[j]
    BY <1>2, <2>3, <2>4
  <2>6. t = order
    BY <1>1, <1>2, <2>4, <2>5
  <2> QED BY <1>3, <2>6
<1>4. CASE g \in ToSet(order)
  <2>1. PICK p \in 1 .. n : order[p] = g
    BY <1>1, <1>4 DEF ToSet
  <2>2. kept = (1 .. n) \ {p}
    BY <1>1, <2>1 DEF IsInjective
  <2>3. ASSUME NEW i \in kept PROVE Rank(i) = IF p <= i THEN i - 1 ELSE i
    <3>1. { k \in kept : k <= i } = (1 .. i) \ {p}
      BY <1>1, <2>2
    <3> QED BY <1>1, <2>2, <3>1, HoledInterval
  <2>4. Cardinality(kept) = n - 1
    BY <1>1, <2>1, <2>2, HoledInterval
  <2>5. ASSUME NEW j \in 1 .. n - 1
        PROVE  At(j) = IF j < p THEN j ELSE j + 1
    <3> DEFINE a == IF j < p THEN j ELSE j + 1
    <3>1. a \in kept
      BY <1>1, <2>1, <2>2
    <3>2. \A i \in kept : Rank(i) = j <=> i = a
      <4> HIDE DEF Rank
      <4> QED BY <1>1, <2>1, <2>2, <2>3
    <3> HIDE DEF Rank, kept
    <3> QED BY <3>1, <3>2
  <2> DEFINE Place(j) == IF j < p THEN j ELSE j + 1
  <2>6. /\ DOMAIN t = 1 .. n - 1
        /\ \A j \in 1 .. n - 1 : t[j] = order[Place(j)]
    <3> HIDE DEF kept, At
    <3> QED BY <1>1, <1>2, <2>4, <2>5
  <2> HIDE DEF kept, t
  <2>7. \A j \in 1 .. n - 1 : Place(j) \in (1 .. n) \ {p}
    BY <1>1, <2>1
  <2>8. t = [j \in 1 .. n - 1 |-> t[j]] /\ n - 1 \in Nat
    <3>1. t = [j \in DOMAIN t |-> t[j]]
      BY <1>2 DEF t
    <3> QED BY <1>1, <2>1, <2>6, <3>1
  <2>9. t \in Seq(Graphs)
    BY <1>1, <2>6, <2>7, <2>8
  <2>10. Len(t) = n - 1
    BY <2>6, <2>8, <2>9, LenProperties
  <2>11. IsInjective(t)
    <3>1. SUFFICES ASSUME NEW a \in 1 .. n - 1, NEW b \in 1 .. n - 1, t[a] = t[b] PROVE a = b
      BY <2>6 DEF IsInjective
    <3>2. Place(a) = Place(b)
      BY <1>1, <2>6, <2>7, <3>1 DEF IsInjective
    <3> QED BY <1>1, <2>1, <3>2
  <2>12. ToSet(t) = ToSet(order) \ {g}
    <3>1. ASSUME NEW j \in 1 .. n - 1 PROVE t[j] \in ToSet(order) \ {g}
      BY <1>1, <2>1, <2>6, <2>7 DEF ToSet, IsInjective
    <3>2. ASSUME NEW i \in (1 .. n) \ {p} PROVE order[i] \in ToSet(t)
      <4>1. PICK j \in 1 .. n - 1 : Place(j) = i
        <5>1. CASE i < p
          <6>1. i \in 1 .. n - 1 /\ Place(i) = i
            BY <1>1, <2>1, <5>1
          <6> QED BY <6>1
        <5>2. CASE i > p
          <6>1. i - 1 \in 1 .. n - 1 /\ Place(i - 1) = i
            BY <1>1, <2>1, <5>2
          <6> QED BY <6>1
        <5> QED BY <1>1, <2>1, <5>1, <5>2
      <4>2. t[j] = order[i]
        BY <2>6, <4>1
      <4> QED BY <2>6, <4>2 DEF ToSet
    <3>3. \A x \in ToSet(order) \ {g} : \E i \in (1 .. n) \ {p} : order[i] = x
      BY <1>1, <2>1 DEF ToSet
    <3>4. ToSet(t) \subseteq ToSet(order) \ {g}
      BY <2>6, <3>1 DEF ToSet
    <3>5. ToSet(order) \ {g} \subseteq ToSet(t)
      BY <3>2, <3>3
    <3> QED BY <3>4, <3>5
  <2> QED BY <1>4, <2>9, <2>10, <2>11, <2>12 DEF t
<1> QED BY <1>3, <1>4

(* A path moved to the end of the order.                                   *)
LEMMA TouchedKeeps ==
  ASSUME order \in Seq(Graphs), IsInjective(order), NEW g \in Graphs
  PROVE  /\ Touched(g) \in Seq(Graphs) /\ IsInjective(Touched(g))
         /\ ToSet(Touched(g)) = ToSet(order) \union {g}
         /\ Len(Touched(g)) = IF g \in ToSet(order) THEN Len(order) ELSE Len(order) + 1
         /\ Touched(g)[Len(Touched(g))] = g
<1> DEFINE s == Without(g)
           m == Len(s)
<1>1. /\ s \in Seq(Graphs) /\ IsInjective(s) /\ ToSet(s) = ToSet(order) \ {g}
      /\ m = IF g \in ToSet(order) THEN Len(order) - 1 ELSE Len(order)
  BY WithoutKeeps
<1>2. Touched(g) = Append(s, g)
  BY DEF Touched
<1> HIDE DEF s
<1>3. /\ Append(s, g) \in Seq(Graphs) /\ Len(Append(s, g)) = m + 1
      /\ \A i \in 1 .. m : Append(s, g)[i] = s[i]
      /\ Append(s, g)[m + 1] = g
      /\ m \in Nat /\ DOMAIN Append(s, g) = 1 .. m + 1 /\ DOMAIN s = 1 .. m
  BY <1>1, AppendProperties, LenProperties
<1>4. \A i \in 1 .. m : s[i] # g
  BY <1>1, <1>3 DEF ToSet
<1>5. IsInjective(Append(s, g))
  BY <1>1, <1>3, <1>4 DEF IsInjective
<1>6. ToSet(Append(s, g)) = ToSet(s) \union {g}
  <2>1. \A i \in 1 .. m + 1 : i \in 1 .. m \/ i = m + 1
    BY <1>3
  <2>2. 1 .. m \subseteq 1 .. m + 1 /\ m + 1 \in 1 .. m + 1
    BY <1>3
  <2> QED BY <1>3, <2>1, <2>2 DEF ToSet
<1>7. Len(order) \in Nat
  BY LenProperties
<1> QED BY <1>1, <1>2, <1>3, <1>5, <1>6, <1>7

(* What is left of an order that loses its first e paths.                  *)
LEMMA TailKeeps ==
  ASSUME NEW s \in Seq(Graphs), IsInjective(s), NEW e \in 0 .. Len(s)
  PROVE  LET t == SubSeq(s, e + 1, Len(s)) IN
         /\ t \in Seq(Graphs) /\ IsInjective(t) /\ Len(t) = Len(s) - e
         /\ ToSet(t) = ToSet(s) \ { s[i] : i \in 1 .. e }
<1> DEFINE t == SubSeq(s, e + 1, Len(s))
<1>1. Len(s) \in Nat /\ e \in Nat /\ e <= Len(s) /\ DOMAIN s = 1 .. Len(s)
  BY LenProperties
<1>2. t \in Seq(Graphs) /\ Len(t) = Len(s) - e /\ \A i \in 1 .. Len(s) - e : t[i] = s[e + i]
  <2>1. e + 1 \in Int /\ Len(s) \in Int /\ \A i \in e + 1 .. Len(s) : s[i] \in Graphs
    BY <1>1, ElementOfSeq
  <2>2. /\ t \in Seq(Graphs)
        /\ Len(t) = IF e + 1 <= Len(s) THEN Len(s) - (e + 1) + 1 ELSE 0
        /\ \A i \in 1 .. Len(s) - (e + 1) + 1 : t[i] = s[e + 1 + i - 1]
    BY <2>1, SubSeqProperties
  <2> HIDE DEF t
  <2>3. Len(t) = Len(s) - e
    <3>1. CASE e + 1 <= Len(s)
      <4>1. Len(t) = Len(s) - (e + 1) + 1
        BY <2>2, <3>1
      <4> QED BY <1>1, <4>1
    <3>2. CASE ~(e + 1 <= Len(s))
      <4>1. Len(t) = 0
        BY <2>2, <3>2
      <4>2. e = Len(s)
        <5>1. \A a, b \in Nat : a <= b /\ ~(a + 1 <= b) => a = b
          OBVIOUS
        <5> QED BY <1>1, <3>2, <5>1, Zenon
      <4>3. Len(s) - e = 0
        BY <1>1, <4>2
      <4> QED BY <4>1, <4>3
    <3> QED BY <3>1, <3>2
  <2>4. ASSUME NEW i \in 1 .. Len(s) - e PROVE t[i] = s[e + i]
    <3>1. i \in 1 .. Len(s) - (e + 1) + 1 /\ e + 1 + i - 1 = e + i
      BY <1>1
    <3>2. t[i] = s[e + 1 + i - 1]
      BY <2>2, <3>1
    <3> QED BY <3>1, <3>2
  <2> QED BY <2>2, <2>3, <2>4
<1>3. DOMAIN t = 1 .. Len(s) - e
  BY <1>2, LenProperties
<1> HIDE DEF t
<1>4. IsInjective(t)
  <2>1. SUFFICES ASSUME NEW a \in 1 .. Len(s) - e, NEW b \in 1 .. Len(s) - e, t[a] = t[b]
                 PROVE  a = b
    BY <1>3 DEF IsInjective
  <2>2. e + a \in 1 .. Len(s) /\ e + b \in 1 .. Len(s) /\ s[e + a] = s[e + b]
    BY <1>1, <1>2, <2>1
  <2>3. e + a = e + b
    BY <1>1, <2>2 DEF IsInjective
  <2> QED BY <1>1, <2>3
<1>5. ToSet(t) \subseteq ToSet(s) \ { s[i] : i \in 1 .. e }
  <2>1. SUFFICES ASSUME NEW i \in 1 .. Len(s) - e
                 PROVE  t[i] \in ToSet(s) \ { s[k] : k \in 1 .. e }
    BY <1>3 DEF ToSet
  <2>2. e + i \in 1 .. Len(s) /\ t[i] = s[e + i]
    BY <1>1, <1>2
  <2>3. \A k \in 1 .. e : s[k] # s[e + i]
    BY <1>1, <2>2 DEF IsInjective
  <2> QED BY <1>1, <2>2, <2>3 DEF ToSet
<1>6. ToSet(s) \ { s[i] : i \in 1 .. e } \subseteq ToSet(t)
  <2>1. SUFFICES ASSUME NEW k \in 1 .. Len(s), k \notin 1 .. e
                 PROVE  s[k] \in ToSet(t)
    BY <1>1 DEF ToSet
  <2>2. k - e \in 1 .. Len(s) - e /\ e + (k - e) = k
    BY <1>1, <2>1
  <2>3. t[k - e] = s[k]
    BY <1>2, <2>2
  <2> QED BY <1>3, <2>2, <2>3 DEF ToSet
<1> QED BY <1>2, <1>4, <1>5, <1>6 DEF t

LEMMA InitCache == Init => CacheInv
<1> SUFFICES ASSUME Init PROVE CacheInv
  OBVIOUS
<1>1. order = <<>> /\ \A g \in Graphs : values[g] = NoEntry
  BY DEF Init
<1>2. OrderSound /\ OrderBounded
  BY <1>1, EmptySeq, ServingAssumption DEF OrderSound, OrderBounded, IsInjective, ToSet, Cached
<1>3. RequestsKnow
  BY DEF Init, RequestsKnow
<1> QED BY <1>2, <1>3, InitServing DEF CacheInv

(* An empty cache, and no request that works on it.                        *)
LEMMA StoppedCache ==
  ASSUME StopServer
  PROVE  OrderSound' /\ OrderBounded' /\ RequestsKnow'
<1>1. order' = <<>> /\ \A g \in Graphs : values'[g] = NoEntry
  BY DEF StopServer
<1>2. OrderSound' /\ OrderBounded'
  BY <1>1, EmptySeq, ServingAssumption DEF OrderSound, OrderBounded, IsInjective, ToSet, Cached
<1>3. RequestsKnow'
  BY DEF StopServer, RequestsKnow
<1> QED BY <1>2, <1>3

(* A graph that was found in the cache becomes the youngest of the order.  *)
LEMMA HitKeepsOrder ==
  ASSUME CacheInv, NEW r \in Requests, Hit(r)
  PROVE  OrderSound' /\ OrderBounded'
<1> DEFINE g == path[r]
<1> USE DEF CacheInv
<1>1. g \in Graphs /\ g \in Cached /\ values' = values /\ Cached' = Cached
  BY DEF Hit, ServingInv, Types, Cached
<1>2. CASE asDefault[r]
  <2>1. order' = order
    BY <1>2 DEF Hit
  <2> QED BY <1>1, <2>1 DEF OrderSound, OrderBounded
<1>3. CASE ~asDefault[r]
  <2>1. order' = Touched(g)
    BY <1>3 DEF Hit
  <2>2. /\ Touched(g) \in Seq(Graphs) /\ IsInjective(Touched(g))
        /\ ToSet(Touched(g)) = ToSet(order) \union {g}
        /\ Len(Touched(g)) = IF g \in ToSet(order) THEN Len(order) ELSE Len(order) + 1
    BY <1>1, TouchedKeeps DEF OrderSound
  <2>3. OrderSound'
    BY <1>1, <2>1, <2>2 DEF OrderSound
  <2>4. CASE g \in ToSet(order)
    <3>1. Len(order') = Len(order) /\ ToSet(order') = ToSet(order)
      BY <2>1, <2>2, <2>4
    <3> QED BY <2>3, <3>1 DEF OrderBounded
  <2>5. CASE g \notin ToSet(order)
    <3>1. g = Default
      BY <1>1, <2>5 DEF OrderSound
    <3>2. Len(order) <= MaxContexts /\ Len(order) \in Nat
      BY <2>5, <3>1, LenProperties DEF OrderBounded, OrderSound
    <3>3. Default \in ToSet(order') /\ Len(order') = Len(order) + 1
      BY <2>1, <2>2, <2>5, <3>1
    <3>4. Len(order') <= MaxContexts + 1
      BY <3>2, <3>3, ServingAssumption
    <3> QED BY <2>3, <3>3, <3>4 DEF OrderBounded
  <2> QED BY <2>3, <2>4, <2>5
<1> QED BY <1>2, <1>3

(* The order in which graphs wait when a request has read its graph.       *)
LEMMA OrderedKeeps ==
  ASSUME CacheInv, NEW r \in Requests
  PROVE  /\ Ordered(r) \in Seq(Graphs) /\ IsInjective(Ordered(r))
         /\ ToSet(order) \ {path[r]} \subseteq ToSet(Ordered(r))
         /\ ToSet(Ordered(r)) \subseteq ToSet(order) \union {path[r]}
         /\ asDefault[r] => path[r] \notin ToSet(Ordered(r))
         /\ ~asDefault[r] => path[r] \in ToSet(Ordered(r))
<1> USE DEF CacheInv
<1>1. path[r] \in Graphs /\ order \in Seq(Graphs) /\ IsInjective(order)
  BY DEF OrderSound, ServingInv, Types
<1>2. CASE asDefault[r]
  BY <1>1, <1>2, WithoutKeeps DEF Ordered
<1>3. CASE ~asDefault[r]
  BY <1>1, <1>3, TouchedKeeps DEF Ordered
<1> QED BY <1>2, <1>3

(* The oldest project graphs leave the order and the cache together, and   *)
(* the graph that was read stays in both.                                  *)
LEMMA InsertKeepsOrder ==
  ASSUME CacheInv, NEW r \in Requests, Insert(r)
  PROVE  OrderSound' /\ OrderBounded'
<1> USE DEF CacheInv
<1> DEFINE s == Ordered(r)
           e == Excess(r)
           out == { s[i] : i \in 1 .. e }
           entry == [stamp |-> stamp[r], graph |-> graph[r]]
<1>1. /\ s \in Seq(Graphs) /\ IsInjective(s)
      /\ ToSet(order) \ {path[r]} \subseteq ToSet(s)
      /\ ToSet(s) \subseteq ToSet(order) \union {path[r]}
      /\ ~asDefault[r] => path[r] \in ToSet(s)
      /\ asDefault[r] => path[r] \notin ToSet(s)
  BY OrderedKeeps
<1>2. Len(s) \in Nat
  BY <1>1, LenProperties
<1>3. e \in 0 .. Len(s) /\ Len(s) - e <= MaxContexts
  BY <1>2, ServingAssumption DEF Excess
<1>4. /\ order' = SubSeq(s, e + 1, Len(s))
      /\ out = Evicted(r)
      /\ \A g \in Graphs :
           values'[g] = IF g \in out THEN NoEntry ELSE IF g = path[r] THEN entry ELSE values[g]
  BY DEF Insert, Evicted
<1> HIDE DEF s, e, out
<1>5. /\ order' \in Seq(Graphs) /\ IsInjective(order') /\ Len(order') = Len(s) - e
      /\ ToSet(order') = ToSet(s) \ out
  BY <1>1, <1>3, <1>4, TailKeeps DEF out
<1>6. entry # NoEntry /\ (asDefault[r] => path[r] = Default) /\ path[r] \in Graphs
  <2>1. stamp[r] > 0 /\ stamp[r] \in Nat /\ (asDefault[r] => path[r] = Default)
    BY DEF Insert, RequestsKnow, ServingInv, Types
  <2>2. entry.stamp # NoEntry.stamp
    BY <2>1 DEF NoEntry
  <2> QED BY <2>1, <2>2 DEF ServingInv, Types
<1> HIDE DEF entry
<1>7. ToSet(order') \subseteq Graphs
  BY <1>5, ElementOfSeq, LenProperties DEF ToSet
<1>8. ASSUME NEW g \in ToSet(order')
      PROVE  values'[g] # NoEntry
  BY <1>1, <1>4, <1>5, <1>6, <1>7, <1>8 DEF OrderSound, Cached
<1>9. ASSUME NEW g \in Graphs, values'[g] # NoEntry
      PROVE  g \in ToSet(order') \union {Default}
  <2>1. g \notin out
    BY <1>4, <1>9
  <2>2. CASE g = path[r]
    BY <1>1, <1>5, <1>6, <2>1, <2>2
  <2>3. CASE g # path[r]
    <3>1. values[g] # NoEntry
      BY <1>4, <1>9, <2>1, <2>3
    <3>2. g \in ToSet(order) \union {Default}
      BY <3>1 DEF OrderSound, Cached
    <3> QED BY <1>1, <1>5, <2>1, <2>3, <3>2
  <2> QED BY <2>2, <2>3
<1>10. Len(order') <= MaxContexts
  BY <1>3, <1>5
<1>11. OrderSound'
  BY <1>5, <1>7, <1>8, <1>9 DEF OrderSound, Cached
<1> QED BY <1>10, <1>11 DEF OrderBounded

(* What each request knows, through the steps of any of them.              *)
LEMMA RequestsStillKnow ==
  ASSUME CacheInv, NEW r \in Requests, RequestStep(r)
  PROVE  RequestsKnow'
<1> USE DEF CacheInv, ServingInv, Types
<1>1. ASSUME NEW g \in Graphs, NEW default \in BOOLEAN, Stat(r, g, default)
      PROVE  RequestsKnow'
  <2>1. file[g] \in Nat /\ file[g] > 0
    BY <1>1 DEF Stat
  <2> QED BY <1>1, <2>1 DEF Stat, RequestsKnow, RequestGoto
<1>2. CASE Hit(r)
  BY <1>2 DEF Hit, RequestsKnow, Returns, RequestGoto
<1>3. CASE Miss(r)
  BY <1>3 DEF Miss, RequestsKnow, RequestGoto
<1>4. CASE Read(r)
  BY <1>4 DEF Read, RequestsKnow, Returns, RequestGoto
<1>5. CASE Insert(r)
  BY <1>5 DEF Insert, RequestsKnow, Returns, RequestGoto
<1> QED BY <1>1, <1>2, <1>3, <1>4, <1>5 DEF RequestStep

(* The cache changes only by a hit, by an insertion and with the server.   *)
LEMMA CacheInductive == CacheInv /\ [Next]_vars => CacheInv'
<1> SUFFICES ASSUME CacheInv, [Next]_vars PROVE CacheInv'
  OBVIOUS
<1>1. ServingInv'
  BY NextKeeps DEF CacheInv
<1>2. ASSUME UNCHANGED <<values, order>>
      PROVE  OrderSound' /\ OrderBounded'
  BY <1>2 DEF CacheInv, OrderSound, OrderBounded, Cached
<1>3. ASSUME UNCHANGED reqVars
      PROVE  RequestsKnow'
  BY <1>3 DEF CacheInv, RequestsKnow, reqVars
<1>4. ASSUME NEW r \in Requests, RequestStep(r)
      PROVE  OrderSound' /\ OrderBounded' /\ RequestsKnow'
  <2>1. CASE Hit(r)
    BY <2>1, <1>4, HitKeepsOrder, RequestsStillKnow
  <2>2. CASE Insert(r)
    BY <2>2, <1>4, InsertKeepsOrder, RequestsStillKnow
  <2>3. CASE ~Hit(r) /\ ~Insert(r)
    <3>1. UNCHANGED <<values, order>>
      BY <1>4, <2>3 DEF RequestStep, Stat, Miss, Read, cacheVars
    <3> QED BY <1>2, <1>4, <3>1, RequestsStillKnow
  <2> QED BY <2>1, <2>2, <2>3
<1>5. ASSUME NEW w \in Writers, WriterStep(w)
      PROVE  OrderSound' /\ OrderBounded' /\ RequestsKnow'
  <2>1. UNCHANGED <<cacheVars, reqVars>>
    BY <1>5 DEF WriterStep, Write, Flush, Replace, SyncDirectory, Confirm, GiveUp
  <2> QED BY <2>1, <1>2, <1>3 DEF cacheVars
<1>6. CASE Restart \/ PowerLoss
  BY <1>1, <1>6, StoppedCache DEF Restart, PowerLoss, CacheInv
<1>7. CASE UNCHANGED vars
  BY <1>1, <1>2, <1>3, <1>7 DEF vars, cacheVars, CacheInv
<1> QED BY <1>1, <1>4, <1>5, <1>6, <1>7 DEF Next, CacheInv

(* CacheInv holds of every reachable state.                                *)
THEOREM CacheInvariance == Spec => []CacheInv
<1>1. Init => CacheInv
  BY InitCache
<1>2. CacheInv /\ [Next]_vars => CacheInv'
  BY CacheInductive
<1> QED BY <1>1, <1>2, PTL DEF Spec

(* An order that names each graph once has as many graphs as places.       *)
LEMMA OrderCounts ==
  ASSUME order \in Seq(Graphs)
  PROVE  IsFiniteSet(ToSet(order)) /\ Cardinality(ToSet(order)) <= Len(order)
<1> DEFINE n == Len(order)
           S == ToSet(order)
<1>1. n \in Nat /\ order \in [1 .. n -> Graphs] /\ DOMAIN order = 1 .. n
  BY LenProperties
<1>2. order \in Surjection(1 .. n, S)
  BY <1>1 DEF Surjection, ToSet
<1>3. IsFiniteSet(1 .. n) /\ Cardinality(1 .. n) = n
  BY <1>1, OneInterval
<1> HIDE DEF S
<1>4. IsFiniteSet(S) /\ Cardinality(S) <= Cardinality(1 .. n)
  BY <1>2, <1>3, FS_Surjection
<1> QED BY <1>3, <1>4 DEF S

LEMMA CacheStaysBounded == CacheInv => CacheConsistent
<1> SUFFICES ASSUME CacheInv PROVE CacheConsistent
  OBVIOUS
<1> DEFINE S == ToSet(order)
<1>1. order \in Seq(Graphs) /\ Cached \subseteq S \union {Default}
  BY DEF CacheInv, OrderSound
<1>2. IsFiniteSet(S) /\ Cardinality(S) <= Len(order) /\ Len(order) \in Nat
  BY <1>1, OrderCounts, LenProperties
<1> HIDE DEF S
<1>3. /\ IsFiniteSet(S \union {Default})
      /\ Cardinality(S \union {Default}) = IF Default \in S THEN Cardinality(S) ELSE Cardinality(S) + 1
  BY <1>2, FS_AddElement
<1>4. /\ IsFiniteSet(Cached) /\ Cardinality(Cached) <= Cardinality(S \union {Default})
  BY <1>1, <1>3, FS_Subset
<1>5. Cardinality(S) \in Nat /\ Cardinality(Cached) \in Nat
  BY <1>2, <1>4, FS_CardinalityType
<1>6. Cardinality(Cached) <= MaxContexts + 1
  <2>1. CASE Default \in S
    <3>1. Len(order) <= MaxContexts + 1
      BY <1>2, ServingAssumption DEF CacheInv, OrderBounded
    <3> QED BY <1>2, <1>3, <1>4, <1>5, <2>1, <3>1, ServingAssumption
  <2>2. CASE Default \notin S
    <3>1. Len(order) <= MaxContexts
      BY <2>2 DEF CacheInv, OrderBounded, S
    <3> QED BY <1>2, <1>3, <1>4, <1>5, <2>2, <3>1, ServingAssumption
  <2> QED BY <2>1, <2>2
<1> QED BY <1>6 DEF CacheInv, OrderSound, CacheConsistent

(* However hits, insertions and evictions of concurrent requests follow    *)
(* each other, the cache keeps at most MaxContexts project graphs and the  *)
(* default one, and its order names what it keeps (load_graph_context).    *)
THEOREM CacheIsConsistent == Spec => []CacheConsistent
BY CacheInvariance, CacheStaysBounded, PTL
=============================================================================
