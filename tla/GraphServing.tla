---------------------------- MODULE GraphServing ----------------------------
(***************************************************************************)
(* Graph files and the server that answers from them. Builds publish a     *)
(* graph through a temporary file that is flushed, renamed over the graph  *)
(* and made durable by a sync of the directory (graphoxide-core). The MCP  *)
(* server keeps parsed graphs in a cache keyed by path: a request takes    *)
(* the file's stamp first, then the cache's lock, and reads the file only  *)
(* when the stamp of the entry is another one. Writers, requests and the   *)
(* machine's power stop at any step.                                       *)
(*                                                                         *)
(* A version of a graph is the number of its publication; a stamp (mtime   *)
(* and size) tells versions apart. The directory supports fsync.           *)
(***************************************************************************)
EXTENDS Integers, SequencesExt

CONSTANTS
  Graphs,        \* paths of graph files
  Published,     \* the graphs that builds publish while the server runs
  Default,       \* the server's default graph
  Writers,       \* processes that publish
  Requests,      \* requests the server may have in hand
  MaxContexts,   \* max_project_contexts
  MaxVersions    \* bound on the versions of a graph

ASSUME ServingAssumption ==
  /\ Default \in Graphs /\ Published \subseteq Graphs
  /\ MaxContexts \in Nat \ {0} /\ MaxVersions \in Nat

VARIABLES
  file,         \* what opening the path finds: a version, 0 for no file, or Torn
  last,         \* versions published
  survivors,    \* what the directory may name after a power loss
  unflushed,    \* versions renamed before their content was flushed
  confirmed,    \* the newest version a writer returned Ok for
  wpc, target, mine,              \* per writer
  values, order, holder,          \* GraphCache and who holds its mutex
  rpc, path, asDefault, stamp, graph   \* per request

fileVars   == <<file, last, survivors, unflushed, confirmed>>
writerVars == <<wpc, target, mine>>
cacheVars  == <<values, order, holder>>
reqVars    == <<rpc, path, asDefault, stamp, graph>>
vars == <<fileVars, writerVars, cacheVars, reqVars>>

Torn == -1
NoEntry == [stamp |-> 0, graph |-> 0]    \* files that exist have versions from 1
Nobody == "nobody"
Cached == { g \in Graphs : values[g] # NoEntry }

(* A graph was published once, durably, or is not there yet. *)
Init ==
  /\ file \in [Graphs -> {0, 1}] /\ last = file /\ confirmed = file
  /\ survivors = [g \in Graphs |-> {file[g]}] /\ unflushed = [g \in Graphs |-> {}]
  /\ wpc = [w \in Writers |-> "idle"]
  /\ target = [w \in Writers |-> Default] /\ mine = [w \in Writers |-> 0]
  /\ values = [g \in Graphs |-> NoEntry] /\ order = <<>> /\ holder = Nobody
  /\ rpc = [r \in Requests |-> "idle"]
  /\ path = [r \in Requests |-> Default] /\ asDefault = [r \in Requests |-> TRUE]
  /\ stamp = [r \in Requests |-> 0] /\ graph = [r \in Requests |-> 0]

-----------------------------------------------------------------------------
(* atomic_write_destination by writer w. *)

WriterGoto(w, label) == wpc' = [wpc EXCEPT ![w] = label]

WriterEnds(w) ==
  /\ WriterGoto(w, "idle")
  /\ target' = [target EXCEPT ![w] = Default] /\ mine' = [mine EXCEPT ![w] = 0]

(* A new temporary file of its own, written to the end. *)
Write(w, g) ==
  /\ wpc[w] = "idle"
  /\ target' = [target EXCEPT ![w] = g]
  /\ WriterGoto(w, "written")
  /\ UNCHANGED <<fileVars, mine, cacheVars, reqVars>>

(* sync_all on the temporary file. *)
Flush(w) ==
  /\ wpc[w] = "written"
  /\ WriterGoto(w, "flushed")
  /\ UNCHANGED <<fileVars, target, mine, cacheVars, reqVars>>

(* The rename goes first, the flush follows. *)
ReplaceUnflushed(w) ==
  LET g == target[w]
      v == last[g] + 1 IN
  /\ wpc[w] \in {"written", "flushed"} /\ last[g] < MaxVersions
  /\ file' = [file EXCEPT ![g] = v] /\ last' = [last EXCEPT ![g] = v]
  /\ survivors' = [survivors EXCEPT ![g] = @ \union {v}]
  /\ unflushed' = [unflushed EXCEPT ![g] = IF wpc[w] = "written" THEN @ \union {v} ELSE @]
  /\ mine' = [mine EXCEPT ![w] = v]
  /\ WriterGoto(w, "renamed")
  /\ UNCHANGED <<confirmed, target, cacheVars, reqVars>>

(* replace: the rename. *)
Replace(w) ==
  LET g == target[w]
      v == last[g] + 1 IN
  /\ wpc[w] = "flushed" /\ last[g] < MaxVersions
  /\ file' = [file EXCEPT ![g] = v] /\ last' = [last EXCEPT ![g] = v]
  /\ survivors' = [survivors EXCEPT ![g] = @ \union {v}]
  /\ mine' = [mine EXCEPT ![w] = v]
  /\ WriterGoto(w, "renamed")
  /\ UNCHANGED <<unflushed, confirmed, target, cacheVars, reqVars>>

(* sync_directory: the path names what it names now. *)
SyncDirectory(w) ==
  LET g == target[w] IN
  /\ wpc[w] = "renamed"
  /\ survivors' = [survivors EXCEPT ![g] = {file[g]}]
  /\ WriterGoto(w, "synced")
  /\ UNCHANGED <<file, last, unflushed, confirmed, target, mine, cacheVars, reqVars>>

(* The writer hears of its success. *)
Confirm(w) ==
  LET g == target[w] IN
  /\ wpc[w] = "synced"
  /\ confirmed' = [confirmed EXCEPT ![g] = IF mine[w] > @ THEN mine[w] ELSE @]
  /\ WriterEnds(w)
  /\ UNCHANGED <<file, last, survivors, unflushed, cacheVars, reqVars>>

(* An error or a kill: the temporary file is of no consequence, and what    *)
(* was renamed stays.                                                       *)
GiveUp(w) ==
  /\ wpc[w] # "idle"
  /\ WriterEnds(w)
  /\ UNCHANGED <<fileVars, cacheVars, reqVars>>

WriterStep(w) ==
  \/ \E g \in Published : Write(w, g)
  \/ Flush(w) \/ Replace(w) \/ SyncDirectory(w) \/ Confirm(w) \/ GiveUp(w)

-----------------------------------------------------------------------------
(* load_graph_context for request r. *)

RequestGoto(r, label) == rpc' = [rpc EXCEPT ![r] = label]

(* What the handler keeps when it returns with or without a graph. *)
Returns(r, label) ==
  /\ RequestGoto(r, label)
  /\ path' = [path EXCEPT ![r] = Default] /\ asDefault' = [asDefault EXCEPT ![r] = TRUE]

(* The stamp, before the lock. A project may name the default graph's path. *)
Stat(r, g, default) ==
  /\ rpc[r] \in {"idle", "answered"}
  /\ default => g = Default
  /\ file[g] # 0
  /\ path' = [path EXCEPT ![r] = g] /\ asDefault' = [asDefault EXCEPT ![r] = default]
  /\ stamp' = [stamp EXCEPT ![r] = file[g]]
  /\ graph' = [graph EXCEPT ![r] = 0]
  /\ RequestGoto(r, "lookup")
  /\ UNCHANGED <<fileVars, writerVars, cacheVars>>

(* retain: the order without g. *)
Without(g) ==
  LET kept == { i \in DOMAIN order : order[i] # g }
      Rank(i) == Cardinality({ k \in kept : k <= i })
  IN [j \in 1 .. Cardinality(kept) |-> order[CHOOSE i \in kept : Rank(i) = j]]

Touched(g) == Append(Without(g), g)

(* The lock, and an entry with the same stamp. *)
Hit(r) ==
  LET g == path[r] IN
  /\ rpc[r] = "lookup" /\ holder = Nobody
  /\ values[g] # NoEntry /\ values[g].stamp = stamp[r]
  /\ graph' = [graph EXCEPT ![r] = values[g].graph]
  /\ order' = IF asDefault[r] THEN order ELSE Touched(g)
  /\ Returns(r, "answered")
  /\ UNCHANGED <<fileVars, writerVars, values, holder, stamp>>

Miss(r) ==
  /\ rpc[r] = "lookup" /\ holder = Nobody
  /\ values[path[r]] = NoEntry \/ values[path[r]].stamp # stamp[r]
  /\ holder' = r
  /\ RequestGoto(r, "load")
  /\ UNCHANGED <<fileVars, writerVars, values, order, path, asDefault, stamp, graph>>

(* read_graph, with the lock held; it may fail. *)
Read(r) ==
  LET g == path[r] IN
  /\ rpc[r] = "load"
  /\ \/ /\ file[g] \notin {0, Torn}
        /\ graph' = [graph EXCEPT ![r] = file[g]]
        /\ RequestGoto(r, "insert") /\ UNCHANGED <<holder, path, asDefault, stamp>>
     \/ /\ stamp' = [stamp EXCEPT ![r] = 0] /\ holder' = Nobody
        /\ Returns(r, "idle") /\ UNCHANGED graph
  /\ UNCHANGED <<fileVars, writerVars, values, order>>

(* The entry, and eviction of the project graphs used longest ago.         *)
Ordered(r) == IF asDefault[r] THEN Without(path[r]) ELSE Touched(path[r])
Excess(r) == IF Len(Ordered(r)) > MaxContexts THEN Len(Ordered(r)) - MaxContexts ELSE 0
Evicted(r) == { Ordered(r)[i] : i \in 1 .. Excess(r) }

(* Evicted graphs leave the order only. *)
InsertKeeping(r) ==
  /\ rpc[r] = "insert"
  /\ values' = [values EXCEPT ![path[r]] = [stamp |-> stamp[r], graph |-> graph[r]]]
  /\ order' = SubSeq(Ordered(r), Excess(r) + 1, Len(Ordered(r)))
  /\ holder' = Nobody
  /\ Returns(r, "answered")
  /\ UNCHANGED <<fileVars, writerVars, stamp, graph>>

(* The stamp is taken when the graph has been read. *)
InsertStampedLate(r) ==
  /\ rpc[r] = "insert"
  /\ values' = [values EXCEPT ![path[r]] = [stamp |-> file[path[r]], graph |-> graph[r]]]
  /\ order' = SubSeq(Ordered(r), Excess(r) + 1, Len(Ordered(r)))
  /\ holder' = Nobody
  /\ Returns(r, "answered")
  /\ UNCHANGED <<fileVars, writerVars, stamp, graph>>

Insert(r) ==
  LET entry == [stamp |-> stamp[r], graph |-> graph[r]] IN
  /\ rpc[r] = "insert"
  /\ values' = [g \in Graphs |->
                  IF g \in Evicted(r) THEN NoEntry ELSE IF g = path[r] THEN entry ELSE values[g]]
  /\ order' = SubSeq(Ordered(r), Excess(r) + 1, Len(Ordered(r)))
  /\ holder' = Nobody
  /\ Returns(r, "answered")
  /\ UNCHANGED <<fileVars, writerVars, stamp, graph>>

RequestStep(r) ==
  \/ \E g \in Graphs, default \in BOOLEAN : Stat(r, g, default)
  \/ Hit(r) \/ Miss(r) \/ Read(r) \/ Insert(r)

-----------------------------------------------------------------------------
StopServer ==
  /\ values' = [g \in Graphs |-> NoEntry] /\ order' = <<>> /\ holder' = Nobody
  /\ rpc' = [r \in Requests |-> "idle"]
  /\ path' = [r \in Requests |-> Default] /\ asDefault' = [r \in Requests |-> TRUE]
  /\ stamp' = [r \in Requests |-> 0] /\ graph' = [r \in Requests |-> 0]

(* The server is killed and starts again with an empty cache. *)
Restart ==
  /\ \E r \in Requests : rpc[r] # "idle"
  /\ StopServer
  /\ UNCHANGED <<fileVars, writerVars>>

(* What a path names after a power loss: a version the directory may still  *)
(* name, its content possibly lost when it was not flushed.                 *)
Remains(g) == survivors[g] \union (IF survivors[g] \intersect unflushed[g] = {} THEN {} ELSE {Torn})

PowerLoss ==
  /\ file' \in [Graphs -> -1 .. MaxVersions]
  /\ \A g \in Graphs : file'[g] \in Remains(g)
  /\ survivors' = [g \in Graphs |-> {file'[g]}]
  /\ wpc' = [w \in Writers |-> "idle"]
  /\ target' = [w \in Writers |-> Default] /\ mine' = [w \in Writers |-> 0]
  /\ StopServer
  /\ UNCHANGED <<last, unflushed, confirmed>>

Next ==
  \/ \E w \in Writers : WriterStep(w)
  \/ \E r \in Requests : RequestStep(r)
  \/ Restart
  \/ PowerLoss

Spec == Init /\ [][Next]_vars

-----------------------------------------------------------------------------
(* Properties. *)

(* Publishing implements PublishedGraph: whatever writers run at once and   *)
(* wherever they and the power stop, readers find a complete version, at    *)
(* least the newest one a writer returned Ok for.                           *)
Abstract == INSTANCE PublishedGraph WITH value <- file, newest <- last, floor <- confirmed

PublicationSafe == Abstract!Spec

(* An answer is at least as new as the file was when the request arrived,   *)
(* although the stamp is taken before the lock and the graph is read after  *)
(* it, and other requests store other stamps in between.                    *)
FreshAnswer == \A r \in Requests : rpc[r] = "answered" => graph[r] >= stamp[r]

(* The cache stays within its bound: every graph it keeps is the default    *)
(* one or waits in the eviction order, which names cached graphs, each once.*)
CacheConsistent ==
  /\ IsInjective(order)
  /\ ToSet(order) \subseteq Cached
  /\ Cached \subseteq ToSet(order) \union {Default}
  /\ Cardinality(Cached) <= MaxContexts + 1
=============================================================================
