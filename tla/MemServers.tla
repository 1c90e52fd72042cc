----------------------------- MODULE MemServers ------------------------------
(***************************************************************************)
(* The two servers that recorded processes register with: the metric       *)
(* server, which measures how much the calls of a process depend on each   *)
(* other, and the analyzer, which collects a graph of these dependencies.  *)
(* Each runs one task for each connection and one that saves the result    *)
(* from time to time; a process uses one of the two servers.               *)
(*                                                                         *)
(* Sources: src/rozz_cover/analysis/src/evaluation_server.rs, main.rs and  *)
(* utils.rs.  A step is what a task does under one lock.  A task that      *)
(* panics dies alone, but poisons the lock it holds: all that take it      *)
(* later die as well.                                                      *)
(***************************************************************************)
EXTENDS MemRuntime

CONSTANTS
  MaxRows,  \* bound on the rows of the metric server's ticker
  NoDep     \* bytes that are not a MemDependency

VARIABLES
  server,      \* which of the two servers runs
  disk,        \* the files that exist
  stage,       \* stage[c]: where the task of connection c is
  last,        \* last[c]: read returned 0, on_socket_closed comes next
  buffer,      \* buffer[c]: its read buffer holds the registration (or zeros)
  infos,       \* socket2id, socket2info: the registered connections
  taken,       \* taken[c]: the contents it has read from the file
  poisoned,    \* the locks that are poisoned
  statistics,  \* the metric server's Statistics
  snapshot,    \* snapshot[c]: a row that is made and not written
  output,      \* the rows in the metric server's output file
  graph,       \* the analyzer's Graph
  saved        \* the func_names of the last graph it saved

taskVars == <<stage, last, buffer, taken>>
metricVars == <<statistics, snapshot, output>>
graphVars == <<graph, saved>>
serverVars == <<disk, taskVars, infos, poisoned, metricVars, graphVars>>

Ticker == 0  \* the task that saves
Blank == 0   \* the file that zeros name: the empty path

ASSUME ServersAssumption == Ticker \notin Links /\ NoDep \notin Dependency

ServerInit ==
  /\ stage = [c \in Links \cup {Ticker} |-> "read"]
  /\ last = [c \in Links |-> FALSE]
  /\ buffer = [c \in Links |-> Blank]
  /\ infos = << >>
  /\ taken = [c \in Links |-> NoDep]
  /\ poisoned = {}
  /\ statistics = [exec_num |-> 0, visited_cfunc_set |-> {}, compactness |-> << >>, is_active |-> FALSE]
  /\ snapshot = [c \in Links \cup {Ticker} |-> << >>]
  /\ output = << >>
  /\ graph = [func_names |-> << >>, acc_graph |-> << >>, gep_graph |-> << >>, active |-> FALSE]
  /\ saved = << >>

InStage(c, s) == stage[c] = s
ToStage(c, s) == stage' = [stage EXCEPT ![c] = s]
Dies(c) == ToStage(c, "dead")
DiesHolding(c, lock) == Dies(c) /\ poisoned' = poisoned \cup {lock}
AfterConnected(c) == IF last[c] THEN "closing" ELSE "read"
Put(f, k, v) == [x \in DOMAIN f \cup {k} |-> IF x = k THEN v ELSE f[x]]
Drop(f, k) == [x \in DOMAIN f \ {k} |-> f[x]]

-----------------------------------------------------------------------------
(* The loop of main: read, on_socket_connected, on_socket_closed            *)

\* The buffer is passed to on_socket_connected at the end, too. A registration
\* fits its 256 bytes; with a longer one (the path of a deep work directory) the
\* task panics, before it has taken a lock, and the process is left out.
ReadRegistration(c) ==
  /\ InStage(c, "read")
  /\ link[c] \in {"sent", "closed"} /\ buffer[c] = Blank
  /\ buffer' = [buffer EXCEPT ![c] = c]
  /\ ToStage(c, "connected")
  /\ UNCHANGED <<disk, last, infos, taken, poisoned, metricVars, graphVars>>

ReadEnd(c) ==
  /\ InStage(c, "read")
  /\ link[c] = "cut" \/ (link[c] = "closed" /\ buffer[c] = c)
  /\ last' = [last EXCEPT ![c] = TRUE]
  /\ ToStage(c, "connected")
  /\ UNCHANGED <<disk, buffer, infos, taken, poisoned, metricVars, graphVars>>

ReadError(c) ==
  /\ InStage(c, "read")
  /\ link[c] = "reset"
  /\ ToStage(c, "closing")
  /\ UNCHANGED <<disk, last, buffer, infos, taken, poisoned, metricVars, graphVars>>

-----------------------------------------------------------------------------
(* MetricCollector                                                          *)

\* What serialize makes of the statistics; of an empty or an undefined list
\* of ratios, and of one with an undefined member, the average is not a number.
RowAnyTotal(s) ==
  [exec_num |-> s.exec_num, visited |-> Cardinality(s.visited_cfunc_set), numeric |-> s.compactness # << >>]
Row(s) ==
  [exec_num |-> s.exec_num, visited |-> Cardinality(s.visited_cfunc_set),
   numeric |-> s.compactness # << >> /\ \A i \in DOMAIN s.compactness : s.compactness[i].total > 0]

\* on_socket_connected: the registration, and a look at is_active.
MetricConnected(c) ==
  /\ server = "metrics" /\ InStage(c, "connected")
  /\ IF "socket2id" \in poisoned THEN Dies(c) /\ UNCHANGED infos
     ELSE /\ infos' = Put(infos, c, buffer[c])
          /\ IF "statistics" \in poisoned THEN Dies(c)
             ELSE ToStage(c, IF statistics.is_active THEN AfterConnected(c) ELSE "activate")
  /\ UNCHANGED <<disk, last, buffer, taken, poisoned, metricVars, graphVars>>

MetricActivate(c) ==
  /\ InStage(c, "activate")
  /\ IF "statistics" \in poisoned THEN Dies(c) /\ UNCHANGED statistics
     ELSE /\ statistics' = [statistics EXCEPT !.is_active = TRUE]
          /\ ToStage(c, "serialize")
  /\ UNCHANGED <<disk, last, buffer, infos, taken, poisoned, snapshot, output, graphVars>>

\* serialize_statistics_to_filesystem: the row is made under the lock ...
MakeRow(c, next) ==
  /\ IF "statistics" \in poisoned THEN Dies(c) /\ UNCHANGED snapshot
     ELSE snapshot' = [snapshot EXCEPT ![c] = <<Row(statistics)>>] /\ ToStage(c, next)
  /\ UNCHANGED <<disk, last, buffer, infos, taken, poisoned, statistics, output, graphVars>>

\* ... and written without it, to a new file or after the rows of the old one.
WriteRow(c, shouldCreated, next) ==
  /\ output' = IF shouldCreated THEN snapshot[c] ELSE output \o snapshot[c]
  /\ snapshot' = [snapshot EXCEPT ![c] = << >>]
  /\ ToStage(c, next)
  /\ UNCHANGED <<disk, last, buffer, infos, taken, poisoned, statistics, graphVars>>

MetricSerialize(c) ==
  \/ InStage(c, "serialize") /\ MakeRow(c, "write")
  \/ InStage(c, "write") /\ WriteRow(c, TRUE, AfterConnected(c))

MetricTick ==
  /\ server = "metrics" /\ Len(output) < MaxRows
  /\ \/ InStage(Ticker, "read") /\ statistics.is_active /\ MakeRow(Ticker, "write")
     \/ InStage(Ticker, "write") /\ WriteRow(Ticker, FALSE, "read")

\* on_socket_closed: the registration is taken out of the maps.
MetricClosed(c) ==
  /\ server = "metrics" /\ InStage(c, "closing")
  /\ IF "socket2id" \in poisoned THEN Dies(c) /\ UNCHANGED <<infos, poisoned>>
     ELSE IF c \notin DOMAIN infos THEN DiesHolding(c, "socket2id") /\ UNCHANGED infos
     ELSE infos' = Drop(infos, c) /\ ToStage(c, "open") /\ UNCHANGED poisoned
  /\ UNCHANGED <<disk, last, buffer, taken, metricVars, graphVars>>

\* The file is read: it may not exist, or not hold a MemDependency.
MetricOpen(c) ==
  /\ server = "metrics" /\ InStage(c, "open")
  /\ IF buffer[c] \notin disk THEN Dies(c) /\ UNCHANGED <<disk, taken>>
     ELSE IF content[c] = NoDep THEN disk' = disk \ {c} /\ ToStage(c, "done") /\ UNCHANGED taken
     ELSE taken' = [taken EXCEPT ![c] = content[c]] /\ ToStage(c, "collect") /\ UNCHANGED disk
  /\ UNCHANGED <<last, buffer, infos, poisoned, metricVars, graphVars>>

\* Pairs of calls of which the later loads what the earlier stored.
Accumulation(dep) ==
  Cardinality({p \in (DOMAIN dep.call_seq) \X (DOMAIN dep.call_seq) :
                 /\ p[1] < p[2]
                 /\ Ptrs(dep.mem["mini_store_mem"][p[1]]) \cap Ptrs(dep.mem["mini_load_mem"][p[2]]) # {}})

MeasurablePairs(dep) == Len(dep.call_seq) > 1 /\ MiniComplete(dep)
\* The lists are indexed; 0 calls make call_num - 1 overflow.
Measurable(dep) == Len(dep.call_seq) > 0 /\ MiniComplete(dep)

\* Under the write lock; what comes before a panic has been counted.
MetricCollect(c) ==
  LET dep == taken[c]
      n == Len(dep.call_seq)
      counted == [statistics EXCEPT !.exec_num = @ + 1, !.visited_cfunc_set = @ \cup Range(dep.call_seq)]
  IN  /\ server = "metrics" /\ InStage(c, "collect")
      /\ \/ "statistics" \in poisoned /\ Dies(c) /\ UNCHANGED <<statistics, disk, poisoned>>
         \/ /\ "statistics" \notin poisoned /\ ~Measurable(dep)
            /\ statistics' = counted
            /\ DiesHolding(c, "statistics")
            /\ UNCHANGED disk
         \/ /\ "statistics" \notin poisoned /\ Measurable(dep)
            /\ statistics' = [counted EXCEPT
                 !.compactness = Append(@, [accumulation |-> Accumulation(dep), total |-> (n * (n - 1)) \div 2]),
                 !.is_active = TRUE]
            /\ disk' = disk \ {c}
            /\ ToStage(c, "done")
            /\ UNCHANGED poisoned
      /\ UNCHANGED <<last, buffer, infos, taken, snapshot, output, graphVars>>

-----------------------------------------------------------------------------
(* MemAnalyzer                                                              *)

AnalyzerConnected(c) ==
  /\ server = "analyzer" /\ InStage(c, "connected")
  /\ infos' = Put(infos, c, buffer[c])
  /\ ToStage(c, AfterConnected(c))
  /\ UNCHANGED <<disk, last, buffer, taken, poisoned, metricVars, graphVars>>

\* on_socket_closed: a connection that is not known is left alone, and
\* process_one_shm runs under the lock of demangle_map.
AnalyzerClosed(c) ==
  /\ server = "analyzer" /\ InStage(c, "closing")
  /\ \/ c \notin DOMAIN infos /\ ToStage(c, "done") /\ UNCHANGED <<disk, taken, poisoned>>
     \/ /\ c \in DOMAIN infos /\ "demangle_map" \in poisoned
        /\ Dies(c)
        /\ UNCHANGED <<disk, taken, poisoned>>
     \/ /\ c \in DOMAIN infos /\ "demangle_map" \notin poisoned /\ infos[c] \notin disk
        /\ DiesHolding(c, "demangle_map")
        /\ UNCHANGED <<disk, taken>>
     \/ /\ c \in DOMAIN infos /\ "demangle_map" \notin poisoned /\ infos[c] \in disk
        /\ IF content[c] = NoDep
           THEN disk' = disk \ {c} /\ ToStage(c, "done") /\ UNCHANGED taken
           ELSE /\ taken' = [taken EXCEPT ![c] = DedupAllMem(content[c])]
                /\ ToStage(c, "collect")
                /\ UNCHANGED disk
        /\ UNCHANGED poisoned
  /\ UNCHANGED <<last, buffer, infos, metricVars, graphVars>>

NewNamesOnce(names, seq) ==
  IF names = << >> THEN FoldLeft(LAMBDA acc, f : IF f \in Range(acc) THEN acc ELSE Append(acc, f), names, seq)
  ELSE names
\* The names that are new, in the order of the calls.
NewNames(names, seq) ==
  FoldLeft(LAMBDA acc, f : IF f \in Range(acc) THEN acc ELSE Append(acc, f), names, seq)

\* For each pair of names the edge of the first (acc) or the last (gep) pair
\* of calls; one that is there is kept (acc), or replaced (gep).
FirstOf(x, y) == x.source < y.source \/ (x.source = y.source /\ x.sink <= y.sink)
LastOf(x, y) == FirstOf(y, x)
NamedEdges(dep, edges, keep) ==
  LET names(e) == <<dep.call_seq[e.source], dep.call_seq[e.sink]>>
      winner(p) == CHOOSE e \in edges :
        names(e) = p /\ \A d \in edges : names(d) = p =>
          IF keep THEN FirstOf(e, d) ELSE LastOf(e, d)
  IN  [p \in {names(e) : e \in edges} |-> winner(p).infos]
OverNew(f, g) == g
Over(f, g) == [p \in DOMAIN f \cup DOMAIN g |-> IF p \in DOMAIN f THEN f[p] ELSE g[p]]

AnalyzerCollect(c) ==
  LET dep == taken[c]
      acc == IF disable THEN AccEdges(dep) ELSE MiniEdges(dep)
      gep == IF disable THEN GepEdges(dep) ELSE {}
  IN  /\ server = "analyzer" /\ InStage(c, "collect")
      /\ IF IF disable THEN ~FullComplete(dep) ELSE ~MiniComplete(dep)
         THEN Dies(c) /\ UNCHANGED <<disk, graph>>
         ELSE /\ graph' = [func_names |-> NewNames(graph.func_names, dep.call_seq),
                           acc_graph |-> Over(graph.acc_graph, NamedEdges(dep, acc, TRUE)),
                           gep_graph |-> Over(NamedEdges(dep, gep, FALSE), graph.gep_graph),
                           active |-> TRUE]
              /\ disk' = disk \ {c}
              /\ ToStage(c, "done")
      /\ UNCHANGED <<last, buffer, infos, taken, poisoned, metricVars, saved>>

\* serialize_to_filesystem, which keeps the lock.
AnalyzerTick ==
  /\ server = "analyzer" /\ graph.active /\ saved # graph.func_names
  /\ saved' = graph.func_names
  /\ UNCHANGED <<disk, taskVars, infos, poisoned, metricVars, graph>>

Task(c) ==
  \/ ReadRegistration(c) \/ ReadEnd(c) \/ ReadError(c)
  \/ MetricConnected(c) \/ MetricActivate(c) \/ MetricSerialize(c)
  \/ MetricClosed(c) \/ MetricOpen(c) \/ MetricCollect(c)
  \/ AnalyzerConnected(c) \/ AnalyzerClosed(c) \/ AnalyzerCollect(c)

ServerNext == (\E c \in Links : Task(c)) \/ MetricTick \/ AnalyzerTick
=============================================================================
