------------------------------ MODULE MemChain -------------------------------
(***************************************************************************)
(* A recorded process, in full, and other recorded processes, of which     *)
(* only what they do to their connection and what their file holds at its  *)
(* end is told apart, with the server they register with.                  *)
(***************************************************************************)
EXTENDS MemServers

CONSTANTS
  Clients,  \* the connections of the other processes
  Scenarios \* bound: the server, the threads and clients that act together, how
            \* many accesses are recorded, and what the clients' files may hold,
            \* NoDep included

ASSUME ChainAssumption == Links = Files \cup Clients /\ Files \cap Clients = {}

\* What a file holds that a process left, whether it ended in order or not.
Left(dep) ==
  /\ dep = [call_seq |-> dep.call_seq, mem |-> [k \in Kinds |-> dep.mem[k]]]
  /\ dep.call_seq \in Seq(Name)
  /\ \E whole \in {Kinds} \cup Wholes : \A k \in Kinds :
       /\ dep.mem[k] \in Seq(Seq(Access(k)))
       /\ Len(dep.mem[k]) = IF k \in whole THEN Len(dep.call_seq) ELSE 0

ASSUME ScenarioAssumption == \A s \in Scenarios :
  /\ s.threads \subseteq Threads /\ s.clients \subseteq Clients
  /\ s.servers \subseteq {"metrics", "analyzer"} /\ s.pushes \in Nat
  /\ \A image \in s.images : \A c \in s.clients : image[c] = NoDep \/ Left(image[c])

VARIABLE scenario  \* one of Scenarios
chainVars == <<memVars, server, serverVars, scenario>>

\* A client is killed before or after it has registered; its connection may
\* also fail.
ClientStep(c) ==
  /\ \/ link[c] = "none" /\ link' = [link EXCEPT ![c] = "open"]
     \/ link[c] = "open" /\ \E l \in {"sent", "cut", "reset"} : link' = [link EXCEPT ![c] = l]
     \/ link[c] = "sent" /\ \E l \in {"closed", "reset"} : link' = [link EXCEPT ![c] = l]
  /\ UNCHANGED <<process, mapVars, connected, disable, mini, memDep, curVars, lockVars, tpc, func,
                 target, countVars, histVars>>

Init ==
  /\ MemInit
  /\ ServerInit
  /\ scenario \in Scenarios
  /\ server \in scenario.servers
  /\ pushes = scenario.pushes
  /\ disk = Links
  /\ link = [f \in Links |-> "none"]
  /\ \E image \in scenario.images :
       content = [f \in Links |-> IF f \in scenario.clients THEN image[f] ELSE EmptyDep]

Next ==
  \/ /\ \/ \E t \in scenario.threads : Callback(t)
        \/ scenario.threads # {} /\ ProcessEnds
        \/ \E c \in scenario.clients : ClientStep(c)
     /\ UNCHANGED <<server, serverVars, scenario>>
  \/ /\ \* bound: the server is slow
        scenario.clients = {} => process # "runs" \/ (shm # NoFile /\ link[shm] = "closed" /\ pushes = 0)
     /\ ServerNext /\ UNCHANGED <<memVars, server, scenario>>

Spec == Init /\ [][Next]_chainVars

-----------------------------------------------------------------------------
(* Properties                                                               *)

WellFormed(dep) == dep.call_seq \in Seq(Name) /\ DOMAIN dep.mem = Kinds

\* Every variable has its type.
TypeOK ==
  /\ process \in {"runs", "ended", "died"}
  /\ {shm, mmap, connected, dest} \subseteq Files \cup {NoFile}
  /\ link \in [Links -> {"none", "open", "sent", "closed", "cut", "reset"}]
  /\ {mini, disable, raced} \subseteq BOOLEAN
  /\ WellFormed(memDep) /\ \A c \in Links : content[c] = NoDep \/ WellFormed(content[c])
  /\ visitTid \in Threads \cup {NoThread} /\ depLock \in Threads \cup {NoThread}
  /\ disk \subseteq Links /\ infos \in [DOMAIN infos -> Links \cup {Blank}] /\ DOMAIN infos \subseteq Links
  /\ stage \in [Links \cup {Ticker} -> {"read", "connected", "activate", "serialize", "write", "closing",
                                        "open", "collect", "done", "dead"}]
  /\ poisoned \subseteq {"socket2id", "statistics", "demangle_map"}
  /\ \A p \in DOMAIN graph.acc_graph : Range(p) \subseteq Range(graph.func_names)

\* A recorded access goes to a call of the thread that made it, unless two
\* entries overlapped; in any case there is a call that it can go to
\* (last_mut().unwrap() in the callbacks).
AccessesAttributed ==
  /\ \A t \in Threads : tpc[t] = "app" /\ shm # NoFile /\ Visited(t) => memDep.call_seq # << >>
  /\ ~raced => \A i \in DOMAIN owners : owners[i] \subseteq {who[i]}

\* Only one return ever gets to the copy (and none past func_return's own
\* lock): what a process records after it is in no file.
FirstReturnIsLast ==
  Cardinality({t \in Threads : tpc[t] \in {"copy_final", "final", "relock", "stuck"}}) <= 1

\* A lock of a server is poisoned only for a process that was killed before
\* it registered or before a call of it returned, or while it copied, or
\* whose connection failed: an orderly end harms nobody.
EndedEarly(c) ==
  IF c \in Clients
  THEN taken[c] = EmptyDep \/ Len(taken[c].mem["mini_store_mem"]) < Len(taken[c].call_seq)
  ELSE taken[c] = EmptyDep \/ (process # "runs" /\ depLock # NoThread)
StopsOnlyFor ==
  /\ "socket2id" \in poisoned => \E c \in Links : link[c] = "reset"
  /\ "statistics" \in poisoned => \E c \in Links : taken[c] # NoDep /\ EndedEarly(c)
  /\ "demangle_map" \in poisoned => \E c \in Links : link[c] = "cut"

\* The statistics count each recording once, and the average is a number
\* only if each of them has two calls: 0 / 0 of the others spoils it for good.
Collected == {c \in Links : stage[c] = "done" /\ taken[c] # NoDep}
StatisticsFaithful ==
  server = "metrics" =>
    /\ statistics.exec_num = Cardinality(Collected) + (IF "statistics" \in poisoned THEN 1 ELSE 0)
    /\ UNION {Range(taken[c].call_seq) : c \in Collected} \subseteq statistics.visited_cfunc_set
    /\ Row(statistics).numeric <=> Collected # {} /\ \A c \in Collected : Len(taken[c].call_seq) > 1

\* What the file of c held when the server read it: what it still holds,
\* unless racing threads have closed its connection while it was recorded to.
ReadFrom(c) == IF c \in Files /\ raced THEN taken[c] ELSE content[c]

\* Each edge of the graph is witnessed by a recording: an earlier call stored
\* to a pointer, at the instruction named, that the later one loaded; and a
\* dependency that no choice among accesses can hide has its edge.
Stores(dep, i) == {IF disable THEN <<a[1], a[3]>> ELSE <<a[1], a[2]>> :
  a \in Range(dep.mem[IF disable THEN "store_mem" ELSE "mini_store_mem"][i])}
Loads(dep, i) == {IF disable THEN <<a[1], a[3]>> ELSE <<a[1], a[2]>> :
  a \in Range(dep.mem[IF disable THEN "load_mem" ELSE "mini_load_mem"][i])}
CallPairs(dep) == {p \in (DOMAIN dep.call_seq) \X (DOMAIN dep.call_seq) : p[1] < p[2]}
Names(dep, p) == <<dep.call_seq[p[1]], dep.call_seq[p[2]]>>
EdgesWitnessed ==
  /\ \A e \in DOMAIN graph.acc_graph : \A info \in graph.acc_graph[e] :
       \E c \in Collected : \E p \in CallPairs(ReadFrom(c)) :
         /\ Names(ReadFrom(c), p) = e
         /\ \E x \in Stores(ReadFrom(c), p[1]), y \in Loads(ReadFrom(c), p[2]) :
              x[1] = y[1] /\ x[2] = info.store /\ y[2] = info.load
  /\ disable /\ server = "analyzer" =>
       \A c \in Collected : \A p \in CallPairs(ReadFrom(c)) :
         /\ Names(ReadFrom(c), p)[1] # Names(ReadFrom(c), p)[2]
         /\ Ptrs(ReadFrom(c).mem["store_mem"][p[1]]) \cap Ptrs(ReadFrom(c).mem["load_mem"][p[2]]) # {}
         => Names(ReadFrom(c), p) \in DOMAIN graph.acc_graph

\* A function keeps the index under which the graph knows it, in what was
\* saved as well, and an edge that was found is never lost.
GraphGrows ==
  [][/\ IsPrefix(graph.func_names, graph'.func_names) /\ IsPrefix(saved', graph'.func_names)
     /\ IsInjective(graph'.func_names)
     /\ DOMAIN graph.acc_graph \subseteq DOMAIN graph'.acc_graph
     /\ DOMAIN graph.gep_graph \subseteq DOMAIN graph'.gep_graph]_chainVars
=============================================================================
