---------------------------- MODULE MemDependency ----------------------------
(***************************************************************************)
(* The record of the memory accesses of a process's calls, shared by the   *)
(* runtime that writes it (mem_analysis_runtime), the metric server that   *)
(* measures it and the analyzer that turns it into a graph of calls.       *)
(*                                                                         *)
(* Sources: src/rozz_cover/common/src/lib.rs (MemDependency) and           *)
(* src/rozz_cover/analysis/src/utils.rs (the two build_graph functions).   *)
(* For each call there is one list of each kind: "load_mem" and            *)
(* "store_mem" hold <<ptr, gep, id, gep id>>, "gep_mem" <<gep, id>>, and   *)
(* "mini_load_mem" and "mini_store_mem" <<ptr, id, size>>.                 *)
(***************************************************************************)
EXTENDS Naturals, Sequences, SequencesExt, FiniteSets, Functions

Kinds == {"load_mem", "store_mem", "gep_mem", "mini_load_mem", "mini_store_mem"}

Name == STRING \* of a function

\* What a list of each kind holds.
Access(k) == CASE k \in {"load_mem", "store_mem"} -> Nat \X Nat \X Nat \X Nat
               [] k = "gep_mem" -> Nat \X Nat
               [] OTHER -> Nat \X Nat \X Nat

Dependency == [call_seq : Seq(Name), mem : [Kinds -> UNION {Seq(Seq(Access(k))) : k \in Kinds}]]

EmptyDep == [call_seq |-> << >>, mem |-> [k \in Kinds |-> << >>]]

\* add_new_func: a call with no accesses yet.
AddNewFunc(dep, f) ==
  [call_seq |-> Append(dep.call_seq, f),
   mem |-> [k \in Kinds |-> Append(dep.mem[k], << >>)]]

\* An access is added to the lists of the last call.
PushLast(dep, k, access) ==
  [dep EXCEPT !.mem[k] = ReplaceAt(@, Len(@), Append(Last(@), access))]

\* What is compared: pointer and gep, gep, or pointer and size.
KeyOf(k, a) == CASE k \in {"load_mem", "store_mem"} -> <<a[1], a[2]>>
                 [] k = "gep_mem" -> <<a[1], 0>>
                 [] OTHER -> <<a[1], a[3]>>

KeyBefore(x, y) == x[1] < y[1] \/ (x[1] = y[1] /\ x[2] < y[2])

\* sort_by, which is stable, then dedup_by: the first of each key remains.
DedupList(k, list) ==
  LET key(i) == KeyOf(k, list[i])
      firsts == {i \in DOMAIN list : \A j \in 1 .. i - 1 : key(j) # key(i)}
      order == CHOOSE p \in [1 .. Cardinality(firsts) -> firsts] :
                 \A m, n \in DOMAIN p : m < n => KeyBefore(key(p[m]), key(p[n]))
  IN  [n \in DOMAIN order |-> list[order[n]]]

\* dedup_mem: get_mut finds nothing in lists that are too short.
DedupMem(dep, i) ==
  [dep EXCEPT !.mem = [k \in Kinds |->
     IF i \in DOMAIN dep.mem[k] THEN [dep.mem[k] EXCEPT ![i] = DedupList(k, dep.mem[k][i])]
     ELSE dep.mem[k]]]

DedupAllMem(dep) ==
  [dep EXCEPT !.mem = [k \in Kinds |-> [i \in DOMAIN dep.mem[k] |->
     IF i \in DOMAIN dep.call_seq THEN DedupList(k, dep.mem[k][i]) ELSE dep.mem[k][i]]]]

-----------------------------------------------------------------------------
(* build_graph_with_mini_collection                                         *)

Ptrs(list) == {a[1] : a \in Range(list)}

\* The first access to p whose size no other exceeds, or undercuts.
Largest(list, p) == LET I == {i \in DOMAIN list : list[i][1] = p}
                        best == {i \in I : \A j \in I : list[j][3] <= list[i][3]}
                    IN  list[CHOOSE i \in best : \A j \in best : i <= j]
Smallest(list, p) == LET I == {i \in DOMAIN list : list[i][1] = p}
                         best == {i \in I : \A j \in I : list[j][3] >= list[i][3]}
                     IN  list[CHOOSE i \in best : \A j \in best : i <= j]

\* An edge for each call and a later one that loads what it stored; the
\* smallest store and the largest load of a pointer must agree in size.
MiniEdges(dep) ==
  LET stores(i) == dep.mem["mini_store_mem"][i]
      loads(j) == dep.mem["mini_load_mem"][j]
      infos(i, j) == {[store |-> Smallest(stores(i), p)[2], load |-> Largest(loads(j), p)[2]] :
                        p \in {q \in Ptrs(stores(i)) \cap Ptrs(loads(j)) :
                                 Smallest(stores(i), q)[3] = Largest(loads(j), q)[3]}}
  IN  {e \in {[source |-> i, sink |-> j, infos |-> infos(i, j)] :
                i \in DOMAIN dep.call_seq, j \in DOMAIN dep.call_seq} :
         e.source < e.sink /\ e.infos # {}}

\* The assertion and the indices hold.
MiniComplete(dep) ==
  /\ Len(dep.mem["mini_store_mem"]) = Len(dep.call_seq)
  /\ Len(dep.mem["mini_load_mem"]) >= Len(dep.call_seq)

-----------------------------------------------------------------------------
(* build_graph                                                              *)

FullComplete(dep) == \A k \in {"load_mem", "store_mem", "gep_mem"} : Len(dep.mem[k]) >= Len(dep.call_seq)

\* What a HashMap filled from the list holds: the last value of each key.
LastWith(list, n, key) ==
  list[CHOOSE i \in DOMAIN list : list[i][n] = key /\ \A j \in DOMAIN list : list[j][n] = key => j <= i]

\* gep_load_i takes the loads first and then, over them, the geps.
GepLoadId(dep, j, gep) ==
  LET geps == dep.mem["gep_mem"][j]
  IN  IF gep \in Ptrs(geps) THEN LastWith(geps, 1, gep)[2]
      ELSE LastWith(dep.mem["load_mem"][j], 2, gep)[4]

Geps(list) == {a[2] : a \in Range(list)}

LaterAnyOrder(dep) ==
  {p \in (DOMAIN dep.call_seq) \X (DOMAIN dep.call_seq) : dep.call_seq[p[1]] # dep.call_seq[p[2]]}
Later(dep) == {p \in (DOMAIN dep.call_seq) \X (DOMAIN dep.call_seq) :
                 p[1] < p[2] /\ dep.call_seq[p[1]] # dep.call_seq[p[2]]}

GepEdges(dep) ==
  LET infos(i, j) ==
        {[store |-> LastWith(dep.mem["store_mem"][i], 2, g)[4], load |-> GepLoadId(dep, j, g)] :
           g \in Geps(dep.mem["store_mem"][i])
                   \cap (Geps(dep.mem["load_mem"][j]) \cup Ptrs(dep.mem["gep_mem"][j]))}
  IN  {e \in {[source |-> p[1], sink |-> p[2], infos |-> infos(p[1], p[2])] : p \in Later(dep)} :
         e.infos # {}}

AccEdges(dep) ==
  LET store(i, p) == LastWith(dep.mem["store_mem"][i], 1, p)
      load(j, p) == LastWith(dep.mem["load_mem"][j], 1, p)
      infos(i, j) ==
        {[store |-> store(i, p)[3], load |-> load(j, p)[3],
          source_gep |-> LastWith(dep.mem["store_mem"][i], 2, store(i, p)[2])[4],
          sink_gep |-> GepLoadId(dep, j, load(j, p)[2])] :
           p \in Ptrs(dep.mem["store_mem"][i]) \cap Ptrs(dep.mem["load_mem"][j])}
  IN  {e \in {[source |-> p[1], sink |-> p[2], infos |-> infos(p[1], p[2])] : p \in Later(dep)} :
         e.infos # {}}
=============================================================================
