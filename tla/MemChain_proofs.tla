--------------------------- MODULE MemChain_proofs ---------------------------
(***************************************************************************)
(* Theorems about MemChain: the returns of the recorded process and the    *)
(* calls that its accesses go to; what a poisoned lock of a server is due  *)
(* to, and what the statistics say of the recordings.  Then the graph that *)
(* the analyzer collects: each function that an edge joins has an index,   *)
(* an index is never given twice, nothing that was found or saved is lost, *)
(* and each edge has a witness in a recording that was collected.          *)
(***************************************************************************)
EXTENDS MemChain, FoldLemmas

\* A dependency is a record of a sequence of calls and of lists by kind.
Shaped(dep) ==
  /\ dep = [call_seq |-> dep.call_seq, mem |-> [k \in Kinds |-> dep.mem[k]]]
  /\ dep.call_seq \in Seq(Name)

\* Whoever holds the guard of CURRENT_FUNC is alone, and only a thread that
\* waits for this guard, or the holder, is the one that is recorded.
Holders == {"copy_final", "final", "relock", "stuck"}
OneHolder ==
  \A t, u \in Threads : t # u /\ tpc[t] \in Holders =>
    tpc[u] \notin Holders /\ (visitTid = u => tpc[u] = "set_func")

\* The thread that is recorded has entered, or is about to add its call.
Naming == {"set_func", "add_func"}
CallBefore ==
  \A t \in Threads : visitTid = t => tpc[t] \in Naming \/ memDep.call_seq # << >>

\* Without a race one thread enters at a time: it is the one recorded once it
\* has said so, and from then on the last call is the one it has added.
AloneEntering ==
  ~raced =>
    /\ \A t, u \in Threads : t # u /\ tpc[t] \in Entering => tpc[u] \notin Entering
    /\ \A t \in Threads : tpc[t] \in Naming => visitTid = t
    /\ \A t \in Threads : visitTid = t /\ tpc[t] \notin Naming => who # << >> /\ who[Len(who)] = t

\* The histories have one entry for each call.
Histories ==
  /\ who \in Seq(Threads) /\ owners \in Seq(SUBSET Threads)
  /\ Len(who) = Len(owners)
  /\ ~raced => \A i \in 1 .. Len(owners) : owners[i] \subseteq {who[i]}

Labels == {"app", "relock", "stuck", "copy_final", "final"} \cup Entering

CallInv ==
  /\ tpc \in [Threads -> Labels]
  /\ func \in [Threads -> Name \cup {NoFunc}]
  /\ \A t \in Threads : tpc[t] \in Entering => func[t] \in Name
  /\ raced \in BOOLEAN /\ visitTid \in Threads \cup {NoThread}
  /\ Shaped(memDep)
  /\ OneHolder /\ CallBefore /\ AloneEntering /\ Histories

-----------------------------------------------------------------------------
(* dedup_mem.                                                               *)

LEMMA KeyOfPair ==
  ASSUME NEW k \in Kinds, NEW a \in Access(k)
  PROVE  KeyOf(k, a) = <<a[1], KeyOf(k, a)[2]>> /\ a[1] \in Nat /\ KeyOf(k, a)[2] \in Nat
<1>1. CASE k \in {"load_mem", "store_mem"}
  BY <1>1 DEF KeyOf, Access
<1>2. CASE k = "gep_mem"
  BY <1>2 DEF KeyOf, Access
<1>3. CASE k \in {"mini_load_mem", "mini_store_mem"}
  BY <1>3 DEF KeyOf, Access
<1> QED BY <1>1, <1>2, <1>3 DEF Kinds

\* The first access of each key can be sorted by its key: what remains are
\* accesses of the list, one for each pointer at least.
LEMMA DedupListIs ==
  ASSUME NEW k \in Kinds, NEW list \in Seq(Access(k))
  PROVE  /\ DedupList(k, list) \in Seq(Access(k))
         /\ Range(DedupList(k, list)) \subseteq Range(list)
         /\ Ptrs(DedupList(k, list)) = Ptrs(list)
<1> DEFINE L == Len(list)
           key(i) == KeyOf(k, list[i])
           firsts == {i \in DOMAIN list : \A j \in 1 .. i - 1 : key(j) # key(i)}
           C == Cardinality(firsts)
           Order(p) == \A m, n \in DOMAIN p : m < n => KeyBefore(key(p[m]), key(p[n]))
           order == CHOOSE p \in [1 .. C -> firsts] : Order(p)
           R == {r \in firsts \X firsts : KeyBefore(key(r[1]), key(r[2]))}
<1>1. L \in Nat /\ DOMAIN list = 1 .. L /\ firsts \subseteq 1 .. L /\ \A i \in 1 .. L : list[i] \in Access(k)
  OBVIOUS
<1>2. \A i \in 1 .. L : key(i) = <<list[i][1], key(i)[2]>> /\ list[i][1] \in Nat /\ key(i)[2] \in Nat
  BY <1>1, KeyOfPair
<1>3. \A i, j \in firsts : key(i) = key(j) => i = j
  <2> SUFFICES ASSUME NEW i \in firsts, NEW j \in firsts, key(i) = key(j), i < j PROVE FALSE
    BY <1>1
  <2> QED BY <1>1
<1>4. IsFiniteSet(firsts) /\ C \in Nat
  <2>1. IsFiniteSet(1 .. L) /\ firsts \in SUBSET (1 .. L)
    BY <1>1, FS_Interval
  <2> HIDE DEF firsts, L
  <2> QED BY <2>1, FS_Subset, FS_CardinalityType
<1>5. \A i, j \in 1 .. L : KeyBefore(key(i), key(j)) <=>
        list[i][1] < list[j][1] \/ (list[i][1] = list[j][1] /\ key(i)[2] < key(j)[2])
  <2> SUFFICES ASSUME NEW i \in 1 .. L, NEW j \in 1 .. L
               PROVE  KeyBefore(key(i), key(j)) <=>
                        list[i][1] < list[j][1] \/ (list[i][1] = list[j][1] /\ key(i)[2] < key(j)[2])
    OBVIOUS
  <2> HIDE DEF key
  <2>1. key(i)[1] = list[i][1] /\ key(j)[1] = list[j][1]
    BY <1>2
  <2> QED BY <2>1 DEF KeyBefore
<1> HIDE DEF key
<1>6. Orders(R, firsts)
  <2>1. \A i, j \in firsts : <<i, j>> \in R <=> KeyBefore(key(i), key(j))
    OBVIOUS
  <2>2. ASSUME NEW i \in firsts, NEW j \in firsts, i # j PROVE KeyBefore(key(i), key(j)) \/ KeyBefore(key(j), key(i))
    <3>1. i \in 1 .. L /\ j \in 1 .. L /\ key(i) # key(j)
      BY <1>1, <1>3, <2>2
    <3>2. list[i][1] # list[j][1] \/ key(i)[2] # key(j)[2]
      BY <1>2, <3>1
    <3> HIDE DEF firsts
    <3> QED BY <1>2, <1>5, <3>1, <3>2
  <2>3. ASSUME NEW i \in firsts, NEW j \in firsts, NEW m \in firsts,
               KeyBefore(key(i), key(j)), KeyBefore(key(j), key(m))
        PROVE  KeyBefore(key(i), key(m))
    <3>1. i \in 1 .. L /\ j \in 1 .. L /\ m \in 1 .. L
      BY <1>1
    <3> HIDE DEF firsts
    <3> QED BY <1>2, <1>5, <2>3, <3>1
  <2> HIDE DEF R, firsts
  <2> QED BY <2>1, <2>2, <2>3 DEF Orders
<1>7. order \in [1 .. C -> firsts] /\ Order(order)
  <2>1. PICK p \in [1 .. C -> firsts] : SortedBy(p, C, R)
    <3> HIDE DEF R, firsts
    <3> QED BY <1>1, <1>6, SortExists
  <2>2. Order(p)
    BY <2>1 DEF SortedBy
  <2> HIDE DEF Order, firsts
  <2> QED BY <2>1, <2>2
<1>8. Range(order) = firsts
  <2>1. IsInjective(order)
    <3>1. ASSUME NEW m \in 1 .. C, NEW n \in 1 .. C, m < n, NEW i \in 1 .. L, order[m] = i, order[n] = i
          PROVE  FALSE
      <4>1. KeyBefore(key(i), key(i))
        BY <1>7, <3>1
      <4> HIDE DEF order, firsts
      <4> QED BY <1>2, <1>5, <4>1
    <3>2. DOMAIN order = 1 .. C /\ \A m \in 1 .. C : order[m] \in 1 .. L
      BY <1>1, <1>7
    <3> HIDE DEF order, firsts, C
    <3> QED BY <1>4, <3>1, <3>2 DEF IsInjective
  <2>2. Cardinality(1 .. C) = C
    BY <1>4, FS_Interval
  <2> HIDE DEF order, firsts
  <2>3. order \in Injection(1 .. C, firsts)
    BY <1>7, <2>1 DEF Injection
  <2>4. order \in Surjection(1 .. C, firsts)
    BY <1>4, <2>2, <2>3, FS_Injection
  <2> QED BY <1>7, <2>4 DEF Surjection, Range
<1>9. DedupList(k, list) = [n \in 1 .. C |-> list[order[n]]]
  <2>1. DedupList(k, list) = [n \in DOMAIN order |-> list[order[n]]]
    BY DEF DedupList, key
  <2> HIDE DEF order
  <2> QED BY <1>7, <2>1
<1> DEFINE new == [n \in 1 .. C |-> list[order[n]]]
<1> HIDE DEF order
<1>10. \A n \in 1 .. C : order[n] \in 1 .. L
  BY <1>1, <1>7
<1>11. new \in Seq(Access(k)) /\ Range(new) \subseteq Range(list)
  <2> HIDE DEF firsts, C
  <2> QED BY <1>1, <1>4, <1>10 DEF Range
<1>12. ASSUME NEW i \in 1 .. L PROVE \E n \in 1 .. C : new[n][1] = list[i][1]
  <2> DEFINE Same == {j \in 1 .. i : key(j) = key(i)}
  <2>1. PICK j \in Same : \A m \in Same : j <= m
    <3>1. Same \subseteq Nat /\ i \in Same
      OBVIOUS
    <3> HIDE DEF Same
    <3> QED BY <3>1, SmallestOf
  <2>2. j \in 1 .. L /\ key(j) = key(i)
    BY <2>1
  <2>3. ASSUME NEW m \in 1 .. j - 1 PROVE key(m) # key(j)
    <3>1. m \in 1 .. i /\ ~(j <= m)
      BY <2>1
    <3> QED BY <2>1, <2>2, <3>1
  <2>4. j \in firsts
    BY <1>1, <2>2, <2>3
  <2>5. PICK n \in 1 .. C : order[n] = j
    <3> HIDE DEF firsts
    <3> QED BY <1>7, <1>8, <2>4 DEF Range
  <2>6. list[j][1] = list[i][1]
    BY <1>2, <2>2
  <2> QED BY <2>5, <2>6
<1>13. Ptrs(new) = Ptrs(list)
  <2>1. Ptrs(new) = {new[n][1] : n \in 1 .. C} /\ Ptrs(list) = {list[i][1] : i \in 1 .. L}
    BY <1>1 DEF Ptrs, Range
  <2>2. \A n \in 1 .. C : new[n][1] \in Ptrs(list)
    BY <1>10, <2>1
  <2>3. \A i \in 1 .. L : list[i][1] \in Ptrs(new)
    BY <1>12, <2>1
  <2> HIDE DEF new, firsts, C
  <2> QED BY <2>1, <2>2, <2>3
<1> QED BY <1>9, <1>11, <1>13

-----------------------------------------------------------------------------
(* What the callbacks do to the record.                                     *)

\* A new call: one more of them, with its name and empty lists.
LEMMA AddShaped ==
  ASSUME NEW dep, Shaped(dep), NEW f \in Name
  PROVE  Shaped(AddNewFunc(dep, f)) /\ AddNewFunc(dep, f).call_seq # << >>
<1>1. Append(dep.call_seq, f) \in Seq(Name) /\ Append(dep.call_seq, f) # << >>
  BY DEF Shaped
<1> QED BY <1>1 DEF Shaped, AddNewFunc

\* An access is pushed: the calls stay.
LEMMA PushShaped ==
  ASSUME NEW dep, Shaped(dep), NEW k, NEW a
  PROVE  Shaped(PushLast(dep, k, a)) /\ PushLast(dep, k, a).call_seq = dep.call_seq
<1>1. PushLast(dep, k, a) =
        [call_seq |-> dep.call_seq, mem |-> PushLast(dep, k, a).mem]
  BY DEF Shaped, PushLast
<1>2. PushLast(dep, k, a).mem = [j \in Kinds |-> PushLast(dep, k, a).mem[j]]
  BY DEF Shaped, PushLast
<1> QED BY <1>1, <1>2 DEF Shaped

\* The lists of a call are deduplicated: the calls stay.
LEMMA DedupShaped ==
  ASSUME NEW dep, Shaped(dep), NEW i
  PROVE  Shaped(DedupMem(dep, i)) /\ DedupMem(dep, i).call_seq = dep.call_seq
<1>1. DedupMem(dep, i) = [call_seq |-> dep.call_seq, mem |-> DedupMem(dep, i).mem]
  BY DEF Shaped, DedupMem
<1>2. DedupMem(dep, i).mem = [j \in Kinds |-> DedupMem(dep, i).mem[j]]
  BY DEF Shaped, DedupMem
<1> QED BY <1>1, <1>2 DEF Shaped

-----------------------------------------------------------------------------
(* CallInv is inductive.                                                    *)

LEMMA InitCall == Init => CallInv
<1> SUFFICES ASSUME Init PROVE CallInv
  OBVIOUS
<1> USE MemAssumption DEF Init, MemInit
<1>1. Shaped(memDep)
  BY DEF Shaped, EmptyDep
<1>2. /\ tpc \in [Threads -> Labels]
      /\ func \in [Threads -> Name \cup {NoFunc}]
      /\ \A t \in Threads : tpc[t] \in Entering => func[t] \in Name
  BY DEF Labels, Entering
<1>3. OneHolder /\ CallBefore /\ AloneEntering /\ Histories
  BY DEF OneHolder, Holders, CallBefore, AloneEntering, Entering, Naming, Histories
<1> QED BY <1>1, <1>2, <1>3 DEF CallInv

\* What the steps of the servers and of the clients leave alone.
runVars == <<tpc, func, raced, memDep, visitTid, who, owners>>

LEMMA CallStutter == CallInv /\ UNCHANGED runVars => CallInv'
BY DEF CallInv, runVars, OneHolder, CallBefore, AloneEntering, Histories

LEMMA CallStep ==
  ASSUME CallInv, NEW t \in Threads, Callback(t)
  PROVE  CallInv'
<1> USE MemAssumption
<1>1. ASSUME FuncEntry(t) PROVE CallInv'
  <2>1. CASE UNCHANGED <<tpc, func, raced>>
    BY <1>1, <2>1, CallStutter DEF FuncEntry, runVars, curVars
  <2>2. ASSUME NEW f \in Funcs[t], func' = [func EXCEPT ![t] = f],
               Goto(t, IF shm = NoFile THEN "check_shm" ELSE "set_tid"),
               raced' = (raced \/ \E u \in Threads \ {t} : tpc[u] \in Entering)
        PROVE  CallInv'
    <3>1. UNCHANGED <<memDep, visitTid, who, owners>> /\ tpc[t] = "app"
      BY <1>1 DEF FuncEntry, At, curVars
    <3>2. /\ tpc' \in [Threads -> Labels] /\ tpc'[t] \in {"check_shm", "set_tid"}
          /\ \A u \in Threads \ {t} : tpc'[u] = tpc[u]
      BY <2>2 DEF Goto, CallInv, Labels, Entering
    <3>3. /\ func' \in [Threads -> Name \cup {NoFunc}] /\ func'[t] \in Name
          /\ \A u \in Threads \ {t} : func'[u] = func[u]
      BY <2>2 DEF CallInv
    <3>4. \A u \in Threads : tpc'[u] \in Entering => func'[u] \in Name
      BY <3>2, <3>3 DEF CallInv
    <3>5. raced' \in BOOLEAN
      BY <2>2 DEF CallInv
    <3>6. Shaped(memDep)'
      BY <3>1 DEF CallInv, Shaped
    <3>7. OneHolder' /\ CallBefore'
      BY <3>1, <3>2 DEF CallInv, OneHolder, CallBefore, Holders, Naming
    <3>8. ~raced' => ~raced /\ \A u \in Threads \ {t} : tpc[u] \notin Entering
      BY <2>2
    <3>9. AloneEntering'
      BY <3>1, <3>2, <3>8 DEF CallInv, AloneEntering, Naming
    <3>10. Histories'
      BY <3>1, <3>8 DEF CallInv, Histories
    <3> QED BY <3>1, <3>2, <3>3, <3>4, <3>5, <3>6, <3>7, <3>9, <3>10 DEF CallInv
  <2> QED BY <1>1, <2>1, <2>2 DEF FuncEntry
\* A step from one label to another that neither names nor adds.
<1>2. ASSUME NEW from \in Labels, NEW to \in Labels,
             tpc[t] = from, Goto(t, to),
             to \in Entering => from \in Entering,
             to \in Holders => from \in Holders,
             to \in Naming => from \in Naming,
             from \in Naming => to \in Naming,
             from = "set_func" => to = "set_func" \/ \A u \in Threads : tpc[u] \notin Holders,
             UNCHANGED <<func, raced, visitTid, who, owners>>,
             Shaped(memDep)', memDep'.call_seq = memDep.call_seq
      PROVE  CallInv'
  <2>1. /\ tpc' \in [Threads -> Labels] /\ tpc'[t] = to
        /\ \A u \in Threads \ {t} : tpc'[u] = tpc[u]
    BY <1>2 DEF Goto, CallInv
  <2>2. \A u \in Threads : /\ tpc'[u] \in Entering => tpc[u] \in Entering
                           /\ tpc'[u] \in Holders => tpc[u] \in Holders
                           /\ tpc'[u] \in Naming <=> tpc[u] \in Naming
    BY <1>2, <2>1
  <2>3. OneHolder'
    <3> SUFFICES ASSUME NEW u \in Threads, NEW v \in Threads, u # v, tpc'[u] \in Holders
                 PROVE  tpc'[v] \notin Holders /\ (visitTid' = v => tpc'[v] = "set_func")
      BY DEF OneHolder
    <3>1. tpc[v] \notin Holders /\ (visitTid = v => tpc[v] = "set_func")
      BY <2>2 DEF CallInv, OneHolder
    <3>2. v = t /\ tpc[v] = "set_func" => to = "set_func"
      BY <1>2, <2>2
    <3> QED BY <1>2, <2>1, <2>2, <3>1, <3>2
  <2>4. CallBefore' /\ AloneEntering' /\ Histories'
    BY <1>2, <2>2 DEF CallInv, CallBefore, AloneEntering, Histories
  <2>5. \A u \in Threads : tpc'[u] \in Entering => func'[u] \in Name
    BY <1>2, <2>2 DEF CallInv
  <2> QED BY <1>2, <2>1, <2>3, <2>4, <2>5 DEF CallInv
<1>3. CASE CheckShm(t) \/ MapFile(t) \/ KeepMap(t) \/ Connect(t) \/ Register(t)
  <2>1. /\ tpc[t] \in {"check_shm", "map", "keep", "connect", "register"}
        /\ \E to \in {"set_tid", "map", "keep", "copy_initial", "register"} : Goto(t, to)
        /\ UNCHANGED <<func, raced, visitTid, who, owners, memDep>>
    BY <1>3 DEF CheckShm, MapFile, KeepMap, Connect, Register, At, curVars, histVars
  <2>2. PICK to \in {"set_tid", "map", "keep", "copy_initial", "register"} : Goto(t, to)
    BY <2>1
  <2>3. Shaped(memDep)' /\ memDep'.call_seq = memDep.call_seq
    BY <2>1 DEF CallInv, Shaped
  <2> QED BY <1>2, <2>1, <2>2, <2>3 DEF Labels, Entering, Holders, Naming
<1>4. CASE BeginCopy(t, "copy_initial", "initial", FALSE) \/ BeginCopy(t, "copy_final", "final", TRUE)
  <2>1. /\ \/ tpc[t] = "copy_initial" /\ Goto(t, "initial")
           \/ tpc[t] = "copy_final" /\ Goto(t, "final")
        /\ UNCHANGED <<func, raced, visitTid, who, owners>>
        /\ memDep' = memDep \/ memDep' = DedupMem(memDep, Len(memDep.call_seq))
    BY <1>4 DEF BeginCopy, At, curVars, histVars
  <2>2. Shaped(memDep)' /\ memDep'.call_seq = memDep.call_seq
    <3>1. Shaped(memDep)
      BY DEF CallInv
    <3> HIDE DEF CallInv
    <3>2. CASE memDep' = memDep
      BY <3>1, <3>2 DEF Shaped
    <3>3. CASE memDep' = DedupMem(memDep, Len(memDep.call_seq))
      BY <3>1, <3>3, DedupShaped DEF Shaped
    <3> QED BY <2>1, <3>2, <3>3
  <2> QED BY <1>2, <2>1, <2>2 DEF Labels, Entering, Holders, Naming
<1>5. CASE EndCopy(t, "initial", "connect") \/ EndCopy(t, "final", "relock")
  <2>1. /\ \/ tpc[t] = "initial" /\ Goto(t, "connect")
           \/ tpc[t] = "final" /\ Goto(t, "relock")
        /\ UNCHANGED <<func, raced, visitTid, who, owners, memDep>>
    BY <1>5 DEF EndCopy, At, curVars, histVars
  <2>2. Shaped(memDep)' /\ memDep'.call_seq = memDep.call_seq
    BY <2>1 DEF CallInv, Shaped
  <2> QED BY <1>2, <2>1, <2>2 DEF Labels, Entering, Holders, Naming
<1>6. CASE Relock(t)
  <2>1. /\ tpc[t] = "relock"
        /\ UNCHANGED <<func, raced, visitTid, who, owners, memDep>>
        /\ Goto(t, "stuck") \/ UNCHANGED tpc
    BY <1>6 DEF Relock, At, curVars, histVars
  <2>2. Shaped(memDep)' /\ memDep'.call_seq = memDep.call_seq
    BY <2>1 DEF CallInv, Shaped
  <2>3. CASE Goto(t, "stuck")
    BY <1>2, <2>1, <2>2, <2>3 DEF Labels, Entering, Holders, Naming
  <2>4. CASE UNCHANGED tpc
    BY <2>1, <2>4, CallStutter DEF runVars
  <2> QED BY <2>1, <2>3, <2>4
<1>7. CASE SetTid(t)
  <2>1. /\ tpc[t] = "set_tid" /\ visitTid' = t
        /\ tpc' \in [Threads -> Labels] /\ tpc'[t] = "set_func"
        /\ \A u \in Threads \ {t} : tpc'[u] = tpc[u]
        /\ UNCHANGED <<func, raced, who, owners, memDep>>
    BY <1>7 DEF SetTid, At, Goto, histVars, CallInv, Labels, Entering
  <2>2. OneHolder' /\ CallBefore'
    BY <2>1 DEF CallInv, OneHolder, CallBefore, Holders, Naming
  <2>3. AloneEntering'
    BY <2>1 DEF CallInv, AloneEntering, Entering, Naming
  <2>4. Histories' /\ Shaped(memDep)'
    BY <2>1 DEF CallInv, Histories, Shaped
  <2>5. \A u \in Threads : tpc'[u] \in Entering => func'[u] \in Name
    BY <2>1 DEF CallInv, Entering
  <2> QED BY <2>1, <2>2, <2>3, <2>4, <2>5 DEF CallInv
<1>8. CASE SetFunc(t)
  <2>1. /\ tpc[t] = "set_func" /\ Goto(t, "add_func") /\ \A u \in Threads : tpc[u] \notin Holders
        /\ UNCHANGED <<func, raced, visitTid, who, owners, memDep>>
    BY <1>8 DEF SetFunc, At, ReaderHolds, Holders, histVars
  <2>2. Shaped(memDep)' /\ memDep'.call_seq = memDep.call_seq
    BY <2>1 DEF CallInv, Shaped
  <2> QED BY <1>2, <2>1, <2>2 DEF Labels, Entering, Holders, Naming
<1>9. CASE AddFunc(t)
  <2>1. /\ tpc[t] = "add_func" /\ memDep' = AddNewFunc(memDep, func[t])
        /\ who' = Append(who, t) /\ owners' = Append(owners, {})
        /\ tpc' \in [Threads -> Labels] /\ tpc'[t] = "app"
        /\ \A u \in Threads \ {t} : tpc'[u] = tpc[u]
        /\ UNCHANGED <<func, raced, visitTid>>
    BY <1>9 DEF AddFunc, At, Goto, curVars, CallInv, Labels
  <2>2. Shaped(memDep)' /\ memDep'.call_seq # << >>
    BY <2>1, AddShaped DEF CallInv, Entering, Shaped
  <2>3. OneHolder'
    BY <2>1 DEF CallInv, OneHolder, Holders
  <2>4. CallBefore'
    BY <2>2 DEF CallBefore
  <2>5. who' \in Seq(Threads) /\ who' # << >> /\ Len(who') = Len(who) + 1 /\ who'[Len(who')] = t
    <3>1. who' = Append(who, t) /\ who \in Seq(Threads)
      BY <2>1 DEF CallInv, Histories
    <3>2. Append(who, t) \in Seq(Threads) /\ Len(Append(who, t)) = Len(who) + 1
          /\ Append(who, t)[Len(who) + 1] = t /\ Len(who) \in Nat
      BY <3>1, AppendFacts
    <3> QED BY <3>1, <3>2
  <2>6. AloneEntering'
    BY <2>1, <2>5 DEF CallInv, AloneEntering, Entering, Naming
  <2>7. Histories'
    <3>1. /\ owners' \in Seq(SUBSET Threads) /\ Len(who') = Len(owners')
          /\ Len(owners') = Len(owners) + 1 /\ owners'[Len(owners')] = {}
      BY <2>1, <2>5 DEF CallInv, Histories
    <3>2. \A i \in 1 .. Len(owners) : owners'[i] = owners[i] /\ who'[i] = who[i]
      BY <2>1 DEF CallInv, Histories
    <3>3. ~raced' => \A i \in 1 .. Len(owners') : owners'[i] \subseteq {who'[i]}
      BY <2>1, <3>1, <3>2 DEF CallInv, Histories
    <3> QED BY <2>5, <3>1, <3>3 DEF Histories
  <2>8. \A u \in Threads : tpc'[u] \in Entering => func'[u] \in Name
    BY <2>1 DEF CallInv, Entering
  <2> QED BY <2>1, <2>2, <2>3, <2>4, <2>6, <2>7, <2>8 DEF CallInv
<1>10. ASSUME NEW a \in Accesses, Pointer(t, a) PROVE CallInv'
  <2>1. /\ tpc[t] = "app" /\ visitTid = t
        /\ memDep' = PushLast(memDep, a.kind, a.access)
        /\ owners' = [owners EXCEPT ![Len(owners)] = @ \cup {t}]
        /\ UNCHANGED <<tpc, func, raced, visitTid, who>>
    BY <1>10 DEF Pointer, At, Visited, curVars
  <2>2. Shaped(memDep)' /\ memDep'.call_seq = memDep.call_seq
    BY <2>1, PushShaped DEF CallInv, Shaped
  <2>3. OneHolder' /\ CallBefore' /\ AloneEntering'
    <3>1. OneHolder' /\ CallBefore'
      BY <2>1, <2>2 DEF CallInv, OneHolder, CallBefore
    <3>2. AloneEntering'
      BY <2>1 DEF CallInv, AloneEntering
    <3> QED BY <3>1, <3>2
  <2>4. Histories'
    <3>1. owners \in [1 .. Len(owners) -> SUBSET Threads] /\ Len(owners) \in Nat
      BY DEF CallInv, Histories
    <3>2. owners' \in [1 .. Len(owners) -> SUBSET Threads]
      BY <2>1, <3>1
    <3>3. owners' \in Seq(SUBSET Threads) /\ Len(owners') = Len(owners)
      BY <3>1, <3>2
    <3>4. ~raced => who[Len(who)] = t
      BY <2>1 DEF CallInv, AloneEntering, Naming
    <3>5. ASSUME ~raced, NEW i \in 1 .. Len(owners') PROVE owners'[i] \subseteq {who[i]}
      BY <2>1, <3>3, <3>4, <3>5 DEF CallInv, Histories
    <3> QED BY <2>1, <3>3, <3>5 DEF CallInv, Histories
  <2> QED BY <2>1, <2>2, <2>3, <2>4 DEF CallInv
<1>11. ASSUME NEW f \in Funcs[t], FuncReturn(t, f) PROVE CallInv'
  <2>1. /\ tpc[t] = "app" /\ visitTid = t
        /\ func' = [func EXCEPT ![t] = f]
        /\ tpc' \in [Threads -> Labels] /\ tpc'[t] = "copy_final"
        /\ \A u \in Threads \ {t} : tpc'[u] = tpc[u]
        /\ UNCHANGED <<raced, visitTid, who, owners, memDep>>
    BY <1>11 DEF FuncReturn, At, Goto, Visited, curVars, histVars, CallInv, Labels
  <2>2. /\ func' \in [Threads -> Name \cup {NoFunc}]
        /\ \A u \in Threads : tpc'[u] \in Entering => func'[u] \in Name
    BY <2>1 DEF CallInv, Entering
  <2>3. OneHolder' /\ CallBefore'
    BY <2>1 DEF CallInv, OneHolder, CallBefore, Holders, Naming
  <2>4. AloneEntering'
    BY <2>1 DEF CallInv, AloneEntering, Entering, Naming
  <2>5. Histories' /\ Shaped(memDep)'
    BY <2>1 DEF CallInv, Histories, Shaped
  <2> QED BY <2>1, <2>2, <2>3, <2>4, <2>5 DEF CallInv
<1> QED
  BY <1>1, <1>3, <1>4, <1>5, <1>6, <1>7, <1>8, <1>9, <1>10, <1>11 DEF Callback

LEMMA CallNext ==
  ASSUME CallInv, scenario \in Scenarios, [Next]_chainVars
  PROVE  CallInv' /\ scenario' = scenario
<1>1. ASSUME NEW t \in scenario.threads, Callback(t) PROVE CallInv'
  <2>1. t \in Threads
    BY ScenarioAssumption
  <2> QED BY <1>1, <2>1, CallStep
<1>2. UNCHANGED runVars => CallInv'
  BY CallStutter
<1>3. ProcessEnds => UNCHANGED runVars
  BY DEF ProcessEnds, runVars, curVars, histVars
<1>4. \A c : ClientStep(c) => UNCHANGED runVars
  BY DEF ClientStep, runVars, curVars, histVars
<1>5. UNCHANGED memVars => UNCHANGED runVars
  BY DEF memVars, runVars, curVars, histVars
<1> QED BY <1>1, <1>2, <1>3, <1>4, <1>5 DEF Next, chainVars

-----------------------------------------------------------------------------

\* Only one return ever gets to the copy: two holders are one thread.
LEMMA OneHolderCounts == CallInv => FirstReturnIsLast
<1> SUFFICES ASSUME CallInv PROVE Cardinality({t \in Threads : tpc[t] \in Holders}) <= 1
  BY DEF FirstReturnIsLast, Holders
<1> DEFINE H == {t \in Threads : tpc[t] \in Holders}
<1>1. CASE H = {}
  BY <1>1, FS_EmptySet
<1>2. ASSUME NEW t \in H PROVE Cardinality(H) <= 1
  <2>1. H = {t}
    BY DEF CallInv, OneHolder
  <2>2. Cardinality({t}) = 1
    BY FS_Singleton
  <2> QED BY <2>1, <2>2
<1> QED BY <1>1, <1>2

LEMMA CallsExist == CallInv => AccessesAttributed
BY DEF CallInv, CallBefore, Naming, Histories, AccessesAttributed, Visited

ChainInv == CallInv /\ scenario \in Scenarios

LEMMA ChainInduction == Spec => []ChainInv
<1>1. Init => ChainInv
  BY InitCall DEF Init, ChainInv
<1>2. ChainInv /\ [Next]_chainVars => ChainInv'
  BY CallNext DEF ChainInv
<1> QED BY <1>1, <1>2, PTL DEF Spec

\* Once a return copies its record, nobody else returns or enters: whatever
\* __mem_analysis_func_return of another call would have saved is lost.
THEOREM FirstReturnIsLastCorrect == Spec => []FirstReturnIsLast
<1>1. ChainInv => FirstReturnIsLast
  BY OneHolderCounts DEF ChainInv
<1> QED BY <1>1, ChainInduction, PTL

\* The call that an access is added to (last_mut().unwrap() in the callbacks)
\* exists, and is a call of the thread that accesses unless entries raced.
THEOREM AccessesAttributedCorrect == Spec => []AccessesAttributed
<1>1. ChainInv => AccessesAttributed
  BY CallsExist DEF ChainInv
<1> QED BY <1>1, ChainInduction, PTL

-----------------------------------------------------------------------------
(* The files of the process and of the clients.                             *)

\* For each call there is a list of each kind, with accesses of this kind.
Listed(dep) ==
  \A k \in Kinds : dep.mem[k] \in Seq(Seq(Access(k))) /\ Len(dep.mem[k]) = Len(dep.call_seq)
Orderly(dep) == Shaped(dep) /\ Listed(dep)

\* The process stopped while a thread held MEM_DEP.
StoppedCopying == process # "runs" /\ depLock # NoThread

\* Threads that have created a file and not yet registered it.
Creating == {"map", "keep", "copy_initial", "initial", "connect", "register"}

\* Each thread creates one file until SHM is set, and nobody has a file then.
Created ==
  /\ {shm, mmap, connected, dest} \subseteq Files \cup {NoFile}
  /\ target \in [Threads -> Files \cup {NoFile}]
  /\ \A t \in Threads : tpc[t] \in Creating => target[t] \in Files
  /\ shm = NoFile => \A t \in Threads : target[t] # NoFile => tpc[t] = "map"

LinkStates == {"none", "open", "sent", "closed", "cut", "reset"}
Connected ==
  /\ link \in [Links -> LinkStates]
  /\ \A c \in Links : link[c] = "reset" => c \in Clients
  /\ \A f \in Files : link[f] = "cut" => process # "runs"

\* What the file of c decodes to, or what was read from it.
Sound(c, dep) == Left(dep) /\ (c \in Files => Orderly(dep) \/ StoppedCopying)

Written ==
  /\ DOMAIN content = Links
  /\ \A c \in Links : content[c] = NoDep \/ Sound(c, content[c])

FileInv ==
  /\ process \in {"runs", "ended", "died"}
  /\ depLock \in Threads \cup {NoThread}
  /\ disable \in BOOLEAN /\ mini \in BOOLEAN
  /\ Listed(memDep)
  /\ Created /\ Connected /\ Written

-----------------------------------------------------------------------------
(* The lists of a dependency.                                               *)

\* A function on the first numbers is a sequence, of its own values.
LEMMA FunctionIsSeq ==
  ASSUME NEW n \in Nat, NEW f, f = [i \in 1 .. n |-> f[i]]
  PROVE  f \in Seq(Range(f)) /\ Len(f) = n
<1>1. DOMAIN f = 1 .. n /\ \A i \in 1 .. n : f[i] \in Range(f)
  BY DEF Range
<1>2. f \in [1 .. n -> Range(f)]
  BY <1>1
<1> QED BY <1>2

LEMMA SeqIsFunction ==
  ASSUME NEW S, NEW f \in Seq(S)
  PROVE  f = [i \in 1 .. Len(f) |-> f[i]] /\ Len(f) \in Nat /\ f \in Seq(Range(f))
<1>1. f = [i \in 1 .. Len(f) |-> f[i]] /\ Len(f) \in Nat
  OBVIOUS
<1> QED BY <1>1, FunctionIsSeq

LEMMA EmptyOrderly == Orderly(EmptyDep)
<1>1. \A k : << >> \in Seq(Seq(Access(k))) /\ Len(<< >>) = 0
  OBVIOUS
<1> QED BY <1>1 DEF Orderly, Shaped, Listed, EmptyDep

LEMMA AddListed ==
  ASSUME NEW dep, Orderly(dep), NEW f \in Name
  PROVE  Listed(AddNewFunc(dep, f))
<1>1. Len(Append(dep.call_seq, f)) = Len(dep.call_seq) + 1
  BY DEF Orderly, Shaped
<1>2. ASSUME NEW k \in Kinds
      PROVE  /\ Append(dep.mem[k], << >>) \in Seq(Seq(Access(k)))
             /\ Len(Append(dep.mem[k], << >>)) = Len(dep.mem[k]) + 1
  <2>1. dep.mem[k] \in Seq(Seq(Access(k))) /\ << >> \in Seq(Access(k))
    BY DEF Orderly, Listed
  <2> QED BY <2>1
<1> QED BY <1>1, <1>2 DEF Orderly, Listed, AddNewFunc

\* Replacing an entry of a list, if it is there, keeps its length.
LEMMA ReplacedSeq ==
  ASSUME NEW S, NEW s \in Seq(S), NEW i, NEW v, i \in DOMAIN s => v \in S
  PROVE  [s EXCEPT ![i] = v] \in Seq(S) /\ Len([s EXCEPT ![i] = v]) = Len(s)
<1>1. s \in [1 .. Len(s) -> S] /\ Len(s) \in Nat /\ DOMAIN s = 1 .. Len(s)
  OBVIOUS
<1>2. [s EXCEPT ![i] = v] \in [1 .. Len(s) -> S]
  BY <1>1
<1> DEFINE r == [s EXCEPT ![i] = v]
<1> HIDE DEF r
<1> QED BY <1>1, <1>2 DEF r

LEMMA PushListed ==
  ASSUME NEW dep, Orderly(dep), NEW k \in Kinds, NEW a \in Access(k)
  PROVE  Listed(PushLast(dep, k, a))
<1> DEFINE m == dep.mem[k]
           new == [m EXCEPT ![Len(m)] = Append(Last(m), a)]
<1>1. ASSUME NEW j \in Kinds
      PROVE  PushLast(dep, k, a).mem[j] = IF j = k THEN new ELSE dep.mem[j]
  <2>1. PushLast(dep, k, a).mem = [dep.mem EXCEPT ![k] = new]
    BY DEF Orderly, Shaped, PushLast, ReplaceAt
  <2>2. DOMAIN dep.mem = Kinds
    BY DEF Orderly, Shaped
  <2> HIDE DEF new
  <2> QED BY <2>1, <2>2
<1>2. new \in Seq(Seq(Access(k))) /\ Len(new) = Len(m)
  <2>1. m \in Seq(Seq(Access(k)))
    BY DEF Orderly, Listed
  <2>2. Len(m) \in DOMAIN m => Append(Last(m), a) \in Seq(Access(k))
    <3> HIDE DEF m
    <3> SUFFICES ASSUME Len(m) \in DOMAIN m PROVE Append(m[Len(m)], a) \in Seq(Access(k))
      BY DEF Last
    <3>1. m[Len(m)] \in Seq(Access(k))
      BY <2>1
    <3> QED BY <3>1
  <2> HIDE DEF m
  <2> QED BY <2>1, <2>2, ReplacedSeq
<1> HIDE DEF new
<1> QED BY <1>1, <1>2, PushShaped DEF Orderly, Listed

LEMMA DedupListed ==
  ASSUME NEW dep, Orderly(dep), NEW i
  PROVE  Listed(DedupMem(dep, i))
<1> DEFINE new(j) == [dep.mem[j] EXCEPT ![i] = DedupList(j, dep.mem[j][i])]
<1>1. ASSUME NEW j \in Kinds
      PROVE  DedupMem(dep, i).mem[j] = IF i \in DOMAIN dep.mem[j] THEN new(j) ELSE dep.mem[j]
  BY DEF Orderly, Shaped, DedupMem
<1>2. ASSUME NEW j \in Kinds
      PROVE  new(j) \in Seq(Seq(Access(j))) /\ Len(new(j)) = Len(dep.mem[j])
  <2>1. dep.mem[j] \in Seq(Seq(Access(j)))
    BY DEF Orderly, Listed
  <2>2. i \in DOMAIN dep.mem[j] => DedupList(j, dep.mem[j][i]) \in Seq(Access(j))
    BY <2>1, DedupListIs
  <2> DEFINE m == dep.mem[j]
             v == DedupList(j, dep.mem[j][i])
  <2>3. [m EXCEPT ![i] = v] \in Seq(Seq(Access(j))) /\ Len([m EXCEPT ![i] = v]) = Len(m)
    <3>1. m \in Seq(Seq(Access(j))) /\ (i \in DOMAIN m => v \in Seq(Access(j)))
      BY <2>1, <2>2
    <3> DEFINE S == Seq(Access(j))
    <3>2. m \in Seq(S) /\ (i \in DOMAIN m => v \in S)
      BY <3>1
    <3> HIDE DEF m, v, S
    <3>3. [m EXCEPT ![i] = v] \in Seq(S) /\ Len([m EXCEPT ![i] = v]) = Len(m)
      BY <3>2, ReplacedSeq
    <3> QED BY <3>3 DEF S
  <2> QED BY <2>3
<1> HIDE DEF new
<1> QED BY <1>1, <1>2, DedupShaped DEF Orderly, Listed

\* A whole dependency, or one that was cut off while it was copied, is what a
\* process may leave.
LEMMA CutLeft ==
  ASSUME NEW dep, Orderly(dep), NEW cut \in CutOff(dep)
  PROVE  Left(cut)
<1> DEFINE part(whole) == [call_seq |-> dep.call_seq,
                           mem |-> [k \in Kinds |-> IF k \in whole THEN dep.mem[k] ELSE << >>]]
<1>1. Left(dep) /\ Left(EmptyDep)
  BY EmptyOrderly DEF Left, Orderly, Shaped, Listed
<1>2. ASSUME NEW whole \in Wholes PROVE Left(part(whole))
  <2>1. \A k : << >> \in Seq(Seq(Access(k))) /\ Len(<< >>) = 0
    OBVIOUS
  <2>2. ASSUME NEW k \in Kinds
        PROVE  /\ part(whole).mem[k] \in Seq(Seq(Access(k)))
               /\ Len(part(whole).mem[k]) = IF k \in whole THEN Len(dep.call_seq) ELSE 0
    <3>1. part(whole).mem[k] = IF k \in whole THEN dep.mem[k] ELSE << >>
      OBVIOUS
    <3>2. dep.mem[k] \in Seq(Seq(Access(k))) /\ Len(dep.mem[k]) = Len(dep.call_seq)
      BY DEF Orderly, Listed
    <3> HIDE DEF part
    <3> QED BY <2>1, <3>1, <3>2
  <2>3. part(whole) = [call_seq |-> part(whole).call_seq, mem |-> [k \in Kinds |-> part(whole).mem[k]]]
    OBVIOUS
  <2>4. part(whole).call_seq = dep.call_seq
    OBVIOUS
  <2> HIDE DEF part
  <2> QED BY <1>2, <2>2, <2>3, <2>4 DEF Left, Orderly, Shaped
<1>3. cut = dep \/ cut = EmptyDep \/ \E whole \in Wholes : cut = part(whole)
  BY DEF CutOff
<1> HIDE DEF part
<1> QED BY <1>1, <1>2, <1>3

\* What of all this cannot be measured was empty, or cut off.
LEMMA LeftMeasurable ==
  ASSUME NEW dep, Left(dep), ~Measurable(dep)
  PROVE  dep = EmptyDep \/ Len(dep.mem["mini_store_mem"]) < Len(dep.call_seq)
<1>1. PICK whole \in {Kinds} \cup Wholes : \A k \in Kinds :
        /\ dep.mem[k] \in Seq(Seq(Access(k)))
        /\ Len(dep.mem[k]) = IF k \in whole THEN Len(dep.call_seq) ELSE 0
  BY DEF Left
<1>2. Len(dep.call_seq) \in Nat /\ dep.call_seq \in Seq(Name)
  BY DEF Left
<1>3. CASE Len(dep.call_seq) = 0
  <2>1. dep.call_seq = << >>
    BY <1>2, <1>3
  <2>2. \A k \in Kinds : dep.mem[k] = << >>
    BY <1>1, <1>3
  <2>3. dep.mem = [k \in Kinds |-> dep.mem[k]]
    BY DEF Left
  <2> QED BY <2>1, <2>2, <2>3 DEF Left, EmptyDep
<1>4. CASE Len(dep.call_seq) > 0 /\ whole = Kinds
  BY <1>1, <1>2, <1>4 DEF Measurable, MiniComplete, Kinds
<1>5. CASE Len(dep.call_seq) > 0 /\ whole \in Wholes
  BY <1>1, <1>2, <1>5 DEF Wholes, Kinds
<1> QED BY <1>1, <1>2, <1>3, <1>4, <1>5

LEMMA OrderlyMeasurable ==
  ASSUME NEW dep, Orderly(dep), ~Measurable(dep)
  PROVE  dep = EmptyDep
<1>1. Left(dep)
  BY CutLeft DEF CutOff
<1>2. Len(dep.mem["mini_store_mem"]) = Len(dep.call_seq) /\ Len(dep.call_seq) \in Nat
  BY DEF Orderly, Shaped, Listed, Kinds
<1> QED BY <1>1, <1>2, LeftMeasurable

-----------------------------------------------------------------------------
(* FileInv is inductive, together with CallInv.                             *)

LEMMA InitFiles == Init => FileInv
<1> SUFFICES ASSUME Init PROVE FileInv
  OBVIOUS
<1> USE MemAssumption, ChainAssumption
<1>1. Orderly(EmptyDep)
  BY EmptyOrderly
<1>2. Left(EmptyDep)
  BY <1>1, CutLeft DEF CutOff
<1>3. Listed(memDep) /\ Created /\ Connected
  BY <1>1 DEF Init, MemInit, Orderly, Created, Creating, Connected, LinkStates, Files
<1>4. Written
  <2>1. PICK image \in scenario.images :
          content = [f \in Links |-> IF f \in scenario.clients THEN image[f] ELSE EmptyDep]
    BY DEF Init
  <2>2. \A c \in scenario.clients : c \in Clients /\ (image[c] = NoDep \/ Left(image[c]))
    BY <2>1, ScenarioAssumption DEF Init
  <2> QED BY <1>1, <1>2, <2>1, <2>2 DEF Written, Sound
<1> QED BY <1>3, <1>4 DEF FileInv, Init, MemInit

\* The file that CheckShm creates is a new one: there are as many as threads.
LEMMA FreshFile ==
  ASSUME target \in [Threads -> Files \cup {NoFile}], NEW t \in Threads, target[t] = NoFile
  PROVE  \E f \in Files : \A u \in Threads : target[u] # f
<1> SUFFICES ASSUME \A f \in Files : \E u \in Threads : target[u] = f PROVE FALSE
  OBVIOUS
<1> USE MemAssumption
<1> DEFINE Others == Threads \ {t}
           Used == {target[u] : u \in Others}
<1>1. Files \subseteq Used
  BY DEF Files
<1>2. IsFiniteSet(Others) /\ Cardinality(Others) = Cardinality(Threads) - 1
  BY FS_RemoveElement
<1>3. IsFiniteSet(Used) /\ Cardinality(Used) <= Cardinality(Others)
  <2> DEFINE pick == [u \in Others |-> target[u]]
  <2>1. pick \in Surjection(Others, Used)
    BY DEF Surjection
  <2> HIDE DEF Others, Used, pick
  <2> QED BY <1>2, <2>1, FS_Surjection
<1>4. Cardinality(Files) <= Cardinality(Used)
  BY <1>1, <1>3, FS_Subset
<1>5. IsFiniteSet(Files) /\ Cardinality(Files) = MaxFiles
  <2>1. Cardinality(1 .. MaxFiles) = MaxFiles
    BY FS_Interval
  <2> QED BY <2>1, FS_Interval DEF Files
<1>6. Cardinality(Threads) \in Nat /\ Cardinality(Used) \in Nat
  BY <1>3, FS_CardinalityType
<1> QED BY <1>2, <1>3, <1>4, <1>5, <1>6

LEMMA CreatedStep ==
  ASSUME CallInv, FileInv, NEW t \in Threads, Callback(t)
  PROVE  Created'
<1> USE MemAssumption DEF Created, Creating, At, Goto, netVars, mapVars, lockVars
<1>1. tpc \in [Threads -> Labels] /\ Created /\ NoFile \notin Files
  BY DEF CallInv, FileInv
<1>2. CASE FuncEntry(t)
  BY <1>1, <1>2 DEF FuncEntry
<1>3. CASE CheckShm(t)
  <2>1. CASE shm # NoFile
    BY <1>1, <1>3, <2>1 DEF CheckShm
  <2>2. CASE shm = NoFile
    <3> DEFINE new == CHOOSE f \in Files : \A u \in Threads : target[u] # f
    <3>1. target[t] = NoFile
      BY <1>1, <1>3, <2>2 DEF CheckShm
    <3>2. \E f \in Files : \A u \in Threads : target[u] # f
      BY <1>1, <3>1, FreshFile
    <3>3. new \in Files
      BY <3>2
    <3>4. target' = [target EXCEPT ![t] = new] /\ tpc' = [tpc EXCEPT ![t] = "map"]
      BY <1>3, <2>2 DEF CheckShm
    <3>5. UNCHANGED <<shm, mmap, connected, dest>>
      BY <1>3 DEF CheckShm
    <3> HIDE DEF new
    <3> QED BY <1>1, <2>2, <3>3, <3>4, <3>5
  <2> QED BY <2>1, <2>2
<1>4. CASE MapFile(t)
  BY <1>1, <1>4 DEF MapFile
<1>5. CASE KeepMap(t)
  BY <1>1, <1>5 DEF KeepMap
<1>6. CASE BeginCopy(t, "copy_initial", "initial", FALSE) \/ BeginCopy(t, "copy_final", "final", TRUE)
  BY <1>1, <1>6 DEF BeginCopy
<1>7. CASE EndCopy(t, "initial", "connect") \/ EndCopy(t, "final", "relock")
  BY <1>1, <1>7 DEF EndCopy
<1>8. CASE Connect(t)
  BY <1>1, <1>8 DEF Connect
<1>9. CASE Register(t)
  BY <1>1, <1>9 DEF Register
<1>10. CASE SetTid(t) \/ SetFunc(t) \/ AddFunc(t) \/ Relock(t)
  BY <1>1, <1>10 DEF SetTid, SetFunc, AddFunc, Relock
<1>11. ASSUME NEW a \in Accesses, Pointer(t, a) PROVE Created'
  BY <1>1, <1>11 DEF Pointer
<1>12. ASSUME NEW f \in Funcs[t], FuncReturn(t, f) PROVE Created'
  BY <1>1, <1>12 DEF FuncReturn
<1> QED
  BY <1>2, <1>3, <1>4, <1>5, <1>6, <1>7, <1>8, <1>9, <1>10, <1>11, <1>12 DEF Callback

\* What a callback does to the connections, all of them of its own files.
LEMMA ConnectedStep ==
  ASSUME CallInv, FileInv, NEW t \in Threads, Callback(t)
  PROVE  /\ Connected' /\ process = "runs" /\ process' \in {"runs", "died"}
         /\ \A c \in Clients : link'[c] = link[c]
<1> USE MemAssumption, ChainAssumption DEF Created, Creating, At, netVars
<1>1. /\ Connected /\ Created /\ NoFile \notin Links
      /\ link \in [Links -> LinkStates]
  BY DEF FileInv, Connected
<1> DEFINE P == /\ Connected' /\ process = "runs" /\ process' \in {"runs", "died"}
                /\ \A c \in Clients : link'[c] = link[c]
<1> HIDE DEF FileInv
<1>2. ASSUME UNCHANGED link, process = "runs", process' \in {"runs", "died"} PROVE P
  BY <1>1, <1>2 DEF Connected
<1>3. ASSUME process = "runs", process' = "died", link' = Ended PROVE P
  BY <1>1, <1>3 DEF Connected, Ended, LinkStates
<1>4. CASE FuncEntry(t) \/ CheckShm(t) \/ MapFile(t) \/ KeepMap(t) \/ SetTid(t) \/ SetFunc(t) \/ AddFunc(t)
  BY <1>2, <1>4 DEF FuncEntry, CheckShm, MapFile, KeepMap, SetTid, SetFunc, AddFunc
<1>5. CASE BeginCopy(t, "copy_initial", "initial", FALSE) \/ BeginCopy(t, "copy_final", "final", TRUE)
  BY <1>2, <1>5 DEF BeginCopy
<1>6. CASE EndCopy(t, "initial", "connect") \/ EndCopy(t, "final", "relock")
  BY <1>2, <1>3, <1>6 DEF EndCopy
<1>7. CASE Relock(t)
  BY <1>2, <1>3, <1>7 DEF Relock
<1>8. CASE Connect(t)
  BY <1>1, <1>8 DEF Connect, Connected, LinkStates
<1>9. CASE Register(t)
  <2>1. /\ process = "runs" /\ process' = "runs"
        /\ \/ target[t] \in Files /\ link' = [Closed(connected) EXCEPT ![target[t]] = "sent"]
           \/ link' = Closed(connected)
        /\ connected \in Files \cup {NoFile}
    BY <1>1, <1>9 DEF Register
  <2>2. /\ Closed(connected) \in [Links -> LinkStates]
        /\ \A c \in Links : Closed(connected)[c] \in {"cut", "reset"} => Closed(connected)[c] = link[c]
        /\ \A c \in Clients : Closed(connected)[c] = link[c]
    BY <1>1, <2>1 DEF Closed, LinkStates
  <2> QED BY <1>1, <2>1, <2>2 DEF Connected, LinkStates
<1>10. ASSUME NEW a \in Accesses, Pointer(t, a) PROVE P
  BY <1>2, <1>10 DEF Pointer
<1>11. ASSUME NEW f \in Funcs[t], FuncReturn(t, f) PROVE P
  BY <1>2, <1>11 DEF FuncReturn
<1> QED BY <1>4, <1>5, <1>6, <1>7, <1>8, <1>9, <1>10, <1>11 DEF Callback

\* A callback writes whole dependencies.
LEMMA WrittenStep ==
  ASSUME CallInv, FileInv, NEW t \in Threads, Callback(t)
  PROVE  /\ Listed(memDep)' /\ Written' /\ depLock' \in Threads \cup {NoThread}
         /\ disable' = disable /\ mini' \in BOOLEAN
<1> USE DEF At, mapVars, netVars, lockVars
<1> DEFINE P == /\ Listed(memDep)' /\ Written' /\ depLock' \in Threads \cup {NoThread}
                /\ disable' = disable /\ mini' \in BOOLEAN
<1>1. /\ Orderly(memDep) /\ process = "runs"
      /\ depLock \in Threads \cup {NoThread} /\ disable \in BOOLEAN /\ mini \in BOOLEAN
  BY ConnectedStep DEF CallInv, FileInv, Orderly
<1>2. Left(memDep)
  BY <1>1, CutLeft DEF CutOff
<1>3. Written /\ NoFile \notin Links /\ Files \cap Clients = {}
  BY MemAssumption, ChainAssumption DEF FileInv
<1>4. UNCHANGED content \/ content' = [content EXCEPT ![dest] = memDep] => Written'
  BY <1>1, <1>2, <1>3 DEF Written, Sound, StoppedCopying
<1>5. UNCHANGED memDep => Listed(memDep)'
  BY <1>1 DEF Orderly, Listed
<1>6. CASE FuncEntry(t) \/ CheckShm(t) \/ MapFile(t) \/ KeepMap(t) \/ SetTid(t) \/ SetFunc(t)
  BY <1>1, <1>4, <1>5, <1>6 DEF FuncEntry, CheckShm, MapFile, KeepMap, SetTid, SetFunc
<1>7. CASE Connect(t) \/ Register(t) \/ Relock(t)
  BY <1>1, <1>4, <1>5, <1>7 DEF Connect, Register, Relock
<1>8. CASE BeginCopy(t, "copy_initial", "initial", FALSE) \/ BeginCopy(t, "copy_final", "final", TRUE)
  <2>1. Listed(DedupMem(memDep, Len(memDep.call_seq)))
    BY <1>1, DedupListed
  <2>2. Listed(memDep)'
    BY <1>1, <1>8, <2>1 DEF BeginCopy, Orderly, Listed
  <2> QED BY <1>1, <1>4, <1>8, <2>2 DEF BeginCopy
<1>9. CASE EndCopy(t, "initial", "connect") \/ EndCopy(t, "final", "relock")
  BY <1>1, <1>4, <1>5, <1>9 DEF EndCopy
<1>10. CASE AddFunc(t)
  <2>1. func[t] \in Name
    BY <1>10 DEF AddFunc, CallInv, Entering
  <2>2. Listed(AddNewFunc(memDep, func[t]))
    BY <1>1, <2>1, AddListed
  <2> QED BY <1>1, <1>4, <1>10, <2>2 DEF AddFunc, Listed
<1>11. ASSUME NEW a \in Accesses, Pointer(t, a) PROVE P
  <2>1. Listed(PushLast(memDep, a.kind, a.access))
    BY <1>1, MemAssumption, PushListed
  <2> QED BY <1>1, <1>4, <1>11, <2>1 DEF Pointer, Listed
<1>12. ASSUME NEW f \in Funcs[t], FuncReturn(t, f) PROVE P
  BY <1>1, <1>4, <1>5, <1>12 DEF FuncReturn
<1> QED BY <1>6, <1>7, <1>8, <1>9, <1>10, <1>11, <1>12 DEF Callback

\* What lasts: a connection that was cut or reset, and a copy that was
\* interrupted.
Lasting ==
  /\ \A c \in Links : link[c] \in {"cut", "reset"} => link'[c] = link[c]
  /\ StoppedCopying => StoppedCopying'

LEMMA FileNext ==
  ASSUME CallInv, FileInv, scenario \in Scenarios, [Next]_chainVars
  PROVE  FileInv' /\ Lasting
<1> USE MemAssumption, ChainAssumption, ScenarioAssumption
<1>1. ASSUME NEW t \in scenario.threads, Callback(t) PROVE FileInv' /\ Lasting
  <2>1. t \in Threads
    OBVIOUS
  <2>2. FileInv'
    BY <1>1, <2>1, CreatedStep, ConnectedStep, WrittenStep DEF FileInv
  <2>3. Lasting
    <3>1. /\ process = "runs" /\ Connected
          /\ \A c \in Clients : link'[c] = link[c]
      BY <1>1, <2>1, ConnectedStep DEF FileInv
    <3> QED BY <3>1 DEF Lasting, Connected, StoppedCopying
  <2> QED BY <2>2, <2>3
<1>2. ASSUME ProcessEnds PROVE FileInv' /\ Lasting
  <2>1. Orderly(memDep) /\ Written /\ Connected
    BY DEF CallInv, FileInv, Orderly
  <2>2. /\ UNCHANGED <<shm, mmap, disable, mini, memDep, tpc, target, depLock, dest>>
        /\ process = "runs" /\ process' = "ended" /\ link' = Ended /\ connected' = NoFile
    BY <1>2 DEF ProcessEnds, lockVars
  <2>3. Created' /\ Listed(memDep)'
    BY <2>1, <2>2 DEF FileInv, Created, Listed, Orderly
  <2>4. Connected' /\ Lasting
    BY <2>1, <2>2 DEF Connected, LinkStates, Ended, Lasting, StoppedCopying
  <2>5. Written'
    <3>1. CASE UNCHANGED content
      BY <2>1, <2>2, <3>1 DEF Written, Sound, StoppedCopying
    <3>2. ASSUME depLock # NoThread, NEW cut \in CutOff(memDep), content' = [content EXCEPT ![dest] = cut]
          PROVE  Written'
      <4>1. Left(cut)
        BY <2>1, <3>2, CutLeft
      <4>2. StoppedCopying'
        BY <2>2, <3>2 DEF StoppedCopying
      <4> QED BY <2>1, <3>2, <4>1, <4>2 DEF Written, Sound
    <3> QED BY <1>2, <3>1, <3>2 DEF ProcessEnds
  <2> QED BY <2>2, <2>3, <2>4, <2>5 DEF FileInv
<1>3. ASSUME NEW c \in scenario.clients, ClientStep(c) PROVE FileInv' /\ Lasting
  <2>1. c \in Clients
    OBVIOUS
  <2>2. /\ UNCHANGED <<process, shm, mmap, content, connected, disable, mini, memDep, tpc, target,
                       depLock, dest>>
        /\ link[c] \in {"none", "open", "sent"}
        /\ \E l \in LinkStates : link' = [link EXCEPT ![c] = l]
    BY <1>3 DEF ClientStep, mapVars, lockVars, LinkStates
  <2>3. Created' /\ Listed(memDep)' /\ Written'
    BY <2>2 DEF FileInv, Created, Listed, Written, Sound, StoppedCopying
  <2>4. Connected' /\ Lasting
    BY <2>1, <2>2 DEF FileInv, Connected, Lasting, StoppedCopying
  <2> QED BY <2>2, <2>3, <2>4 DEF FileInv
<1>4. ASSUME UNCHANGED memVars PROVE FileInv' /\ Lasting
  <2>1. /\ UNCHANGED <<process, shm, mmap, content, link, connected, disable, mini, memDep, tpc, target,
                       depLock, dest>>
    BY <1>4 DEF memVars, mapVars, netVars, lockVars
  <2>2. Created' /\ Listed(memDep)' /\ Written' /\ Connected'
    BY <2>1 DEF FileInv, Created, Listed, Written, Sound, StoppedCopying, Connected
  <2> QED BY <2>1, <2>2 DEF FileInv, Lasting, StoppedCopying
<1> QED BY <1>1, <1>2, <1>3, <1>4 DEF Next, chainVars

-----------------------------------------------------------------------------
(* The tasks of the connections.                                            *)

Stages == {"read", "connected", "activate", "serialize", "write", "closing", "open", "collect",
           "done", "dead"}

TaskTypes ==
  /\ server \in {"metrics", "analyzer"}
  /\ stage \in [Links \cup {Ticker} -> Stages]
  /\ last \in [Links -> BOOLEAN] /\ buffer \in [Links -> Links \cup {Blank}]
  /\ infos \in [DOMAIN infos -> Links \cup {Blank}] /\ DOMAIN infos \subseteq Links
  /\ DOMAIN taken = Links /\ disk \subseteq Links

\* A connection that is registered under the empty path was cut before it
\* registered; one that is closed and not registered was reset; the file is
\* there until the task is done with it, and read once.
TaskInv(c) ==
  /\ buffer[c] \in {Blank, c}
  /\ c \in DOMAIN infos => infos[c] = c \/ link[c] = "cut"
  /\ stage[c] = "connected" => buffer[c] = c \/ link[c] = "cut"
  /\ stage[c] \in {"activate", "serialize", "write"} => c \in DOMAIN infos
  /\ stage[c] = "closing" /\ c \notin DOMAIN infos => link[c] = "reset"
  /\ c \notin disk => stage[c] = "done"
  /\ server = "metrics" => taken[c] = NoDep \/ Sound(c, taken[c])
  /\ server = "metrics" /\ stage[c] = "collect" => taken[c] # NoDep
  /\ taken[c] # NoDep => stage[c] \in {"collect", "done", "dead"}

\* What the task of another connection, or the ticker, leaves alone.
SameTask(d) ==
  /\ stage'[d] = stage[d] /\ last'[d] = last[d] /\ buffer'[d] = buffer[d] /\ taken'[d] = taken[d]
  /\ d \in DOMAIN infos' <=> d \in DOMAIN infos
  /\ d \in DOMAIN infos => infos'[d] = infos[d]
  /\ d \in disk' <=> d \in disk

PoisonInv ==
  /\ poisoned \subseteq {"socket2id", "statistics", "demangle_map"}
  /\ "socket2id" \in poisoned => \E c \in Links : link[c] = "reset"
  /\ "demangle_map" \in poisoned => \E c \in Links : link[c] = "cut"
  /\ "statistics" \in poisoned =>
       \E c \in Links : stage[c] = "dead" /\ taken[c] # NoDep /\ EndedEarly(c)

TasksInv == TaskTypes /\ \A c \in Links : TaskInv(c)

LEMMA InitTasks == Init => TasksInv /\ PoisonInv
<1> SUFFICES ASSUME Init PROVE TasksInv /\ PoisonInv
  OBVIOUS
<1>1. TaskTypes
  BY ScenarioAssumption DEF Init, ServerInit, TaskTypes, Stages
<1>2. \A c \in Links : TaskInv(c)
  BY DEF Init, ServerInit, TaskInv, Ticker, Blank
<1>3. PoisonInv
  BY DEF Init, ServerInit, PoisonInv
<1> QED BY <1>1, <1>2, <1>3 DEF TasksInv

\* A task that does not move keeps its invariant, whatever else happens.
LEMMA TaskStays ==
  ASSUME NEW d \in Links, TaskInv(d), SameTask(d), Lasting, server' = server
  PROVE  TaskInv(d)'
<1>1. Sound(d, taken[d]) => Sound(d, taken[d])'
  BY DEF Lasting, Sound, SameTask
<1> QED BY <1>1 DEF TaskInv, SameTask, Lasting

LEMMA PoisonStays ==
  ASSUME PoisonInv, Lasting, poisoned' = poisoned,
         \A d \in Links : stage[d] = "dead" => stage'[d] = "dead" /\ taken'[d] = taken[d]
  PROVE  PoisonInv'
<1>1. ASSUME NEW c \in Links, taken'[c] = taken[c], EndedEarly(c) PROVE EndedEarly(c)'
  BY <1>1 DEF EndedEarly, Lasting, StoppedCopying
<1> QED BY <1>1 DEF PoisonInv, Lasting

\* A step of the task of c, with the memory as it was.
LEMMA TaskStep ==
  ASSUME FileInv, TasksInv, PoisonInv, NEW c \in Links, Task(c), UNCHANGED <<memVars, server>>
  PROVE  /\ TaskTypes' /\ TaskInv(c)' /\ \A d \in Links \ {c} : SameTask(d)
         /\ stage[c] \notin {"done", "dead"} /\ stage'[Ticker] = stage[Ticker]
<1> USE ServersAssumption
<1> DEFINE P == /\ TaskTypes' /\ TaskInv(c)' /\ \A d \in Links \ {c} : SameTask(d)
                /\ stage[c] \notin {"done", "dead"} /\ stage'[Ticker] = stage[Ticker]
<1>1. /\ UNCHANGED <<link, content, process, depLock>>
      /\ c # Ticker
  BY DEF memVars, mapVars, netVars, lockVars
<1>2. TaskTypes /\ TaskInv(c)
  BY DEF TasksInv
<1>3. content[c] = NoDep \/ Sound(c, content[c])
  BY DEF FileInv, Written
<1>4. \A dep : Sound(c, dep)' <=> Sound(c, dep)
  BY <1>1 DEF Sound, StoppedCopying
<1> USE DEF TaskTypes, TaskInv, SameTask, InStage, ToStage, Dies, DiesHolding, taskVars, metricVars,
            graphVars, Stages
<1> HIDE DEF TasksInv
<1>5. CASE ReadRegistration(c) \/ ReadEnd(c) \/ ReadError(c)
  <2>1. CASE ReadRegistration(c)
    BY <1>1, <1>2, <1>4, <2>1 DEF ReadRegistration
  <2>2. CASE ReadEnd(c)
    BY <1>1, <1>2, <1>4, <2>2 DEF ReadEnd
  <2>3. CASE ReadError(c)
    BY <1>1, <1>2, <1>4, <2>3 DEF ReadError
  <2> QED BY <1>5, <2>1, <2>2, <2>3
<1>6. ASSUME InStage(c, "connected"), NEW s \in {"read", "closing", "activate", "dead"}, ToStage(c, s),
             \/ infos' = Put(infos, c, buffer[c])
             \/ infos' = infos /\ s = "dead",
             UNCHANGED <<disk, last, buffer, taken>>
      PROVE  P
  <2>1. buffer[c] \in Links \cup {Blank}
    BY <1>2
  <2>2. CASE infos' = Put(infos, c, buffer[c])
    <3>1. /\ infos' \in [DOMAIN infos' -> Links \cup {Blank}] /\ DOMAIN infos' = DOMAIN infos \cup {c}
          /\ infos'[c] = buffer[c] /\ \A x \in DOMAIN infos \ {c} : infos'[x] = infos[x]
      <4> DEFINE S == Links \cup {Blank}
                 new == Put(infos, c, buffer[c])
      <4>1. infos \in [DOMAIN infos -> S] /\ buffer[c] \in S
        BY <1>2, <2>1
      <4> HIDE DEF S
      <4>2. /\ new \in [DOMAIN infos \cup {c} -> S] /\ new[c] = buffer[c]
            /\ \A x \in DOMAIN infos \ {c} : new[x] = infos[x]
            /\ DOMAIN new = DOMAIN infos \cup {c}
        BY <4>1 DEF Put
      <4> QED BY <2>2, <4>2 DEF S
    <3>2. TaskTypes'
      BY <1>1, <1>2, <1>6, <3>1
    <3>3. TaskInv(c)'
      BY <1>1, <1>2, <1>4, <1>6, <3>1
    <3>4. \A d \in Links \ {c} : SameTask(d)
      BY <1>1, <1>2, <1>6, <3>1
    <3> QED BY <1>1, <1>2, <1>6, <3>2, <3>3, <3>4
  <2>3. CASE infos' = infos /\ s = "dead"
    BY <1>1, <1>2, <1>4, <1>6, <2>3
  <2> QED BY <1>6, <2>2, <2>3
<1>7. CASE MetricConnected(c) \/ AnalyzerConnected(c)
  <2>1. CASE MetricConnected(c)
    BY <1>6, <2>1 DEF MetricConnected, AfterConnected
  <2>2. CASE AnalyzerConnected(c)
    BY <1>6, <2>2 DEF AnalyzerConnected, AfterConnected
  <2> QED BY <1>7, <2>1, <2>2
\* The row that is written at the first registration.
<1>8. ASSUME NEW from \in {"activate", "serialize", "write"}, InStage(c, from),
             NEW s \in {"serialize", "write", "read", "closing", "dead"}, ToStage(c, s),
             UNCHANGED <<disk, last, buffer, infos, taken>>
      PROVE  P
  BY <1>1, <1>2, <1>4, <1>8
<1>9. CASE MetricActivate(c) \/ MetricSerialize(c)
  <2>1. CASE MetricActivate(c)
    BY <1>8, <2>1 DEF MetricActivate
  <2>2. CASE MetricSerialize(c)
    BY <1>8, <2>2 DEF MetricSerialize, MakeRow, WriteRow, AfterConnected
  <2> QED BY <1>9, <2>1, <2>2
<1>10. CASE MetricClosed(c)
  <2>1. InStage(c, "closing") /\ UNCHANGED <<disk, last, buffer, taken>>
    BY <1>10 DEF MetricClosed
  <2>2. CASE Dies(c) /\ UNCHANGED infos
    BY <1>1, <1>2, <1>4, <2>1, <2>2
  <2>3. CASE infos' = Drop(infos, c) /\ ToStage(c, "open")
    <3>1. /\ infos' \in [DOMAIN infos' -> Links \cup {Blank}] /\ DOMAIN infos' = DOMAIN infos \ {c}
          /\ \A x \in DOMAIN infos \ {c} : infos'[x] = infos[x]
      <4> DEFINE S == Links \cup {Blank}
                 rest == Drop(infos, c)
      <4>1. infos \in [DOMAIN infos -> S] /\ Blank \in S
        BY <1>2
      <4> HIDE DEF S
      <4>2. /\ rest \in [DOMAIN infos \ {c} -> S] /\ DOMAIN rest = DOMAIN infos \ {c}
            /\ \A x \in DOMAIN infos \ {c} : rest[x] = infos[x]
        BY <4>1 DEF Drop
      <4> QED BY <2>3, <4>2 DEF S
    <3> QED BY <1>1, <1>2, <1>4, <2>1, <2>3, <3>1
  <2> QED BY <1>10, <2>2, <2>3 DEF MetricClosed
<1>11. CASE MetricOpen(c)
  <2>1. InStage(c, "open") /\ UNCHANGED <<last, buffer, infos>>
    BY <1>11 DEF MetricOpen
  <2>2. CASE Dies(c) /\ UNCHANGED <<disk, taken>>
    BY <1>1, <1>2, <1>4, <2>1, <2>2
  <2>3. CASE disk' = disk \ {c} /\ ToStage(c, "done") /\ UNCHANGED taken
    BY <1>1, <1>2, <1>4, <2>1, <2>3
  <2>4. CASE /\ content[c] # NoDep /\ taken' = [taken EXCEPT ![c] = content[c]]
             /\ ToStage(c, "collect") /\ UNCHANGED disk
    BY <1>1, <1>2, <1>3, <1>4, <2>1, <2>4
  <2> QED BY <1>11, <2>2, <2>3, <2>4 DEF MetricOpen
<1>12. ASSUME InStage(c, "collect"), NEW s \in {"done", "dead"}, ToStage(c, s),
              \/ UNCHANGED disk
              \/ disk' = disk \ {c} /\ s = "done",
              UNCHANGED <<last, buffer, infos, taken>>
       PROVE  P
  BY <1>1, <1>2, <1>4, <1>12
<1>13. CASE MetricCollect(c)
  BY <1>12, <1>13 DEF MetricCollect
<1>14. CASE AnalyzerCollect(c)
  BY <1>12, <1>14 DEF AnalyzerCollect
<1>15. CASE AnalyzerClosed(c)
  <2>1. server = "analyzer" /\ InStage(c, "closing") /\ UNCHANGED <<last, buffer, infos>>
    BY <1>15 DEF AnalyzerClosed
  <2>2. CASE UNCHANGED <<disk, taken>> /\ (ToStage(c, "done") \/ ToStage(c, "dead"))
    BY <1>1, <1>2, <1>4, <2>1, <2>2
  <2>3. CASE disk' = disk \ {c} /\ ToStage(c, "done") /\ UNCHANGED taken
    BY <1>1, <1>2, <1>4, <2>1, <2>3
  <2>4. CASE taken' = [taken EXCEPT ![c] = DedupAllMem(content[c])] /\ ToStage(c, "collect") /\ UNCHANGED disk
    BY <1>1, <1>2, <1>4, <2>1, <2>4
  <2> QED BY <1>15, <2>2, <2>3, <2>4 DEF AnalyzerClosed
<1> QED BY <1>5, <1>7, <1>9, <1>10, <1>11, <1>13, <1>14, <1>15 DEF Task

\* Which lock a task poisons, and the connection that it is due to.
LEMMA PoisonStep ==
  ASSUME FileInv, TasksInv, PoisonInv, NEW c \in Links, Task(c), UNCHANGED <<memVars, server>>
  PROVE  PoisonInv'
<1>1. /\ \A d \in Links \ {c} : SameTask(d)
      /\ stage[c] \notin {"done", "dead"}
  BY TaskStep
<1>2. TaskInv(c) /\ c \in DOMAIN stage /\ Lasting /\ UNCHANGED <<link, process, depLock>>
  <2>1. UNCHANGED <<link, process, depLock>>
    BY DEF memVars, netVars, lockVars
  <2> QED BY <2>1 DEF TasksInv, TaskTypes, Lasting, StoppedCopying
<1>3. \A d \in Links : stage[d] = "dead" => stage'[d] = "dead" /\ taken'[d] = taken[d]
  BY <1>1 DEF SameTask
<1>4. CASE UNCHANGED poisoned
  BY <1>2, <1>3, <1>4, PoisonStays
<1>5. ASSUME NEW d \in Links, EndedEarly(d), stage[d] = "dead", taken[d] # NoDep
      PROVE  EndedEarly(d)' /\ stage'[d] = "dead" /\ taken'[d] # NoDep
  BY <1>2, <1>3, <1>5 DEF EndedEarly
<1>6. CASE poisoned' = poisoned \cup {"socket2id"} /\ link[c] = "reset"
  BY <1>2, <1>5, <1>6 DEF PoisonInv
<1>7. CASE poisoned' = poisoned \cup {"demangle_map"} /\ link[c] = "cut"
  BY <1>2, <1>5, <1>7 DEF PoisonInv
<1>8. ASSUME server = "metrics", stage[c] = "collect", Dies(c), UNCHANGED taken, ~Measurable(taken[c]),
             poisoned' = poisoned \cup {"statistics"}
      PROVE  PoisonInv'
  <2>1. taken[c] # NoDep /\ Sound(c, taken[c])
    BY <1>2, <1>8 DEF TaskInv
  <2>2. EndedEarly(c)
    <3>1. CASE c \in Clients
      BY <1>8, <2>1, <3>1, LeftMeasurable DEF Sound, EndedEarly
    <3>2. CASE c \in Files
      BY <1>8, <2>1, <3>2, OrderlyMeasurable, ChainAssumption DEF Sound, EndedEarly, StoppedCopying
    <3> QED BY <3>1, <3>2, ChainAssumption
  <2>3. EndedEarly(c)' /\ stage'[c] = "dead" /\ taken'[c] # NoDep
    BY <1>2, <1>8, <2>1, <2>2 DEF EndedEarly, Dies, ToStage
  <2> QED BY <1>2, <1>5, <1>8, <2>3 DEF PoisonInv
<1> USE DEF InStage, DiesHolding
<1>9. CASE ReadRegistration(c) \/ ReadEnd(c) \/ ReadError(c)
  BY <1>4, <1>9 DEF ReadRegistration, ReadEnd, ReadError
<1>10. CASE MetricConnected(c) \/ MetricActivate(c) \/ MetricSerialize(c)
  BY <1>4, <1>10 DEF MetricConnected, MetricActivate, MetricSerialize, MakeRow, WriteRow
<1>11. CASE MetricClosed(c)
  BY <1>2, <1>4, <1>6, <1>11 DEF MetricClosed, TaskInv
<1>12. CASE MetricOpen(c) \/ AnalyzerConnected(c) \/ AnalyzerCollect(c)
  BY <1>4, <1>12 DEF MetricOpen, AnalyzerConnected, AnalyzerCollect
<1>13. CASE MetricCollect(c)
  BY <1>4, <1>8, <1>13 DEF MetricCollect, taskVars
<1>14. CASE AnalyzerClosed(c)
  BY <1>2, <1>4, <1>7, <1>14 DEF AnalyzerClosed, TaskInv
<1> QED BY <1>9, <1>10, <1>11, <1>12, <1>13, <1>14 DEF Task

LEMMA TickStep ==
  ASSUME TasksInv, MetricTick \/ AnalyzerTick, server' = server
  PROVE  /\ TaskTypes' /\ \A d \in Links : SameTask(d)
         /\ UNCHANGED poisoned
<1>1. TaskTypes
  BY DEF TasksInv
<1>2. CASE MetricTick
  <2>1. /\ \E s \in {"write", "read", "dead"} : stage' = [stage EXCEPT ![Ticker] = s]
        /\ UNCHANGED <<disk, last, buffer, infos, taken, poisoned>>
    BY <1>2 DEF MetricTick, MakeRow, WriteRow, InStage, ToStage, Dies
  <2> QED BY <1>1, <2>1, ServersAssumption DEF TaskTypes, SameTask, Stages
<1>3. CASE AnalyzerTick
  BY <1>1, <1>3 DEF AnalyzerTick, TaskTypes, SameTask, taskVars
<1> QED BY <1>2, <1>3

LEMMA TasksNext ==
  ASSUME CallInv, FileInv, TasksInv, PoisonInv, scenario \in Scenarios, [Next]_chainVars
  PROVE  TasksInv' /\ PoisonInv'
<1>1. Lasting /\ FileInv'
  BY FileNext
<1>2. server' = server
  BY DEF Next, chainVars
<1>3. ASSUME TaskTypes', \A d \in Links : SameTask(d), UNCHANGED poisoned PROVE TasksInv' /\ PoisonInv'
  <2>1. \A d \in Links : TaskInv(d)'
    BY <1>1, <1>2, <1>3, TaskStays DEF TasksInv
  <2>2. PoisonInv'
    BY <1>1, <1>3, PoisonStays DEF SameTask
  <2> QED BY <1>3, <2>1, <2>2 DEF TasksInv
<1>4. CASE UNCHANGED <<server, serverVars>>
  <2>1. TaskTypes' /\ UNCHANGED poisoned /\ \A d \in Links : SameTask(d)
    BY <1>4 DEF TasksInv, TaskTypes, SameTask, serverVars, taskVars
  <2> QED BY <1>3, <2>1
<1>5. ASSUME NEW c \in Links, Task(c), UNCHANGED <<memVars, server>> PROVE TasksInv' /\ PoisonInv'
  <2>1. TaskTypes' /\ TaskInv(c)' /\ \A d \in Links \ {c} : SameTask(d)
    BY <1>5, TaskStep
  <2>2. ASSUME NEW d \in Links PROVE TaskInv(d)'
    <3>1. CASE d = c
      BY <2>1, <3>1
    <3>2. CASE d # c
      BY <1>1, <1>2, <2>1, <3>2, TaskStays DEF TasksInv
    <3> QED BY <3>1, <3>2
  <2>3. PoisonInv'
    BY <1>5, PoisonStep
  <2> QED BY <2>1, <2>2, <2>3 DEF TasksInv
<1>6. CASE (MetricTick \/ AnalyzerTick) /\ server' = server
  BY <1>3, <1>6, TickStep
<1> QED BY <1>4, <1>5, <1>6 DEF Next, ServerNext, chainVars

ServersInv == ChainInv /\ FileInv /\ TasksInv /\ PoisonInv

LEMMA ServersInduction == Spec => []ServersInv
<1>1. Init => ServersInv
  BY InitCall, InitFiles, InitTasks DEF Init, ServersInv, ChainInv
<1>2. ServersInv /\ [Next]_chainVars => ServersInv'
  BY CallNext, FileNext, TasksNext DEF ServersInv, ChainInv
<1> QED BY <1>1, <1>2, PTL DEF Spec

\* on_socket_closed of either server, and the collection of the metric
\* server, take down all later tasks only after a connection that failed or
\* was cut, or a process that did not get to write its record.
THEOREM StopsOnlyForCorrect == Spec => []StopsOnlyFor
<1>1. ServersInv => StopsOnlyFor
  BY DEF ServersInv, PoisonInv, StopsOnlyFor
<1> QED BY <1>1, ServersInduction, PTL

-----------------------------------------------------------------------------
(* The statistics.                                                          *)

\* Each recording that was collected has one ratio, in some order: they tell
\* whether there is a recording, and whether each has two calls.
Ratios == statistics.compactness
StatInv ==
  /\ statistics = [exec_num |-> statistics.exec_num, visited_cfunc_set |-> statistics.visited_cfunc_set,
                   compactness |-> Ratios, is_active |-> statistics.is_active]
  /\ Ratios \in Seq(Range(Ratios))
  /\ server = "metrics" =>
       /\ IsFiniteSet(Collected)
       /\ statistics.exec_num = Cardinality(Collected) + (IF "statistics" \in poisoned THEN 1 ELSE 0)
       /\ UNION {Range(taken[c].call_seq) : c \in Collected} \subseteq statistics.visited_cfunc_set
       /\ Ratios # << >> <=> Collected # {}
       /\ (\A i \in DOMAIN Ratios : Ratios[i].total > 0)
            <=> \A c \in Collected : Len(taken[c].call_seq) > 1

LEMMA InitStat == Init => StatInv
<1> SUFFICES ASSUME Init PROVE StatInv
  OBVIOUS
<1>1. Collected = {}
  BY DEF Init, ServerInit, Collected
<1>2. IsFiniteSet({}) /\ Cardinality({}) = 0
  BY FS_EmptySet
<1>3. << >> \in Seq(Range(<< >>))
  BY SeqIsFunction
<1> QED BY <1>1, <1>2, <1>3 DEF Init, ServerInit, StatInv, Ratios

\* The number of pairs of calls that the ratio is taken of.
LEMMA PairsOfCalls ==
  ASSUME NEW n \in Nat, n > 0
  PROVE  (n * (n - 1)) \div 2 > 0 <=> n > 1
<1>1. CASE n = 1
  BY <1>1
<1>2. CASE n > 1
  <2>1. n - 1 \in Nat /\ n - 1 >= 1 /\ n >= 2
    BY <1>2
  <2>2. \A x, y \in Nat : x >= 1 /\ y >= 2 => y * x >= 2
    OBVIOUS
  <2>3. n * (n - 1) \in Nat /\ n * (n - 1) >= 2
    BY <2>1, <2>2
  <2>4. \A x \in Nat : x >= 2 => x \div 2 > 0
    OBVIOUS
  <2> QED BY <1>2, <2>3, <2>4
<1> QED BY <1>1, <1>2

LEMMA StatStays ==
  ASSUME StatInv, UNCHANGED <<server, poisoned>>,
         /\ statistics' = statistics
            \/ statistics' = [statistics EXCEPT !.is_active = TRUE],
         server = "metrics" => Collected' = Collected /\ \A c \in Collected : taken'[c] = taken[c]
  PROVE  StatInv'
<1>1. /\ statistics' = [exec_num |-> statistics'.exec_num, visited_cfunc_set |-> statistics'.visited_cfunc_set,
                        compactness |-> Ratios', is_active |-> statistics'.is_active]
      /\ Ratios' = Ratios /\ statistics'.exec_num = statistics.exec_num
      /\ statistics'.visited_cfunc_set = statistics.visited_cfunc_set
  BY DEF StatInv, Ratios
<1> QED BY <1>1 DEF StatInv

\* The recording of c is counted, with its ratio.
LEMMA StatCollects ==
  ASSUME StatInv, server = "metrics", NEW c \in Links, c \notin Collected, Shaped(taken[c]) \/ Left(taken[c]),
         Measurable(taken[c]), "statistics" \notin poisoned, UNCHANGED <<server, poisoned>>,
         Collected' = Collected \cup {c}, UNCHANGED taken,
         NEW r, r.total = (Len(taken[c].call_seq) * (Len(taken[c].call_seq) - 1)) \div 2,
         statistics' = [statistics EXCEPT !.exec_num = @ + 1,
                                          !.visited_cfunc_set = @ \cup Range(taken[c].call_seq),
                                          !.compactness = Append(@, r), !.is_active = TRUE]
  PROVE  StatInv'
<1>1. /\ statistics' = [exec_num |-> statistics'.exec_num, visited_cfunc_set |-> statistics'.visited_cfunc_set,
                        compactness |-> Ratios', is_active |-> statistics'.is_active]
      /\ Ratios' = Append(Ratios, r) /\ statistics'.exec_num = statistics.exec_num + 1
      /\ statistics'.visited_cfunc_set = statistics.visited_cfunc_set \cup Range(taken[c].call_seq)
  BY DEF StatInv, Ratios
<1>2. /\ Ratios \in Seq(Range(Ratios) \cup {r})
  BY DEF StatInv
<1>3. Ratios' \in Seq(Range(Ratios) \cup {r})
  BY <1>1, <1>2
<1>4. Ratios' \in Seq(Range(Ratios'))
  BY <1>3, SeqIsFunction
<1>5. /\ Len(Ratios) \in Nat /\ DOMAIN Ratios = 1 .. Len(Ratios)
      /\ DOMAIN Ratios' = 1 .. Len(Ratios) + 1
      /\ Ratios'[Len(Ratios) + 1] = r /\ Ratios' # << >>
      /\ \A i \in DOMAIN Ratios : Ratios'[i] = Ratios[i]
  BY <1>1, <1>2
<1>6. r.total > 0 <=> Len(taken[c].call_seq) > 1
  <2>1. Len(taken[c].call_seq) \in Nat /\ Len(taken[c].call_seq) > 0
    BY DEF Measurable, Shaped, Left
  <2> QED BY <2>1, PairsOfCalls
<1>7. (\A i \in DOMAIN Ratios' : Ratios'[i].total > 0)
        <=> ((\A i \in DOMAIN Ratios : Ratios[i].total > 0) /\ r.total > 0)
  <2>1. DOMAIN Ratios' = DOMAIN Ratios \cup {Len(Ratios) + 1}
    BY <1>5
  <2> QED BY <1>5, <2>1
<1>8. (\A d \in Collected' : Len(taken'[d].call_seq) > 1)
        <=> ((\A d \in Collected : Len(taken[d].call_seq) > 1) /\ Len(taken[c].call_seq) > 1)
  OBVIOUS
<1>9. IsFiniteSet(Collected') /\ Cardinality(Collected') = Cardinality(Collected) + 1
  BY FS_AddElement DEF StatInv
<1>10. statistics'.exec_num = Cardinality(Collected')
  <2>1. statistics.exec_num = Cardinality(Collected) + 0
    BY DEF StatInv
  <2>2. Cardinality(Collected) \in Nat
    BY FS_CardinalityType DEF StatInv
  <2> QED BY <1>1, <1>9, <2>1, <2>2
<1>11. Cardinality(Collected') \in Nat
  BY <1>9, FS_CardinalityType
<1>12. UNION {Range(taken'[d].call_seq) : d \in Collected'} \subseteq statistics'.visited_cfunc_set
  BY <1>1 DEF StatInv
<1>13. statistics'.exec_num = Cardinality(Collected') + (IF "statistics" \in poisoned' THEN 1 ELSE 0)
  BY <1>10, <1>11
<1>14. Ratios' # << >> <=> Collected' # {}
  BY <1>5
<1>15. (\A i \in DOMAIN Ratios' : Ratios'[i].total > 0)
         <=> \A d \in Collected' : Len(taken'[d].call_seq) > 1
  BY <1>6, <1>7, <1>8 DEF StatInv
<1> QED BY <1>1, <1>4, <1>9, <1>12, <1>13, <1>14, <1>15 DEF StatInv

\* A recording that cannot be measured is counted, and is the last.
LEMMA StatStops ==
  ASSUME StatInv, server = "metrics", NEW S, "statistics" \notin poisoned, UNCHANGED server,
         poisoned' = poisoned \cup {"statistics"},
         Collected' = Collected, UNCHANGED taken,
         statistics' = [statistics EXCEPT !.exec_num = @ + 1, !.visited_cfunc_set = @ \cup S]
  PROVE  StatInv'
<1>1. /\ statistics' = [exec_num |-> statistics'.exec_num, visited_cfunc_set |-> statistics'.visited_cfunc_set,
                        compactness |-> Ratios', is_active |-> statistics'.is_active]
      /\ Ratios' = Ratios /\ statistics'.exec_num = statistics.exec_num + 1
      /\ statistics'.visited_cfunc_set = statistics.visited_cfunc_set \cup S
  BY DEF StatInv, Ratios
<1>2. Cardinality(Collected) \in Nat
  BY FS_CardinalityType DEF StatInv
<1>3. statistics'.exec_num = Cardinality(Collected) + 1
  <2>1. statistics.exec_num = Cardinality(Collected) + 0
    BY DEF StatInv
  <2> QED BY <1>1, <1>2, <2>1
<1> QED BY <1>1, <1>2, <1>3 DEF StatInv

LEMMA StatStep ==
  ASSUME FileInv, TasksInv, PoisonInv, StatInv, NEW c \in Links, Task(c), UNCHANGED <<memVars, server>>
  PROVE  StatInv'
<1>1. /\ \A d \in Links \ {c} : SameTask(d)
      /\ stage[c] \notin {"done", "dead"}
  BY TaskStep
<1>2. TaskInv(c) /\ c \in DOMAIN stage
  BY DEF TasksInv, TaskTypes
<1>3. \A d \in Links \ {c} : stage'[d] = stage[d] /\ taken'[d] = taken[d]
  BY <1>1 DEF SameTask
<1>4. c \notin Collected
  BY <1>1 DEF Collected
<1>5. (stage'[c] # "done" \/ taken'[c] = NoDep)
        => Collected' = Collected /\ \A d \in Collected : taken'[d] = taken[d]
  BY <1>3, <1>4 DEF Collected
<1>6. stage'[c] = "done" /\ taken'[c] # NoDep => Collected' = Collected \cup {c}
  BY <1>3, <1>4 DEF Collected
<1> DEFINE Quiet == /\ UNCHANGED statistics \/ statistics' = [statistics EXCEPT !.is_active = TRUE]
                    /\ server = "metrics" => stage'[c] # "done" \/ taken'[c] = NoDep
<1>7. ASSUME Quiet, UNCHANGED poisoned PROVE StatInv'
  BY <1>5, <1>7, StatStays
<1>8. ASSUME Quiet, server = "metrics", "statistics" \in poisoned' <=> "statistics" \in poisoned,
             UNCHANGED statistics
      PROVE  StatInv'
  <2>1. Collected' = Collected /\ \A d \in Collected : taken'[d] = taken[d]
    BY <1>5, <1>8
  <2> QED BY <1>8, <2>1 DEF StatInv, Ratios
<1> USE DEF InStage, ToStage, Dies, DiesHolding, metricVars, taskVars
<1>9. CASE ReadRegistration(c) \/ ReadEnd(c) \/ ReadError(c)
  <2>1. Quiet /\ UNCHANGED poisoned
    BY <1>2, <1>9 DEF ReadRegistration, ReadEnd, ReadError
  <2> QED BY <1>7, <2>1
<1>10. CASE MetricConnected(c) \/ MetricActivate(c) \/ MetricSerialize(c)
  <2>1. Quiet /\ UNCHANGED poisoned
    BY <1>2, <1>10 DEF MetricConnected, MetricActivate, MetricSerialize, MakeRow, WriteRow, AfterConnected
  <2> QED BY <1>7, <2>1
<1>11. CASE MetricClosed(c)
  <2>1. /\ Quiet /\ server = "metrics" /\ UNCHANGED statistics
        /\ "statistics" \in poisoned' <=> "statistics" \in poisoned
    BY <1>2, <1>11 DEF MetricClosed
  <2> QED BY <1>8, <2>1
<1>12. CASE MetricOpen(c)
  <2>1. taken[c] = NoDep
    BY <1>2, <1>12 DEF MetricOpen, TaskInv
  <2>2. Quiet /\ UNCHANGED poisoned
    BY <1>2, <1>12, <2>1 DEF MetricOpen
  <2> QED BY <1>7, <2>2
<1>13. CASE MetricCollect(c)
  <2>1. /\ server = "metrics" /\ taken[c] # NoDep /\ Left(taken[c]) /\ UNCHANGED taken
    BY <1>2, <1>13 DEF MetricCollect, TaskInv, Sound
  <2>2. CASE "statistics" \in poisoned
    <3>1. Quiet /\ UNCHANGED poisoned
      BY <1>2, <1>13, <2>1, <2>2 DEF MetricCollect
    <3> QED BY <1>7, <3>1
  <2>3. CASE "statistics" \notin poisoned /\ ~Measurable(taken[c])
    <3>1. /\ poisoned' = poisoned \cup {"statistics"} /\ stage'[c] = "dead"
          /\ statistics' = [statistics EXCEPT !.exec_num = @ + 1,
                                              !.visited_cfunc_set = @ \cup Range(taken[c].call_seq)]
      BY <1>2, <1>13, <2>3 DEF MetricCollect
    <3> QED BY <1>5, <2>1, <2>3, <3>1, StatStops
  <2>4. CASE "statistics" \notin poisoned /\ Measurable(taken[c])
    <3> DEFINE n == Len(taken[c].call_seq)
               r == [accumulation |-> Accumulation(taken[c]), total |-> (n * (n - 1)) \div 2]
    <3>1. /\ UNCHANGED poisoned /\ stage'[c] = "done"
          /\ statistics' = [statistics EXCEPT !.exec_num = @ + 1,
                                              !.visited_cfunc_set = @ \cup Range(taken[c].call_seq),
                                              !.compactness = Append(@, r), !.is_active = TRUE]
      BY <1>2, <1>13, <2>4 DEF MetricCollect
    <3>2. Collected' = Collected \cup {c}
      BY <1>6, <2>1, <3>1
    <3>3. r.total = (n * (n - 1)) \div 2
      OBVIOUS
    <3> HIDE DEF r
    <3> QED BY <1>4, <2>1, <2>4, <3>1, <3>2, <3>3, StatCollects
  <2> QED BY <2>2, <2>3, <2>4
<1>14. CASE AnalyzerConnected(c) \/ AnalyzerClosed(c) \/ AnalyzerCollect(c)
  <2>1. server = "analyzer" /\ UNCHANGED statistics
    BY <1>14 DEF AnalyzerConnected, AnalyzerClosed, AnalyzerCollect
  <2> QED BY <2>1 DEF StatInv, Ratios
<1> QED BY <1>9, <1>10, <1>11, <1>12, <1>13, <1>14 DEF Task

LEMMA StatNext ==
  ASSUME ServersInv, StatInv, [Next]_chainVars
  PROVE  StatInv'
<1>1. UNCHANGED server
  BY DEF Next, chainVars
<1>2. CASE UNCHANGED <<server, serverVars>>
  BY <1>2 DEF serverVars, taskVars, metricVars, StatInv, Ratios, Collected
<1>3. ASSUME NEW c \in Links, Task(c), UNCHANGED <<memVars, server>> PROVE StatInv'
  BY <1>3, StatStep DEF ServersInv
<1>4. CASE MetricTick \/ AnalyzerTick
  <2>1. UNCHANGED poisoned /\ \A d \in Links : SameTask(d)
    BY <1>1, <1>4, TickStep DEF ServersInv
  <2>2. Collected' = Collected /\ \A c \in Collected : taken'[c] = taken[c]
    BY <2>1 DEF Collected, SameTask
  <2>3. UNCHANGED statistics
    BY <1>4 DEF MetricTick, AnalyzerTick, MakeRow, WriteRow, metricVars
  <2> QED BY <1>1, <2>1, <2>2, <2>3, StatStays
<1> QED BY <1>2, <1>3, <1>4 DEF Next, ServerNext, chainVars

\* Whatever is killed or fails, the metric server's numbers are those of the
\* recordings it collected, and one recording of a single call makes the
\* average no number for good.
THEOREM StatisticsFaithfulCorrect == Spec => []StatisticsFaithful
<1>1. Init => ServersInv /\ StatInv
  BY InitCall, InitFiles, InitTasks, InitStat DEF Init, ServersInv, ChainInv
<1>2. ServersInv /\ StatInv /\ [Next]_chainVars => ServersInv' /\ StatInv'
  BY CallNext, FileNext, TasksNext, StatNext DEF ServersInv, ChainInv
<1>3. StatInv => StatisticsFaithful
  <2> SUFFICES ASSUME StatInv, server = "metrics"
               PROVE  /\ statistics.exec_num = Cardinality(Collected) + (IF "statistics" \in poisoned THEN 1 ELSE 0)
                      /\ UNION {Range(taken[c].call_seq) : c \in Collected} \subseteq statistics.visited_cfunc_set
                      /\ Row(statistics).numeric
                           <=> Collected # {} /\ \A c \in Collected : Len(taken[c].call_seq) > 1
    BY DEF StatisticsFaithful
  <2> QED BY DEF StatInv, Ratios, Row
<1> QED BY <1>1, <1>2, <1>3, PTL DEF Spec

-----------------------------------------------------------------------------
(* The graph that the analyzer collects                                     *)

\* A list of names with one index for each.
Names1(names) == names \in Seq(Name) /\ IsInjective(names)

\* IsPrefix, by index.
Begins(s, t) == Len(s) <= Len(t) /\ \A i \in 1 .. Len(s) : t[i] = s[i]

LEMMA PrefixByIndex ==
  ASSUME NEW S, NEW s \in Seq(S), NEW t \in Seq(S)
  PROVE  IsPrefix(s, t) <=> Begins(s, t)
<1>1. CASE Len(s) <= Len(t)
  <2>1. /\ SubSeq(s, 1, Len(s)) = [i \in 1 .. Len(s) |-> s[i]]
        /\ SubSeq(t, 1, Len(s)) = [i \in 1 .. Len(s) |-> t[i]]
    BY <1>1
  <2> QED BY <1>1, <2>1 DEF IsPrefix, Begins
<1>2. CASE ~(Len(s) <= Len(t))
  BY <1>2 DEF IsPrefix, Begins
<1> QED BY <1>1, <1>2

\* One name more: it has an index afterwards, and the others keep theirs.
NamesStep(acc, f) == IF f \in Range(acc) THEN acc ELSE Append(acc, f)

LEMMA NamesStepGrows ==
  ASSUME NEW S, NEW acc \in Seq(S), IsInjective(acc), NEW f \in S
  PROVE  /\ NamesStep(acc, f) \in Seq(S) /\ IsInjective(NamesStep(acc, f))
         /\ Begins(acc, NamesStep(acc, f))
         /\ Range(NamesStep(acc, f)) = Range(acc) \cup {f}
<1>1. acc \in Seq(S) /\ Len(acc) \in Nat /\ DOMAIN acc = 1 .. Len(acc)
  OBVIOUS
<1>2. CASE f \in Range(acc)
  <2>1. NamesStep(acc, f) = acc /\ Range(acc) \cup {f} = Range(acc)
    BY <1>2 DEF NamesStep
  <2>2. Begins(acc, acc)
    BY <1>1 DEF Begins
  <2> QED BY <2>1, <2>2
<1>3. CASE f \notin Range(acc)
  <2> DEFINE new == Append(acc, f)
  <2>1. /\ new \in Seq(S) /\ DOMAIN new = 1 .. Len(acc) + 1 /\ Len(new) = Len(acc) + 1
        /\ new[Len(acc) + 1] = f /\ \A i \in 1 .. Len(acc) : new[i] = acc[i]
    BY AppendFacts
  <2>6. NamesStep(acc, f) = new
    BY <1>3 DEF NamesStep
  <2> HIDE DEF new
  <2>2. \A i \in 1 .. Len(acc) : acc[i] # f
    BY <1>1, <1>3 DEF Range
  <2>3. IsInjective(new)
    <3> SUFFICES ASSUME NEW a \in 1 .. Len(acc) + 1, NEW b \in 1 .. Len(acc) + 1, new[a] = new[b]
                 PROVE  a = b
      BY <2>1 DEF IsInjective
    <3>1. \A i, j \in 1 .. Len(acc) : acc[i] = acc[j] => i = j
      BY <1>1 DEF IsInjective
    <3>2. /\ a = Len(acc) + 1 \/ a \in 1 .. Len(acc)
          /\ b = Len(acc) + 1 \/ b \in 1 .. Len(acc)
      BY <1>1
    <3> QED BY <2>1, <2>2, <3>1, <3>2
  <2>4. Range(new) = Range(acc) \cup {f}
    <3>1. Range(new) = {new[i] : i \in 1 .. Len(acc) + 1} /\ Range(acc) = {acc[i] : i \in 1 .. Len(acc)}
      BY <1>1, <2>1 DEF Range
    <3>2. {new[i] : i \in 1 .. Len(acc) + 1} = {new[i] : i \in 1 .. Len(acc)} \cup {new[Len(acc) + 1]}
      <4>1. 1 .. Len(acc) + 1 = (1 .. Len(acc)) \cup {Len(acc) + 1}
        BY <1>1
      <4> QED BY <4>1
    <3>3. {new[i] : i \in 1 .. Len(acc)} = {acc[i] : i \in 1 .. Len(acc)}
      BY <2>1
    <3> QED BY <2>1, <3>1, <3>2, <3>3
  <2>5. Begins(acc, new)
    BY <1>1, <2>1 DEF Begins
  <2> QED BY <2>6, <2>1, <2>3, <2>4, <2>5
<1> QED BY <1>2, <1>3

-----------------------------------------------------------------------------
(* The names of all calls of a record.                                      *)

\* NewNames is a loop over the calls.
NamesLoop(f, names, seq) ==
  /\ f[0] = names
  /\ \A n \in 0 .. Len(seq) - 1 : f[n + 1] = NamesStep(f[n], seq[n + 1])

LEMMA NamesStepNames ==
  ASSUME NEW acc, Names1(acc), NEW f \in Name
  PROVE  /\ Names1(NamesStep(acc, f)) /\ Begins(acc, NamesStep(acc, f))
         /\ Range(NamesStep(acc, f)) = Range(acc) \cup {f}
BY NamesStepGrows DEF Names1

LEMMA NewNamesLoops ==
  ASSUME NEW names, Names1(names), NEW seq \in Seq(Name)
  PROVE  \E f : NamesLoop(f, names, seq) /\ NewNames(names, seq) = f[Len(seq)]
<1> DEFINE L == Len(seq)
           S == {acc \in Seq(Name) : IsInjective(acc)}
           rel == [p \in S \X (1 .. L) |-> NamesStep(p[1], seq[p[2]])]
           Iter(g) == g = [s \in SUBSET (1 .. L) |->
             IF s = {} THEN names
             ELSE LET x == Max(s)
                  IN  (IF seq[x] \in Range(g[s \ {x}]) THEN g[s \ {x}] ELSE Append(g[s \ {x}], seq[x]))]
<1>1. L \in Nat /\ DOMAIN seq = 1 .. L /\ names \in S
  BY DEF Names1
<1>2. rel \in [S \X (1 .. L) -> S]
  <2>1. ASSUME NEW acc \in S, NEW i \in 1 .. L PROVE NamesStep(acc, seq[i]) \in S
    <3>1. Names1(acc) /\ seq[i] \in Name
      BY DEF Names1
    <3>2. Names1(NamesStep(acc, seq[i]))
      BY <3>1, NamesStepNames
    <3> QED BY <3>2 DEF Names1
  <2> HIDE DEF S, L
  <2> QED BY <2>1
<1>3. PICK g \in [SUBSET (1 .. L) -> S] : Iterates(g, names, L, rel)
  <2> HIDE DEF rel, L, S
  <2> QED BY <1>1, <1>2, IteratesExists
<1>4. Iter(g)
  <2>1. ASSUME NEW s \in SUBSET (1 .. L), s # {}
        PROVE  rel[<<g[s \ {Max(s)}], Max(s)>>] = NamesStep(g[s \ {Max(s)}], seq[Max(s)])
    <3>1. Max(s) \in 1 .. L
      BY <1>1, <2>1, MaxIn
    <3>2. g[s \ {Max(s)}] \in S
      OBVIOUS
    <3> HIDE DEF S, L
    <3> QED BY <3>1, <3>2
  <2> HIDE DEF rel, L, S
  <2> QED BY <1>3, <2>1 DEF Iterates, NamesStep
<1>5. \E h : Iter(h) /\ NewNames(names, seq) = h[1 .. L]
  <2>1. \E h : Iter(h)
    BY <1>4
  <2> HIDE DEF S, rel
  <2> QED BY <1>1, <2>1 DEF NewNames, FoldLeft, MapThenFoldSet
<1>6. PICK h : Iter(h) /\ NewNames(names, seq) = h[1 .. L]
  BY <1>5
<1> DEFINE f == [n \in 0 .. L |-> h[1 .. n]]
<1>7. f[0] = names
  <2>1. 1 .. 0 = {} /\ {} \in SUBSET (1 .. L) /\ 0 \in 0 .. L
    BY <1>1
  <2> QED BY <1>6, <2>1
<1>8. ASSUME NEW n \in 0 .. L - 1 PROVE f[n + 1] = NamesStep(f[n], seq[n + 1])
  <2>1. /\ 1 .. n + 1 \in SUBSET (1 .. L) /\ 1 .. n + 1 # {}
        /\ Max(1 .. n + 1) = n + 1 /\ (1 .. n + 1) \ {n + 1} = 1 .. n
    BY <1>1, UpTo
  <2>2. h[1 .. n + 1] = NamesStep(h[1 .. n], seq[n + 1])
    BY <1>6, <2>1 DEF NamesStep
  <2>3. n \in 0 .. L /\ n + 1 \in 0 .. L
    BY <1>1
  <2> QED BY <2>2, <2>3
<1>9. NewNames(names, seq) = f[L]
  BY <1>1, <1>6
<1> HIDE DEF f
<1> QED BY <1>7, <1>8, <1>9 DEF NamesLoop

\* What the loop makes of the names.
LEMMA NewNamesGrow ==
  ASSUME NEW names, Names1(names), NEW seq \in Seq(Name)
  PROVE  /\ Names1(NewNames(names, seq)) /\ Begins(names, NewNames(names, seq))
         /\ Range(NewNames(names, seq)) = Range(names) \cup Range(seq)
<1> DEFINE L == Len(seq)
<1>1. L \in Nat /\ DOMAIN seq = 1 .. L
  OBVIOUS
<1>2. PICK f : NamesLoop(f, names, seq) /\ NewNames(names, seq) = f[L]
  BY NewNamesLoops
<1> DEFINE Good == {n \in 0 .. L : /\ Names1(f[n]) /\ Begins(names, f[n])
                                   /\ Range(f[n]) = Range(names) \cup {seq[i] : i \in 1 .. n}}
<1>3. 0 \in Good
  <2>1. f[0] = names /\ {seq[i] : i \in 1 .. 0} = {} /\ 0 \in 0 .. L
    BY <1>1, <1>2 DEF NamesLoop
  <2>2. Begins(names, names)
    BY DEF Begins, Names1
  <2> QED BY <2>1, <2>2
<1>4. ASSUME NEW n \in 0 .. L - 1, n \in Good PROVE n + 1 \in Good
  <2>1. Names1(f[n]) /\ Begins(names, f[n]) /\ Range(f[n]) = Range(names) \cup {seq[i] : i \in 1 .. n}
    BY <1>4
  <2>2. f[n + 1] = NamesStep(f[n], seq[n + 1]) /\ seq[n + 1] \in Name
    <3>1. n + 1 \in 1 .. L
      BY <1>1
    <3> QED BY <1>1, <1>2, <3>1 DEF NamesLoop
  <2>3. /\ Names1(f[n + 1]) /\ Begins(f[n], f[n + 1])
        /\ Range(f[n + 1]) = Range(f[n]) \cup {seq[n + 1]}
    BY <2>1, <2>2, NamesStepNames
  <2>4. Begins(names, f[n + 1])
    BY <2>1, <2>3 DEF Begins, Names1
  <2>5. {seq[i] : i \in 1 .. n + 1} = {seq[i] : i \in 1 .. n} \cup {seq[n + 1]}
    <3>1. 1 .. n + 1 = (1 .. n) \cup {n + 1}
      BY <1>1
    <3> QED BY <3>1
  <2>6. n + 1 \in 0 .. L
    BY <1>1
  <2> QED BY <2>1, <2>3, <2>4, <2>5, <2>6
<1>5. L \in Good
  <2>1. 0 .. L \subseteq Good
    <3> HIDE DEF Good, L
    <3> QED BY <1>1, <1>3, <1>4, BoundedInduction
  <2> QED BY <1>1, <2>1
<1>6. Range(seq) = {seq[i] : i \in 1 .. L}
  BY <1>1 DEF Range
<1> QED BY <1>2, <1>5, <1>6

-----------------------------------------------------------------------------
(* The graph.                                                               *)

\* What the analyzer has read is a record of calls.
ReadCalls(c) == server = "analyzer" /\ stage[c] = "collect" => taken[c].call_seq \in Seq(Name)

\* The edges join functions that have an index, and what was saved is a
\* beginning of the names.
GraphInv ==
  /\ Names1(graph.func_names) /\ saved \in Seq(Name) /\ Begins(saved, graph.func_names)
  /\ \A p \in DOMAIN graph.acc_graph : Range(p) \subseteq Range(graph.func_names)
  /\ \A c \in Links : ReadCalls(c)

LEMMA InitGraph == Init => GraphInv
<1> SUFFICES ASSUME Init PROVE GraphInv
  OBVIOUS
<1>1. << >> \in Seq(Name) /\ IsInjective(<< >>) /\ Len(<< >>) = 0
  BY DEF IsInjective
<1>2. Begins(<< >>, << >>)
  BY <1>1 DEF Begins
<1> QED BY <1>1, <1>2 DEF Init, ServerInit, GraphInv, Names1, ReadCalls

\* An edge joins two calls of the record.
LEMMA EdgeCalls ==
  ASSUME NEW dep, NEW edges \in {AccEdges(dep), MiniEdges(dep)}, NEW e \in edges
  PROVE  e.source \in DOMAIN dep.call_seq /\ e.sink \in DOMAIN dep.call_seq
<1>1. CASE e \in AccEdges(dep)
  <2>1. PICK p \in Later(dep) : \E X : e = [source |-> p[1], sink |-> p[2], infos |-> X]
    BY <1>1, Zenon DEF AccEdges
  <2>2. e.source = p[1] /\ e.sink = p[2]
    BY <2>1
  <2>3. p[1] \in DOMAIN dep.call_seq /\ p[2] \in DOMAIN dep.call_seq
    BY DEF Later
  <2> QED BY <2>2, <2>3
<1>2. CASE e \in MiniEdges(dep)
  BY <1>2 DEF MiniEdges
<1> QED BY <1>1, <1>2

\* ... and is kept under the names of these calls.
LEMMA EdgeNames ==
  ASSUME NEW dep, dep.call_seq \in Seq(Name), NEW edges \in {AccEdges(dep), MiniEdges(dep)}, NEW keep,
         NEW p \in DOMAIN NamedEdges(dep, edges, keep)
  PROVE  Range(p) \subseteq Range(dep.call_seq)
<1>1. PICK e \in edges : p = <<dep.call_seq[e.source], dep.call_seq[e.sink]>>
  BY DEF NamedEdges
<1>2. e.source \in DOMAIN dep.call_seq /\ e.sink \in DOMAIN dep.call_seq
  BY EdgeCalls
<1>3. DOMAIN p = {1, 2} /\ p[1] = dep.call_seq[e.source] /\ p[2] = dep.call_seq[e.sink]
  BY <1>1
<1> QED BY <1>2, <1>3 DEF Range

\* What a step does to the graph: nothing, or a recording is added to it.
GraphStays == UNCHANGED graph
GraphTakes ==
  /\ Names1(graph'.func_names) /\ Begins(graph.func_names, graph'.func_names)
  /\ DOMAIN graph.acc_graph \subseteq DOMAIN graph'.acc_graph
  /\ DOMAIN graph.gep_graph \subseteq DOMAIN graph'.gep_graph
  /\ \A p \in DOMAIN graph'.acc_graph : Range(p) \subseteq Range(graph'.func_names)
  /\ UNCHANGED saved

LEMMA CollectTakes ==
  ASSUME GraphInv, NEW c \in Links, AnalyzerCollect(c)
  PROVE  GraphTakes \/ UNCHANGED <<graph, saved>>
<1> DEFINE dep == taken[c]
           acc == IF disable THEN AccEdges(dep) ELSE MiniEdges(dep)
           gep == IF disable THEN GepEdges(dep) ELSE {}
<1>1. UNCHANGED saved /\ dep.call_seq \in Seq(Name)
  BY DEF AnalyzerCollect, GraphInv, ReadCalls, InStage
<1>2. ASSUME graph' = [func_names |-> NewNames(graph.func_names, dep.call_seq),
                       acc_graph |-> Over(graph.acc_graph, NamedEdges(dep, acc, TRUE)),
                       gep_graph |-> Over(NamedEdges(dep, gep, FALSE), graph.gep_graph),
                       active |-> TRUE]
      PROVE  GraphTakes
  <2>1. /\ Names1(graph'.func_names) /\ Begins(graph.func_names, graph'.func_names)
        /\ Range(graph'.func_names) = Range(graph.func_names) \cup Range(dep.call_seq)
    <3>1. graph'.func_names = NewNames(graph.func_names, dep.call_seq)
      BY <1>2
    <3> QED BY <1>1, <3>1, NewNamesGrow DEF GraphInv
  <2>2. /\ DOMAIN graph'.acc_graph = DOMAIN graph.acc_graph \cup DOMAIN NamedEdges(dep, acc, TRUE)
        /\ DOMAIN graph'.gep_graph = DOMAIN NamedEdges(dep, gep, FALSE) \cup DOMAIN graph.gep_graph
    BY <1>2 DEF Over
  <2>3. \A p \in DOMAIN NamedEdges(dep, acc, TRUE) : Range(p) \subseteq Range(dep.call_seq)
    <3>1. acc \in {AccEdges(dep), MiniEdges(dep)}
      OBVIOUS
    <3> HIDE DEF dep, acc
    <3> QED BY <1>1, <3>1, EdgeNames
  <2>4. \A p \in DOMAIN graph'.acc_graph : Range(p) \subseteq Range(graph'.func_names)
    BY <2>1, <2>2, <2>3 DEF GraphInv
  <2> QED BY <1>1, <2>1, <2>2, <2>4 DEF GraphTakes
<1> QED BY <1>1, <1>2 DEF AnalyzerCollect

LEMMA TaskGraph ==
  ASSUME GraphInv, NEW c \in Links, Task(c)
  PROVE  GraphTakes \/ UNCHANGED <<graph, saved>>
<1>1. CASE AnalyzerCollect(c)
  BY <1>1, CollectTakes
<1>2. CASE ReadRegistration(c) \/ ReadEnd(c) \/ ReadError(c) \/ MetricConnected(c) \/ MetricActivate(c)
  BY <1>2 DEF graphVars, ReadRegistration, ReadEnd, ReadError, MetricConnected, MetricActivate
<1>3. CASE MetricSerialize(c) \/ MetricClosed(c) \/ MetricOpen(c)
  BY <1>3 DEF graphVars, MetricSerialize, MakeRow, WriteRow, MetricClosed, MetricOpen
<1>4. CASE MetricCollect(c) \/ AnalyzerConnected(c) \/ AnalyzerClosed(c)
  BY <1>4 DEF graphVars, MetricCollect, AnalyzerConnected, AnalyzerClosed
<1> QED BY <1>1, <1>2, <1>3, <1>4 DEF Task

\* A step either takes a recording, or saves the names, or neither.
LEMMA GraphStep ==
  ASSUME GraphInv, [Next]_chainVars
  PROVE  \/ GraphTakes
         \/ UNCHANGED <<graph, saved>>
         \/ UNCHANGED graph /\ saved' = graph.func_names
<1>1. CASE MetricTick \/ AnalyzerTick
  BY <1>1 DEF graphVars, MetricTick, AnalyzerTick, MakeRow, WriteRow
<1>2. CASE UNCHANGED serverVars
  BY <1>2 DEF serverVars, graphVars
<1> QED BY <1>1, <1>2, TaskGraph DEF Next, ServerNext, chainVars

LEMMA DedupAllCalls ==
  ASSUME NEW dep, Left(dep)
  PROVE  DedupAllMem(dep).call_seq = dep.call_seq
BY DEF Left, DedupAllMem

\* What is read is what a process left.
LEMMA ReadStep ==
  ASSUME ServersInv, GraphInv, NEW c \in Links, Task(c), UNCHANGED <<memVars, server>>
  PROVE  \A d \in Links : ReadCalls(d)'
<1>1. \A d \in Links \ {c} : ReadCalls(d)'
  BY TaskStep DEF ServersInv, GraphInv, ReadCalls, SameTask
<1>2. ReadCalls(c)'
  <2>1. c \in DOMAIN stage /\ c \in DOMAIN taken
    BY DEF ServersInv, TasksInv, TaskTypes
  <2> USE DEF ReadCalls, InStage, ToStage, Dies, DiesHolding
  <2>2. CASE ReadRegistration(c) \/ ReadEnd(c) \/ ReadError(c) \/ MetricConnected(c) \/ MetricActivate(c)
    BY <2>1, <2>2 DEF ReadRegistration, ReadEnd, ReadError, MetricConnected, MetricActivate, AfterConnected
  <2>3. CASE MetricSerialize(c)
    BY <2>1, <2>3 DEF MetricSerialize, MakeRow, WriteRow, AfterConnected
  <2>4. CASE MetricClosed(c) \/ MetricOpen(c) \/ MetricCollect(c)
    BY <2>1, <2>4 DEF MetricClosed, MetricOpen, MetricCollect
  <2>5. CASE AnalyzerConnected(c) \/ AnalyzerCollect(c)
    BY <2>1, <2>5 DEF AnalyzerConnected, AnalyzerCollect, AfterConnected
  <2>6. CASE AnalyzerClosed(c)
    <3>1. stage'[c] # "collect" \/ (content[c] # NoDep /\ taken'[c] = DedupAllMem(content[c]))
      BY <2>1, <2>6 DEF AnalyzerClosed
    <3>2. content[c] = NoDep \/ Left(content[c])
      BY DEF ServersInv, FileInv, Written, Sound
    <3>3. Left(content[c]) => DedupAllMem(content[c]).call_seq \in Seq(Name)
      BY DedupAllCalls DEF Left
    <3> QED BY <3>1, <3>2, <3>3
  <2> QED BY <2>2, <2>3, <2>4, <2>5, <2>6 DEF Task
<1> QED BY <1>1, <1>2

LEMMA GraphNext ==
  ASSUME ServersInv, GraphInv, [Next]_chainVars
  PROVE  GraphInv'
<1>1. server' = server
  BY DEF Next, chainVars
<1>2. \A d \in Links : ReadCalls(d)'
  <2>1. CASE UNCHANGED <<server, serverVars>>
    BY <2>1 DEF GraphInv, ReadCalls, serverVars, taskVars
  <2>2. CASE MetricTick \/ AnalyzerTick
    BY <1>1, <2>2, TickStep DEF ServersInv, GraphInv, ReadCalls, SameTask
  <2>3. ASSUME NEW c \in Links, Task(c), UNCHANGED <<memVars, server>> PROVE \A d \in Links : ReadCalls(d)'
    BY <2>3, ReadStep
  <2> QED BY <2>1, <2>2, <2>3 DEF Next, ServerNext, chainVars
<1>3. CASE GraphTakes
  <2>1. Begins(saved, graph'.func_names)
    BY <1>3 DEF GraphTakes, GraphInv, Begins, Names1
  <2> QED BY <1>2, <1>3, <2>1 DEF GraphTakes, GraphInv
<1>4. CASE UNCHANGED <<graph, saved>>
  BY <1>2, <1>4 DEF GraphInv
<1>5. CASE UNCHANGED graph /\ saved' = graph.func_names
  <2>1. Begins(graph.func_names, graph.func_names)
    BY DEF GraphInv, Names1, Begins
  <2> QED BY <1>2, <1>5, <2>1 DEF GraphInv, Names1
<1> QED BY <1>3, <1>4, <1>5, GraphStep

GraphChainInv == ServersInv /\ GraphInv

LEMMA GraphInduction == Spec => []GraphChainInv
<1>1. Init => GraphChainInv
  BY InitCall, InitFiles, InitTasks, InitGraph DEF Init, ServersInv, ChainInv, GraphChainInv
<1>2. GraphChainInv /\ [Next]_chainVars => GraphChainInv'
  BY CallNext, FileNext, TasksNext, GraphNext DEF ServersInv, ChainInv, GraphChainInv
<1> QED BY <1>1, <1>2, PTL DEF Spec

\* Every variable has its type: the files that threads create are files, and
\* the edges of the graph join functions that have an index.
THEOREM TypeCorrect == Spec => []TypeOK
<1>1. GraphChainInv => TypeOK
  <2> SUFFICES ASSUME GraphChainInv PROVE TypeOK
    OBVIOUS
  <2>1. ChainInv /\ FileInv /\ TasksInv /\ PoisonInv /\ GraphInv
    BY DEF GraphChainInv, ServersInv
  <2>2. /\ process \in {"runs", "ended", "died"}
        /\ {shm, mmap, connected, dest} \subseteq Files \cup {NoFile}
        /\ link \in [Links -> {"none", "open", "sent", "closed", "cut", "reset"}]
        /\ {mini, disable, raced} \subseteq BOOLEAN
        /\ visitTid \in Threads \cup {NoThread} /\ depLock \in Threads \cup {NoThread}
    BY <2>1 DEF ChainInv, CallInv, FileInv, Created, Connected, LinkStates
  <2>3. WellFormed(memDep)
    BY <2>1 DEF ChainInv, CallInv, Shaped, WellFormed
  <2>4. \A c \in Links : content[c] = NoDep \/ WellFormed(content[c])
    BY <2>1 DEF FileInv, Written, Sound, Left, WellFormed
  <2>5. /\ disk \subseteq Links
        /\ infos \in [DOMAIN infos -> Links \cup {Blank}] /\ DOMAIN infos \subseteq Links
        /\ stage \in [Links \cup {Ticker} -> {"read", "connected", "activate", "serialize", "write", "closing",
                                              "open", "collect", "done", "dead"}]
        /\ poisoned \subseteq {"socket2id", "statistics", "demangle_map"}
    BY <2>1 DEF TasksInv, TaskTypes, Stages, PoisonInv
  <2>6. \A p \in DOMAIN graph.acc_graph : Range(p) \subseteq Range(graph.func_names)
    BY <2>1 DEF GraphInv
  <2> QED BY <2>2, <2>3, <2>4, <2>5, <2>6 DEF TypeOK
<1> QED BY <1>1, GraphInduction, PTL

\* Whatever the analyzer adds to its graph, a function keeps its index, and
\* what serialize_to_filesystem saved remains a beginning of the names.
THEOREM GraphGrowsCorrect == Spec => GraphGrows
<1> DEFINE Grows == /\ IsPrefix(graph.func_names, graph'.func_names) /\ IsPrefix(saved', graph'.func_names)
                    /\ IsInjective(graph'.func_names)
                    /\ DOMAIN graph.acc_graph \subseteq DOMAIN graph'.acc_graph
                    /\ DOMAIN graph.gep_graph \subseteq DOMAIN graph'.gep_graph
<1>1. ASSUME GraphChainInv, GraphChainInv', [Next]_chainVars PROVE Grows
  <2>1. GraphInv /\ GraphInv'
    BY <1>1 DEF GraphChainInv
  <2>2. /\ graph.func_names \in Seq(Name) /\ graph'.func_names \in Seq(Name) /\ saved' \in Seq(Name)
        /\ IsInjective(graph'.func_names) /\ Begins(saved', graph'.func_names)
    BY <2>1 DEF GraphInv, Names1
  <2>3. /\ Begins(graph.func_names, graph'.func_names)
        /\ DOMAIN graph.acc_graph \subseteq DOMAIN graph'.acc_graph
        /\ DOMAIN graph.gep_graph \subseteq DOMAIN graph'.gep_graph
    <3>1. Begins(graph.func_names, graph.func_names)
      BY <2>2 DEF Begins
    <3> QED BY <1>1, <2>1, <3>1, GraphStep DEF GraphTakes
  <2>4. IsPrefix(graph.func_names, graph'.func_names) /\ IsPrefix(saved', graph'.func_names)
    BY <2>2, <2>3, PrefixByIndex
  <2> QED BY <2>2, <2>3, <2>4
<1>2. GraphChainInv /\ GraphChainInv' /\ [Next]_chainVars => [Grows]_chainVars
  BY <1>1
<1> QED BY <1>2, GraphInduction, PTL DEF Spec, GraphGrows

-----------------------------------------------------------------------------
(* What the graph functions find in lists.                                  *)

\* The last access with a key is one of the list.
LEMMA LastWithIs ==
  ASSUME NEW S, NEW list \in Seq(S), NEW n, NEW key, NEW i \in DOMAIN list, list[i][n] = key
  PROVE  LastWith(list, n, key) \in Range(list) /\ LastWith(list, n, key)[n] = key
<1> DEFINE I == {j \in DOMAIN list : list[j][n] = key}
<1>1. I \subseteq 1 .. Len(list) /\ I # {} /\ Len(list) \in Nat
  OBVIOUS
<1>2. Max(I) \in I /\ \A j \in I : Max(I) >= j
  <2> HIDE DEF I
  <2> QED BY <1>1, MaxIn
<1>3. \E j \in DOMAIN list : list[j][n] = key /\ \A m \in DOMAIN list : list[m][n] = key => m <= j
  BY <1>2
<1> QED BY <1>3 DEF LastWith, Range

\* So are the largest and the smallest access to a pointer.
LEMMA SizedIs ==
  ASSUME NEW list, NEW k \in {"mini_load_mem", "mini_store_mem"}, list \in Seq(Access(k)),
         NEW p \in Ptrs(list)
  PROVE  /\ Largest(list, p) \in Range(list) /\ Largest(list, p)[1] = p
         /\ Smallest(list, p) \in Range(list) /\ Smallest(list, p)[1] = p
<1> DEFINE I == {i \in DOMAIN list : list[i][1] = p}
           L == Len(list)
<1>1. /\ L \in Nat /\ DOMAIN list = 1 .. L /\ I \subseteq 1 .. L /\ I # {}
      /\ \A i \in I : list[i][3] \in Nat /\ list[i] \in Range(list) /\ list[i][1] = p
  <2>1. Access(k) = Nat \X Nat \X Nat
    BY DEF Access
  <2>2. list \in Seq(Nat \X Nat \X Nat)
    BY <2>1
  <2>3. \A i \in DOMAIN list : list[i][3] \in Nat
    BY <2>2
  <2>4. I # {}
    BY DEF Ptrs, Range
  <2>5. L \in Nat /\ DOMAIN list = 1 .. L /\ I \subseteq 1 .. L
    BY <2>2
  <2>6. \A i \in I : list[i][3] \in Nat /\ list[i] \in Range(list) /\ list[i][1] = p
    BY <2>3 DEF Range
  <2> QED BY <2>4, <2>5, <2>6
<1> HIDE DEF I, L
<1>2. \A best : best \subseteq I /\ best # {} => (CHOOSE i \in best : \A j \in best : i <= j) \in I
  <2> SUFFICES ASSUME NEW best, best \subseteq I, best # {}
               PROVE  (CHOOSE i \in best : \A j \in best : i <= j) \in I
    OBVIOUS
  <2>1. \E i \in best : \A j \in best : i <= j
    <3>1. best \subseteq Nat
      BY <1>1
    <3> QED BY <3>1, SmallestOf
  <2> QED BY <2>1
<1>3. \E i \in I : \A j \in I : list[j][3] <= list[i][3]
  <2> DEFINE f == [i \in I |-> list[i][3]]
  <2>1. f \in [I -> Nat]
    BY <1>1
  <2>2. \E i \in I : \A j \in I : f[j] <= f[i]
    <3> HIDE DEF f
    <3> QED BY <1>1, <2>1, LargestOf
  <2> QED BY <2>2
<1>4. \E i \in I : \A j \in I : list[j][3] >= list[i][3]
  <2> DEFINE N == {list[i][3] : i \in I}
  <2>1. N \subseteq Nat /\ N # {}
    BY <1>1
  <2>2. \E n \in N : \A m \in N : n <= m
    <3> HIDE DEF N
    <3> QED BY <2>1, SmallestOf
  <2> QED BY <1>1, <2>2
<1>5. Largest(list, p) \in {list[i] : i \in I}
  BY <1>2, <1>3 DEF Largest, I
<1>6. Smallest(list, p) \in {list[i] : i \in I}
  BY <1>2, <1>4 DEF Smallest, I
<1> QED BY <1>1, <1>5, <1>6

\* What of a dependency that a process left is in the lists of one kind.
LEMMA LeftLists ==
  ASSUME NEW dep, Left(dep), NEW k \in Kinds, NEW i \in DOMAIN dep.mem[k]
  PROVE  /\ dep.mem[k][i] \in Seq(Access(k)) /\ i \in Nat
         /\ dep.mem[k] \in Seq(Seq(Access(k))) /\ i \in DOMAIN dep.call_seq
<1>1. dep.mem[k] \in Seq(Seq(Access(k))) /\ Len(dep.mem[k]) \in {Len(dep.call_seq), 0}
  BY DEF Left
<1>2. dep.call_seq \in Seq(Name)
  BY DEF Left
<1> DEFINE m == dep.mem[k]
           S == Seq(Access(k))
           calls == dep.call_seq
<1>3. m \in Seq(S) /\ Len(m) \in {Len(calls), 0} /\ i \in DOMAIN m /\ calls \in Seq(Name)
  BY <1>1, <1>2
<1>4. m[i] \in S /\ i \in Nat /\ i \in DOMAIN calls
  <2> HIDE DEF m, S, calls
  <2> QED BY <1>3
<1> QED BY <1>1, <1>4

\* dedup_mem of all calls leaves what a process may leave, with the same
\* calls and pointers, and no access that was not there.
LEMMA DedupAllIs ==
  ASSUME NEW dep, Left(dep)
  PROVE  /\ Left(DedupAllMem(dep)) /\ DedupAllMem(dep) # NoDep
         /\ DedupAllMem(dep).call_seq = dep.call_seq
         /\ \A k \in Kinds : /\ DOMAIN DedupAllMem(dep).mem[k] = DOMAIN dep.mem[k]
                             /\ \A i \in DOMAIN dep.mem[k] :
                                  /\ Range(DedupAllMem(dep).mem[k][i]) \subseteq Range(dep.mem[k][i])
                                  /\ Ptrs(DedupAllMem(dep).mem[k][i]) = Ptrs(dep.mem[k][i])
<1> DEFINE new == DedupAllMem(dep)
           list(k) == [i \in DOMAIN dep.mem[k] |->
                         IF i \in DOMAIN dep.call_seq THEN DedupList(k, dep.mem[k][i]) ELSE dep.mem[k][i]]
<1>1. new = [call_seq |-> dep.call_seq, mem |-> [k \in Kinds |-> list(k)]]
  <2>1. \A calls, mem, other : [[call_seq |-> calls, mem |-> mem] EXCEPT !.mem = other] =
          [call_seq |-> calls, mem |-> other]
    OBVIOUS
  <2>2. dep = [call_seq |-> dep.call_seq, mem |-> [k \in Kinds |-> dep.mem[k]]]
    BY DEF Left
  <2>3. new = [dep EXCEPT !.mem = [k \in Kinds |-> list(k)]]
    BY DEF DedupAllMem
  <2> HIDE DEF new, list
  <2> QED BY <2>1, <2>2, <2>3
<1>2. ASSUME NEW k \in Kinds
      PROVE  /\ list(k) \in Seq(Seq(Access(k))) /\ Len(list(k)) = Len(dep.mem[k])
             /\ DOMAIN list(k) = DOMAIN dep.mem[k]
             /\ \A i \in DOMAIN dep.mem[k] : /\ Range(list(k)[i]) \subseteq Range(dep.mem[k][i])
                                             /\ Ptrs(list(k)[i]) = Ptrs(dep.mem[k][i])
  <2>1. dep.mem[k] \in Seq(Seq(Access(k)))
    BY DEF Left
  <2>2. ASSUME NEW i \in DOMAIN dep.mem[k]
        PROVE  /\ list(k)[i] = DedupList(k, dep.mem[k][i])
               /\ dep.mem[k][i] \in Seq(Access(k))
    BY <2>2, LeftLists
  <2>3. ASSUME NEW i \in DOMAIN dep.mem[k]
        PROVE  /\ list(k)[i] \in Seq(Access(k))
               /\ Range(list(k)[i]) \subseteq Range(dep.mem[k][i])
               /\ Ptrs(list(k)[i]) = Ptrs(dep.mem[k][i])
    BY <2>2, DedupListIs
  <2>4. DOMAIN list(k) = 1 .. Len(dep.mem[k]) /\ Len(dep.mem[k]) \in Nat
        /\ DOMAIN dep.mem[k] = 1 .. Len(dep.mem[k])
    BY <2>1
  <2>5. \E f : f = list(k) /\ DOMAIN f = 1 .. Len(dep.mem[k]) /\ f = [i \in DOMAIN f |-> f[i]]
               /\ \A i \in DOMAIN f : f[i] \in Seq(Access(k))
    BY <2>3, <2>4
  <2>6. list(k) \in [1 .. Len(dep.mem[k]) -> Seq(Access(k))]
    BY <2>5
  <2>7. \A n \in Nat : \A S : \A f \in [1 .. n -> S] : f \in Seq(S) /\ Len(f) = n
    OBVIOUS
  <2>8. list(k) \in Seq(Seq(Access(k))) /\ Len(list(k)) = Len(dep.mem[k])
    <3> HIDE DEF list
    <3> QED BY <2>4, <2>6, <2>7
  <2> HIDE DEF list
  <2> QED BY <2>3, <2>4, <2>8
<1> HIDE DEF list
<1>3. Left(new)
  <2>1. new.call_seq = dep.call_seq /\ \A k \in Kinds : new.mem[k] = list(k)
    BY <1>1
  <2>2. new = [call_seq |-> new.call_seq, mem |-> [k \in Kinds |-> new.mem[k]]]
    BY <1>1
  <2>3. PICK whole \in {Kinds} \cup Wholes :
          \A k \in Kinds : Len(dep.mem[k]) = IF k \in whole THEN Len(dep.call_seq) ELSE 0
    BY DEF Left
  <2>4. dep.call_seq \in Seq(Name)
    BY DEF Left
  <2>5. \A k \in Kinds : /\ new.mem[k] \in Seq(Seq(Access(k)))
                         /\ Len(new.mem[k]) = IF k \in whole THEN Len(new.call_seq) ELSE 0
    BY <1>2, <2>1, <2>3
  <2> HIDE DEF new
  <2> QED BY <2>1, <2>2, <2>4, <2>5 DEF Left
<1>4. new \in Dependency
  <2>1. dep.call_seq \in Seq(Name)
    BY DEF Left
  <2>2. \A k \in Kinds : list(k) \in UNION {Seq(Seq(Access(j))) : j \in Kinds}
    BY <1>2
  <2> HIDE DEF new
  <2> QED BY <1>1, <2>1, <2>2 DEF Dependency
<1>5. new # NoDep
  BY <1>4, ServersAssumption
<1>6. new.call_seq = dep.call_seq /\ \A k \in Kinds : new.mem[k] = list(k)
  BY <1>1
<1> HIDE DEF new
<1>7. \A k \in Kinds : /\ DOMAIN new.mem[k] = DOMAIN dep.mem[k]
                       /\ \A i \in DOMAIN dep.mem[k] :
                            /\ Range(new.mem[k][i]) \subseteq Range(dep.mem[k][i])
                            /\ Ptrs(new.mem[k][i]) = Ptrs(dep.mem[k][i])
  BY <1>2, <1>6
<1> QED BY <1>3, <1>5, <1>6, <1>7 DEF new

-----------------------------------------------------------------------------
(* What an edge says of the record that it was found in.                    *)

Edges(dep) == IF disable THEN AccEdges(dep) ELSE MiniEdges(dep)
Complete(dep) == IF disable THEN FullComplete(dep) ELSE MiniComplete(dep)
StoreKind == IF disable THEN "store_mem" ELSE "mini_store_mem"
LoadKind == IF disable THEN "load_mem" ELSE "mini_load_mem"

\* A store and a load of one pointer, at the instructions that info names.
Meet(dep, p, info) ==
  \E x \in Stores(dep, p[1]), y \in Loads(dep, p[2]) : x[1] = y[1] /\ x[2] = info.store /\ y[2] = info.load

LEMMA CompleteLists ==
  ASSUME NEW dep, Left(dep), Complete(dep), NEW i \in DOMAIN dep.call_seq
  PROVE  /\ i \in DOMAIN dep.mem[StoreKind] /\ dep.mem[StoreKind][i] \in Seq(Access(StoreKind))
         /\ i \in DOMAIN dep.mem[LoadKind] /\ dep.mem[LoadKind][i] \in Seq(Access(LoadKind))
<1>1. StoreKind \in Kinds /\ LoadKind \in Kinds
  BY DEF StoreKind, LoadKind, Kinds
<1>2. Len(dep.mem[StoreKind]) >= Len(dep.call_seq) /\ Len(dep.mem[LoadKind]) >= Len(dep.call_seq)
  <2>1. \A k \in Kinds : dep.mem[k] \in Seq(Seq(Access(k)))
    BY DEF Left
  <2>2. dep.call_seq \in Seq(Name)
    BY DEF Left
  <2>3. CASE disable
    BY <2>3 DEF Complete, FullComplete, StoreKind, LoadKind
  <2>4. CASE ~disable
    BY <2>1, <2>2, <2>4 DEF Complete, MiniComplete, StoreKind, LoadKind, Kinds
  <2> QED BY <2>3, <2>4
<1>3. ASSUME NEW k \in Kinds, Len(dep.mem[k]) >= Len(dep.call_seq)
      PROVE  i \in DOMAIN dep.mem[k] /\ dep.mem[k][i] \in Seq(Access(k))
  <2>1. dep.call_seq \in Seq(Name) /\ dep.mem[k] \in Seq(Seq(Access(k)))
    BY DEF Left
  <2>2. i \in DOMAIN dep.mem[k]
    BY <1>3, <2>1
  <2> QED BY <2>2, LeftLists
<1> QED BY <1>1, <1>2, <1>3

\* build_graph: the last store and the last load of the pointer.
LEMMA AccWitness ==
  ASSUME NEW dep, Left(dep), Complete(dep), disable, NEW e \in AccEdges(dep), NEW info \in e.infos
  PROVE  <<e.source, e.sink>> \in CallPairs(dep) /\ Meet(dep, <<e.source, e.sink>>, info)
<1> DEFINE store(i, p) == LastWith(dep.mem["store_mem"][i], 1, p)
           load(j, p) == LastWith(dep.mem["load_mem"][j], 1, p)
           named(i, j, p) ==
             [store |-> store(i, p)[3], load |-> load(j, p)[3],
              source_gep |-> LastWith(dep.mem["store_mem"][i], 2, store(i, p)[2])[4],
              sink_gep |-> GepLoadId(dep, j, load(j, p)[2])]
           both(i, j) == Ptrs(dep.mem["store_mem"][i]) \cap Ptrs(dep.mem["load_mem"][j])
<1>1. PICK p \in Later(dep) :
        e = [source |-> p[1], sink |-> p[2], infos |-> {named(p[1], p[2], q) : q \in both(p[1], p[2])}]
  BY Zenon DEF AccEdges
<1>2. PICK q \in both(p[1], p[2]) : info = named(p[1], p[2], q)
  <2> HIDE DEF named, both
  <2>1. e.infos = {named(p[1], p[2], q) : q \in both(p[1], p[2])}
    BY <1>1
  <2> QED BY <2>1
<1>3. /\ p[1] \in DOMAIN dep.call_seq /\ p[2] \in DOMAIN dep.call_seq /\ p[1] < p[2]
      /\ <<p[1], p[2]>> \in CallPairs(dep) /\ e.source = p[1] /\ e.sink = p[2]
  <2> HIDE DEF named, both
  <2> QED BY <1>1 DEF Later, CallPairs
<1>4. ASSUME NEW k \in {"store_mem", "load_mem"}, NEW i \in DOMAIN dep.call_seq, q \in Ptrs(dep.mem[k][i])
      PROVE  LastWith(dep.mem[k][i], 1, q) \in Range(dep.mem[k][i]) /\ LastWith(dep.mem[k][i], 1, q)[1] = q
  <2>1. dep.mem[k][i] \in Seq(Access(k))
    BY CompleteLists DEF StoreKind, LoadKind
  <2>2. PICK n \in DOMAIN dep.mem[k][i] : dep.mem[k][i][n][1] = q
    BY <1>4 DEF Ptrs, Range
  <2> QED BY <2>1, <2>2, LastWithIs
<1>5. /\ store(p[1], q) \in Range(dep.mem["store_mem"][p[1]]) /\ store(p[1], q)[1] = q
      /\ load(p[2], q) \in Range(dep.mem["load_mem"][p[2]]) /\ load(p[2], q)[1] = q
  BY <1>3, <1>4
<1>6. info.store = store(p[1], q)[3] /\ info.load = load(p[2], q)[3]
  BY <1>2
<1> HIDE DEF store, load, named, both
<1>7. /\ <<store(p[1], q)[1], info.store>> \in Stores(dep, p[1])
      /\ <<load(p[2], q)[1], info.load>> \in Loads(dep, p[2])
  BY <1>5, <1>6 DEF Stores, Loads
<1>8. Meet(dep, <<e.source, e.sink>>, info)
  BY <1>3, <1>5, <1>7 DEF Meet
<1> QED BY <1>3, <1>8

\* build_graph_with_mini_collection: the smallest store and the largest load.
LEMMA MiniWitness ==
  ASSUME NEW dep, Left(dep), Complete(dep), ~disable, NEW e \in MiniEdges(dep), NEW info \in e.infos
  PROVE  <<e.source, e.sink>> \in CallPairs(dep) /\ Meet(dep, <<e.source, e.sink>>, info)
<1> DEFINE stores(i) == dep.mem["mini_store_mem"][i]
           loads(j) == dep.mem["mini_load_mem"][j]
           named(i, j, q) == [store |-> Smallest(stores(i), q)[2], load |-> Largest(loads(j), q)[2]]
           both(i, j) == {q \in Ptrs(stores(i)) \cap Ptrs(loads(j)) :
                            Smallest(stores(i), q)[3] = Largest(loads(j), q)[3]}
<1>1. PICK i \in DOMAIN dep.call_seq, j \in DOMAIN dep.call_seq :
        e = [source |-> i, sink |-> j, infos |-> {named(i, j, q) : q \in both(i, j)}] /\ e.source < e.sink
  BY DEF MiniEdges
<1>2. PICK q \in both(i, j) : info = named(i, j, q)
  BY <1>1
<1>3. e.source = i /\ e.sink = j /\ <<i, j>> \in CallPairs(dep)
  BY <1>1 DEF CallPairs
<1>4. /\ Smallest(stores(i), q) \in Range(stores(i)) /\ Smallest(stores(i), q)[1] = q
      /\ Largest(loads(j), q) \in Range(loads(j)) /\ Largest(loads(j), q)[1] = q
  <2>1. stores(i) \in Seq(Access("mini_store_mem")) /\ loads(j) \in Seq(Access("mini_load_mem"))
    BY CompleteLists DEF StoreKind, LoadKind
  <2>2. q \in Ptrs(stores(i)) /\ q \in Ptrs(loads(j))
    BY <1>2
  <2> HIDE DEF stores, loads, both
  <2> QED BY <2>1, <2>2, SizedIs
<1>5. info.store = Smallest(stores(i), q)[2] /\ info.load = Largest(loads(j), q)[2]
  BY <1>2
<1>6. /\ <<Smallest(stores(i), q)[1], info.store>> \in Stores(dep, i)
      /\ <<Largest(loads(j), q)[1], info.load>> \in Loads(dep, j)
  BY <1>4, <1>5 DEF Stores, Loads
<1> HIDE DEF stores, loads, named, both
<1>7. Meet(dep, <<e.source, e.sink>>, info)
  BY <1>3, <1>4, <1>6 DEF Meet
<1> QED BY <1>3, <1>7

\* Of the edges between two names the one that is kept is one of them.
LEMMA KeptIs ==
  ASSUME NEW dep, Left(dep), NEW edges \in {AccEdges(dep), MiniEdges(dep)},
         NEW n \in DOMAIN NamedEdges(dep, edges, TRUE)
  PROVE  \E e \in edges : /\ <<dep.call_seq[e.source], dep.call_seq[e.sink]>> = n
                          /\ NamedEdges(dep, edges, TRUE)[n] = e.infos
<1> DEFINE names(e) == <<dep.call_seq[e.source], dep.call_seq[e.sink]>>
           those == {e \in edges : names(e) = n}
           First(e) == names(e) = n /\ \A d \in edges : names(d) = n => FirstOf(e, d)
<1>1. /\ \A e \in edges : e.source \in Nat /\ e.sink \in Nat
      /\ those # {}
  <2>1. dep.call_seq \in Seq(Name)
    BY DEF Left
  <2>2. \A e \in edges : e.source \in DOMAIN dep.call_seq /\ e.sink \in DOMAIN dep.call_seq
    BY EdgeCalls
  <2>3. those # {}
    BY DEF NamedEdges
  <2> QED BY <2>1, <2>2, <2>3
<1>2. \E e \in edges : First(e)
  <2> DEFINE sources == {e.source : e \in those}
  <2>1. PICK s \in sources : \A m \in sources : s <= m
    <3>1. sources \subseteq Nat /\ sources # {}
      BY <1>1
    <3> HIDE DEF sources
    <3> QED BY <3>1, SmallestOf
  <2> DEFINE sinks == {e.sink : e \in {d \in those : d.source = s}}
  <2>2. PICK t \in sinks : \A m \in sinks : t <= m
    <3>1. sinks \subseteq Nat /\ sinks # {}
      BY <1>1, <2>1
    <3> HIDE DEF sinks
    <3> QED BY <3>1, SmallestOf
  <2>3. PICK e \in those : e.source = s /\ e.sink = t
    BY <2>2
  <2>4. ASSUME NEW d \in those PROVE FirstOf(e, d)
    <3>1. s <= d.source /\ (d.source = s => t <= d.sink)
      BY <2>1, <2>2
    <3>2. s \in Nat /\ d.source \in Nat
      BY <1>1, <2>3
    <3> HIDE DEF those
    <3> QED BY <2>3, <3>1, <3>2 DEF FirstOf
  <2>5. e \in edges /\ First(e)
    BY <2>3, <2>4
  <2> QED BY <2>5
<1> DEFINE winner == CHOOSE e \in edges : First(e)
<1>3. winner \in edges /\ First(winner)
  <2> HIDE DEF First
  <2> QED BY <1>2
<1>4. NamedEdges(dep, edges, TRUE)[n] = winner.infos
  BY DEF NamedEdges
<1> HIDE DEF winner
<1> QED BY <1>3, <1>4

\* Each edge kept is witnessed by two calls of the record with its names.
Witnessed(dep, n, info) == \E p \in CallPairs(dep) : Names(dep, p) = n /\ Meet(dep, p, info)

LEMMA KeptWitness ==
  ASSUME NEW dep, Left(dep), Complete(dep), disable \in BOOLEAN,
         NEW n \in DOMAIN NamedEdges(dep, Edges(dep), TRUE),
         NEW info \in NamedEdges(dep, Edges(dep), TRUE)[n]
  PROVE  Witnessed(dep, n, info)
<1>1. Edges(dep) \in {AccEdges(dep), MiniEdges(dep)}
  BY DEF Edges
<1>2. PICK e \in Edges(dep) : /\ <<dep.call_seq[e.source], dep.call_seq[e.sink]>> = n
                              /\ NamedEdges(dep, Edges(dep), TRUE)[n] = e.infos
  <2> DEFINE edges == Edges(dep)
  <2> HIDE DEF edges
  <2>1. \E e \in edges : /\ <<dep.call_seq[e.source], dep.call_seq[e.sink]>> = n
                        /\ NamedEdges(dep, edges, TRUE)[n] = e.infos
    <3>1. edges \in {AccEdges(dep), MiniEdges(dep)} /\ n \in DOMAIN NamedEdges(dep, edges, TRUE)
      BY <1>1 DEF edges
    <3> QED BY <3>1, KeptIs, ZenonT(20)
  <2> QED BY <2>1 DEF edges
<1>3. <<e.source, e.sink>> \in CallPairs(dep) /\ Meet(dep, <<e.source, e.sink>>, info)
  BY <1>2, AccWitness, MiniWitness DEF Edges
<1>4. Names(dep, <<e.source, e.sink>>) = n
  BY <1>2 DEF Names
<1> QED BY <1>3, <1>4 DEF Witnessed

\* Two calls of different functions of which the later loads what the earlier
\* stored have an edge.
Dependent(dep, p) ==
  /\ Names(dep, p)[1] # Names(dep, p)[2]
  /\ Ptrs(dep.mem["store_mem"][p[1]]) \cap Ptrs(dep.mem["load_mem"][p[2]]) # {}

LEMMA DependentKept ==
  ASSUME NEW dep, disable, NEW p \in CallPairs(dep), Dependent(dep, p)
  PROVE  Names(dep, p) \in DOMAIN NamedEdges(dep, Edges(dep), TRUE)
<1>1. p \in Later(dep)
  BY DEF CallPairs, Later, Dependent, Names
<1> DEFINE named(i, j, q) ==
             [store |-> LastWith(dep.mem["store_mem"][i], 1, q)[3],
              load |-> LastWith(dep.mem["load_mem"][j], 1, q)[3],
              source_gep |-> LastWith(dep.mem["store_mem"][i], 2, LastWith(dep.mem["store_mem"][i], 1, q)[2])[4],
              sink_gep |-> GepLoadId(dep, j, LastWith(dep.mem["load_mem"][j], 1, q)[2])]
           found(i, j) == {named(i, j, q) : q \in Ptrs(dep.mem["store_mem"][i]) \cap Ptrs(dep.mem["load_mem"][j])}
           edge == [source |-> p[1], sink |-> p[2], infos |-> found(p[1], p[2])]
<1>2. AccEdges(dep) = {e \in {[source |-> r[1], sink |-> r[2], infos |-> found(r[1], r[2])] : r \in Later(dep)} :
                        e.infos # {}}
  BY Zenon DEF AccEdges
<1>3. found(p[1], p[2]) # {}
  <2> HIDE DEF named
  <2> QED BY DEF Dependent
<1>4. \E e \in AccEdges(dep) : e.source = p[1] /\ e.sink = p[2]
  <2>1. edge.source = p[1] /\ edge.sink = p[2] /\ edge.infos = found(p[1], p[2])
    OBVIOUS
  <2>2. edge \in AccEdges(dep)
    <3> HIDE DEF found
    <3> QED BY <1>1, <1>2, <1>3, <2>1
  <2> HIDE DEF edge, found
  <2> QED BY <2>1, <2>2
<1> QED BY <1>4 DEF Edges, NamedEdges, Names

-----------------------------------------------------------------------------
(* What the server has read is what the file still holds.                   *)

\* Without a race one file is registered, and its connection stays open as
\* long as the process runs.
RunInv ==
  /\ shm = NoFile => connected = NoFile
  /\ ~raced =>
       /\ \A t \in Threads : tpc[t] = "check_shm" => shm = NoFile
       /\ \A t \in Threads : tpc[t] \in Creating => connected = NoFile
       /\ \A f \in Files : link[f] = "closed" => process # "runs"

\* A file changes only while the process runs.
Kept ==
  /\ \A c \in Clients : content'[c] = content[c]
  /\ process # "runs" => process' # "runs" /\ \A f \in Files : content'[f] = content[f]
  /\ disable' = disable /\ (raced => raced')

LEMMA InitRun == Init => RunInv
BY ChainAssumption DEF Init, MemInit, RunInv, Creating

LEMMA RunStep ==
  ASSUME CallInv, FileInv, RunInv, NEW t \in Threads, Callback(t)
  PROVE  RunInv' /\ Kept
<1> USE MemAssumption, ChainAssumption DEF At, Goto, mapVars, netVars, lockVars, histVars
<1>1. /\ tpc \in [Threads -> Labels] /\ Created /\ NoFile \notin Links /\ Files \cap Clients = {}
      /\ ~raced => \A u \in Threads \ {t} : tpc[t] \in Entering => tpc[u] \notin Entering
      /\ process = "runs" /\ link \in [Links -> LinkStates] /\ Created' /\ DOMAIN content = Links
      /\ raced \in BOOLEAN /\ disable' = disable
  BY ConnectedStep, CreatedStep, WrittenStep DEF CallInv, FileInv, AloneEntering, Connected, Written
<1>2. Creating \subseteq Entering /\ "check_shm" \in Entering \ Creating
  BY DEF Creating, Entering
<1>3. UNCHANGED content \/ content' = [content EXCEPT ![dest] = memDep] => \A c \in Clients : content'[c] = content[c]
  BY <1>1 DEF Created
<1> HIDE DEF Created
<1>4. CASE FuncEntry(t)
  BY <1>1, <1>2, <1>3, <1>4 DEF FuncEntry, RunInv, Kept, Creating
<1>5. CASE CheckShm(t)
  BY <1>1, <1>2, <1>3, <1>5 DEF CheckShm, RunInv, Kept, Creating
<1>6. CASE MapFile(t)
  <2>1. shm' # NoFile
    BY <1>1, <1>6 DEF MapFile, Created, Creating
  <2> QED BY <1>1, <1>2, <1>3, <1>6, <2>1 DEF MapFile, RunInv, Kept, Creating
<1>7. CASE KeepMap(t) \/ BeginCopy(t, "copy_initial", "initial", FALSE) \/ BeginCopy(t, "copy_final", "final", TRUE)
  BY <1>1, <1>2, <1>3, <1>7 DEF KeepMap, BeginCopy, RunInv, Kept, Creating
<1>8. CASE EndCopy(t, "initial", "connect") \/ EndCopy(t, "final", "relock")
  BY <1>1, <1>2, <1>3, <1>8 DEF EndCopy, RunInv, Kept, Creating
<1>9. CASE Connect(t)
  BY <1>1, <1>2, <1>3, <1>9 DEF Connect, RunInv, Kept, Creating
<1>10. CASE Register(t)
  <2>1. /\ tpc[t] \in {"connect", "register"} /\ tpc[t] \in Creating
        /\ UNCHANGED <<process, shm, mmap, content, raced>> /\ tpc' = [tpc EXCEPT ![t] = "set_tid"]
    BY <1>10 DEF Register, Creating
  <2>2. shm # NoFile
    BY <1>1, <2>1 DEF Created, Creating
  <2>3. ~raced => connected = NoFile /\ \A f \in Files : link'[f] = "closed" => link[f] = "closed"
    <3> SUFFICES ASSUME ~raced PROVE connected = NoFile /\ \A f \in Files : link'[f] = "closed" => link[f] = "closed"
      OBVIOUS
    <3>1. connected = NoFile
      BY <2>1 DEF RunInv
    <3>2. link' = link \/ link' = [link EXCEPT ![target[t]] = "sent"]
      BY <1>10, <3>1 DEF Register, Closed
    <3> QED BY <1>1, <3>1, <3>2
  <2>4. ~raced => \A u \in Threads : tpc'[u] \notin Creating /\ tpc'[u] # "check_shm"
    BY <1>1, <1>2, <2>1 DEF Creating
  <2> QED BY <1>1, <1>3, <2>1, <2>2, <2>3, <2>4 DEF RunInv, Kept
<1>11. CASE SetTid(t) \/ SetFunc(t) \/ AddFunc(t)
  BY <1>1, <1>2, <1>3, <1>11 DEF SetTid, SetFunc, AddFunc, RunInv, Kept, Creating
<1>12. CASE Relock(t)
  BY <1>1, <1>2, <1>3, <1>12 DEF Relock, RunInv, Kept, Creating
<1>13. ASSUME NEW a \in Accesses, Pointer(t, a) PROVE RunInv' /\ Kept
  BY <1>1, <1>3, <1>13 DEF Pointer, RunInv, Kept
<1>14. ASSUME NEW f \in Funcs[t], FuncReturn(t, f) PROVE RunInv' /\ Kept
  BY <1>1, <1>3, <1>14 DEF FuncReturn, RunInv, Kept, Creating
<1> QED
  BY <1>4, <1>5, <1>6, <1>7, <1>8, <1>9, <1>10, <1>11, <1>12, <1>13, <1>14 DEF Callback

LEMMA RunNext ==
  ASSUME CallInv, FileInv, RunInv, scenario \in Scenarios, [Next]_chainVars
  PROVE  RunInv' /\ Kept
<1> USE MemAssumption, ChainAssumption, ScenarioAssumption
<1>1. ASSUME NEW t \in scenario.threads, Callback(t) PROVE RunInv' /\ Kept
  <2>1. t \in Threads
    OBVIOUS
  <2> QED BY <1>1, <2>1, RunStep
<1>2. CASE ProcessEnds
  <2>1. /\ process = "runs" /\ process' = "ended" /\ connected' = NoFile
        /\ UNCHANGED <<shm, disable, tpc, raced>>
        /\ \A c \in Clients : content'[c] = content[c]
    BY <1>2 DEF ProcessEnds, lockVars, histVars, FileInv, Created, Written
  <2> QED BY <2>1 DEF RunInv, Kept
<1>3. ASSUME NEW c \in scenario.clients, ClientStep(c) PROVE RunInv' /\ Kept
  <2>1. c \in Clients
    OBVIOUS
  <2>2. /\ UNCHANGED <<process, shm, content, connected, disable, tpc, raced>>
        /\ \E l \in LinkStates : link' = [link EXCEPT ![c] = l]
    BY <1>3 DEF ClientStep, mapVars, histVars, LinkStates
  <2>3. \A f \in Files : link'[f] = link[f]
    BY <2>1, <2>2 DEF FileInv, Connected
  <2> QED BY <2>2, <2>3 DEF RunInv, Kept
<1>4. CASE UNCHANGED memVars
  BY <1>4 DEF memVars, mapVars, netVars, histVars, RunInv, Kept
<1> QED BY <1>1, <1>2, <1>3, <1>4 DEF Next, chainVars

\* The server reads a file of the process once it has stopped, and what it
\* has read is the deduplicated record, for which it has complete lists once
\* it has collected it.
ReadInv(c) ==
  /\ c \in Files /\ ~raced /\ (last[c] \/ stage[c] \in {"closing", "open"} \/ taken[c] # NoDep)
       => process # "runs"
  /\ server = "analyzer" =>
       /\ stage[c] = "collect" => taken[c] # NoDep
       /\ taken[c] # NoDep => Left(taken[c])
       /\ taken[c] # NoDep /\ (c \in Files => ~raced) =>
            Left(content[c]) /\ taken[c] = DedupAllMem(content[c])
       /\ c \in Collected => Complete(taken[c])

ReadsInv == \A c \in Links : ReadInv(c)

LEMMA InitReads == Init => ReadsInv
BY DEF Init, ServerInit, ReadsInv, ReadInv, Collected

\* A task that does not move keeps what it has read.
LEMMA ReadStays ==
  ASSUME NEW d \in Links, ReadInv(d), SameTask(d), Kept, server' = server
  PROVE  ReadInv(d)'
<1> USE ChainAssumption
<1>1. /\ stage'[d] = stage[d] /\ last'[d] = last[d] /\ taken'[d] = taken[d]
      /\ disable' = disable /\ (~raced' => ~raced)
  BY DEF SameTask, Kept
<1>2. d \in Files /\ ~raced /\ (last[d] \/ stage[d] \in {"closing", "open"} \/ taken[d] # NoDep)
        => process # "runs" /\ process' # "runs" /\ content'[d] = content[d]
  BY DEF ReadInv, Kept
<1>3. d \in Clients => content'[d] = content[d]
  BY DEF Kept
<1>4. d \in Collected' <=> d \in Collected
  BY <1>1 DEF Collected
<1>5. Complete(taken[d])' <=> Complete(taken[d])
  BY <1>1 DEF Complete
<1>6. d \in Files /\ ~raced' /\ (last'[d] \/ stage'[d] \in {"closing", "open"} \/ taken'[d] # NoDep) => process' # "runs"
  BY <1>1, <1>2
<1>7. taken'[d] # NoDep /\ (d \in Files => ~raced') /\ server = "analyzer" =>
        Left(content'[d]) /\ taken'[d] = DedupAllMem(content'[d])
  BY <1>1, <1>2, <1>3 DEF ReadInv
<1> QED BY <1>1, <1>4, <1>5, <1>6, <1>7 DEF ReadInv

\* The task that moves: on_socket_closed reads the file.
LEMMA ReadMoves ==
  ASSUME FileInv, TasksInv, RunInv, ReadsInv, NEW c \in Links, Task(c), UNCHANGED <<memVars, server>>
  PROVE  ReadInv(c)'
<1> USE ServersAssumption, ChainAssumption
<1> DEFINE Stopped == c \in Files /\ ~raced => process # "runs"
           Moves == /\ last'[c] \/ stage'[c] \in {"closing", "open"} \/ taken'[c] # NoDep => Stopped
                    /\ server = "analyzer" =>
                         /\ stage'[c] = "collect" => taken'[c] # NoDep
                         /\ taken'[c] # NoDep =>
                              /\ stage'[c] = "collect"
                              /\ content[c] # NoDep /\ taken'[c] = DedupAllMem(content[c])
<1>1. /\ UNCHANGED <<link, content, process, raced, disable, server>> /\ c # Ticker
      /\ TaskTypes /\ TaskInv(c) /\ ReadInv(c) /\ Connected /\ (Left(content[c]) \/ content[c] = NoDep)
  BY DEF memVars, mapVars, netVars, histVars, TasksInv, ReadsInv, FileInv, Written, Sound
<1>2. last[c] \/ stage[c] \in {"closing", "open"} \/ taken[c] # NoDep => Stopped
  BY <1>1 DEF ReadInv
<1>3. ASSUME Moves PROVE ReadInv(c)'
  <2>1. c \in Files /\ ~raced' /\ (last'[c] \/ stage'[c] \in {"closing", "open"} \/ taken'[c] # NoDep) => process' # "runs"
    BY <1>1, <1>3
  <2>2. server = "analyzer" /\ taken'[c] # NoDep =>
          Left(content[c]) /\ taken'[c] = DedupAllMem(content[c]) /\ Left(taken'[c])
    BY <1>1, <1>3, DedupAllIs
  <2>3. server = "analyzer" => c \notin Collected'
    BY <1>3 DEF Collected
  <2> QED BY <1>1, <1>3, <2>1, <2>2, <2>3 DEF ReadInv
<1> USE DEF TaskTypes, InStage, ToStage, Dies, DiesHolding, AfterConnected, taskVars
<1>4. CASE ReadRegistration(c) \/ ReadEnd(c) \/ ReadError(c)
  <2>1. CASE ReadRegistration(c)
    BY <1>1, <1>2, <1>3, <2>1 DEF ReadRegistration, TaskInv
  <2>2. CASE ReadEnd(c)
    <3>1. Stopped
      BY <1>1, <2>2 DEF ReadEnd, RunInv, Connected
    <3> QED BY <1>1, <1>2, <1>3, <2>2, <3>1 DEF ReadEnd, TaskInv
  <2>3. CASE ReadError(c)
    <3>1. Stopped
      BY <1>1, <2>3 DEF ReadError, Connected
    <3> QED BY <1>1, <1>2, <1>3, <2>3, <3>1 DEF ReadError, TaskInv
  <2> QED BY <1>4, <2>1, <2>2, <2>3
<1>5. CASE MetricConnected(c) \/ AnalyzerConnected(c)
  BY <1>1, <1>2, <1>3, <1>5 DEF MetricConnected, AnalyzerConnected, TaskInv
<1>6. CASE MetricActivate(c) \/ MetricSerialize(c)
  BY <1>1, <1>2, <1>3, <1>6 DEF MetricActivate, MetricSerialize, MakeRow, WriteRow, TaskInv
<1>7. CASE MetricClosed(c) \/ MetricOpen(c) \/ MetricCollect(c)
  BY <1>1, <1>2, <1>3, <1>7 DEF MetricClosed, MetricOpen, MetricCollect, TaskInv
<1>8. CASE AnalyzerClosed(c)
  <2>1. stage[c] = "closing" /\ taken[c] = NoDep /\ UNCHANGED last /\ Stopped
    BY <1>1, <1>2, <1>8 DEF AnalyzerClosed, TaskInv
  <2>2. CASE UNCHANGED taken
    <3>1. stage'[c] \in {"done", "dead"}
      BY <1>1, <1>8, <2>1, <2>2, DedupAllIs DEF AnalyzerClosed
    <3> QED BY <1>1, <1>2, <1>3, <2>1, <2>2, <3>1
  <2>3. CASE /\ taken' = [taken EXCEPT ![c] = DedupAllMem(content[c])] /\ ToStage(c, "collect")
             /\ content[c] # NoDep
    BY <1>1, <1>2, <1>3, <2>1, <2>3, DedupAllIs
  <2> QED BY <1>8, <2>2, <2>3 DEF AnalyzerClosed
<1>9. CASE AnalyzerCollect(c)
  <2>1. stage[c] = "collect" /\ UNCHANGED <<last, taken>> /\ server = "analyzer" /\ stage'[c] \in {"done", "dead"}
    BY <1>1, <1>9 DEF AnalyzerCollect
  <2>2. c \in Collected' => Complete(taken[c])
    BY <1>1, <1>9 DEF AnalyzerCollect, Collected, Complete
  <2>3. Complete(taken[c])' <=> Complete(taken[c])
    BY <1>1, <2>1 DEF Complete
  <2> QED BY <1>1, <2>1, <2>2, <2>3 DEF ReadInv
<1> QED BY <1>4, <1>5, <1>6, <1>7, <1>8, <1>9 DEF Task

LEMMA ReadsNext ==
  ASSUME CallInv, FileInv, TasksInv, PoisonInv, RunInv, ReadsInv, scenario \in Scenarios, [Next]_chainVars
  PROVE  ReadsInv'
<1>1. Kept /\ server' = server
  BY RunNext DEF Next, chainVars
<1>2. ASSUME \A d \in Links : SameTask(d) PROVE ReadsInv'
  BY <1>1, <1>2, ReadStays DEF ReadsInv
<1>3. CASE UNCHANGED serverVars
  BY <1>2, <1>3 DEF SameTask, serverVars, taskVars
<1>4. CASE MetricTick \/ AnalyzerTick
  BY <1>1, <1>2, <1>4, TickStep
<1>5. ASSUME NEW c \in Links, Task(c), UNCHANGED <<memVars, server>> PROVE ReadsInv'
  <2>1. ReadInv(c)' /\ \A d \in Links \ {c} : SameTask(d)
    BY <1>5, ReadMoves, TaskStep
  <2> QED BY <1>1, <2>1, ReadStays DEF ReadsInv
<1> QED BY <1>3, <1>4, <1>5 DEF Next, ServerNext, chainVars

-----------------------------------------------------------------------------
(* The edges.                                                               *)

\* What the graph says of the recordings that were collected.
EdgeInv ==
  /\ \A n \in DOMAIN graph.acc_graph : \A info \in graph.acc_graph[n] :
       \E c \in Collected : Witnessed(taken[c], n, info)
  /\ server # "analyzer" => DOMAIN graph.acc_graph = {}
  /\ disable /\ server = "analyzer" =>
       \A c \in Collected : \A p \in CallPairs(taken[c]) :
         Dependent(taken[c], p) => Names(taken[c], p) \in DOMAIN graph.acc_graph

LEMMA InitEdges == Init => EdgeInv
BY DEF Init, ServerInit, EdgeInv, Collected

\* Nothing but a collection changes the graph, or what was collected.
LEMMA EdgeStays ==
  ASSUME EdgeInv, UNCHANGED <<graph, disable, server>>,
         Collected \subseteq Collected', \A c \in Collected : taken'[c] = taken[c],
         server = "analyzer" => Collected' = Collected
  PROVE  EdgeInv'
<1>1. ASSUME NEW dep, NEW n, NEW info, Witnessed(dep, n, info) PROVE Witnessed(dep, n, info)'
  BY <1>1 DEF Witnessed, Meet, Stores, Loads, CallPairs, Names
<1>2. ASSUME NEW n \in DOMAIN graph'.acc_graph, NEW info \in graph'.acc_graph[n]
      PROVE  \E c \in Collected' : Witnessed(taken[c], n, info)'
  <2>1. PICK c \in Collected : Witnessed(taken[c], n, info)
    BY <1>2 DEF EdgeInv
  <2>2. c \in Collected' /\ taken'[c] = taken[c]
    OBVIOUS
  <2> QED BY <1>1, <2>1, <2>2 DEF Witnessed, Meet, Stores, Loads
<1>3. ASSUME disable', server' = "analyzer", NEW c \in Collected', NEW p \in CallPairs(taken'[c]), Dependent(taken'[c], p)
      PROVE  Names(taken'[c], p) \in DOMAIN graph'.acc_graph
  BY <1>3 DEF EdgeInv
<1> QED BY <1>2, <1>3 DEF EdgeInv

\* collect_dependency takes what it has read: each of its edges is witnessed
\* by it, and its dependencies have an edge.
LEMMA EdgeCollects ==
  ASSUME FileInv, TasksInv, PoisonInv, ReadsInv, EdgeInv, NEW c \in Links, AnalyzerCollect(c),
         UNCHANGED <<memVars, server>>
  PROVE  EdgeInv'
<1> DEFINE dep == taken[c]
<1>1. /\ UNCHANGED <<taken, disable, server>> /\ server = "analyzer" /\ stage[c] = "collect"
      /\ c \notin Collected /\ dep # NoDep /\ Left(dep) /\ disable \in BOOLEAN /\ c \in DOMAIN stage
  BY DEF AnalyzerCollect, InStage, taskVars, memVars, netVars, Collected, ReadsInv, ReadInv, FileInv,
         TasksInv, TaskTypes
<1>2. \A d \in Links \ {c} : SameTask(d)
  BY TaskStep DEF Task
<1>3. \A d \in Links \ {c} : d \in Collected' <=> d \in Collected
  BY <1>2 DEF Collected, SameTask
<1>4. CASE Dies(c) /\ UNCHANGED graph
  <2>1. Collected' = Collected
    BY <1>1, <1>3, <1>4 DEF Collected, Dies, ToStage
  <2> QED BY <1>1, <1>4, <2>1, EdgeStays
<1>5. ASSUME Complete(dep), graph'.acc_graph = Over(graph.acc_graph, NamedEdges(dep, Edges(dep), TRUE)), ToStage(c, "done")
      PROVE  EdgeInv'
  <2> DEFINE new == NamedEdges(dep, Edges(dep), TRUE)
  <2>1. Collected' = Collected \cup {c}
    BY <1>1, <1>3, <1>5 DEF Collected, ToStage
  <2>2. /\ DOMAIN graph'.acc_graph = DOMAIN graph.acc_graph \cup DOMAIN new
        /\ \A n \in DOMAIN graph'.acc_graph :
             graph'.acc_graph[n] = IF n \in DOMAIN graph.acc_graph THEN graph.acc_graph[n] ELSE new[n]
    BY <1>5 DEF Over
  <2>3. ASSUME NEW d, NEW n, NEW info, Witnessed(d, n, info) PROVE Witnessed(d, n, info)'
    BY <1>1, <2>3 DEF Witnessed, Meet, Stores, Loads
  <2>4. ASSUME NEW n \in DOMAIN graph'.acc_graph, NEW info \in graph'.acc_graph[n]
        PROVE  \E d \in Collected' : Witnessed(taken[d], n, info)'
    <3>1. CASE n \in DOMAIN graph.acc_graph
      <4>1. PICK d \in Collected : Witnessed(taken[d], n, info)
        BY <2>2, <2>4, <3>1 DEF EdgeInv
      <4> QED BY <1>1, <2>1, <4>1 DEF Witnessed, Meet, Stores, Loads
    <3>2. CASE n \notin DOMAIN graph.acc_graph
      <4>1. n \in DOMAIN new /\ info \in new[n]
        BY <2>2, <2>4, <3>2
      <4>2. Witnessed(dep, n, info)
        <5> HIDE DEF dep
        <5> QED BY <1>1, <1>5, <4>1, KeptWitness
      <4> QED BY <1>1, <2>1, <4>2 DEF Witnessed, Meet, Stores, Loads
    <3> QED BY <3>1, <3>2
  <2>5. ASSUME disable, NEW d \in Collected', NEW p \in CallPairs(taken[d]), Dependent(taken[d], p)
        PROVE  Names(taken[d], p) \in DOMAIN graph'.acc_graph
    <3>1. CASE d \in Collected
      BY <1>1, <2>2, <2>5, <3>1 DEF EdgeInv
    <3>2. CASE d = c
      BY <2>2, <2>5, <3>2, DependentKept
    <3> QED BY <2>1, <3>1, <3>2
  <2> QED BY <1>1, <2>4, <2>5 DEF EdgeInv
<1>6. \/ Dies(c) /\ UNCHANGED graph
      \/ /\ Complete(dep) /\ ToStage(c, "done")
         /\ graph'.acc_graph = Over(graph.acc_graph, NamedEdges(dep, Edges(dep), TRUE))
  <2> DEFINE acc == IF disable THEN AccEdges(dep) ELSE MiniEdges(dep)
             gep == IF disable THEN GepEdges(dep) ELSE {}
             new == [func_names |-> NewNames(graph.func_names, dep.call_seq),
                     acc_graph |-> Over(graph.acc_graph, NamedEdges(dep, acc, TRUE)),
                     gep_graph |-> Over(NamedEdges(dep, gep, FALSE), graph.gep_graph),
                     active |-> TRUE]
  <2>1. IF ~Complete(dep) THEN Dies(c) /\ UNCHANGED graph ELSE graph' = new /\ ToStage(c, "done")
    BY DEF AnalyzerCollect, Complete
  <2>2. new.acc_graph = Over(graph.acc_graph, NamedEdges(dep, Edges(dep), TRUE))
    BY DEF Edges
  <2> HIDE DEF new
  <2> QED BY <2>1, <2>2
<1> QED BY <1>4, <1>5, <1>6

LEMMA EdgeNext ==
  ASSUME ServersInv, ReadsInv, RunInv, EdgeInv, [Next]_chainVars
  PROVE  EdgeInv'
<1>1. server' = server /\ disable' = disable
  <2>1. Kept
    BY RunNext DEF ServersInv, ChainInv
  <2> QED BY <2>1 DEF Kept, Next, chainVars
<1>2. CallInv /\ FileInv /\ TasksInv /\ PoisonInv
  BY DEF ServersInv, ChainInv
<1>3. ASSUME \A d \in Links : SameTask(d), UNCHANGED graph PROVE EdgeInv'
  <2>1. Collected' = Collected /\ \A d \in Collected : taken'[d] = taken[d]
    BY <1>3 DEF Collected, SameTask
  <2> QED BY <1>1, <1>3, <2>1, EdgeStays
<1>4. CASE UNCHANGED serverVars
  BY <1>3, <1>4 DEF SameTask, serverVars, taskVars, graphVars
<1>5. CASE MetricTick \/ AnalyzerTick
  <2>1. UNCHANGED graph
    BY <1>5 DEF MetricTick, AnalyzerTick, MakeRow, WriteRow, graphVars
  <2> QED BY <1>1, <1>2, <1>3, <1>5, <2>1, TickStep
<1>6. ASSUME NEW c \in Links, Task(c), UNCHANGED <<memVars, server>> PROVE EdgeInv'
  <2>1. CASE AnalyzerCollect(c)
    BY <1>2, <1>6, <2>1, EdgeCollects
  <2>2. CASE ~AnalyzerCollect(c)
    <3>1. /\ \A d \in Links \ {c} : SameTask(d)
          /\ stage[c] \notin {"done", "dead"}
      BY <1>2, <1>6, TaskStep
    <3>2. UNCHANGED graph
      <4>1. CASE ReadRegistration(c) \/ ReadEnd(c) \/ ReadError(c) \/ MetricConnected(c) \/ MetricActivate(c)
        BY <4>1 DEF graphVars, ReadRegistration, ReadEnd, ReadError, MetricConnected, MetricActivate
      <4>2. CASE MetricSerialize(c) \/ MetricClosed(c) \/ MetricOpen(c)
        BY <4>2 DEF graphVars, MetricSerialize, MakeRow, WriteRow, MetricClosed, MetricOpen
      <4>3. CASE MetricCollect(c) \/ AnalyzerConnected(c) \/ AnalyzerClosed(c)
        BY <4>3 DEF graphVars, MetricCollect, AnalyzerConnected, AnalyzerClosed
      <4> QED BY <1>6, <2>2, <4>1, <4>2, <4>3 DEF Task
    <3>3. Collected \subseteq Collected' /\ \A d \in Collected : taken'[d] = taken[d]
      BY <3>1 DEF Collected, SameTask
    <3>4. server = "analyzer" => c \notin Collected'
      <4>1. TaskInv(c) /\ c \in DOMAIN stage
        BY <1>2 DEF TasksInv, TaskTypes
      <4> USE DEF InStage, ToStage, Dies, DiesHolding, AfterConnected, taskVars
      <4>2. CASE ReadRegistration(c) \/ ReadEnd(c) \/ ReadError(c)
        BY <4>1, <4>2 DEF ReadRegistration, ReadEnd, ReadError, Collected
      <4>3. CASE MetricConnected(c) \/ MetricActivate(c) \/ MetricSerialize(c) \/ AnalyzerConnected(c)
        BY <4>1, <4>3 DEF MetricConnected, MetricActivate, MetricSerialize, MakeRow, WriteRow, AnalyzerConnected,
                          Collected
      <4>4. CASE MetricClosed(c) \/ MetricOpen(c) \/ MetricCollect(c)
        BY <4>4 DEF MetricClosed, MetricOpen, MetricCollect
      <4>5. CASE AnalyzerClosed(c)
        <5>1. taken[c] = NoDep
          BY <4>1, <4>5 DEF AnalyzerClosed, TaskInv
        <5>2. stage'[c] # "done" \/ UNCHANGED taken
          BY <4>1, <4>5 DEF AnalyzerClosed
        <5> QED BY <5>1, <5>2 DEF Collected
      <4> QED BY <1>6, <2>2, <4>2, <4>3, <4>4, <4>5 DEF Task
    <3>5. server = "analyzer" => Collected' = Collected
      <4>1. \A d \in Links \ {c} : d \in Collected' <=> d \in Collected
        BY <3>1 DEF Collected, SameTask
      <4>2. c \notin Collected
        BY <3>1 DEF Collected
      <4> QED BY <3>4, <4>1, <4>2 DEF Collected
    <3> QED BY <1>1, <3>2, <3>3, <3>5, EdgeStays
  <2> QED BY <2>1, <2>2
<1> QED BY <1>4, <1>5, <1>6 DEF Next, ServerNext, chainVars

\* What the server has read says the same as the file does.
LEMMA ReadSame ==
  ASSUME NEW dep, Left(dep), Complete(dep)
  PROVE  /\ CallPairs(DedupAllMem(dep)) = CallPairs(dep)
         /\ \A p \in CallPairs(dep) :
              /\ Names(DedupAllMem(dep), p) = Names(dep, p)
              /\ Stores(DedupAllMem(dep), p[1]) \subseteq Stores(dep, p[1])
              /\ Loads(DedupAllMem(dep), p[2]) \subseteq Loads(dep, p[2])
              /\ disable => (Dependent(DedupAllMem(dep), p) <=> Dependent(dep, p))
<1> DEFINE new == DedupAllMem(dep)
<1>1. new.call_seq = dep.call_seq
  BY DedupAllIs
<1>2. ASSUME NEW i \in DOMAIN dep.call_seq
      PROVE  /\ Range(new.mem[StoreKind][i]) \subseteq Range(dep.mem[StoreKind][i])
             /\ Range(new.mem[LoadKind][i]) \subseteq Range(dep.mem[LoadKind][i])
             /\ Ptrs(new.mem[StoreKind][i]) = Ptrs(dep.mem[StoreKind][i])
             /\ Ptrs(new.mem[LoadKind][i]) = Ptrs(dep.mem[LoadKind][i])
  <2>1. StoreKind \in Kinds /\ LoadKind \in Kinds
    BY DEF StoreKind, LoadKind, Kinds
  <2>2. i \in DOMAIN dep.mem[StoreKind] /\ i \in DOMAIN dep.mem[LoadKind]
    BY CompleteLists
  <2> QED BY <2>1, <2>2, DedupAllIs
<1> HIDE DEF new
<1>3. ASSUME NEW p \in CallPairs(dep)
      PROVE  /\ p[1] \in DOMAIN dep.call_seq /\ p[2] \in DOMAIN dep.call_seq
             /\ Names(new, p) = Names(dep, p)
  BY <1>1 DEF CallPairs, Names
<1>4. ASSUME NEW i \in DOMAIN dep.call_seq
      PROVE  Stores(new, i) \subseteq Stores(dep, i) /\ Loads(new, i) \subseteq Loads(dep, i)
  BY <1>2 DEF Stores, Loads, StoreKind, LoadKind
<1>5. ASSUME disable, NEW p \in CallPairs(dep) PROVE Dependent(new, p) <=> Dependent(dep, p)
  BY <1>2, <1>3, <1>5 DEF Dependent, StoreKind, LoadKind
<1>6. CallPairs(new) = CallPairs(dep)
  BY <1>1 DEF CallPairs
<1> QED BY <1>3, <1>4, <1>5, <1>6 DEF new

LEMMA CompleteSame ==
  ASSUME NEW dep, Left(dep), Complete(DedupAllMem(dep))
  PROVE  Complete(dep)
<1> DEFINE new == DedupAllMem(dep)
<1>1. Left(new) /\ new.call_seq = dep.call_seq /\ \A k \in Kinds : DOMAIN new.mem[k] = DOMAIN dep.mem[k]
  BY DedupAllIs
<1> HIDE DEF new
<1>2. ASSUME NEW k \in Kinds PROVE Len(new.mem[k]) = Len(dep.mem[k])
  <2>1. new.mem[k] \in Seq(Seq(Access(k))) /\ dep.mem[k] \in Seq(Seq(Access(k)))
    BY <1>1 DEF Left
  <2>2. \A S : \A s, t \in Seq(S) : DOMAIN s = DOMAIN t => Len(s) = Len(t)
    <3>1. SUFFICES ASSUME NEW S, NEW s \in Seq(S), NEW t \in Seq(S), 1 .. Len(s) = 1 .. Len(t)
                   PROVE  Len(s) = Len(t)
      OBVIOUS
    <3>2. Len(s) \in Nat /\ Len(t) \in Nat
      OBVIOUS
    <3>3. Len(s) <= Len(t) /\ Len(t) <= Len(s)
      <4>1. Len(s) > 0 => Len(s) \in 1 .. Len(t)
        BY <3>1, <3>2
      <4>2. Len(t) > 0 => Len(t) \in 1 .. Len(s)
        BY <3>1, <3>2
      <4> QED BY <3>2, <4>1, <4>2
    <3> QED BY <3>2, <3>3
  <2> QED BY <1>1, <2>1, <2>2
<1> QED BY <1>1, <1>2 DEF new, Complete, FullComplete, MiniComplete, Kinds

\* What holds of the contents that were read holds of the file.
LEMMA ReadFromSame ==
  ASSUME ReadsInv, server = "analyzer", NEW c \in Collected
  PROVE  LET file == ReadFrom(c)
         IN  /\ CallPairs(taken[c]) = CallPairs(file)
             /\ \A n, info : Witnessed(taken[c], n, info) => Witnessed(file, n, info)
             /\ \A p \in CallPairs(file) :
                  /\ Names(taken[c], p) = Names(file, p)
                  /\ disable => (Dependent(taken[c], p) <=> Dependent(file, p))
<1>1. c \in Links /\ taken[c] # NoDep /\ Complete(taken[c]) /\ ReadInv(c)
  BY DEF Collected, ReadsInv, ReadInv
<1>2. CASE c \in Files /\ raced
  BY <1>2 DEF ReadFrom
<1>3. CASE ~(c \in Files /\ raced)
  <2> DEFINE file == content[c]
  <2>1. ReadFrom(c) = file /\ Left(file) /\ taken[c] = DedupAllMem(file)
    BY <1>1, <1>3 DEF ReadFrom, ReadInv
  <2> HIDE DEF file
  <2>2. Complete(file)
    BY <1>1, <2>1, CompleteSame
  <2>3. /\ CallPairs(taken[c]) = CallPairs(file)
        /\ \A p \in CallPairs(file) :
             /\ Names(taken[c], p) = Names(file, p)
             /\ Stores(taken[c], p[1]) \subseteq Stores(file, p[1])
             /\ Loads(taken[c], p[2]) \subseteq Loads(file, p[2])
             /\ disable => (Dependent(taken[c], p) <=> Dependent(file, p))
    BY <2>1, <2>2, ReadSame
  <2>4. ASSUME NEW n, NEW info, Witnessed(taken[c], n, info) PROVE Witnessed(file, n, info)
    BY <2>3, <2>4 DEF Witnessed, Meet
  <2> QED BY <2>1, <2>3, <2>4
<1> QED BY <1>2, <1>3

WitnessInv == ServersInv /\ RunInv /\ ReadsInv /\ EdgeInv

\* build_graph of either kind: an edge that serialize_to_filesystem saves is
\* due to two calls of a recording, and, without the mini collection, each
\* dependency of two functions in a recording that was collected has its edge.
THEOREM EdgesWitnessedCorrect == Spec => []EdgesWitnessed
<1>1. Init => WitnessInv
  BY InitCall, InitFiles, InitTasks, InitRun, InitReads, InitEdges DEF Init, ServersInv, ChainInv, WitnessInv
<1>2. WitnessInv /\ [Next]_chainVars => WitnessInv'
  BY CallNext, FileNext, TasksNext, RunNext, ReadsNext, EdgeNext DEF ServersInv, ChainInv, WitnessInv
<1>3. WitnessInv => EdgesWitnessed
  <2> SUFFICES ASSUME WitnessInv PROVE EdgesWitnessed
    OBVIOUS
  <2>1. ReadsInv /\ EdgeInv
    BY DEF WitnessInv
  <2>2. ASSUME NEW e \in DOMAIN graph.acc_graph, NEW info \in graph.acc_graph[e]
        PROVE  \E c \in Collected : Witnessed(ReadFrom(c), e, info)
    <3>1. server = "analyzer"
      BY <2>1, <2>2 DEF EdgeInv
    <3>2. PICK c \in Collected : Witnessed(taken[c], e, info)
      BY <2>1, <2>2 DEF EdgeInv
    <3> QED BY <2>1, <3>1, <3>2, ReadFromSame
  <2>3. ASSUME disable, server = "analyzer", NEW c \in Collected, NEW p \in CallPairs(ReadFrom(c)),
               Dependent(ReadFrom(c), p)
        PROVE  Names(ReadFrom(c), p) \in DOMAIN graph.acc_graph
    <3>1. p \in CallPairs(taken[c]) /\ Dependent(taken[c], p) /\ Names(taken[c], p) = Names(ReadFrom(c), p)
      BY <2>1, <2>3, ReadFromSame
    <3> QED BY <2>1, <2>3, <3>1 DEF EdgeInv
  <2> QED BY <2>2, <2>3 DEF EdgesWitnessed, Witnessed, Meet, Dependent
<1> QED BY <1>1, <1>2, <1>3, PTL DEF Spec
=============================================================================
