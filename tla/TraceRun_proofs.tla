--------------------------- MODULE TraceRun_proofs ---------------------------
(***************************************************************************)
(* Proofs about TraceRun.                                                  *)
(***************************************************************************)
EXTENDS TraceRun, FoldLemmas

-----------------------------------------------------------------------------
(* The order in which the slots are copied.                                 *)

\* a goes before b: a smaller key, or the same key and a smaller index.
KeyOrder(key, a, b) == key[a] < key[b] \/ (key[a] = key[b] /\ a < b)

\* The slots can be ordered by a key.
LEMMA OrderExists ==
  ASSUME NEW L \in Nat, NEW key \in [1 .. L -> Int]
  PROVE  \E p \in [1 .. L -> 1 .. L] : \A i, j \in 1 .. L : i < j => KeyOrder(key, p[i], p[j])
<1> DEFINE R == {r \in (1 .. L) \X (1 .. L) : KeyOrder(key, r[1], r[2])}
<1>1. \A a, b \in 1 .. L : <<a, b>> \in R <=> KeyOrder(key, a, b)
  OBVIOUS
<1>2. \A a \in 1 .. L : key[a] \in Int
  OBVIOUS
<1>3. Orders(R, 1 .. L)
  <2>1. \A a, b \in 1 .. L : a # b => KeyOrder(key, a, b) \/ KeyOrder(key, b, a)
    BY <1>2 DEF KeyOrder
  <2>2. \A a, b, c \in 1 .. L : KeyOrder(key, a, b) /\ KeyOrder(key, b, c) => KeyOrder(key, a, c)
    BY <1>2 DEF KeyOrder
  <2> HIDE DEF R
  <2> QED BY <1>1, <2>1, <2>2 DEF Orders
<1>4. Cardinality(1 .. L) = L
  BY FS_Interval
<1> HIDE DEF R
<1>5. PICK p \in [1 .. L -> 1 .. L] : SortedBy(p, L, R)
  <2>1. \E p \in [1 .. Cardinality(1 .. L) -> 1 .. L] : SortedBy(p, Cardinality(1 .. L), R)
    BY <1>3, SortExists
  <2> QED BY <1>4, <2>1
<1> QED BY <1>1, <1>5 DEF SortedBy

-----------------------------------------------------------------------------
(* The file "times" and who writes it.                                      *)

\* Records that were made up to a time.
RecordUpTo(t) == [cb : Nat, time : 0 .. t, flag : 0 .. 10, message_size : Nat, rmw_handle : Nat]
WriterUpTo(t) == [pc : {"idle", "wait", "write", "unlock"}, ev : RecordUpTo(t), slot : Nat,
                  left : SUBSET Words, pos : Nat]

FileInv ==
  /\ budget \in Budgets
  /\ now \in 1 .. budget.clock /\ start \in 0 .. now
  /\ pc \in {"running", "loading", "copying", "copied", "traced"} => start # 0
  /\ times \in [1 .. SHM_LEN -> RecordUpTo(now)]
  /\ count \in Nat /\ mutex \in Writers \cup {Free}
  /\ shm = [times |-> shm.times, nodes |-> shm.nodes, cbs |-> shm.cbs, msgs |-> shm.msgs]
  /\ shm.times \in [1 .. SHM_LEN -> RecordUpTo(now)]
  /\ writer \in [Writers -> WriterUpTo(now)]
  /\ \A w \in Writers : /\ writer[w].pos \in 1 .. Len(Script[w])
                        /\ InSection(w) => writer[w].slot \in 1 .. SHM_LEN

\* Each word of r is that of e, or still 0.
PartOf(r, e) ==
  /\ r.cb \in {0, e.cb} /\ r.time \in {0, e.time} /\ r.flag \in {0, e.flag}
  /\ r.message_size \in {0, e.message_size} /\ r.rmw_handle \in {0, e.rmw_handle}

\* A slot is empty or part of one event, which is among the recorded ones
\* (rec) unless it is older than a time (from).
KeptIn(r, rec, from, t) ==
  r = NoTime \/ \E e \in RecordUpTo(t) : PartOf(r, e) /\ (e.time >= from => e \in rec)
Kept(r) == KeptIn(r, recorded, start, now)

\* The slots behind the last one (n) are empty, but for that of the thread
\* that writes: it has parts of the thread's event.
SlotsIn(slots, n, ws, rec, from, t) ==
  /\ \A i \in 1 .. SHM_LEN : KeptIn(slots[i], rec, from, t)
  /\ \A i \in 1 .. SHM_LEN :
       i > n /\ (\A w \in Writers : ws[w].pc = "write" => ws[w].slot # i) => slots[i] = NoTime
  /\ \A w \in Writers : ws[w].pc = "write" => PartOf(slots[ws[w].slot], ws[w].ev)
SlotsInv(slots) == SlotsIn(slots, count, writer, recorded, start, now)

\* Who is in the section holds the mutex and writes the slot after the last one.
SectionInv ==
  /\ SlotsInv(times)
  /\ \A w \in Writers : InSection(w) => mutex = w
  /\ \A w \in Writers : writer[w].pc = "write" => writer[w].slot = count + 1

\* A copy that is being made is like the file; then its slots are only kept.
CopyInv ==
  /\ pc = "loading" => SlotsInv(shm.times)
  /\ pc \in {"copying", "copied", "traced"} => \A i \in 1 .. SHM_LEN : Kept(shm.times[i])

WholeInv ==
  /\ \A w \in Writers : writer[w].pc # "idle" /\ writer[w].ev.time >= start => writer[w].ev \in recorded
  /\ ~torn => SectionInv /\ CopyInv

LEMMA UpToGrows ==
  ASSUME NEW t \in Nat, NEW u \in Nat, t <= u
  PROVE  RecordUpTo(t) \subseteq RecordUpTo(u) /\ WriterUpTo(t) \subseteq WriterUpTo(u)
<1>1. 0 .. t \subseteq 0 .. u
  OBVIOUS
<1>2. RecordUpTo(t) \subseteq RecordUpTo(u)
  BY <1>1 DEF RecordUpTo
<1> QED BY <1>2 DEF WriterUpTo

LEMMA NothingYet ==
  /\ \A t \in Nat : NoTime \in RecordUpTo(t) /\ IdleWriter \in WriterUpTo(t)
  /\ \A e : PartOf(NoTime, e)
<1>1. \A t \in Nat : NoTime \in RecordUpTo(t)
  BY DEF NoTime, RecordUpTo
<1>2. \A e : PartOf(NoTime, e)
  BY DEF NoTime, PartOf
<1> QED BY <1>1, <1>2 DEF IdleWriter, WriterUpTo

\* Storing some words of an event.
LEMMA StoredFacts ==
  ASSUME NEW t \in Nat, NEW r \in RecordUpTo(t), NEW e \in RecordUpTo(t), NEW F
  PROVE  /\ Stored(r, e, F) \in RecordUpTo(t)
         /\ PartOf(r, e) => PartOf(Stored(r, e, F), e)
<1>1. Stored(r, e, F) \in RecordUpTo(t)
  BY DEF Stored, RecordUpTo
<1>2. PartOf(r, e) => PartOf(Stored(r, e, F), e)
  BY DEF Stored, PartOf
<1> QED BY <1>1, <1>2

\* What is kept remains so as events and time are added, and as old events go.
LEMMA KeptGrows ==
  ASSUME NEW rec, NEW rec2, NEW from \in Nat, NEW from2 \in Nat, NEW t \in Nat, NEW u \in Nat,
         t <= u, from <= from2, \A e \in rec : e.time >= from2 => e \in rec2, NEW r, KeptIn(r, rec, from, t)
  PROVE  KeptIn(r, rec2, from2, u)
<1>1. CASE r = NoTime
  BY <1>1 DEF KeptIn
<1>2. CASE r # NoTime
  <2>1. PICK e \in RecordUpTo(t) : PartOf(r, e) /\ (e.time >= from => e \in rec)
    BY <1>2 DEF KeptIn
  <2>2. e \in RecordUpTo(u) /\ e.time \in Nat
    BY <2>1, UpToGrows DEF RecordUpTo
  <2>3. e.time >= from2 => e \in rec2
    BY <2>1, <2>2
  <2> QED BY <2>1, <2>2, <2>3 DEF KeptIn
<1> QED BY <1>1, <1>2

LEMMA SlotsGrow ==
  ASSUME NEW rec, NEW rec2, NEW from \in Nat, NEW from2 \in Nat, NEW t \in Nat, NEW u \in Nat,
         t <= u, from <= from2, \A e \in rec : e.time >= from2 => e \in rec2,
         NEW slots, NEW n, NEW ws, SlotsIn(slots, n, ws, rec, from, t)
  PROVE  SlotsIn(slots, n, ws, rec2, from2, u)
<1>1. \A i \in 1 .. SHM_LEN : KeptIn(slots[i], rec2, from2, u)
  BY KeptGrows DEF SlotsIn
<1> QED BY <1>1 DEF SlotsIn

\* A thread that writes is one like before or not there any more.
LEMMA SlotsSame ==
  ASSUME NEW rec, NEW from, NEW t, NEW slots, NEW n, NEW ws, NEW ws2, SlotsIn(slots, n, ws, rec, from, t),
         \A v \in Writers : (ws2[v].pc = "write" <=> ws[v].pc = "write")
                          /\ (ws[v].pc = "write" => ws2[v].slot = ws[v].slot /\ ws2[v].ev = ws[v].ev)
  PROVE  SlotsIn(slots, n, ws2, rec, from, t)
BY DEF SlotsIn

\* Storing words in the slot of the only thread that writes.
LEMMA SlotsStore ==
  ASSUME NEW rec, NEW from \in Nat, NEW t \in Nat, NEW slots \in [1 .. SHM_LEN -> RecordUpTo(t)], NEW n,
         NEW ws, NEW w \in Writers, SlotsIn(slots, n, ws, rec, from, t),
         ws[w].pc = "write", ws[w].slot \in 1 .. SHM_LEN, ws[w].ev \in RecordUpTo(t),
         ws[w].ev.time >= from => ws[w].ev \in rec,
         \A v \in Writers \ {w} : ws[v].pc # "write", NEW F
  PROVE  SlotsIn([slots EXCEPT ![ws[w].slot] = Stored(@, ws[w].ev, F)], n, ws, rec, from, t)
<1> DEFINE s == ws[w].slot
           ev == ws[w].ev
           new == [slots EXCEPT ![s] = Stored(slots[s], ev, F)]
<1>1. new[s] = Stored(slots[s], ev, F) /\ \A i \in 1 .. SHM_LEN \ {s} : new[i] = slots[i]
  OBVIOUS
<1>2. PartOf(new[s], ev)
  <2>1. PartOf(slots[s], ev) /\ slots[s] \in RecordUpTo(t)
    BY DEF SlotsIn
  <2> QED BY <1>1, <2>1, StoredFacts
<1> HIDE DEF new, s, ev
<1>3. KeptIn(new[s], rec, from, t)
  BY <1>2 DEF KeptIn, ev
<1>4. \A i \in 1 .. SHM_LEN : KeptIn(new[i], rec, from, t)
  BY <1>1, <1>3 DEF SlotsIn
<1>5. \A i \in 1 .. SHM_LEN :
        i > n /\ (\A v \in Writers : ws[v].pc = "write" => ws[v].slot # i) => new[i] = NoTime
  BY <1>1 DEF SlotsIn, s
<1>6. \A v \in Writers : ws[v].pc = "write" => PartOf(new[ws[v].slot], ws[v].ev)
  BY <1>2 DEF s, ev
<1>7. SlotsIn(new, n, ws, rec, from, t)
  BY <1>4, <1>5, <1>6 DEF SlotsIn
<1> QED BY <1>7 DEF new, s, ev

\* An empty file.
LEMMA SlotsEmpty ==
  ASSUME NEW rec, NEW from, NEW t, NEW n, NEW ws,
         \A w \in Writers : ws[w].pc = "write" => ws[w].slot \in 1 .. SHM_LEN
  PROVE  SlotsIn(NoTimes, n, ws, rec, from, t)
<1>1. \A i \in 1 .. SHM_LEN : NoTimes[i] = NoTime
  BY DEF NoTimes
<1> QED BY <1>1, NothingYet DEF SlotsIn, KeptIn

LEMMA InitFile == Init => FileInv /\ WholeInv
<1> SUFFICES ASSUME Init PROVE FileInv /\ WholeInv
  OBVIOUS
<1>1. budget \in Budgets /\ now = 1 /\ now \in 1 .. budget.clock /\ start \in 0 .. now /\ pc = "targets"
  BY TracerAssumption DEF Init, TracerInit
<1>2. times = NoTimes /\ times \in [1 .. SHM_LEN -> RecordUpTo(now)]
  BY <1>1, NothingYet DEF Init, TracerInit, NoTimes
<1>3. /\ writer \in [Writers -> WriterUpTo(now)]
      /\ \A w \in Writers : writer[w].pc = "idle" /\ writer[w].pos \in 1 .. Len(Script[w])
  <2>1. \A w \in Writers : 1 \in 1 .. Len(Script[w])
    BY TracerAssumption
  <2>2. writer = [w \in Writers |-> IdleWriter] /\ IdleWriter \in WriterUpTo(now)
    BY <1>1, NothingYet DEF Init, TracerInit
  <2>3. IdleWriter.pc = "idle" /\ IdleWriter.pos = 1
    BY DEF IdleWriter
  <2> QED BY <2>1, <2>2, <2>3
<1>6. /\ shm = [times |-> shm.times, nodes |-> shm.nodes, cbs |-> shm.cbs, msgs |-> shm.msgs]
      /\ shm.times \in [1 .. SHM_LEN -> RecordUpTo(now)]
  BY <1>1, NothingYet DEF Init, TracerInit, NoCopy, NoTimes
<1>4. FileInv
  BY <1>1, <1>2, <1>3, <1>6 DEF FileInv, Init, TracerInit, InSection
<1>5. SlotsInv(times)
  BY <1>2, <1>3, SlotsEmpty DEF SlotsInv
<1>7. WholeInv
  BY <1>1, <1>3, <1>5 DEF WholeInv, SectionInv, CopyInv, InSection
<1> QED BY <1>4, <1>7

\* What the copy is made of.
LEMMA SortedFrom ==
  ASSUME NEW t \in Nat, NEW slots \in [1 .. SHM_LEN -> RecordUpTo(t)]
  PROVE  /\ Sorted(slots) \in [1 .. SHM_LEN -> RecordUpTo(t)]
         /\ \A i \in 1 .. SHM_LEN : \E j \in 1 .. SHM_LEN : Sorted(slots)[i] = slots[j]
<1> DEFINE L == SHM_LEN
           key == [i \in 1 .. L |-> slots[i].time]
           Sorts(p) == \A i, j \in 1 .. L : i < j =>
             (slots[p[i]].time < slots[p[j]].time \/ (slots[p[i]].time = slots[p[j]].time /\ p[i] < p[j]))
           order == CHOOSE p \in [1 .. L -> 1 .. L] : Sorts(p)
<1>1. L \in Nat /\ key \in [1 .. L -> Int]
  BY TracerAssumption DEF RecordUpTo
<1>2. PICK p \in [1 .. L -> 1 .. L] : \A i, j \in 1 .. L : i < j => KeyOrder(key, p[i], p[j])
  <2> HIDE DEF key, L
  <2> QED BY <1>1, OrderExists
<1>3. Sorts(p)
  <2> SUFFICES ASSUME NEW i \in 1 .. L, NEW j \in 1 .. L, i < j
               PROVE  slots[p[i]].time < slots[p[j]].time \/ (slots[p[i]].time = slots[p[j]].time /\ p[i] < p[j])
    OBVIOUS
  <2>1. KeyOrder(key, p[i], p[j]) /\ p[i] \in 1 .. L /\ p[j] \in 1 .. L
    BY <1>2
  <2>2. key[p[i]] = slots[p[i]].time /\ key[p[j]] = slots[p[j]].time
    BY <2>1
  <2> HIDE DEF key
  <2> QED BY <2>1, <2>2 DEF KeyOrder
<1>4. order \in [1 .. L -> 1 .. L]
  <2> HIDE DEF Sorts, L
  <2> QED BY <1>2, <1>3
<1>5. Sorted(slots) = [i \in 1 .. L |-> slots[order[i]]]
  BY DEF Sorted
<1> HIDE DEF order
<1> QED BY <1>4, <1>5

-----------------------------------------------------------------------------
(* The steps of the application.                                            *)

LEMMA TickUp ==
  ASSUME FileInv, Tick
  PROVE  /\ now' \in 1 .. budget.clock /\ start \in 0 .. now' /\ now' \in Nat /\ now \in Nat /\ now <= now'
         /\ RecordUpTo(now) \subseteq RecordUpTo(now') /\ WriterUpTo(now) \subseteq WriterUpTo(now')
<1>1. now' \in 1 .. budget.clock /\ start \in 0 .. now' /\ now' \in Nat /\ now \in Nat /\ now <= now'
  BY TracerAssumption DEF FileInv, Tick
<1> QED BY <1>1, UpToGrows

\* Time passes, and nothing is written.
LEMMA TimePasses ==
  ASSUME FileInv, Tick, UNCHANGED <<budget, start, pc, times, count, mutex, writer, shm>>
  PROVE  FileInv'
<1>1. /\ now' \in 1 .. budget.clock /\ start \in 0 .. now'
      /\ RecordUpTo(now) \subseteq RecordUpTo(now') /\ WriterUpTo(now) \subseteq WriterUpTo(now')
  BY TickUp
<1>2. /\ times \in [1 .. SHM_LEN -> RecordUpTo(now')] /\ shm.times \in [1 .. SHM_LEN -> RecordUpTo(now')]
      /\ writer \in [Writers -> WriterUpTo(now')]
  BY <1>1 DEF FileInv
<1> QED BY <1>1, <1>2 DEF FileInv, InSection

\* What a step of the application that leaves the slots alone keeps of them.
LEMMA SlotsStay ==
  ASSUME FileInv, WholeInv, now' \in Nat, now <= now', recorded \subseteq recorded',
         UNCHANGED <<start, pc, times, count, shm, torn, mutex>>,
         \A v \in Writers : (InSection(v)' <=> InSection(v)) /\ (writer'[v].pc = "write" <=> writer[v].pc = "write")
                         /\ (writer[v].pc = "write" => writer'[v].slot = writer[v].slot /\ writer'[v].ev = writer[v].ev)
  PROVE  ~torn' => SectionInv' /\ CopyInv'
<1> SUFFICES ASSUME ~torn PROVE SectionInv' /\ CopyInv'
  OBVIOUS
<1>1. now \in Nat /\ start \in Nat /\ SectionInv /\ CopyInv
  BY TracerAssumption DEF FileInv, WholeInv
<1>2. ASSUME NEW slots, SlotsIn(slots, count, writer, recorded, start, now)
      PROVE  SlotsIn(slots, count, writer', recorded', start, now')
  <2>1. SlotsIn(slots, count, writer, recorded', start, now')
    <3>1. start <= start /\ \A e \in recorded : e.time >= start => e \in recorded'
      BY <1>1
    <3> QED BY <1>1, <1>2, <3>1, SlotsGrow
  <2> QED BY <2>1, SlotsSame
<1>3. SlotsInv(times) => SlotsInv(times)'
  BY <1>2 DEF SlotsInv
<1>4. SlotsInv(shm.times) => SlotsInv(shm.times)'
  BY <1>2 DEF SlotsInv
<1>5. \A r : Kept(r) => Kept(r)'
  <2>1. start <= start /\ \A e \in recorded : e.time >= start => e \in recorded'
    BY <1>1
  <2> SUFFICES ASSUME NEW r, KeptIn(r, recorded, start, now) PROVE KeptIn(r, recorded', start, now')
    BY DEF Kept
  <2> QED BY <1>1, <2>1, KeptGrows
<1>6. SectionInv'
  BY <1>1, <1>3 DEF SectionInv
<1>7. CopyInv'
  BY <1>1, <1>4, <1>5 DEF CopyInv
<1> QED BY <1>6, <1>7

LEMMA StampStep ==
  ASSUME FileInv, WholeInv, NEW w \in Writers, Stamp(w), UNCHANGED <<start, pc>>
  PROVE  FileInv' /\ WholeInv'
<1> DEFINE e == Script[w][writer[w].pos]
           ev == [cb |-> e.cb, time |-> now', flag |-> e.flag, message_size |-> e.size, rmw_handle |-> e.rmw]
<1>1. /\ now' \in 1 .. budget.clock /\ start \in 0 .. now' /\ now' \in Nat /\ now <= now'
      /\ RecordUpTo(now) \subseteq RecordUpTo(now') /\ WriterUpTo(now) \subseteq WriterUpTo(now')
  BY TickUp DEF Stamp
<1>2. /\ recorded' = recorded \cup {ev} /\ UNCHANGED <<budget, times, count, mutex, shm, torn>>
      /\ writer[w].pc = "idle"
      /\ writer' = [writer EXCEPT ![w].pc = "wait", ![w].ev = ev]
  BY DEF Stamp, fileVars
<1>3. ev \in RecordUpTo(now')
  <2>1. writer[w].pos \in 1 .. Len(Script[w])
    BY DEF FileInv
  <2>2. e \in [cb : Nat, flag : 1 .. 10, size : Nat, rmw : Nat]
    <3> DEFINE S == [cb : Nat, flag : 1 .. 10, size : Nat, rmw : Nat]
    <3>1. Script[w] \in Seq(S)
      BY TracerAssumption
    <3> HIDE DEF S
    <3>2. e \in S
      BY <2>1, <3>1
    <3> QED BY <3>2 DEF S
  <2> QED BY <1>1, <2>2 DEF RecordUpTo
<1> HIDE DEF ev
<1>4. /\ times' \in [1 .. SHM_LEN -> RecordUpTo(now')] /\ shm'.times \in [1 .. SHM_LEN -> RecordUpTo(now')]
      /\ writer \in [Writers -> WriterUpTo(now')]
  BY <1>1, <1>2 DEF FileInv
<1>5. /\ writer' \in [Writers -> WriterUpTo(now')]
      /\ writer'[w].pc = "wait" /\ writer'[w].ev = ev /\ writer'[w].pos = writer[w].pos
      /\ \A v \in Writers \ {w} : writer'[v] = writer[v]
  BY <1>2, <1>3, <1>4 DEF WriterUpTo
<1>6. FileInv'
  BY <1>1, <1>2, <1>4, <1>5 DEF FileInv, InSection
<1>7. ~torn' => SectionInv' /\ CopyInv'
  BY <1>1, <1>2, <1>5, SlotsStay DEF InSection
<1>8. WholeInv'
  BY <1>2, <1>5, <1>7 DEF WholeInv
<1> QED BY <1>6, <1>8

LEMMA LockStep ==
  ASSUME FileInv, WholeInv, NEW w \in Writers, Lock(w), UNCHANGED <<start, pc>>
  PROVE  FileInv' /\ WholeInv'
<1>1. /\ UNCHANGED <<budget, times, count, shm, torn, recorded, now>> /\ mutex' = w
      /\ mutex = Free /\ count < SHM_LEN /\ writer[w].pc = "wait"
      /\ writer' = [writer EXCEPT ![w].pc = "write", ![w].slot = count + 1, ![w].left = Words]
  BY DEF Lock
<1>2. /\ writer' \in [Writers -> WriterUpTo(now)]
      /\ writer'[w].pc = "write" /\ writer'[w].slot = count + 1
      /\ writer'[w].pos = writer[w].pos /\ writer'[w].ev = writer[w].ev
      /\ \A v \in Writers \ {w} : writer'[v] = writer[v]
  <2>1. writer \in [Writers -> WriterUpTo(now)] /\ count + 1 \in Nat /\ "write" \in {"idle", "wait", "write", "unlock"}
    BY DEF FileInv
  <2> QED BY <1>1, <2>1 DEF WriterUpTo
<1>3. FileInv'
  <2>1. count + 1 \in 1 .. SHM_LEN
    BY <1>1, TracerAssumption DEF FileInv
  <2> QED BY <1>1, <1>2, <2>1 DEF FileInv, InSection
<1>4. ASSUME ~torn PROVE SectionInv' /\ CopyInv'
  <2>1. \A v \in Writers : ~InSection(v)
    BY <1>1, <1>4, TracerAssumption DEF WholeInv, SectionInv
  <2>2. \A v \in Writers : writer[v].pc # "write" /\ (writer'[v].pc = "write" => v = w)
    BY <1>2, <2>1 DEF InSection
  <2>3. ASSUME NEW slots, SlotsIn(slots, count, writer, recorded, start, now)
        PROVE  SlotsIn(slots, count, writer', recorded, start, now)
    <3>1. count + 1 \in 1 .. SHM_LEN /\ count + 1 > count
      BY <1>1, TracerAssumption DEF FileInv
    <3>2. slots[count + 1] = NoTime
      BY <2>2, <2>3, <3>1 DEF SlotsIn
    <3>3. PartOf(slots[count + 1], writer'[w].ev)
      BY <3>2, NothingYet
    <3>4. \A v \in Writers : writer'[v].pc = "write" => PartOf(slots[writer'[v].slot], writer'[v].ev)
      BY <1>2, <2>2, <3>3
    <3> QED BY <2>2, <2>3, <3>4 DEF SlotsIn
  <2>4. SlotsInv(times)' /\ (SlotsInv(shm.times) => SlotsInv(shm.times)')
    BY <1>1, <1>4, <2>3 DEF SlotsInv, WholeInv, SectionInv
  <2>5. SectionInv'
    BY <1>1, <1>2, <2>1, <2>2, <2>4 DEF SectionInv, InSection
  <2>6. CopyInv'
    BY <1>1, <1>4, <2>4 DEF WholeInv, CopyInv, Kept
  <2> QED BY <2>5, <2>6
<1>6. WholeInv'
  BY <1>1, <1>2, <1>4 DEF WholeInv
<1> QED BY <1>3, <1>6

\* A word of the record is stored, whether the file is being cleared or copied.
LEMMA WriteStep ==
  ASSUME FileInv, WholeInv, NEW w \in Writers, NEW F, WriteWords(w, F), UNCHANGED <<start, pc>>
  PROVE  FileInv' /\ WholeInv'
<1> DEFINE s == writer[w].slot
           ev == writer[w].ev
           file == [times EXCEPT ![s] = Stored(@, ev, F)]
           copy == [shm.times EXCEPT ![s] = Stored(@, ev, F)]
<1>1. /\ UNCHANGED <<budget, count, mutex, torn, recorded, now>> /\ writer[w].pc = "write"
      /\ times' = file \/ times' = times
      /\ writer' = [writer EXCEPT ![w].left = @ \ F]
  BY DEF WriteWords
<1>2. /\ s \in 1 .. SHM_LEN /\ ev \in RecordUpTo(now) /\ writer \in [Writers -> WriterUpTo(now)]
      /\ times \in [1 .. SHM_LEN -> RecordUpTo(now)] /\ shm.times \in [1 .. SHM_LEN -> RecordUpTo(now)]
      /\ now \in Nat /\ start \in Nat
  <2>1. now \in Nat /\ start \in Nat
    BY TracerAssumption DEF FileInv
  <2> QED BY <1>1, <2>1 DEF FileInv, InSection, WriterUpTo
<1>3. /\ shm' = [times |-> shm'.times, nodes |-> shm.nodes, cbs |-> shm.cbs, msgs |-> shm.msgs]
      /\ shm'.times = copy \/ shm'.times = shm.times
  <2>1. shm = [times |-> shm.times, nodes |-> shm.nodes, cbs |-> shm.cbs, msgs |-> shm.msgs]
    BY DEF FileInv
  <2>2. shm' = shm \/ shm' = [shm EXCEPT !.times[s] = Stored(@, ev, F)]
    BY DEF WriteWords
  <2>3. CASE shm' = shm
    BY <2>1, <2>3
  <2>4. CASE shm' = [shm EXCEPT !.times[s] = Stored(@, ev, F)]
    <3>1. shm' = [shm EXCEPT !.times = copy]
      BY <2>4
    <3> HIDE DEF copy
    <3> QED BY <2>1, <3>1
  <2> QED BY <2>2, <2>3, <2>4
<1>4. file \in [1 .. SHM_LEN -> RecordUpTo(now)] /\ copy \in [1 .. SHM_LEN -> RecordUpTo(now)]
  <2>1. Stored(times[s], ev, F) \in RecordUpTo(now) /\ Stored(shm.times[s], ev, F) \in RecordUpTo(now)
    BY <1>2, StoredFacts
  <2> QED BY <1>2, <2>1
<1>5. /\ writer' \in [Writers -> WriterUpTo(now)]
      /\ \A v \in Writers : /\ writer'[v].pc = writer[v].pc /\ writer'[v].slot = writer[v].slot
                            /\ writer'[v].pos = writer[v].pos /\ writer'[v].ev = writer[v].ev
  BY <1>1, <1>2 DEF WriterUpTo
<1>6. FileInv'
  <2> HIDE DEF file, copy
  <2> QED BY <1>1, <1>2, <1>3, <1>4, <1>5 DEF FileInv, InSection
<1>7. ASSUME ~torn PROVE SectionInv' /\ CopyInv'
  <2>1. \A v \in Writers \ {w} : writer[v].pc # "write"
    BY <1>1, <1>7 DEF WholeInv, SectionInv, InSection
  <2>2. ev.time >= start => ev \in recorded
    BY <1>1 DEF WholeInv
  <2>3. ASSUME NEW slots \in [1 .. SHM_LEN -> RecordUpTo(now)], SlotsIn(slots, count, writer, recorded, start, now)
        PROVE  /\ SlotsIn(slots, count, writer', recorded, start, now)
               /\ SlotsIn([slots EXCEPT ![s] = Stored(@, ev, F)], count, writer', recorded, start, now)
    <3>1. SlotsIn([slots EXCEPT ![s] = Stored(@, ev, F)], count, writer, recorded, start, now)
      BY <1>1, <1>2, <2>1, <2>2, <2>3, SlotsStore
    <3> QED BY <1>5, <2>3, <3>1, SlotsSame
  <2>4. SlotsInv(times)'
    BY <1>1, <1>2, <1>7, <2>3 DEF SlotsInv, WholeInv, SectionInv
  <2>5. SlotsInv(shm.times) => SlotsInv(shm.times)'
    BY <1>1, <1>2, <1>3, <2>3 DEF SlotsInv
  <2>6. SectionInv'
    BY <1>1, <1>5, <1>7, <2>4 DEF WholeInv, SectionInv, InSection
  <2>7. pc # "loading" => shm'.times = shm.times
    BY DEF WriteWords
  <2>8. CopyInv'
    BY <1>1, <1>7, <2>5, <2>7 DEF WholeInv, CopyInv, Kept
  <2> QED BY <2>6, <2>8
<1>8. WholeInv'
  <2> HIDE DEF file, copy, s, ev
  <2> QED BY <1>1, <1>5, <1>7 DEF WholeInv
<1> QED BY <1>6, <1>8

\* The slot of a record that is counted need not be empty any more.
LEMMA CountStep ==
  ASSUME FileInv, WholeInv, NEW w \in Writers, Count(w), UNCHANGED <<start, pc>>
  PROVE  FileInv' /\ WholeInv'
<1>1. /\ UNCHANGED <<budget, times, mutex, shm, torn, recorded, now>> /\ writer[w].pc = "write"
      /\ count' \in {count + 1, writer[w].slot}
      /\ writer' = [writer EXCEPT ![w].pc = "unlock"]
  BY DEF Count
<1>2. /\ writer' \in [Writers -> WriterUpTo(now)]
      /\ writer'[w].pc = "unlock" /\ writer'[w].slot = writer[w].slot
      /\ writer'[w].pos = writer[w].pos /\ writer'[w].ev = writer[w].ev
      /\ \A v \in Writers \ {w} : writer'[v] = writer[v]
  <2>1. writer \in [Writers -> WriterUpTo(now)] /\ "unlock" \in {"idle", "wait", "write", "unlock"}
    BY DEF FileInv
  <2> QED BY <1>1, <2>1 DEF WriterUpTo
<1>3. FileInv'
  <2>1. writer[w].slot \in Nat /\ count \in Nat
    BY DEF FileInv, WriterUpTo
  <2>2. count' \in Nat
    BY <1>1, <2>1
  <2> QED BY <1>1, <1>2, <2>2 DEF FileInv, InSection
<1>4. ASSUME ~torn PROVE SectionInv' /\ CopyInv'
  <2>1. SectionInv /\ CopyInv /\ count \in Nat
    BY <1>4 DEF WholeInv, FileInv
  <2>2. writer[w].slot = count + 1 /\ count' = count + 1
    BY <1>1, <2>1 DEF SectionInv
  <2>3. \A v \in Writers : (writer[v].pc = "write" => v = w) /\ writer'[v].pc # "write"
    BY <1>1, <1>2, <2>1 DEF SectionInv, InSection
  <2>4. ASSUME NEW slots, SlotsIn(slots, count, writer, recorded, start, now)
        PROVE  SlotsIn(slots, count + 1, writer', recorded, start, now)
    <3>1. \A i \in 1 .. SHM_LEN : i > count + 1 => slots[i] = NoTime
      BY <2>1, <2>2, <2>3, <2>4 DEF SlotsIn
    <3> QED BY <2>3, <2>4, <3>1 DEF SlotsIn
  <2>5. SlotsInv(times)' /\ (SlotsInv(shm.times) => SlotsInv(shm.times)')
    BY <1>1, <2>1, <2>2, <2>4 DEF SlotsInv, SectionInv
  <2>6. SectionInv'
    BY <1>1, <1>2, <2>1, <2>3, <2>5 DEF SectionInv, InSection
  <2>7. CopyInv'
    BY <1>1, <2>1, <2>5 DEF CopyInv, Kept
  <2> QED BY <2>6, <2>7
<1>5. WholeInv'
  BY <1>1, <1>2, <1>4 DEF WholeInv
<1> QED BY <1>3, <1>5

LEMMA UnlockStep ==
  ASSUME FileInv, WholeInv, NEW w \in Writers, Unlock(w), UNCHANGED <<start, pc>>
  PROVE  FileInv' /\ WholeInv'
<1> DEFINE idle == [IdleWriter EXCEPT !.pos = (writer[w].pos % Len(Script[w])) + 1]
<1>1. /\ UNCHANGED <<budget, times, count, shm, torn, recorded, now>>
      /\ writer[w].pc = "unlock" /\ mutex' = Free
      /\ writer' = [writer EXCEPT ![w] = idle]
  BY DEF Unlock
<1>2. writer \in [Writers -> WriterUpTo(now)] /\ now \in Nat /\ start \in Nat
  BY TracerAssumption DEF FileInv
<1>3. idle \in WriterUpTo(now) /\ idle.pc = "idle" /\ idle.pos \in 1 .. Len(Script[w])
  <2>1. Len(Script[w]) \in Nat \ {0} /\ writer[w].pos \in Nat
    BY <1>2, TracerAssumption DEF WriterUpTo
  <2>2. (writer[w].pos % Len(Script[w])) + 1 \in 1 .. Len(Script[w])
    BY <2>1
  <2> QED BY <1>2, <2>2, NothingYet DEF WriterUpTo, IdleWriter
<1> HIDE DEF idle
<1>4. /\ writer' \in [Writers -> WriterUpTo(now)] /\ writer'[w] = idle
      /\ \A v \in Writers \ {w} : writer'[v] = writer[v]
  BY <1>1, <1>2, <1>3
<1>5. FileInv'
  BY <1>1, <1>2, <1>3, <1>4 DEF FileInv, InSection
<1>6. ASSUME ~torn PROVE SectionInv' /\ CopyInv'
  <2>1. SectionInv /\ CopyInv
    BY <1>6 DEF WholeInv
  <2>2. \A v \in Writers : ~InSection(v)' /\ writer[v].pc # "write" /\ writer'[v].pc # "write"
    BY <1>1, <1>3, <1>4, <2>1 DEF SectionInv, InSection
  <2>3. ASSUME NEW slots, SlotsIn(slots, count, writer, recorded, start, now)
        PROVE  SlotsIn(slots, count, writer', recorded, start, now)
    BY <2>2, <2>3, SlotsSame
  <2>4. SlotsInv(times)' /\ (SlotsInv(shm.times) => SlotsInv(shm.times)')
    BY <1>1, <2>1, <2>3 DEF SlotsInv, SectionInv
  <2>5. SectionInv'
    BY <2>2, <2>4 DEF SectionInv
  <2>6. CopyInv'
    BY <1>1, <2>1, <2>4 DEF CopyInv, Kept
  <2> QED BY <2>5, <2>6
<1>7. WholeInv'
  <2>1. \A v \in Writers : writer'[v].pc # "idle" => writer'[v] = writer[v]
    BY <1>3, <1>4
  <2> QED BY <1>1, <1>6, <2>1 DEF WholeInv
<1> QED BY <1>5, <1>7

\* The other steps do not touch the file.
LEMMA OtherSteps ==
  ASSUME FileInv, WholeInv, UNCHANGED <<start, pc>>,
         (\E k \in MsgKinds : SendMsg(k)) \/ (\E i \in 1 .. Len(msgFile) : RecvMsg(i)) \/ Register
  PROVE  FileInv' /\ WholeInv'
<1>1. UNCHANGED <<budget, times, count, mutex, writer, shm, recorded, torn>>
  BY DEF SendMsg, RecvMsg, Register
<1>2. Tick \/ now' = now
  BY DEF SendMsg, RecvMsg, Register
<1>3. FileInv'
  BY <1>1, <1>2, TimePasses DEF FileInv, InSection
<1>4. now' \in Nat /\ now <= now'
  <2>1. now \in Nat
    BY TracerAssumption DEF FileInv
  <2> QED BY <1>2, <2>1, TickUp
<1>5. ~torn' => SectionInv' /\ CopyInv'
  BY <1>1, <1>4, SlotsStay DEF InSection
<1>6. WholeInv'
  BY <1>1, <1>5 DEF WholeInv
<1> QED BY <1>3, <1>6

LEMMA ApplicationSteps ==
  ASSUME FileInv, WholeInv, ApplicationStep
  PROVE  FileInv' /\ WholeInv'
<1>1. budget.writers \subseteq Writers /\ UNCHANGED <<start, pc>>
  BY TracerAssumption DEF FileInv, ApplicationStep, runVars
<1>2. CASE \E w \in budget.writers : Stamp(w) \/ Lock(w) \/ Count(w) \/ Unlock(w)
  BY <1>1, <1>2, StampStep, LockStep, CountStep, UnlockStep
<1>3. CASE \E w \in budget.writers : \E F \in budget.stores : WriteWords(w, F)
  BY <1>1, <1>3, WriteStep
<1>4. CASE (\E k \in MsgKinds : SendMsg(k)) \/ (\E i \in 1 .. Len(msgFile) : RecvMsg(i)) \/ Register
  BY <1>1, <1>4, OtherSteps
<1> QED BY <1>2, <1>3, <1>4 DEF ApplicationStep, Application

-----------------------------------------------------------------------------
(* The steps of the fuzzer.                                                 *)

LEMMA CleanStep ==
  ASSUME FileInv, WholeInv, Clean
  PROVE  FileInv' /\ WholeInv'
<1>1. /\ UNCHANGED <<budget, count, mutex, writer, now, recorded, start, torn>> /\ pc' = "clearing"
      /\ times' = NoTimes /\ shm' = NoCopy
  BY DEF Clean, BeginClear
<1>2. NoTimes \in [1 .. SHM_LEN -> RecordUpTo(now)]
  <2>1. now \in Nat
    BY TracerAssumption DEF FileInv
  <2> QED BY <2>1, NothingYet DEF NoTimes
<1>3. FileInv'
  BY <1>1, <1>2 DEF FileInv, InSection, NoCopy
<1>4. SlotsInv(times)'
  <2>1. \A w \in Writers : writer[w].pc = "write" => writer[w].slot \in 1 .. SHM_LEN
    BY DEF FileInv, InSection
  <2> QED BY <1>1, <2>1, SlotsEmpty DEF SlotsInv
<1>5. WholeInv'
  BY <1>1, <1>4 DEF WholeInv, SectionInv, CopyInv, InSection
<1> QED BY <1>3, <1>5

\* Only if nobody is in the section and nothing was stored is the end whole.
LEMMA SpawnStep ==
  ASSUME FileInv, WholeInv, Spawn
  PROVE  FileInv' /\ WholeInv'
<1>1. /\ UNCHANGED <<budget, times, shm, writer, now, recorded, start>> /\ pc' = "spawned"
      /\ count' = 0 /\ mutex' = Free /\ torn' = ((\E w \in Writers : InSection(w)) \/ times # NoTimes)
  BY DEF Spawn, EndClear
<1>2. FileInv'
  BY <1>1 DEF FileInv, InSection
<1>3. ASSUME ~torn' PROVE SectionInv' /\ CopyInv'
  <2>1. times' = NoTimes /\ \A w \in Writers : ~InSection(w)' /\ writer'[w].pc # "write"
    BY <1>1, <1>3 DEF InSection
  <2>2. SlotsInv(times)'
    BY <2>1, SlotsEmpty DEF SlotsInv
  <2> QED BY <1>1, <2>1, <2>2 DEF SectionInv, CopyInv
<1>4. WholeInv'
  BY <1>1, <1>3 DEF WholeInv
<1> QED BY <1>2, <1>4

LEMMA TakeStartStep ==
  ASSUME FileInv, WholeInv, TakeStart
  PROVE  FileInv' /\ WholeInv'
<1>1. /\ UNCHANGED <<budget, times, count, mutex, writer, shm, torn>> /\ pc' = "running"
      /\ Tick /\ start' = now' /\ recorded' = {e \in recorded : e.time >= start'}
  BY DEF TakeStart, fileVars
<1>2. /\ now' \in 1 .. budget.clock /\ start' \in 0 .. now' /\ start' # 0
      /\ start \in Nat /\ start' \in Nat /\ start <= start'
      /\ now \in Nat /\ now' \in Nat /\ now <= now'
      /\ RecordUpTo(now) \subseteq RecordUpTo(now') /\ WriterUpTo(now) \subseteq WriterUpTo(now')
  BY <1>1, TickUp DEF FileInv
<1>3. FileInv'
  BY <1>1, <1>2 DEF FileInv, InSection
<1>4. \A e \in recorded : e.time >= start' => e \in recorded'
  BY <1>1
<1>5. \A w \in Writers : writer[w].pc # "idle" /\ writer[w].ev.time >= start' => writer[w].ev \in recorded'
  <2>1. \A w \in Writers : writer[w].ev.time \in Int
    BY DEF FileInv, RecordUpTo, WriterUpTo
  <2> QED BY <1>2, <1>4, <2>1 DEF WholeInv
<1>6. SlotsInv(times) => SlotsInv(times)'
  <2> SUFFICES ASSUME SlotsIn(times, count, writer, recorded, start, now)
               PROVE  SlotsIn(times, count, writer, recorded', start', now')
    BY <1>1 DEF SlotsInv
  <2> QED BY <1>2, <1>4, SlotsGrow
<1>7. ~torn => SectionInv'
  BY <1>1, <1>6 DEF WholeInv, SectionInv, InSection
<1>8. WholeInv'
  BY <1>1, <1>5, <1>7 DEF WholeInv, CopyInv
<1> QED BY <1>3, <1>8

\* A step that takes copies, or leaves the files and the copies alone.
LEMMA CopyStep ==
  ASSUME FileInv, WholeInv, GenTargets \/ CopyTimes \/ SortTimes \/ CopyRest \/ UpdateShm \/ GiveUp
  PROVE  FileInv' /\ WholeInv'
<1>1. /\ UNCHANGED <<budget, times, count, mutex, writer, torn, now, recorded, start>>
      /\ shm' = [times |-> shm'.times, nodes |-> shm'.nodes, cbs |-> shm'.cbs, msgs |-> shm'.msgs]
      /\ \/ pc' = "ready" /\ shm'.times \in {shm.times, Sorted(times)}
         \/ pc = "running" /\ pc' = "loading" /\ shm'.times = times
         \/ pc = "loading" /\ pc' = "copying" /\ shm'.times = Sorted(shm.times)
         \/ pc = "copying" /\ pc' = "copied" /\ shm'.times = shm.times
  <2>1. CASE GenTargets
    BY <2>1 DEF GenTargets, fileVars
  <2>2. CASE CopyTimes
    BY <2>2 DEF CopyTimes, BeginLoad, fileVars, FileInv
  <2>3. CASE SortTimes
    BY <2>3 DEF SortTimes, EndLoad, fileVars, FileInv
  <2>4. CASE CopyRest
    BY <2>4 DEF CopyRest, LoadRest, fileVars, FileInv
  <2>5. CASE UpdateShm \/ GiveUp
    BY <2>5 DEF UpdateShm, GiveUp, tracerVars, fileVars, FileInv
  <2> QED BY <2>1, <2>2, <2>3, <2>4, <2>5
<1>2. ASSUME NEW slots \in {times, shm.times}
      PROVE  /\ Sorted(slots) \in [1 .. SHM_LEN -> RecordUpTo(now)]
             /\ \A i \in 1 .. SHM_LEN : \E j \in 1 .. SHM_LEN : Sorted(slots)[i] = slots[j]
  <2>1. now \in Nat /\ slots \in [1 .. SHM_LEN -> RecordUpTo(now)]
    BY TracerAssumption DEF FileInv
  <2> QED BY <2>1, SortedFrom
<1>3. FileInv'
  <2>1. shm'.times \in [1 .. SHM_LEN -> RecordUpTo(now)]
    BY <1>1, <1>2 DEF FileInv
  <2>2. pc' \in {"running", "loading", "copying", "copied", "traced"} => start # 0
    BY <1>1 DEF FileInv
  <2> QED BY <1>1, <2>1, <2>2 DEF FileInv, InSection
<1>4. \A slots : SlotsInv(slots) <=> SlotsIn(slots, count', writer', recorded', start', now')
  BY <1>1 DEF SlotsInv
<1>5. ASSUME ~torn PROVE SectionInv' /\ CopyInv'
  <2>1. SectionInv /\ CopyInv
    BY <1>5 DEF WholeInv
  <2>2. SectionInv'
    BY <1>1, <2>1 DEF SectionInv, SlotsInv, InSection
  <2>3. pc' = "loading" => SlotsInv(shm.times)'
    BY <1>1, <1>4, <2>1 DEF SectionInv, SlotsInv
  <2>4. pc' \in {"copying", "copied", "traced"} => \A i \in 1 .. SHM_LEN : Kept(shm'.times[i])
    <3>1. CASE pc = "loading"
      <4>1. \A j \in 1 .. SHM_LEN : Kept(shm.times[j])
        BY <2>1, <3>1 DEF CopyInv, SlotsInv, SlotsIn, Kept
      <4> QED BY <1>1, <1>2, <3>1, <4>1
    <3>2. CASE pc # "loading"
      BY <1>1, <2>1, <3>2 DEF CopyInv
    <3> QED BY <3>1, <3>2
  <2>5. CopyInv'
    BY <1>1, <2>3, <2>4 DEF CopyInv, Kept
  <2> QED BY <2>2, <2>5
<1>6. WholeInv'
  BY <1>1, <1>5 DEF WholeInv
<1> QED BY <1>3, <1>6

LEMMA RebootStep ==
  ASSUME FileInv, WholeInv, Reboot
  PROVE  FileInv' /\ WholeInv'
<1>1. /\ UNCHANGED <<budget, now, recorded, start, shm>> /\ pc' = "ready"
      /\ times' = NoTimes /\ count' = 0 /\ mutex' = Free /\ torn' = FALSE
      /\ writer' = [w \in Writers |-> IdleWriter]
  BY DEF Reboot, NewInstance
<1>2. NoTimes \in [1 .. SHM_LEN -> RecordUpTo(now)] /\ IdleWriter \in WriterUpTo(now)
  <2>1. now \in Nat
    BY TracerAssumption DEF FileInv
  <2> QED BY <2>1, NothingYet DEF NoTimes
<1>3. \A w \in Writers : IdleWriter.pos \in 1 .. Len(Script[w]) /\ IdleWriter.pc = "idle"
  <2>1. \A w \in Writers : Len(Script[w]) \in Nat /\ Len(Script[w]) > 0
    BY TracerAssumption
  <2> QED BY <2>1 DEF IdleWriter
<1>4. FileInv'
  BY <1>1, <1>2, <1>3 DEF FileInv, InSection
<1>5. \A w \in Writers : writer'[w].pc = "idle"
  BY <1>1, <1>3
<1>6. SlotsInv(times)'
  BY <1>1, <1>5, SlotsEmpty DEF SlotsInv
<1>7. WholeInv'
  BY <1>1, <1>5, <1>6 DEF WholeInv, SectionInv, CopyInv, InSection
<1> QED BY <1>4, <1>7

LEMMA FileNext ==
  ASSUME FileInv, WholeInv, [Next]_vars
  PROVE  FileInv' /\ WholeInv'
<1>1. CASE UNCHANGED vars
  BY <1>1 DEF vars, tracerVars, fileVars, runVars, FileInv, WholeInv, SectionInv, CopyInv, SlotsInv, Kept, InSection
<1>2. CASE BuildTrace \/ Judge
  <2>1. UNCHANGED <<tracerVars, start>> /\ pc \in {"copied", "traced"} /\ pc' \in {"traced", "ready", "panicked"}
    BY <1>2 DEF BuildTrace, Judge
  <2>2. FileInv'
    BY <2>1 DEF tracerVars, fileVars, FileInv, InSection
  <2>3. WholeInv'
    BY <2>1 DEF tracerVars, fileVars, WholeInv, SectionInv, CopyInv, SlotsInv, Kept, InSection
  <2> QED BY <2>2, <2>3
<1> QED BY <1>1, <1>2, ApplicationSteps, CleanStep, SpawnStep, TakeStartStep, CopyStep, RebootStep DEF Next, Fuzzer

LEMMA FileInduction == Spec => [](FileInv /\ WholeInv)
<1> QED BY InitFile, FileNext, PTL DEF Spec

\* What passes the filter of a copy that is taken without the lock, word by
\* word, is one event as it was recorded or a part of it, never a mixture.
THEOREM RecordsUnmixedCorrect == Spec => []RecordsUnmixed
<1>1. FileInv /\ WholeInv => RecordsUnmixed
  <2> SUFFICES ASSUME FileInv, WholeInv, pc \in {"copying", "copied", "traced"}, ~torn,
                      NEW r \in TrimTimes(shm, start)
               PROVE  \E e \in recorded : PartOfEvent(r, e)
    BY DEF RecordsUnmixed
  <2>1. PICK i \in 1 .. SHM_LEN : r = shm.times[i]
    BY DEF TrimTimes, FileInv
  <2>2. Passes(r, start) /\ Kept(r)
    BY <2>1 DEF TrimTimes, WholeInv, CopyInv
  <2>3. r # NoTime
    BY <2>2 DEF Passes, NoTime
  <2>4. PICK e \in RecordUpTo(now) : PartOf(r, e) /\ (e.time >= start => e \in recorded)
    BY <2>2, <2>3 DEF Kept, KeptIn
  <2>5. start \in Nat \ {0} /\ e.time \in Nat
    BY <2>4, TracerAssumption DEF FileInv, RecordUpTo
  <2>6. r.cb = e.cb /\ r.flag = e.flag /\ r.time = e.time
    BY <2>2, <2>4, <2>5 DEF Passes, PartOf
  <2> QED BY <2>2, <2>4, <2>6 DEF Passes, PartOf, PartOfEvent
<1> QED BY <1>1, FileInduction, PTL

-----------------------------------------------------------------------------
(* The monitors.                                                            *)

\* The largest value of a sequence.
LEMMA GreatestExists ==
  ASSUME NEW L \in Nat \ {0}, NEW f \in [1 .. L -> Nat]
  PROVE  \E i \in 1 .. L : \A j \in 1 .. L : f[j] <= f[i]
<1> DEFINE Good == {n \in 0 .. L : n = 0 \/ \E i \in 1 .. n : \A j \in 1 .. n : f[j] <= f[i]}
<1>1. 0 \in Good
  OBVIOUS
<1>2. ASSUME NEW n \in 0 .. L - 1, n \in Good PROVE n + 1 \in Good
  <2>1. n + 1 \in 1 .. L /\ n + 1 \in 0 .. L /\ f[n + 1] \in Nat
    OBVIOUS
  <2>2. CASE n = 0
    <3>1. \A j \in 1 .. n + 1 : f[j] <= f[n + 1]
      BY <2>1, <2>2
    <3> QED BY <2>1, <3>1
  <2>3. CASE n # 0
    <3>1. PICK i \in 1 .. n : \A j \in 1 .. n : f[j] <= f[i]
      BY <1>2, <2>3
    <3>2. \A j \in 1 .. n + 1 : j \in 1 .. n \/ j = n + 1
      OBVIOUS
    <3>3. f[i] \in Nat /\ i \in 1 .. n + 1 /\ n + 1 \in 1 .. n + 1
      OBVIOUS
    <3>4. CASE f[n + 1] <= f[i]
      <4>1. \A j \in 1 .. n + 1 : f[j] <= f[i]
        BY <3>1, <3>2, <3>4
      <4> QED BY <2>1, <3>3, <4>1
    <3>5. CASE f[i] <= f[n + 1]
      <4>1. \A j \in 1 .. n : f[j] \in Nat
        OBVIOUS
      <4>2. \A j \in 1 .. n + 1 : f[j] <= f[n + 1]
        BY <2>1, <3>1, <3>2, <3>3, <3>5, <4>1
      <4> QED BY <2>1, <3>3, <4>2
    <3> QED BY <2>1, <3>3, <3>4, <3>5
  <2> QED BY <2>2, <2>3
<1>3. L \in Good
  <2>1. 0 .. L \subseteq Good
    <3> HIDE DEF Good
    <3> QED BY <1>1, <1>2, BoundedInduction
  <2>2. L \in 0 .. L
    OBVIOUS
  <2> HIDE DEF Good
  <2> QED BY <2>1, <2>2
<1> QED BY <1>3

\* Measurements: what they took, and how much it was.
Pairs == Seq(Nat \X Nat)

\* The throughputs of an edge have a least and a greatest one.
LEMMA ThroughputBounds ==
  ASSUME NEW pairs \in Pairs, Divides(pairs)
  PROVE  /\ LeastOf(Throughputs(pairs)) \in Nat /\ GreatestOf(Throughputs(pairs)) \in Nat
         /\ \A q \in Throughputs(pairs) : /\ q \in Nat /\ LeastOf(Throughputs(pairs)) <= q
                                          /\ q <= GreatestOf(Throughputs(pairs))
<1> DEFINE L == Len(pairs)
           T == Throughputs(pairs)
           f == [i \in 1 .. L |-> pairs[i][2] \div pairs[i][1]]
<1>1. L \in Nat \ {0} /\ DOMAIN pairs = 1 .. L
  BY DEF Divides, Pairs
<1>2. \A i \in 1 .. L : pairs[i][2] \in Nat /\ pairs[i][1] \in Nat \ {0}
  <2>1. \A i \in 1 .. L : pairs[i] \in Nat \X Nat /\ pairs[i] \in Range(pairs)
    <3>1. \A i \in 1 .. L : pairs[i] \in Nat \X Nat
      <4> DEFINE S == Nat \X Nat
      <4>1. pairs \in Seq(S)
        BY DEF Pairs
      <4> HIDE DEF S
      <4>2. \A i \in 1 .. Len(pairs) : pairs[i] \in S
        BY <4>1
      <4> QED BY <4>2 DEF S
    <3>2. \A i \in 1 .. L : pairs[i] \in Range(pairs)
      BY <1>1 DEF Range
    <3> QED BY <3>1, <3>2
  <2> QED BY <2>1 DEF Divides
<1>3. f \in [1 .. L -> Nat]
  <2>1. \A a \in Nat, b \in Nat \ {0} : a \div b \in Nat
    OBVIOUS
  <2>2. \A i \in 1 .. L : pairs[i][2] \div pairs[i][1] \in Nat
    BY <1>2, <2>1
  <2> QED BY <2>2
<1>4. T = {f[i] : i \in 1 .. L}
  BY <1>1 DEF Throughputs, Range
<1> HIDE DEF f, L, T
<1>5. T \subseteq Nat /\ T # {}
  <2>1. 1 \in 1 .. L
    BY <1>1
  <2> QED BY <1>3, <1>4, <2>1
<1>6. \E x \in T : \A y \in T : x <= y
  BY <1>5, SmallestOf
<1>7. \E x \in T : \A y \in T : x >= y
  <2>1. PICK i \in 1 .. L : \A j \in 1 .. L : f[j] <= f[i]
    BY <1>1, <1>3, GreatestExists
  <2>2. f[i] \in T /\ \A y \in T : f[i] >= y
    BY <1>3, <1>4, <2>1
  <2> QED BY <2>2
<1>8. LeastOf(T) \in T /\ \A y \in T : LeastOf(T) <= y
  BY <1>6 DEF LeastOf
<1>9. GreatestOf(T) \in T /\ \A y \in T : GreatestOf(T) >= y
  BY <1>7 DEF GreatestOf
<1> QED BY <1>5, <1>8, <1>9 DEF T

\* What is kept of an edge.
IsEntry(e) == DOMAIN e = {"first", "min", "max", "seen"} /\ e.min \in Int /\ e.max \in Int

LEMMA JudgedFacts ==
  ASSUME NEW e, IsEntry(e), NEW pairs \in Pairs, Divides(pairs)
  PROVE  /\ IsEntry(Judged(e, pairs)) /\ Judged(e, pairs).min <= e.min /\ e.max <= Judged(e, pairs).max
         /\ Judged(e, pairs) = e => \A q \in Throughputs(pairs) : e.min <= q /\ q <= e.max
<1> DEFINE lo == LeastOf(Throughputs(pairs))
           hi == GreatestOf(Throughputs(pairs))
<1>1. /\ lo \in Nat /\ hi \in Nat
      /\ \A q \in Throughputs(pairs) : q \in Nat /\ lo <= q /\ q <= hi
  BY ThroughputBounds
<1>2. Judged(e, pairs) = CASE lo < e.min -> [e EXCEPT !.min = lo, !.seen = @ (+) PairBag(pairs)]
                           [] lo >= e.min /\ hi > e.max -> [e EXCEPT !.max = hi, !.seen = @ (+) PairBag(pairs)]
                           [] OTHER -> e
  BY DEF Judged
<1> HIDE DEF lo, hi
<1>3. CASE lo < e.min
  <2>1. Judged(e, pairs) = [e EXCEPT !.min = lo, !.seen = e.seen (+) PairBag(pairs)]
    BY <1>1, <1>2, <1>3 DEF IsEntry
  <2>2. Judged(e, pairs).min = lo /\ Judged(e, pairs).max = e.max /\ DOMAIN Judged(e, pairs) = DOMAIN e
    BY <2>1 DEF IsEntry
  <2> QED BY <1>1, <1>3, <2>2 DEF IsEntry
<1>4. CASE ~(lo < e.min) /\ hi > e.max
  <2>1. Judged(e, pairs) = [e EXCEPT !.max = hi, !.seen = e.seen (+) PairBag(pairs)]
    BY <1>1, <1>2, <1>4 DEF IsEntry
  <2>2. Judged(e, pairs).min = e.min /\ Judged(e, pairs).max = hi /\ DOMAIN Judged(e, pairs) = DOMAIN e
    BY <2>1 DEF IsEntry
  <2> QED BY <1>1, <1>4, <2>2 DEF IsEntry
<1>5. CASE ~(lo < e.min) /\ ~(hi > e.max)
  <2>1. Judged(e, pairs) = e
    BY <1>1, <1>2, <1>5
  <2> QED BY <1>1, <1>5, <2>1 DEF IsEntry
<1> QED BY <1>3, <1>4, <1>5

\* The measurements of a program: finitely many edges, none without any.
Traced(current) ==
  /\ IsFiniteSet(DOMAIN current)
  /\ \A id \in DOMAIN current : current[id].pairs \in Pairs /\ current[id].pairs # << >>
Extremes(global) == \A id \in DOMAIN global : IsEntry(global[id])

\* An order of a finite set has all of it.
LEMMA OrderCovers ==
  ASSUME NEW S, IsFiniteSet(S), NEW order \in SetToSeqs(S)
  PROVE  /\ DOMAIN order = 1 .. Cardinality(S) /\ Cardinality(S) \in Nat
         /\ \A i \in DOMAIN order : order[i] \in S
         /\ \A x \in S : \E i \in DOMAIN order : order[i] = x
<1> DEFINE n == Cardinality(S)
<1>1. n \in Nat
  BY FS_CardinalityType
<1>2. order \in [1 .. n -> S] /\ \A i, j \in 1 .. n : i # j => order[i] # order[j]
  BY DEF SetToSeqs
<1>3. IsFiniteSet(1 .. n) /\ Cardinality(1 .. n) = n
  <2>1. 1 \in Int /\ n \in Int
    BY <1>1
  <2> HIDE DEF n
  <2>2. IsFiniteSet(1 .. n) /\ Cardinality(1 .. n) = IF 1 > n THEN 0 ELSE n - 1 + 1
    BY <2>1, FS_Interval
  <2> QED BY <1>1, <2>2
<1>4. order \in Injection(1 .. n, S)
  BY <1>2 DEF Injection, IsInjective
<1>5. order \in Surjection(1 .. n, S)
  BY <1>3, <1>4, FS_Injection
<1> QED BY <1>1, <1>2, <1>5 DEF Surjection

LEMMA MonitorFacts ==
  ASSUME NEW global, Extremes(global), NEW current, Traced(current), NEW order \in SetToSeqs(DOMAIN current),
         NEW R, R = MonitorEdges(global, current, order)
  PROVE  /\ Extremes(R.global) /\ Widens(global, R.global)
         /\ ~R.found /\ ~R.panicked => Bounded(R.global, current)
         /\ R.panicked => \E id \in DOMAIN current : \E p \in Range(current[id].pairs) : p[1] = 0
         /\ R.found \in BOOLEAN
<1> DEFINE P(id) == current[id].pairs
           E(id) == Entry(global, id, P(id))
           visited == {order[i] : i \in {k \in DOMAIN order : \A j \in 1 .. k - 1 : ~Stops(global, order[j], P(order[j]))}}
           last == {id \in visited : Stops(global, id, P(id))}
<1>1. /\ R.global = [id \in DOMAIN global \cup visited |->
                       IF id \in last /\ Divides(P(id)) THEN Judged(E(id), P(id)) ELSE E(id)]
      /\ R.found = \E id \in last : Divides(P(id))
      /\ R.panicked = \E id \in last : ~Divides(P(id))
  BY DEF MonitorEdges
<1>2. /\ \A i \in DOMAIN order : order[i] \in DOMAIN current
      /\ \A x \in DOMAIN current : \E i \in DOMAIN order : order[i] = x
      /\ \E n \in Nat : DOMAIN order = 1 .. n
  BY OrderCovers DEF Traced
<1>3. visited \subseteq DOMAIN current /\ last \subseteq visited
  BY <1>2
<1>4. \A id \in DOMAIN current : P(id) \in Pairs /\ P(id) # << >>
  BY DEF Traced
<1>5. \A id : IsEntry(E(id))
  <2>1. \A pairs : IsEntry(NewExtremes(pairs))
    BY GraphAssumption DEF NewExtremes, IsEntry
  <2> QED BY <2>1 DEF Entry, Extremes
<1>6. \A id \in visited : Divides(P(id)) => /\ IsEntry(Judged(E(id), P(id)))
                                            /\ Judged(E(id), P(id)).min <= E(id).min
                                            /\ E(id).max <= Judged(E(id), P(id)).max
  BY <1>3, <1>4, <1>5, JudgedFacts
<1>7. Extremes(R.global)
  <2> HIDE DEF visited, last, P, E
  <2> QED BY <1>1, <1>3, <1>5, <1>6 DEF Extremes
<1>8. Widens(global, R.global)
  <2>1. \A id \in DOMAIN global : E(id) = global[id] /\ IsEntry(E(id))
    BY <1>5 DEF Entry
  <2>2. \A id \in DOMAIN global : E(id).min <= E(id).min /\ E(id).max <= E(id).max
    BY <1>5 DEF IsEntry
  <2> HIDE DEF visited, last, P, E
  <2> QED BY <1>1, <1>3, <1>6, <2>1, <2>2 DEF Widens
<1>9. ASSUME ~R.found, ~R.panicked PROVE Bounded(R.global, current)
  <2>1. last = {}
    BY <1>1, <1>9
  <2>2. \A i \in DOMAIN order : ~Stops(global, order[i], P(order[i]))
    <3> DEFINE T == {i \in DOMAIN order : Stops(global, order[i], P(order[i]))}
    <3> SUFFICES ASSUME T # {} PROVE FALSE
      OBVIOUS
    <3>1. T \subseteq Nat
      BY <1>2
    <3>2. PICK k \in T : \A m \in T : k <= m
      <4> HIDE DEF T
      <4> QED BY <3>1, SmallestOf
    <3>3. ASSUME NEW j \in 1 .. k - 1 PROVE ~Stops(global, order[j], P(order[j]))
      <4>1. j \in DOMAIN order /\ ~(k <= j)
        BY <1>2, <3>2
      <4> QED BY <3>2, <4>1
    <3>4. order[k] \in last
      BY <3>2, <3>3
    <3> QED BY <2>1, <3>4
  <2>3. \A id \in DOMAIN current : id \in visited /\ ~Stops(global, id, P(id))
    <3>1. \A i \in DOMAIN order : order[i] \in visited
      <4> SUFFICES ASSUME NEW i \in DOMAIN order
                   PROVE  \A j \in 1 .. i - 1 : ~Stops(global, order[j], P(order[j]))
        OBVIOUS
      <4>1. \A j \in 1 .. i - 1 : j \in DOMAIN order
        BY <1>2
      <4> QED BY <2>2, <4>1
    <3> QED BY <1>2, <2>2, <3>1
  <2>4. ASSUME NEW id \in DOMAIN current
        PROVE  /\ id \in DOMAIN R.global
               /\ \A q \in Throughputs(P(id)) : R.global[id].min <= q /\ q <= R.global[id].max
    <3>1. Divides(P(id)) /\ Judged(E(id), P(id)) = E(id)
      BY <2>3 DEF Stops
    <3>2. \A q \in Throughputs(P(id)) : E(id).min <= q /\ q <= E(id).max
      BY <1>4, <1>5, <3>1, JudgedFacts
    <3>3. id \in DOMAIN R.global /\ R.global[id] = E(id)
      BY <1>1, <2>1, <2>3
    <3> QED BY <3>2, <3>3
  <2> QED BY <2>4 DEF Bounded
<1>10. ASSUME R.panicked PROVE \E id \in DOMAIN current : \E p \in Range(current[id].pairs) : p[1] = 0
  <2>1. PICK id \in last : ~Divides(P(id))
    BY <1>1, <1>10
  <2> QED BY <1>3, <1>4, <2>1 DEF Divides
<1>11. R.found \in BOOLEAN
  BY <1>1
<1> QED BY <1>7, <1>8, <1>9, <1>10, <1>11

-----------------------------------------------------------------------------
(* The other files.                                                         *)

\* What instances up to k register, and messages up to a time.
NodeUpTo(k) == {r \in [name : Name, handle : Nat, pid : Nat] : r.handle # 0 => r.pid \in 1 .. k}
CallbackUpTo(k) == [cb_name : Name, cb_type : Nat, rcl_handle : Nat, handles : SUBSET Nat,
                    rmw_handle : Nat, node_handle : Nat, pid : 1 .. k]
MsgUpTo(t) == {m \in [callback : Nat, subscription : Nat, size : Nat, send_time : 0 .. t, recv_time : 0 .. t] :
                 m.recv_time = 0 \/ m.recv_time >= m.send_time}

RegInv ==
  /\ instance \in 1 .. budget.instances
  /\ nodesFile \in Seq(NodeUpTo(instance)) /\ cbsFile \in Seq(CallbackUpTo(instance))
  /\ msgFile \in Seq(MsgUpTo(now))
  /\ shm.nodes \in Seq(NodeUpTo(instance)) /\ shm.cbs \in Seq(CallbackUpTo(instance))
  /\ shm.msgs \in Seq(MsgUpTo(now))

LEMMA SeqGrows ==
  ASSUME NEW S, NEW T, S \subseteq T, NEW s \in Seq(S)
  PROVE  s \in Seq(T)
OBVIOUS

LEMMA SubSeqIn ==
  ASSUME NEW S, NEW s \in Seq(S), NEW n \in 0 .. Len(s)
  PROVE  SubSeq(s, 1, n) \in Seq(S)
OBVIOUS

LEMMA RegsGrow ==
  ASSUME NEW k \in Nat, NEW l \in Nat, k <= l
  PROVE  /\ NodeUpTo(k) \subseteq NodeUpTo(l) /\ CallbackUpTo(k) \subseteq CallbackUpTo(l)
         /\ MsgUpTo(k) \subseteq MsgUpTo(l)
<1>1. 1 .. k \subseteq 1 .. l /\ 0 .. k \subseteq 0 .. l
  OBVIOUS
<1>2. NodeUpTo(k) \subseteq NodeUpTo(l)
  BY <1>1 DEF NodeUpTo
<1>3. CallbackUpTo(k) \subseteq CallbackUpTo(l)
  BY <1>1 DEF CallbackUpTo
<1>4. MsgUpTo(k) \subseteq MsgUpTo(l)
  BY <1>1 DEF MsgUpTo
<1> QED BY <1>2, <1>3, <1>4

\* What an instance registers when it boots.
LEMMA BootFiles ==
  ASSUME budget \in Budgets, NEW p \in 1 .. budget.instances
  PROVE  /\ NodeRegs[p] \in Seq(NodeUpTo(p)) /\ CallbackRegs[p] \in Seq(CallbackUpTo(p))
         /\ BootRegs(p) \in Seq(CallbackUpTo(p))
<1>1. /\ NodeRegs[p] \in Seq(NodeReg(p)) /\ CallbackRegs[p] \in Seq(CallbackReg(p))
      /\ AtBoot[p] \in 0 .. Len(CallbackRegs[p]) /\ p \in Nat \ {0}
  BY TracerAssumption
<1>2. NodeReg(p) \subseteq NodeUpTo(p)
  BY <1>1 DEF NodeReg, NodeUpTo
<1>3. CallbackReg(p) \subseteq CallbackUpTo(p)
  BY <1>1 DEF CallbackReg, CallbackUpTo
<1>4. NodeRegs[p] \in Seq(NodeUpTo(p)) /\ CallbackRegs[p] \in Seq(CallbackUpTo(p))
  BY <1>1, <1>2, <1>3, SeqGrows
<1> QED BY <1>1, <1>4, SubSeqIn DEF BootRegs

LEMMA InitReg == Init => RegInv
<1> SUFFICES ASSUME Init PROVE RegInv
  OBVIOUS
<1>1. budget \in Budgets /\ instance = 1 /\ instance \in 1 .. budget.instances
  BY TracerAssumption DEF Init, TracerInit
<1>2. nodesFile \in Seq(NodeUpTo(instance)) /\ cbsFile \in Seq(CallbackUpTo(instance))
  BY <1>1, BootFiles DEF Init, TracerInit
<1> QED BY <1>1, <1>2 DEF RegInv, Init, TracerInit, NoCopy

\* Messages get their times.
LEMMA MsgSteps ==
  ASSUME FileInv, RegInv, (\E k \in MsgKinds : SendMsg(k)) \/ (\E i \in 1 .. Len(msgFile) : RecvMsg(i))
  PROVE  msgFile' \in Seq(MsgUpTo(now')) /\ shm'.msgs \in Seq(MsgUpTo(now')) /\ now' \in Nat
<1>1. Tick /\ shm' = shm
  BY DEF SendMsg, RecvMsg
<1>2. now' \in Nat /\ now \in Nat /\ now <= now'
  BY <1>1, TickUp
<1>3. msgFile \in Seq(MsgUpTo(now')) /\ shm.msgs \in Seq(MsgUpTo(now'))
  BY <1>2, RegsGrow, SeqGrows DEF RegInv
<1>4. ASSUME NEW k \in MsgKinds, SendMsg(k) PROVE msgFile' \in Seq(MsgUpTo(now'))
  <2> DEFINE m == [callback |-> k.callback, subscription |-> k.subscription,
                   size |-> k.size, send_time |-> now', recv_time |-> 0]
  <2>1. msgFile' = Append(msgFile, m)
    BY <1>4 DEF SendMsg
  <2>2. m \in MsgUpTo(now')
    <3>1. k \in [callback : Nat, subscription : Nat, size : Nat]
      BY TracerAssumption
    <3> QED BY <1>2, <3>1 DEF MsgUpTo
  <2> HIDE DEF m
  <2> QED BY <1>3, <2>1, <2>2
<1>5. ASSUME NEW i \in 1 .. Len(msgFile), RecvMsg(i) PROVE msgFile' \in Seq(MsgUpTo(now'))
  <2>1. msgFile' = [msgFile EXCEPT ![i] = [msgFile[i] EXCEPT !.recv_time = now']]
    BY <1>5 DEF RecvMsg
  <2>2. [msgFile[i] EXCEPT !.recv_time = now'] \in MsgUpTo(now')
    <3>1. msgFile[i] \in MsgUpTo(now)
      <4> HIDE DEF MsgUpTo
      <4> QED BY <1>5 DEF RegInv
    <3>2. msgFile[i].send_time \in 0 .. now
      BY <3>1 DEF MsgUpTo
    <3> QED BY <1>2, <3>1, <3>2 DEF MsgUpTo
  <2> QED BY <1>3, <1>5, <2>1, <2>2
<1> QED BY <1>1, <1>2, <1>3, <1>4, <1>5

LEMMA BudgetStays == [Next]_vars => budget' = budget
<1> SUFFICES ASSUME [Next]_vars PROVE budget' = budget
  OBVIOUS
<1>1. CASE GenTargets \/ Clean \/ Spawn \/ TakeStart \/ Reboot
  BY <1>1 DEF GenTargets, Clean, BeginClear, Spawn, EndClear, TakeStart, Reboot, NewInstance
<1>2. CASE CopyTimes \/ SortTimes \/ CopyRest \/ UpdateShm \/ GiveUp \/ BuildTrace \/ Judge \/ UNCHANGED vars
  BY <1>2 DEF CopyTimes, SortTimes, CopyRest, UpdateShm, GiveUp, BuildTrace, Judge, vars, tracerVars
<1>3. CASE ApplicationStep
  BY <1>3 DEF ApplicationStep, Application, Stamp, Lock, WriteWords, Count, Unlock, SendMsg, RecvMsg, Register
<1> QED BY <1>1, <1>2, <1>3 DEF Next, Fuzzer

LEMMA RegNext ==
  ASSUME FileInv, RegInv, [Next]_vars
  PROVE  RegInv'
<1> USE DEF RegInv
<1>1. now \in Nat /\ budget' = budget /\ instance \in Nat
  BY BudgetStays, TracerAssumption DEF FileInv
<1>2. CASE UNCHANGED vars \/ UpdateShm \/ GiveUp \/ BuildTrace \/ Judge
  BY <1>2 DEF vars, UpdateShm, GiveUp, BuildTrace, Judge, tracerVars, fileVars
<1>3. CASE GenTargets
  BY <1>3 DEF GenTargets, fileVars
<1>4. CASE Clean
  BY <1>4 DEF Clean, BeginClear, NoCopy
<1>10. CASE Spawn
  BY <1>10 DEF Spawn, EndClear
<1>5. ASSUME Tick, UNCHANGED <<budget, instance, nodesFile, cbsFile, msgFile, shm>> PROVE RegInv'
  <2>1. now' \in Nat /\ now <= now'
    BY <1>5, TickUp
  <2> QED BY <1>1, <1>5, <2>1, RegsGrow, SeqGrows
<1>6. CASE TakeStart
  BY <1>5, <1>6 DEF TakeStart, fileVars
<1>7. CASE CopyTimes \/ SortTimes \/ CopyRest
  <2>1. shm = [times |-> shm.times, nodes |-> shm.nodes, cbs |-> shm.cbs, msgs |-> shm.msgs]
    BY DEF FileInv
  <2> QED BY <1>7, <2>1 DEF CopyTimes, BeginLoad, SortTimes, EndLoad, CopyRest, LoadRest, fileVars
<1>8. CASE Reboot
  <2>1. /\ instance' = instance + 1 /\ instance' \in 1 .. budget.instances
        /\ nodesFile' = NodeRegs[instance'] /\ cbsFile' = BootRegs(instance') /\ msgFile' = << >>
        /\ now' = now /\ shm' = shm /\ instance' \in Nat
    <3>1. instance' = instance + 1 /\ instance < budget.instances
      BY <1>8 DEF Reboot, NewInstance
    <3>2. budget.instances \in Nat
      BY TracerAssumption DEF FileInv
    <3>3. instance' \in 1 .. budget.instances /\ instance' \in Nat
      BY <1>1, <3>1, <3>2
    <3> QED BY <1>8, <3>1, <3>3 DEF Reboot, NewInstance
  <2>2. nodesFile' \in Seq(NodeUpTo(instance')) /\ cbsFile' \in Seq(CallbackUpTo(instance'))
    BY <2>1, BootFiles DEF FileInv
  <2>3. shm.nodes \in Seq(NodeUpTo(instance')) /\ shm.cbs \in Seq(CallbackUpTo(instance'))
    <3>1. NodeUpTo(instance) \subseteq NodeUpTo(instance') /\ CallbackUpTo(instance) \subseteq CallbackUpTo(instance')
      BY <1>1, <2>1, RegsGrow
    <3> QED BY <3>1, SeqGrows
  <2> QED BY <1>1, <2>1, <2>2, <2>3
<1>9. CASE ApplicationStep
  <2>1. CASE \E w \in budget.writers : Stamp(w)
    BY <1>5, <2>1 DEF Stamp, fileVars
  <2>2. CASE \E w \in budget.writers : Lock(w) \/ Count(w) \/ Unlock(w)
    BY <2>2 DEF Lock, Count, Unlock
  <2>5. CASE \E w \in budget.writers : \E F \in budget.stores : WriteWords(w, F)
    <3>1. shm = [times |-> shm.times, nodes |-> shm.nodes, cbs |-> shm.cbs, msgs |-> shm.msgs]
      BY DEF FileInv
    <3>2. /\ UNCHANGED <<budget, instance, nodesFile, cbsFile, msgFile, now>>
          /\ shm'.nodes = shm.nodes /\ shm'.cbs = shm.cbs /\ shm'.msgs = shm.msgs
      BY <2>5, <3>1 DEF WriteWords
    <3> QED BY <3>2
  <2>3. CASE (\E k \in MsgKinds : SendMsg(k)) \/ (\E i \in 1 .. Len(msgFile) : RecvMsg(i))
    BY <2>3, MsgSteps DEF SendMsg, RecvMsg
  <2>4. CASE Register
    <3>1. UNCHANGED <<budget, instance, nodesFile, msgFile, shm, now>>
      BY <2>4 DEF Register
    <3>2. cbsFile' = Append(cbsFile, CallbackRegs[instance][Len(cbsFile) + 1]) /\ Len(cbsFile) < Len(CallbackRegs[instance])
      BY <2>4 DEF Register
    <3>3. CallbackRegs[instance][Len(cbsFile) + 1] \in CallbackUpTo(instance)
      <4>1. CallbackRegs[instance] \in Seq(CallbackUpTo(instance))
        BY BootFiles DEF FileInv
      <4> HIDE DEF CallbackUpTo
      <4> QED BY <3>2, <4>1
    <3> QED BY <3>1, <3>2, <3>3
  <2> QED BY <1>9, <2>1, <2>2, <2>3, <2>4, <2>5 DEF ApplicationStep, Application
<1> QED BY <1>2, <1>3, <1>4, <1>6, <1>7, <1>8, <1>9, <1>10 DEF Next, Fuzzer

-----------------------------------------------------------------------------
(* How far the count can go: after a clearing that hit writers, each of      *)
(* them still counts one record.                                            *)

Section == {w \in Writers : writer[w].pc = "write"}
CountInv == count + Cardinality(Section) <= SHM_LEN + Cardinality(Writers)

LEMMA SectionSize ==
  /\ IsFiniteSet(Section) /\ Cardinality(Section) \in Nat /\ Cardinality(Writers) \in Nat
  /\ Cardinality(Section) <= Cardinality(Writers)
<1>1. IsFiniteSet(Writers) /\ Section \subseteq Writers
  BY TracerAssumption DEF Section
<1>2. IsFiniteSet(Section) /\ Cardinality(Section) <= Cardinality(Writers)
  BY <1>1, FS_Subset
<1> QED BY <1>1, <1>2, FS_CardinalityType

LEMMA CountNext ==
  ASSUME FileInv, FileInv', CountInv, [Next]_vars
  PROVE  CountInv'
<1>1. /\ IsFiniteSet(Section) /\ Cardinality(Section) \in Nat /\ Cardinality(Writers) \in Nat
      /\ Cardinality(Section) <= Cardinality(Writers)
      /\ Cardinality(Section') \in Nat /\ Cardinality(Section') <= Cardinality(Writers)
      /\ count \in Nat /\ SHM_LEN \in Nat
  <2>1. Cardinality(Section') \in Nat /\ Cardinality(Section') <= Cardinality(Writers)
    <3>1. IsFiniteSet(Writers) /\ Section' \subseteq Writers
      BY TracerAssumption DEF Section
    <3>2. IsFiniteSet(Section') /\ Cardinality(Section') <= Cardinality(Writers)
      BY <3>1, FS_Subset
    <3> QED BY <3>2, FS_CardinalityType
  <2> QED BY <2>1, SectionSize, TracerAssumption DEF FileInv
<1>2. ASSUME count' = 0 PROVE CountInv'
  BY <1>1, <1>2 DEF CountInv
<1>3. ASSUME UNCHANGED count, Section' = Section PROVE CountInv'
  BY <1>3 DEF CountInv
<1>4. CASE Spawn \/ Reboot
  BY <1>2, <1>4 DEF Spawn, EndClear, Reboot, NewInstance
<1>5. ASSUME UNCHANGED <<count, writer>> PROVE CountInv'
  BY <1>3, <1>5 DEF Section
<1>6. CASE GenTargets \/ Clean \/ TakeStart \/ CopyTimes \/ SortTimes \/ CopyRest \/ UpdateShm \/ GiveUp
             \/ BuildTrace \/ Judge \/ UNCHANGED vars
  BY <1>5, <1>6 DEF GenTargets, Clean, BeginClear, TakeStart, CopyTimes, SortTimes, CopyRest, UpdateShm, GiveUp,
                    BuildTrace, Judge, vars, tracerVars, fileVars
<1>7. CASE ApplicationStep
  <2>1. CASE (\E k \in MsgKinds : SendMsg(k)) \/ (\E i \in 1 .. Len(msgFile) : RecvMsg(i)) \/ Register
    BY <1>5, <2>1 DEF SendMsg, RecvMsg, Register
  <2>2. ASSUME NEW w \in Writers, Stamp(w) \/ Unlock(w) \/ (\E F \in budget.stores : WriteWords(w, F))
        PROVE  CountInv'
    <3>1. writer \in [Writers -> WriterUpTo(now)] /\ UNCHANGED count
      BY <2>2 DEF FileInv, Stamp, Unlock, WriteWords, fileVars
    <3>2. /\ writer'[w].pc = "write" <=> writer[w].pc = "write"
          /\ \A v \in Writers \ {w} : writer'[v] = writer[v]
      BY <2>2, <3>1 DEF Stamp, Unlock, WriteWords, IdleWriter, WriterUpTo
    <3> QED BY <1>3, <3>1, <3>2 DEF Section
  <2>3. ASSUME NEW w \in Writers, Lock(w) PROVE CountInv'
    <3>1. count' = count /\ count < SHM_LEN
      BY <2>3 DEF Lock
    <3> QED BY <1>1, <3>1 DEF CountInv
  <2>4. ASSUME NEW w \in Writers, Count(w) PROVE CountInv'
    <3>1. count' \in {count + 1, writer[w].slot} /\ w \in Section /\ writer[w].slot \in 1 .. SHM_LEN
      BY <2>4 DEF Count, Section, FileInv, InSection
    <3>2. Section' = Section \ {w}
      <4>1. writer \in [Writers -> WriterUpTo(now)]
        BY DEF FileInv
      <4>2. writer'[w].pc = "unlock" /\ \A v \in Writers \ {w} : writer'[v] = writer[v]
        BY <2>4, <4>1 DEF Count, WriterUpTo
      <4> QED BY <4>2 DEF Section
    <3>3. Cardinality(Section') = Cardinality(Section) - 1
      BY <1>1, <3>1, <3>2, FS_RemoveElement
    <3>4. CASE count' = count + 1
      BY <1>1, <3>3, <3>4 DEF CountInv
    <3>5. CASE count' = writer[w].slot
      BY <1>1, <3>1, <3>5 DEF CountInv
    <3> QED BY <3>1, <3>4, <3>5
  <2>5. budget.writers \subseteq Writers
    BY TracerAssumption DEF FileInv
  <2> QED BY <1>7, <2>1, <2>2, <2>3, <2>4, <2>5 DEF ApplicationStep, Application
<1> QED BY <1>4, <1>6, <1>7 DEF Next, Fuzzer

LEMMA InitCount == Init => CountInv
<1> SUFFICES ASSUME Init PROVE CountInv
  OBVIOUS
<1>1. count = 0
  BY DEF Init, TracerInit
<1> QED BY <1>1, SectionSize, TracerAssumption DEF CountInv

-----------------------------------------------------------------------------
(* The graph of nodes and callbacks.                                        *)

\* Maps with some keys, as a HashMap has them.
Maps(K, V) == UNION {[D -> V] : D \in SUBSET K}

LEMMA MapFacts ==
  ASSUME NEW K, NEW V, NEW m \in Maps(K, V)
  PROVE  DOMAIN m \subseteq K /\ m \in [DOMAIN m -> V] /\ \A x \in DOMAIN m : m[x] \in V
BY DEF Maps

LEMMA PutFacts ==
  ASSUME NEW K, NEW V, NEW m \in Maps(K, V), NEW k \in K, NEW v \in V
  PROVE  /\ Put(m, k, v) \in Maps(K, V) /\ DOMAIN Put(m, k, v) = DOMAIN m \cup {k}
         /\ Put(m, k, v)[k] = v /\ \A x \in DOMAIN m \ {k} : Put(m, k, v)[x] = m[x]
<1>1. DOMAIN m \subseteq K /\ m \in [DOMAIN m -> V]
  BY MapFacts
<1>2. Put(m, k, v) \in [DOMAIN m \cup {k} -> V] /\ DOMAIN m \cup {k} \in SUBSET K
  BY <1>1 DEF Put
<1>3. Put(m, k, v) \in Maps(K, V)
  BY <1>2 DEF Maps
<1> QED BY <1>3 DEF Put

NodeInfo(k) == [handle : Nat, pid : 1 .. k]

LEMMA NodesFold ==
  ASSUME NEW k \in Nat, nodes \in Maps(Name, NodeInfo(k)), NEW copy, copy.nodes \in Seq(NodeUpTo(k))
  PROVE  UpdatedNodes(copy) \in Maps(Name, NodeInfo(k))
<1> DEFINE seq == copy.nodes
           L == Len(seq)
           S == Maps(Name, NodeInfo(k))
           rel == [p \in S \X (1 .. L) |-> UpdateNode(p[1], seq[p[2]])]
           Iter(g) == g = [s \in SUBSET (1 .. L) |->
             IF s = {} THEN nodes ELSE LET x == Max(s) IN UpdateNode(g[s \ {x}], seq[x])]
<1>1. L \in Nat /\ DOMAIN seq = 1 .. L
  OBVIOUS
<1>2. ASSUME NEW m \in S, NEW i \in 1 .. L PROVE UpdateNode(m, seq[i]) \in S
  <2>1. seq[i] \in NodeUpTo(k)
    <3> HIDE DEF NodeUpTo
    <3> QED BY <1>1
  <2>2. seq[i].name \in Name /\ (seq[i].handle # 0 => [handle |-> seq[i].handle, pid |-> seq[i].pid] \in NodeInfo(k))
    BY <2>1 DEF NodeUpTo, NodeInfo
  <2> HIDE DEF seq
  <2> QED BY <2>2, PutFacts DEF UpdateNode
<1> HIDE DEF S
<1>3. rel \in [S \X (1 .. L) -> S]
  <2> HIDE DEF seq, L
  <2> QED BY <1>2
<1>4. \E g : Iter(g)
  <2>1. PICK g \in [SUBSET (1 .. L) -> S] : Iterates(g, nodes, L, rel)
    <3>1. nodes \in S
      BY DEF S
    <3> HIDE DEF rel, L
    <3> QED BY <1>1, <1>3, <3>1, IteratesExists
  <2>2. ASSUME NEW s \in SUBSET (1 .. L), s # {}
        PROVE  rel[<<g[s \ {Max(s)}], Max(s)>>] = UpdateNode(g[s \ {Max(s)}], seq[Max(s)])
    <3>1. Max(s) \in 1 .. L
      <4> HIDE DEF L
      <4> QED BY <1>1, <2>2, MaxIn
    <3>2. g[s \ {Max(s)}] \in S
      OBVIOUS
    <3> HIDE DEF L
    <3> QED BY <3>1, <3>2
  <2>3. Iter(g)
    <3> HIDE DEF rel, L, seq
    <3> QED BY <2>1, <2>2 DEF Iterates
  <2> QED BY <2>3
<1>5. PICK h : Iter(h) /\ UpdatedNodes(copy) = h[1 .. L]
  <2>1. \E h : Iter(h) /\ UpdatedNodes(copy) = h[1 .. L]
    <3> HIDE DEF rel
    <3> QED BY <1>1, <1>4 DEF UpdatedNodes, FoldLeft, MapThenFoldSet
  <2> QED BY <2>1
<1>6. h[1 .. L] \in S
  <2>1. h[{}] \in S
    BY <1>5 DEF S
  <2>2. \A s \in SUBSET (1 .. L) : s # {} /\ h[s \ {Max(s)}] \in S => h[s] \in S
    <3> SUFFICES ASSUME NEW s \in SUBSET (1 .. L), s # {}, h[s \ {Max(s)}] \in S PROVE h[s] \in S
      OBVIOUS
    <3>1. h[s] = UpdateNode(h[s \ {Max(s)}], seq[Max(s)])
      BY <1>5
    <3>2. Max(s) \in 1 .. L
      <4> HIDE DEF L
      <4> QED BY <1>1, MaxIn
    <3> QED BY <1>2, <3>1, <3>2
  <2> HIDE DEF L
  <2> QED BY <1>1, <2>1, <2>2, StaysIn
<1> QED BY <1>5, <1>6 DEF S

\* Callbacks, by the hash of three names.
Owner == Name \cup {"", "ros2cli"}
Ids == Owner \X Name \X Nat
CbInfo(k) == [node_name : Owner, handles : SUBSET Nat, rmw_handle : Nat, pid : 1 .. k, node_handle : Nat,
              invoke_time : Seq(Nat), start_time : Seq(Nat), end_time : Seq(Nat)]

LEMMA NamingNames ==
  ASSUME NEW V, nodes \in Maps(Name, V), NEW copy, UpdatedNodes(copy) \in Maps(Name, V),
         NEW naming \in Namings(copy), NEW i \in 1 .. Len(copy.cbs)
  PROVE  naming[copy.cbs[i].node_handle] \in Owner
<1> DEFINE g == UpdatedNodes(copy)
           h == copy.cbs[i].node_handle
<1>1. naming[h] \in NodeNames(g, h)
  BY DEF Namings
<1>2. DOMAIN g \subseteq Name
  BY MapFacts
<1> QED BY <1>1, <1>2 DEF NodeNames, Owner

LEMMA ResetFacts ==
  ASSUME NEW k \in Nat, NEW g \in Maps(Ids, CbInfo(k)), NEW cb \in CallbackUpTo(k), NEW name \in Owner
  PROVE  ResetCbVal(g, name, cb) \in Maps(Ids, CbInfo(k)) /\ DOMAIN g \subseteq DOMAIN ResetCbVal(g, name, cb)
<1> DEFINE id == CallbackId(name, cb)
<1>1. id \in Ids
  BY DEF CallbackId, Ids, CallbackUpTo
<1>2. NewCallback(name, cb) \in CbInfo(k) /\ NewCallback("", cb) \in CbInfo(k)
  <2>1. "" \in Owner
    BY DEF Owner
  <2>2. << >> \in Seq(Nat)
    OBVIOUS
  <2> QED BY <2>1, <2>2 DEF NewCallback, CbInfo, CallbackUpTo
<1>3. DOMAIN g \subseteq Ids /\ g \in [DOMAIN g -> CbInfo(k)]
  BY MapFacts
<1> HIDE DEF id
<1>4. ASSUME NEW v \in CbInfo(k), id \in DOMAIN g
      PROVE  [g EXCEPT ![id] = v] \in Maps(Ids, CbInfo(k)) /\ DOMAIN [g EXCEPT ![id] = v] = DOMAIN g
  <2>1. [g EXCEPT ![id] = v] \in [DOMAIN g -> CbInfo(k)] /\ DOMAIN g \in SUBSET Ids
    BY <1>3, <1>4
  <2> QED BY <2>1 DEF Maps
<1>5. id \in DOMAIN g => [g[id] EXCEPT !.handles = cb.handles, !.rmw_handle = cb.rmw_handle,
                                       !.pid = cb.pid, !.node_handle = cb.node_handle] \in CbInfo(k)
  BY <1>3 DEF CbInfo, CallbackUpTo
<1>6. CASE id \notin DOMAIN g
  <2>1. ResetCbVal(g, name, cb) = Put(g, id, NewCallback(name, cb))
    BY <1>6 DEF ResetCbVal, id
  <2>2. Put(g, id, NewCallback(name, cb)) \in Maps(Ids, CbInfo(k))
    BY <1>1, <1>2, PutFacts
  <2>3. DOMAIN Put(g, id, NewCallback(name, cb)) = DOMAIN g \cup {id}
    BY DEF Put
  <2> QED BY <2>1, <2>2, <2>3
<1>7. CASE id \in DOMAIN g /\ KeptOnUpdate(g[id], cb)
  BY <1>4, <1>5, <1>7 DEF ResetCbVal, id
<1>8. CASE id \in DOMAIN g /\ ~KeptOnUpdate(g[id], cb)
  BY <1>2, <1>4, <1>8 DEF ResetCbVal, id
<1> QED BY <1>6, <1>7, <1>8

LEMMA CallbacksFold ==
  ASSUME NEW k \in Nat, callbacks \in Maps(Ids, CbInfo(k)), NEW copy, copy.cbs \in Seq(CallbackUpTo(k)),
         nodes \in Maps(Name, NodeInfo(k)), copy.nodes \in Seq(NodeUpTo(k)), NEW naming \in Namings(copy)
  PROVE  /\ UpdatedCallbacks(copy, naming) \in Maps(Ids, CbInfo(k))
         /\ DOMAIN callbacks \subseteq DOMAIN UpdatedCallbacks(copy, naming)
<1> DEFINE seq == copy.cbs
           L == Len(seq)
           S == {m \in Maps(Ids, CbInfo(k)) : DOMAIN callbacks \subseteq DOMAIN m}
           rel == [p \in S \X (1 .. L) |-> UpdateCallback(p[1], seq[p[2]], naming)]
           Iter(g) == g = [s \in SUBSET (1 .. L) |->
             IF s = {} THEN callbacks ELSE LET x == Max(s) IN UpdateCallback(g[s \ {x}], seq[x], naming)]
<1>1. L \in Nat /\ DOMAIN seq = 1 .. L
  OBVIOUS
<1>2. ASSUME NEW m \in S, NEW i \in 1 .. L PROVE UpdateCallback(m, seq[i], naming) \in S
  <2>1. seq[i] \in CallbackUpTo(k)
    <3> HIDE DEF CallbackUpTo
    <3> QED BY <1>1
  <2>2. naming[seq[i].node_handle] \in Owner
    BY NodesFold, NamingNames
  <2> HIDE DEF seq
  <2> QED BY <2>1, <2>2, ResetFacts DEF UpdateCallback
<1>7. callbacks \in S
  OBVIOUS
<1> HIDE DEF S
<1>3. rel \in [S \X (1 .. L) -> S]
  <2> HIDE DEF seq, L
  <2> QED BY <1>2
<1>4. \E g : Iter(g)
  <2>1. PICK g \in [SUBSET (1 .. L) -> S] : Iterates(g, callbacks, L, rel)
    <3> HIDE DEF rel, L
    <3> QED BY <1>1, <1>3, <1>7, IteratesExists
  <2>2. ASSUME NEW s \in SUBSET (1 .. L), s # {}
        PROVE  rel[<<g[s \ {Max(s)}], Max(s)>>] = UpdateCallback(g[s \ {Max(s)}], seq[Max(s)], naming)
    <3>1. Max(s) \in 1 .. L
      <4> HIDE DEF L
      <4> QED BY <1>1, <2>2, MaxIn
    <3>2. g[s \ {Max(s)}] \in S
      OBVIOUS
    <3> HIDE DEF L
    <3> QED BY <3>1, <3>2
  <2>3. Iter(g)
    <3> HIDE DEF rel, L, seq
    <3> QED BY <2>1, <2>2 DEF Iterates
  <2> QED BY <2>3
<1>5. PICK h : Iter(h) /\ UpdatedCallbacks(copy, naming) = h[1 .. L]
  <2>1. \E h : Iter(h) /\ UpdatedCallbacks(copy, naming) = h[1 .. L]
    <3> HIDE DEF rel
    <3> QED BY <1>1, <1>4 DEF UpdatedCallbacks, FoldLeft, MapThenFoldSet
  <2> QED BY <2>1
<1>6. h[1 .. L] \in S
  <2>1. h[{}] \in S
    BY <1>5, <1>7
  <2>2. \A s \in SUBSET (1 .. L) : s # {} /\ h[s \ {Max(s)}] \in S => h[s] \in S
    <3> SUFFICES ASSUME NEW s \in SUBSET (1 .. L), s # {}, h[s \ {Max(s)}] \in S PROVE h[s] \in S
      OBVIOUS
    <3>1. h[s] = UpdateCallback(h[s \ {Max(s)}], seq[Max(s)], naming)
      BY <1>5
    <3>2. Max(s) \in 1 .. L
      <4> HIDE DEF L
      <4> QED BY <1>1, MaxIn
    <3> QED BY <1>2, <3>1, <3>2
  <2> HIDE DEF L
  <2> QED BY <1>1, <2>1, <2>2, StaysIn
<1> QED BY <1>5, <1>6 DEF S

-----------------------------------------------------------------------------
(* The messages of a program.                                               *)

\* What messages measure since a start: sizes, and times up to a span.
TopicInfo(span) == {t \in [callback : Nat, subscription : Nat, pairs : Seq(Nat \X (0 .. span))] : t.pairs # << >>}
FiniteMaps(K, V) == {m \in Maps(K, V) : IsFiniteSet(DOMAIN m)}

LEMMA AddMsgFacts ==
  ASSUME NEW t \in Nat, NEW from \in 0 .. t, NEW m \in MsgUpTo(t), NEW K, TopicKey(m.callback, m.subscription) \in K,
         NEW map \in FiniteMaps(K, TopicInfo(t - from))
  PROVE  AddMsg(map, m, from) \in FiniteMaps(K, TopicInfo(t - from))
<1> DEFINE key == TopicKey(m.callback, m.subscription)
           pair == <<m.size, m.recv_time - m.send_time>>
           P == Nat \X (0 .. t - from)
<1>1. CASE ~MsgPasses(m, from)
  BY <1>1 DEF AddMsg
<1>2. ASSUME MsgPasses(m, from) PROVE AddMsg(map, m, from) \in FiniteMaps(K, TopicInfo(t - from))
  <2>1. pair \in P
    <3>1. m.size \in Nat /\ m.recv_time \in 0 .. t /\ m.send_time \in 0 .. t
      BY DEF MsgUpTo
    <3>2. m.recv_time >= m.send_time /\ m.send_time >= from
      BY <1>2 DEF MsgPasses
    <3>3. m.recv_time - m.send_time \in 0 .. t - from
      BY <3>1, <3>2
    <3> QED BY <3>1, <3>3
  <2>2. map \in Maps(K, TopicInfo(t - from)) /\ IsFiniteSet(DOMAIN map) /\ map \in [DOMAIN map -> TopicInfo(t - from)]
        /\ DOMAIN map \subseteq K
    BY MapFacts DEF FiniteMaps
  <2> HIDE DEF pair, P
  <2>3. CASE key \in DOMAIN map
    <3>1. map[key].pairs \in Seq(P) /\ map[key] \in TopicInfo(t - from)
      BY <2>2, <2>3 DEF TopicInfo, P
    <3>2. Append(map[key].pairs, pair) \in Seq(P) \ {<< >>}
      BY <2>1, <3>1
    <3>3. [map[key] EXCEPT !.pairs = Append(map[key].pairs, pair)] \in TopicInfo(t - from)
      BY <3>1, <3>2 DEF TopicInfo, P
    <3>4. AddMsg(map, m, from) = [map EXCEPT ![key] = [map[key] EXCEPT !.pairs = Append(map[key].pairs, pair)]]
      BY <1>2, <2>3 DEF AddMsg, pair
    <3>5. AddMsg(map, m, from) \in [DOMAIN map -> TopicInfo(t - from)]
      BY <2>2, <2>3, <3>3, <3>4
    <3>6. AddMsg(map, m, from) \in Maps(K, TopicInfo(t - from)) /\ DOMAIN AddMsg(map, m, from) = DOMAIN map
      BY <2>2, <3>5 DEF Maps
    <3> QED BY <2>2, <3>6 DEF FiniteMaps
  <2>4. CASE key \notin DOMAIN map
    <3> DEFINE new == [callback |-> m.callback, subscription |-> m.subscription, pairs |-> <<pair>>]
    <3>1. <<pair>> \in Seq(P) \ {<< >>}
      BY <2>1
    <3>2. new \in TopicInfo(t - from)
      BY <3>1 DEF TopicInfo, MsgUpTo, P
    <3>3. AddMsg(map, m, from) = Put(map, key, new)
      BY <1>2, <2>4 DEF AddMsg, pair
    <3> HIDE DEF new
    <3>4. Put(map, key, new) \in Maps(K, TopicInfo(t - from)) /\ DOMAIN Put(map, key, new) = DOMAIN map \cup {key}
      <4> DEFINE V == TopicInfo(t - from)
      <4>1. key \in K /\ map \in Maps(K, V) /\ new \in V
        BY <2>2, <3>2
      <4> HIDE DEF V, key
      <4>2. Put(map, key, new) \in Maps(K, V)
        BY <4>1, PutFacts
      <4>3. DOMAIN Put(map, key, new) = DOMAIN map \cup {key}
        BY DEF Put
      <4> QED BY <4>2, <4>3 DEF V
    <3>5. IsFiniteSet(DOMAIN map \cup {key})
      BY <2>2, FS_AddElement
    <3> QED BY <3>3, <3>4, <3>5 DEF FiniteMaps
  <2> QED BY <2>3, <2>4
<1> QED BY <1>1, <1>2


Keys == {TopicKey(a, b) : a \in Nat, b \in Nat}

LEMMA TopicsFold ==
  ASSUME NEW t \in Nat, NEW from \in 0 .. t, NEW copy, copy.msgs \in Seq(MsgUpTo(t))
  PROVE  TopicTraces(copy, from) \in FiniteMaps(Keys, TopicInfo(t - from))
<1> DEFINE seq == copy.msgs
           L == Len(seq)
           S == FiniteMaps(Keys, TopicInfo(t - from))
           rel == [p \in S \X (1 .. L) |-> AddMsg(p[1], seq[p[2]], from)]
           Iter(g) == g = [s \in SUBSET (1 .. L) |->
             IF s = {} THEN EmptyMap ELSE LET x == Max(s) IN AddMsg(g[s \ {x}], seq[x], from)]
<1>1. L \in Nat /\ DOMAIN seq = 1 .. L
  OBVIOUS
<1>2. ASSUME NEW m \in S, NEW i \in 1 .. L PROVE AddMsg(m, seq[i], from) \in S
  <2>1. seq[i] \in MsgUpTo(t)
    <3> HIDE DEF MsgUpTo
    <3> QED BY <1>1
  <2>2. TopicKey(seq[i].callback, seq[i].subscription) \in Keys
    <3>1. seq[i].callback \in Nat /\ seq[i].subscription \in Nat
      BY <2>1 DEF MsgUpTo
    <3> HIDE DEF seq
    <3> QED BY <3>1 DEF Keys
  <2> HIDE DEF seq
  <2> QED BY <2>1, <2>2, AddMsgFacts
<1>7. EmptyMap \in S
  <2>1. EmptyMap \in Maps(Keys, TopicInfo(t - from)) /\ DOMAIN EmptyMap = {}
    <3>1. EmptyMap \in [{} -> TopicInfo(t - from)] /\ {} \in SUBSET Keys
      BY DEF EmptyMap
    <3>2. DOMAIN EmptyMap = {}
      BY DEF EmptyMap
    <3> QED BY <3>1, <3>2 DEF Maps
  <2> QED BY <2>1, FS_EmptySet DEF FiniteMaps
<1> HIDE DEF S
<1>3. rel \in [S \X (1 .. L) -> S]
  <2> HIDE DEF seq, L
  <2> QED BY <1>2
<1>4. \E g : Iter(g)
  <2>1. PICK g \in [SUBSET (1 .. L) -> S] : Iterates(g, EmptyMap, L, rel)
    <3> HIDE DEF rel, L
    <3> QED BY <1>1, <1>3, <1>7, IteratesExists
  <2>2. ASSUME NEW s \in SUBSET (1 .. L), s # {}
        PROVE  rel[<<g[s \ {Max(s)}], Max(s)>>] = AddMsg(g[s \ {Max(s)}], seq[Max(s)], from)
    <3>1. Max(s) \in 1 .. L
      <4> HIDE DEF L
      <4> QED BY <1>1, <2>2, MaxIn
    <3>2. g[s \ {Max(s)}] \in S
      OBVIOUS
    <3> HIDE DEF L
    <3> QED BY <3>1, <3>2
  <2>3. Iter(g)
    <3> HIDE DEF rel, L, seq
    <3> QED BY <2>1, <2>2 DEF Iterates
  <2> QED BY <2>3
<1>5. PICK h : Iter(h) /\ TopicTraces(copy, from) = h[1 .. L]
  <2>1. \E h : Iter(h) /\ TopicTraces(copy, from) = h[1 .. L]
    <3> HIDE DEF rel
    <3> QED BY <1>1, <1>4 DEF TopicTraces, FoldLeft, MapThenFoldSet
  <2> QED BY <2>1
<1>6. h[1 .. L] \in S
  <2>1. h[{}] \in S
    BY <1>5, <1>7
  <2>2. \A s \in SUBSET (1 .. L) : s # {} /\ h[s \ {Max(s)}] \in S => h[s] \in S
    <3> SUFFICES ASSUME NEW s \in SUBSET (1 .. L), s # {}, h[s \ {Max(s)}] \in S PROVE h[s] \in S
      OBVIOUS
    <3>1. h[s] = AddMsg(h[s \ {Max(s)}], seq[Max(s)], from)
      BY <1>5
    <3>2. Max(s) \in 1 .. L
      <4> HIDE DEF L
      <4> QED BY <1>1, MaxIn
    <3> QED BY <1>2, <3>1, <3>2
  <2> HIDE DEF L
  <2> QED BY <1>1, <2>1, <2>2, StaysIn
<1> QED BY <1>5, <1>6 DEF S

\* Every edge was measured, and no message took longer than the span.
LEMMA TopicsTraced ==
  ASSUME NEW span \in Nat, NEW m \in FiniteMaps(Keys, TopicInfo(span))
  PROVE  Traced(m) /\ \A id \in DOMAIN m : \A p \in Range(m[id].pairs) : p[2] \in 0 .. span
<1>1. IsFiniteSet(DOMAIN m) /\ \A id \in DOMAIN m : m[id] \in TopicInfo(span)
  BY MapFacts DEF FiniteMaps
<1> DEFINE P == Nat \X (0 .. span)
<1>2. ASSUME NEW id \in DOMAIN m PROVE m[id].pairs \in Seq(P) /\ m[id].pairs # << >>
  BY <1>1 DEF TopicInfo
<1>3. P \subseteq Nat \X Nat
  OBVIOUS
<1>4. ASSUME NEW s \in Seq(P) PROVE s \in Pairs /\ \A p \in Range(s) : p \in P
  <2> HIDE DEF P
  <2>1. s \in Pairs
    BY <1>3, SeqGrows DEF Pairs
  <2>2. \A i \in DOMAIN s : s[i] \in P
    OBVIOUS
  <2> QED BY <2>1, <2>2 DEF Range
<1> QED BY <1>1, <1>2, <1>4 DEF Traced


-----------------------------------------------------------------------------
(* The traces of a program.                                                 *)

\* The queues of a timer: what was measured, in P, and times in B.
TimerInfo(P, B) == [pairs : Seq(P \X Nat), sched : Seq(B), queue : Seq(Nat), start : Seq(Nat)]
TraceState(D, k, P, B) ==
  [callbacks : [D -> CbInfo(k)], event : Maps(D, CbInfo(k)), timer : FiniteMaps(D, TimerInfo(P, B))]

LEMMA AddTimeFacts ==
  ASSUME NEW k \in Nat, NEW cb \in CbInfo(k), NEW r, r.time \in Nat, r.flag \in {CbStart, CbEnd, ExeRdy}
  PROVE  AddTime(cb, r) \in CbInfo(k)
<1>1. /\ Append(cb.start_time, r.time) \in Seq(Nat) /\ Append(cb.end_time, r.time) \in Seq(Nat)
      /\ Append(cb.invoke_time, r.time) \in Seq(Nat)
  BY DEF CbInfo
<1>2. CASE r.flag = CbStart
  <2>1. AddTime(cb, r) = [cb EXCEPT !.start_time = Append(cb.start_time, r.time)]
    BY <1>2 DEF AddTime, CbStart, CbEnd, ExeRdy
  <2> QED BY <1>1, <2>1 DEF CbInfo
<1>3. CASE r.flag = CbEnd
  <2>1. AddTime(cb, r) = [cb EXCEPT !.end_time = Append(cb.end_time, r.time)]
    BY <1>3 DEF AddTime, CbStart, CbEnd, ExeRdy
  <2> QED BY <1>1, <2>1 DEF CbInfo
<1>4. CASE r.flag = ExeRdy
  <2>1. AddTime(cb, r) = [cb EXCEPT !.invoke_time = Append(cb.invoke_time, r.time)]
    BY <1>4 DEF AddTime, CbStart, CbEnd, ExeRdy
  <2> QED BY <1>1, <2>1 DEF CbInfo
<1> QED BY <1>2, <1>3, <1>4

LEMMA TraceStateParts ==
  ASSUME NEW D, NEW k, NEW P, NEW B, NEW st \in TraceState(D, k, P, B)
  PROVE  /\ st.callbacks \in [D -> CbInfo(k)] /\ st.event \in Maps(D, CbInfo(k))
         /\ st.timer \in FiniteMaps(D, TimerInfo(P, B))
BY DEF TraceState

\* An event that is traced is of a known callback.
LEMMA EventStep ==
  ASSUME NEW k \in Nat, NEW D, NEW P, NEW B, NEW st \in TraceState(D, k, P, B), NEW id \in D,
         NEW r, r.time \in Nat, r.flag \in {CbStart, CbEnd, ExeRdy}
  PROVE  GetEventTrace(st, id, r) \in TraceState(D, k, P, B)
<1>1. st.callbacks \in [D -> CbInfo(k)] /\ st.event \in Maps(D, CbInfo(k))
  BY TraceStateParts
<1>2. DOMAIN st.event \subseteq D /\ st.event \in [DOMAIN st.event -> CbInfo(k)]
  BY <1>1, MapFacts
<1>3. ASSUME NEW cb \in CbInfo(k) PROVE AddTime(cb, r) \in CbInfo(k)
  BY <1>3, AddTimeFacts
<1>4. CASE id \in DOMAIN st.event
  <2> DEFINE ev == [st.event EXCEPT ![id] = AddTime(st.event[id], r)]
  <2>1. GetEventTrace(st, id, r) = [st EXCEPT !.event = ev]
    BY <1>4 DEF GetEventTrace, TraceState
  <2>2. ev \in Maps(D, CbInfo(k))
    <3>1. AddTime(st.event[id], r) \in CbInfo(k)
      BY <1>2, <1>3, <1>4
    <3>2. ev \in [DOMAIN st.event -> CbInfo(k)]
      BY <1>2, <3>1
    <3> QED BY <1>2, <3>2 DEF Maps
  <2> HIDE DEF ev
  <2> QED BY <2>1, <2>2 DEF TraceState
<1>5. CASE id \notin DOMAIN st.event
  <2> DEFINE cb == AddTime(st.callbacks[id], r)
             cbs == [st.callbacks EXCEPT ![id] = cb]
  <2>1. GetEventTrace(st, id, r) = [st EXCEPT !.callbacks = cbs, !.event = Put(st.event, id, cb)]
    BY <1>5 DEF GetEventTrace, TraceState
  <2>2. cb \in CbInfo(k)
    BY <1>1, <1>3
  <2> HIDE DEF cb
  <2>3. cbs \in [D -> CbInfo(k)]
    BY <1>1, <2>2
  <2>4. Put(st.event, id, cb) \in Maps(D, CbInfo(k))
    BY <1>1, <2>2, PutFacts
  <2> HIDE DEF cbs
  <2> QED BY <2>1, <2>3, <2>4 DEF TraceState
<1> QED BY <1>4, <1>5

\* What a timer becomes when its times may be in C from now on.
LEMMA QueueStep ==
  ASSUME NEW P, NEW B, NEW C, B \subseteq C, NEW t \in TimerInfo(P, B), NEW r,
         r.time \in C, r.time \in Nat, r.message_size \in Nat, \A b \in B : r.time - b \in P
  PROVE  /\ t \in TimerInfo(P, C)
         /\ [t EXCEPT !.sched = Append(t.sched, r.time)] \in TimerInfo(P, C)
         /\ [t EXCEPT !.queue = Append(t.queue, r.message_size)] \in TimerInfo(P, C)
         /\ t.sched # << >> /\ t.queue # << >> =>
              [pairs |-> Append(t.pairs, <<r.time - Head(t.sched), Head(t.queue)>>),
               sched |-> Tail(t.sched), queue |-> Tail(t.queue),
               start |-> Append(t.start, r.time)] \in TimerInfo(P, C)
<1>1. /\ t.pairs \in Seq(P \X Nat) /\ t.sched \in Seq(B) /\ t.queue \in Seq(Nat) /\ t.start \in Seq(Nat)
      /\ t = [pairs |-> t.pairs, sched |-> t.sched, queue |-> t.queue, start |-> t.start]
  BY DEF TimerInfo
<1>2. t.sched \in Seq(C)
  BY <1>1, SeqGrows
<1>3. t \in TimerInfo(P, C)
  BY <1>1, <1>2 DEF TimerInfo
<1>4. [t EXCEPT !.sched = Append(t.sched, r.time)] \in TimerInfo(P, C)
  <2>1. Append(t.sched, r.time) \in Seq(C)
    BY <1>2
  <2> QED BY <1>3, <2>1 DEF TimerInfo
<1>5. [t EXCEPT !.queue = Append(t.queue, r.message_size)] \in TimerInfo(P, C)
  <2>1. Append(t.queue, r.message_size) \in Seq(Nat)
    BY <1>1
  <2> QED BY <1>3, <2>1 DEF TimerInfo
<1>6. ASSUME t.sched # << >>, t.queue # << >>
      PROVE  [pairs |-> Append(t.pairs, <<r.time - Head(t.sched), Head(t.queue)>>),
              sched |-> Tail(t.sched), queue |-> Tail(t.queue),
              start |-> Append(t.start, r.time)] \in TimerInfo(P, C)
  <2> DEFINE S == P \X Nat
             pair == <<r.time - Head(t.sched), Head(t.queue)>>
  <2>1. Head(t.sched) \in B /\ Head(t.queue) \in Nat
    BY <1>1, <1>6
  <2>2. pair \in S
    BY <2>1
  <2>3. Append(t.pairs, pair) \in Seq(S)
    <3> HIDE DEF S, pair
    <3> QED BY <1>1, <2>2 DEF S
  <2>4. Tail(t.sched) \in Seq(C) /\ Tail(t.queue) \in Seq(Nat) /\ Append(t.start, r.time) \in Seq(Nat)
    BY <1>1, <1>2, <1>6
  <2> HIDE DEF pair
  <2> QED BY <2>3, <2>4 DEF TimerInfo, pair
<1> QED BY <1>3, <1>4, <1>5, <1>6

LEMMA StateGrows ==
  ASSUME NEW k, NEW D, NEW P, NEW B, NEW C, B \subseteq C, NEW st \in TraceState(D, k, P, B)
  PROVE  st \in TraceState(D, k, P, C)
<1>1. st.timer \in Maps(D, TimerInfo(P, B)) /\ IsFiniteSet(DOMAIN st.timer)
  BY TraceStateParts DEF FiniteMaps
<1>2. DOMAIN st.timer \subseteq D /\ st.timer \in [DOMAIN st.timer -> TimerInfo(P, B)]
  BY <1>1, MapFacts
<1>3. TimerInfo(P, B) \subseteq TimerInfo(P, C)
  <2>1. Seq(B) \subseteq Seq(C)
    BY SeqGrows
  <2> QED BY <2>1 DEF TimerInfo
<1>4. st.timer \in FiniteMaps(D, TimerInfo(P, C))
  <2>1. st.timer \in [DOMAIN st.timer -> TimerInfo(P, C)]
    BY <1>2, <1>3
  <2>2. st.timer \in Maps(D, TimerInfo(P, C))
    BY <1>2, <2>1 DEF Maps
  <2> QED BY <1>1, <2>2 DEF FiniteMaps
<1> QED BY <1>4 DEF TraceState

LEMMA TimerStep ==
  ASSUME NEW k \in Nat, NEW D, NEW P, NEW B, NEW C, B \subseteq C, NEW st \in TraceState(D, k, P, B), NEW id \in D,
         NEW r, r.time \in C, r.time \in Nat, r.message_size \in Nat, \A b \in B : r.time - b \in P,
         r.flag \in {CbStart, ExeExe, ExeRdy}
  PROVE  st \in TraceState(D, k, P, C) /\ GetTimerTrace(st, id, r) \in TraceState(D, k, P, C)
<1> DEFINE t == IF id \in DOMAIN st.timer THEN st.timer[id] ELSE NoTimer
           new == CASE r.flag = ExeRdy -> [t EXCEPT !.sched = Append(t.sched, r.time)]
                    [] r.flag = ExeExe -> [t EXCEPT !.queue = Append(t.queue, r.message_size)]
                    [] r.flag = CbStart ->
                         [pairs |-> Append(t.pairs, <<r.time - Head(t.sched), Head(t.queue)>>),
                          sched |-> Tail(t.sched), queue |-> Tail(t.queue),
                          start |-> Append(t.start, r.time)]
<1>1. st.timer \in Maps(D, TimerInfo(P, B)) /\ IsFiniteSet(DOMAIN st.timer)
  BY TraceStateParts DEF FiniteMaps
<1>2. DOMAIN st.timer \subseteq D /\ st.timer \in [DOMAIN st.timer -> TimerInfo(P, B)]
  BY <1>1, MapFacts
<1>3. t \in TimerInfo(P, B)
  <2>1. << >> \in Seq(P \X Nat) /\ << >> \in Seq(B) /\ << >> \in Seq(Nat)
    OBVIOUS
  <2>2. NoTimer \in TimerInfo(P, B)
    BY <2>1 DEF NoTimer, TimerInfo
  <2> QED BY <1>2, <2>2
<1>5. st.timer \in FiniteMaps(D, TimerInfo(P, C))
  BY StateGrows, TraceStateParts
<1>6. st \in TraceState(D, k, P, C)
  BY StateGrows
<1>7. CASE r.flag = CbStart /\ (t.sched = << >> \/ t.queue = << >>)
  <2>1. GetTimerTrace(st, id, r) = st
    BY <1>7 DEF GetTimerTrace
  <2> QED BY <1>6, <2>1
<1>8. CASE ~(r.flag = CbStart /\ (t.sched = << >> \/ t.queue = << >>))
  <2>1. GetTimerTrace(st, id, r) = [st EXCEPT !.timer = Put(st.timer, id, new)]
    BY <1>8 DEF GetTimerTrace, TraceState
  <2>2. new \in TimerInfo(P, C)
    <3> HIDE DEF t
    <3>1. CASE r.flag = ExeRdy
      <4>1. new = [t EXCEPT !.sched = Append(t.sched, r.time)]
        BY <3>1 DEF ExeRdy, ExeExe, CbStart
      <4> QED BY <1>3, <4>1, QueueStep
    <3>2. CASE r.flag = ExeExe
      <4>1. new = [t EXCEPT !.queue = Append(t.queue, r.message_size)]
        BY <3>2 DEF ExeRdy, ExeExe, CbStart
      <4> QED BY <1>3, <4>1, QueueStep
    <3>3. CASE r.flag = CbStart
      <4>1. new = [pairs |-> Append(t.pairs, <<r.time - Head(t.sched), Head(t.queue)>>),
                   sched |-> Tail(t.sched), queue |-> Tail(t.queue),
                   start |-> Append(t.start, r.time)]
        BY <3>3 DEF ExeRdy, ExeExe, CbStart
      <4> QED BY <1>3, <1>8, <3>3, <4>1, QueueStep
    <3> QED BY <3>1, <3>2, <3>3
  <2> HIDE DEF new, t
  <2> DEFINE V == TimerInfo(P, C)
  <2>3. st.timer \in Maps(D, V) /\ IsFiniteSet(DOMAIN st.timer) /\ new \in V
    BY <1>5, <2>2 DEF FiniteMaps
  <2> HIDE DEF V
  <2>4. Put(st.timer, id, new) \in Maps(D, V)
    BY <2>3, PutFacts
  <2>5. DOMAIN Put(st.timer, id, new) = DOMAIN st.timer \cup {id}
    BY DEF Put
  <2>6. IsFiniteSet(DOMAIN st.timer \cup {id})
    BY <2>3, FS_AddElement
  <2>7. Put(st.timer, id, new) \in FiniteMaps(D, V)
    BY <2>4, <2>5, <2>6 DEF FiniteMaps
  <2> QED BY <1>6, <2>1, <2>7 DEF TraceState, V
<1> QED BY <1>6, <1>7, <1>8


\* One round of the loop.
LEMMA TraceStep ==
  ASSUME NEW k \in Nat, NEW D, NEW P, NEW B, NEW C, B \subseteq C, NEW st \in TraceState(D, k, P, B),
         NEW r, r.time \in C, r.time \in Nat, r.message_size \in Nat, \A b \in B : r.time - b \in P,
         NEW att, att[<<r.cb, r.rmw_handle>>] \in D \cup {<< >>}
  PROVE  TraceAttributed(st, att, r) \in TraceState(D, k, P, C)
<1> DEFINE id == att[<<r.cb, r.rmw_handle>>]
           ev == IF r.flag \in {CbStart, CbEnd, ExeRdy} THEN GetEventTrace(st, id, r) ELSE st
<1>1. st \in TraceState(D, k, P, C)
  BY StateGrows
<1>2. CASE id = << >>
  BY <1>1, <1>2 DEF TraceAttributed
<1>3. CASE id # << >>
  <2>1. id \in D
    BY <1>3
  <2>2. TraceAttributed(st, att, r) =
          IF r.flag \in {CbStart, ExeExe, ExeRdy} THEN GetTimerTrace(ev, id, r) ELSE ev
    BY <1>3 DEF TraceAttributed, TraceEvent
  <2> HIDE DEF id
  <2>3. ev \in TraceState(D, k, P, B)
    BY <2>1, EventStep
  <2> HIDE DEF ev
  <2>4. ev \in TraceState(D, k, P, C)
    BY <2>3, StateGrows
  <2>5. r.flag \in {CbStart, ExeExe, ExeRdy} => GetTimerTrace(ev, id, r) \in TraceState(D, k, P, C)
    BY <2>1, <2>3, TimerStep
  <2> QED BY <2>2, <2>4, <2>5
<1> QED BY <1>2, <1>3

\* The events come in the order of time, so what is paired is never earlier
\* than what it is paired with.
LEMMA TracesFold ==
  ASSUME NEW k \in Nat, NEW D, NEW g \in [D -> CbInfo(k)], NEW lo \in Nat, NEW hi \in Nat, lo <= hi,
         NEW recs, IsFiniteSet(recs),
         \A r \in recs : r.time \in lo .. hi /\ r.message_size \in Nat,
         NEW att, \A r \in recs : att[<<r.cb, r.rmw_handle>>] \in D \cup {<< >>},
         NEW order \in TimeOrders(recs)
  PROVE  Traces(g, att, order) \in TraceState(D, k, 0 .. hi - lo, lo .. hi)
<1> DEFINE L == Len(order)
           base == [callbacks |-> g, event |-> EmptyMap, timer |-> EmptyMap]
           S == TraceState(D, k, Int, Nat)
           rel == [p \in S \X (1 .. L) |-> TraceAttributed(p[1], att, order[p[2]])]
           Iter(h) == h = [s \in SUBSET (1 .. L) |->
             IF s = {} THEN base ELSE LET x == Max(s) IN TraceAttributed(h[s \ {x}], att, order[x])]
<1>1. /\ L \in Nat /\ DOMAIN order = 1 .. L /\ \A i \in 1 .. L : order[i] \in recs
      /\ \A i \in 1 .. L - 1 : order[i].time <= order[i + 1].time
  <2>1. order \in SetToSeqs(recs) /\ \A i \in 1 .. L - 1 : order[i].time <= order[i + 1].time
    BY DEF TimeOrders
  <2>2. /\ DOMAIN order = 1 .. Cardinality(recs) /\ Cardinality(recs) \in Nat
        /\ \A i \in DOMAIN order : order[i] \in recs
    BY <2>1, OrderCovers
  <2>3. L = Cardinality(recs)
    <3>1. order \in [1 .. Cardinality(recs) -> recs]
      BY <2>1 DEF SetToSeqs
    <3> QED BY <2>2, <3>1
  <2> QED BY <2>1, <2>2, <2>3
<1>2. \A i \in 1 .. L : /\ order[i].time \in lo .. hi /\ order[i].time \in Nat /\ order[i].message_size \in Nat
                        /\ att[<<order[i].cb, order[i].rmw_handle>>] \in D \cup {<< >>}
  <2> HIDE DEF L
  <2> QED BY <1>1
<1>3. \A P, B : base \in TraceState(D, k, P, B)
  <2> SUFFICES ASSUME NEW P, NEW B PROVE base \in TraceState(D, k, P, B)
    OBVIOUS
  <2>1. \A V : EmptyMap \in Maps(D, V) /\ IsFiniteSet(DOMAIN EmptyMap)
    <3>1. DOMAIN EmptyMap = {} /\ \A V : EmptyMap \in [{} -> V]
      BY DEF EmptyMap
    <3> QED BY <3>1, FS_EmptySet DEF Maps
  <2> QED BY <2>1 DEF TraceState, FiniteMaps
<1>4. ASSUME NEW st \in S, NEW i \in 1 .. L PROVE TraceAttributed(st, att, order[i]) \in S
  <2>1. order[i].time \in Nat /\ order[i].message_size \in Nat /\ \A b \in Nat : order[i].time - b \in Int
        /\ att[<<order[i].cb, order[i].rmw_handle>>] \in D \cup {<< >>} /\ Nat \subseteq Nat
    BY <1>2
  <2> HIDE DEF L
  <2> QED BY <2>1, TraceStep
<1>5. base \in S
  BY <1>3
<1> HIDE DEF S, base
<1>6. rel \in [S \X (1 .. L) -> S]
  <2> HIDE DEF L
  <2> QED BY <1>4
<1>7. \E h : Iter(h)
  <2>1. PICK h \in [SUBSET (1 .. L) -> S] : Iterates(h, base, L, rel)
    <3> HIDE DEF rel, L
    <3> QED BY <1>1, <1>5, <1>6, IteratesExists
  <2>2. ASSUME NEW s \in SUBSET (1 .. L), s # {}
        PROVE  rel[<<h[s \ {Max(s)}], Max(s)>>] = TraceAttributed(h[s \ {Max(s)}], att, order[Max(s)])
    <3>1. Max(s) \in 1 .. L
      <4> HIDE DEF L
      <4> QED BY <1>1, <2>2, MaxIn
    <3>2. h[s \ {Max(s)}] \in S
      OBVIOUS
    <3> HIDE DEF L
    <3> QED BY <3>1, <3>2
  <2>3. Iter(h)
    <3> HIDE DEF rel, L
    <3> QED BY <2>1, <2>2 DEF Iterates
  <2> QED BY <2>3
<1>8. PICK h : Iter(h) /\ Traces(g, att, order) = h[1 .. L]
  <2>1. \E h : Iter(h) /\ Traces(g, att, order) = h[1 .. L]
    <3> HIDE DEF rel
    <3> QED BY <1>1, <1>7 DEF Traces, FoldLeft, MapThenFoldSet, base
  <2> QED BY <2>1
<1> DEFINE bound(n) == IF n = 0 THEN lo ELSE order[n].time
           P == 0 .. hi - lo
           I == [n \in 0 .. L |-> TraceState(D, k, P, lo .. bound(n))]
<1>9. h[{}] \in I[0]
  <2>1. h[{}] = base
    BY <1>8
  <2>2. 0 \in 0 .. L
    BY <1>1
  <2> HIDE DEF L, bound, P
  <2> QED BY <1>3, <2>1, <2>2
<1>10. ASSUME NEW n \in 0 .. L - 1, h[1 .. n] \in I[n] PROVE h[1 .. n + 1] \in I[n + 1]
  <2> DEFINE r == order[n + 1]
  <2>1. /\ 1 .. n + 1 \in SUBSET (1 .. L) /\ 1 .. n + 1 # {} /\ n + 1 \in 1 .. L
        /\ Max(1 .. n + 1) = n + 1 /\ (1 .. n + 1) \ {n + 1} = 1 .. n
    <3> HIDE DEF L
    <3> QED BY <1>1, UpTo
  <2>2. h[1 .. n + 1] = TraceAttributed(h[1 .. n], att, r)
    BY <1>8, <2>1
  <2>3. h[1 .. n] \in TraceState(D, k, P, lo .. bound(n))
    <3>1. n \in 0 .. L
      BY <1>1
    <3> HIDE DEF L, bound, P
    <3> QED BY <1>10, <3>1
  <2>4. bound(n + 1) = r.time /\ bound(n) \in Nat /\ bound(n) <= r.time /\ r.time \in lo .. hi /\ r.message_size \in Nat
        /\ att[<<r.cb, r.rmw_handle>>] \in D \cup {<< >>}
    <3>1. r.time \in lo .. hi /\ r.message_size \in Nat /\ att[<<r.cb, r.rmw_handle>>] \in D \cup {<< >>}
      BY <1>2, <2>1
    <3>2. CASE n = 0
      BY <3>1, <3>2
    <3>3. CASE n # 0
      <4>1. n \in 1 .. L - 1 /\ n \in 1 .. L /\ n + 1 # 0
        BY <1>1, <3>3
      <4>2. order[n].time <= r.time /\ order[n].time \in Nat
        BY <1>1, <1>2, <4>1
      <4> HIDE DEF L
      <4> QED BY <3>1, <3>3, <4>1, <4>2
    <3> QED BY <3>2, <3>3
  <2> HIDE DEF r, L
  <2>5. lo .. bound(n) \subseteq lo .. r.time /\ r.time \in lo .. r.time /\ r.time \in Nat
        /\ \A b \in lo .. bound(n) : r.time - b \in P
    <3> HIDE DEF bound
    <3> QED BY <2>4
  <2> HIDE DEF bound, P
  <2>6. TraceAttributed(h[1 .. n], att, r) \in TraceState(D, k, P, lo .. r.time)
    BY <2>3, <2>4, <2>5, TraceStep
  <2>7. n + 1 \in 0 .. L
    BY <2>1, <1>1
  <2> QED BY <2>2, <2>4, <2>6, <2>7
<1>11. h[1 .. L] \in I[L]
  <2> HIDE DEF I, L
  <2> QED BY <1>1, <1>9, <1>10, StaysAlong
<1>12. h[1 .. L] \in TraceState(D, k, P, lo .. bound(L))
  <2>1. L \in 0 .. L
    BY <1>1
  <2> HIDE DEF L, bound, P
  <2> QED BY <1>11, <2>1
<1>13. lo .. bound(L) \subseteq lo .. hi
  <2>1. L # 0 => L \in 1 .. L
    BY <1>1
  <2>2. bound(L) \in lo .. hi
    <3>1. lo \in lo .. hi
      OBVIOUS
    <3>2. L # 0 => order[L].time \in lo .. hi
      <4> HIDE DEF L
      <4> QED BY <1>2, <2>1
    <3> HIDE DEF L
    <3> QED BY <3>1, <3>2
  <2> HIDE DEF bound, L
  <2> QED BY <2>2
<1> HIDE DEF bound, L
<1>14. h[1 .. L] \in TraceState(D, k, P, lo .. hi)
  <2> HIDE DEF P
  <2> QED BY <1>12, <1>13, StateGrows
<1> QED BY <1>8, <1>14


\* The timers with a measurement.
LEMMA TimersTraced ==
  ASSUME NEW span \in Nat, NEW D, NEW B, NEW T \in FiniteMaps(D, TimerInfo(0 .. span, B)),
         NEW R, R = Restrict(T, NonEmptyTimers(T))
  PROVE  /\ Traced(R) /\ DOMAIN R \subseteq D
         /\ \A id \in DOMAIN R : \A p \in Range(R[id].pairs) : p[1] \in 0 .. span
<1>1. /\ T \in Maps(D, TimerInfo(0 .. span, B)) /\ IsFiniteSet(DOMAIN T)
      /\ DOMAIN T \subseteq D /\ \A x \in DOMAIN T : T[x] \in TimerInfo(0 .. span, B)
  BY MapFacts DEF FiniteMaps
<1>2. /\ DOMAIN R = NonEmptyTimers(T) /\ NonEmptyTimers(T) \subseteq DOMAIN T
      /\ \A id \in DOMAIN R : R[id] = T[id] /\ T[id].pairs # << >>
  BY DEF Restrict, NonEmptyTimers
<1>3. IsFiniteSet(DOMAIN R)
  BY <1>1, <1>2, FS_Subset
<1> DEFINE P == (0 .. span) \X Nat
<1>4. ASSUME NEW id \in DOMAIN R PROVE R[id].pairs \in Seq(P) /\ R[id].pairs # << >>
  BY <1>1, <1>2 DEF TimerInfo
<1>5. P \subseteq Nat \X Nat
  OBVIOUS
<1>6. ASSUME NEW s \in Seq(P) PROVE s \in Pairs /\ \A p \in Range(s) : p \in P
  <2> HIDE DEF P
  <2>1. s \in Pairs
    BY <1>5, SeqGrows DEF Pairs
  <2>2. \A i \in DOMAIN s : s[i] \in P
    OBVIOUS
  <2> QED BY <2>1, <2>2 DEF Range
<1> QED BY <1>1, <1>2, <1>3, <1>4, <1>6 DEF Traced

\* What passes the filter of a copy.
LEMMA TrimmedFacts ==
  ASSUME NEW t \in Nat, NEW from \in 0 .. t, NEW copy, copy.times \in [1 .. SHM_LEN -> RecordUpTo(t)]
  PROVE  /\ IsFiniteSet(TrimTimes(copy, from))
         /\ \A r \in TrimTimes(copy, from) : r.time \in from .. t /\ r.message_size \in Nat
<1> DEFINE J == {j \in DOMAIN copy.times :
                   /\ Passes(copy.times[j], from)
                   /\ \E k \in DOMAIN copy.times :
                        k >= j /\ Passes(copy.times[k], from) /\ copy.times[k].flag \in Ending}
           f == [j \in J |-> copy.times[j]]
           T == TrimTimes(copy, from)
<1>1. T = {f[j] : j \in J} /\ J \subseteq 1 .. SHM_LEN
  BY DEF TrimTimes
<1>2. IsFiniteSet(J)
  <2>1. 1 \in Int /\ SHM_LEN \in Int
    BY TracerAssumption
  <2>2. IsFiniteSet(1 .. SHM_LEN)
    BY <2>1, FS_Interval
  <2> HIDE DEF J
  <2> QED BY <1>1, <2>2, FS_Subset
<1>3. \A j \in J : f[j] \in RecordUpTo(t) /\ f[j].time >= from
  BY DEF Passes
<1>4. IsFiniteSet(T)
  <2>1. f \in Surjection(J, T)
    <3> HIDE DEF J
    <3> QED BY <1>1 DEF Surjection
  <2> HIDE DEF f, J, T
  <2> QED BY <1>2, <2>1, FS_Surjection
<1>5. \A r \in T : r \in RecordUpTo(t) /\ r.time >= from
  <2> HIDE DEF f, J, T
  <2> QED BY <1>1, <1>3
<1>6. \A r \in RecordUpTo(t) : r.time >= from => r.time \in from .. t /\ r.message_size \in Nat
  BY DEF RecordUpTo
<1> HIDE DEF f, J
<1> QED BY <1>4, <1>5, <1>6

-----------------------------------------------------------------------------
(* The graph and the traces, from one step to the next.                     *)

InWindow == /\ \A id \in DOMAIN curTimer : \A p \in Range(curTimer[id].pairs) : p[1] \in 0 .. now - start
            /\ \A id \in DOMAIN curTopic : \A p \in Range(curTopic[id].pairs) : p[2] \in 0 .. now - start

\* The types, and what is between two judgements: a quiet program leaves all
\* of its edges within the extremes also while the next one runs, since a
\* reboot may take the fuzzer back before the next trace is built.
GraphInv ==
  /\ nodes \in Maps(Name, NodeInfo(instance)) /\ callbacks \in Maps(Ids, CbInfo(instance))
  /\ DOMAIN curEvent \subseteq DOMAIN callbacks /\ DOMAIN curTimer \subseteq DOMAIN callbacks
  /\ Traced(curTimer) /\ Traced(curTopic)
  /\ Extremes(timerTrace) /\ Extremes(topicTrace)
  /\ DOMAIN eventTrace \subseteq {EventTraceId}
  /\ pc \in {"targets", "ready", "clearing", "spawned", "running", "loading", "copying",
             "copied", "traced", "panicked"}
  /\ runs \in 0 .. budget.runs /\ found \in BOOLEAN
  /\ pc = "traced" => InWindow
  /\ pc \notin {"traced", "panicked"} /\ ~found =>
       Bounded(timerTrace, curTimer) /\ Bounded(topicTrace, curTopic)
  /\ PanicOnlyForZero

LEMMA BuildFacts ==
  ASSUME FileInv, RegInv, GraphInv, BuildTrace
  PROVE  /\ nodes' \in Maps(Name, NodeInfo(instance)) /\ callbacks' \in Maps(Ids, CbInfo(instance))
         /\ DOMAIN curEvent' \subseteq DOMAIN callbacks' /\ DOMAIN curTimer' \subseteq DOMAIN callbacks'
         /\ Traced(curTimer') /\ Traced(curTopic')
         /\ \A id \in DOMAIN curTimer' : \A p \in Range(curTimer'[id].pairs) : p[1] \in 0 .. now - start
         /\ \A id \in DOMAIN curTopic' : \A p \in Range(curTopic'[id].pairs) : p[2] \in 0 .. now - start
<1> DEFINE k == instance
           span == now - start
           recs == TrimTimes(shm, start)
<1>1. /\ k \in Nat /\ now \in Nat /\ start \in 0 .. now /\ start \in Nat /\ start <= now /\ span \in Nat
      /\ shm.times \in [1 .. SHM_LEN -> RecordUpTo(now)]
  BY TracerAssumption DEF FileInv, RegInv
<1>2. nodes' = UpdatedNodes(shm) /\ curTopic' = TopicTraces(shm, start)
  BY DEF BuildTrace, GetCallTrace
<1>3. PICK naming \in Namings(shm) :
        \E att \in Attributions(UpdatedCallbacks(shm, naming), recs), order \in TimeOrders(recs) :
          LET trace == Traces(UpdatedCallbacks(shm, naming), att, order)
          IN  /\ callbacks' = trace.callbacks /\ curEvent' = trace.event
              /\ curTimer' = Restrict(trace.timer, NonEmptyTimers(trace.timer))
  BY DEF BuildTrace, GetCallTrace
<1> DEFINE g == UpdatedCallbacks(shm, naming)
           D == DOMAIN g
<1>4. PICK att \in Attributions(g, recs), order \in TimeOrders(recs) :
        /\ callbacks' = Traces(g, att, order).callbacks /\ curEvent' = Traces(g, att, order).event
        /\ curTimer' = Restrict(Traces(g, att, order).timer, NonEmptyTimers(Traces(g, att, order).timer))
  BY <1>3
<1>5. nodes' \in Maps(Name, NodeInfo(k))
  BY <1>1, <1>2, NodesFold DEF GraphInv, RegInv
<1>6. g \in Maps(Ids, CbInfo(k))
  BY <1>1, CallbacksFold DEF GraphInv, RegInv
<1>7. D \subseteq Ids /\ g \in [D -> CbInfo(k)]
  BY <1>6, MapFacts
<1> HIDE DEF g, D, k
<1>8. IsFiniteSet(recs) /\ \A r \in recs : r.time \in start .. now /\ r.message_size \in Nat
  BY <1>1, TrimmedFacts
<1>9. \A r \in recs : att[<<r.cb, r.rmw_handle>>] \in D \cup {<< >>}
  <2> HIDE DEF recs
  <2> QED BY DEF Attributions, D
<1> DEFINE trace == Traces(g, att, order)
           P == 0 .. span
           B == start .. now
<1>10. trace \in TraceState(D, k, P, B)
  <2> HIDE DEF recs
  <2> QED BY <1>1, <1>7, <1>8, <1>9, TracesFold
<1> HIDE DEF trace
<1>11. /\ callbacks' \in [D -> CbInfo(k)] /\ curEvent' \in Maps(D, CbInfo(k))
       /\ trace.timer \in FiniteMaps(D, TimerInfo(P, B))
  <2>1. callbacks' = trace.callbacks /\ curEvent' = trace.event
    BY <1>4 DEF trace
  <2> HIDE DEF P, B
  <2> QED BY <1>10, <2>1, TraceStateParts
<1>12. callbacks' \in Maps(Ids, CbInfo(k)) /\ DOMAIN callbacks' = D
  BY <1>7, <1>11 DEF Maps
<1>13. DOMAIN curEvent' \subseteq D
  BY <1>11, MapFacts
<1>14. /\ Traced(curTimer') /\ DOMAIN curTimer' \subseteq D
       /\ \A id \in DOMAIN curTimer' : \A p \in Range(curTimer'[id].pairs) : p[1] \in 0 .. span
  <2>1. curTimer' = Restrict(trace.timer, NonEmptyTimers(trace.timer))
    BY <1>4 DEF trace
  <2> HIDE DEF span, B
  <2> QED BY <1>1, <1>11, <2>1, TimersTraced
<1>15. /\ Traced(curTopic')
       /\ \A id \in DOMAIN curTopic' : \A p \in Range(curTopic'[id].pairs) : p[2] \in 0 .. span
  <2>1. curTopic' \in FiniteMaps(Keys, TopicInfo(now - start))
    BY <1>1, <1>2, TopicsFold DEF RegInv
  <2> HIDE DEF span
  <2> QED BY <1>1, <2>1, TopicsTraced DEF span
<1> QED BY <1>5, <1>12, <1>13, <1>14, <1>15 DEF k


LEMMA InitGraph == Init => GraphInv
<1> SUFFICES ASSUME Init PROVE GraphInv
  OBVIOUS
<1>1. \A V, K : EmptyMap \in Maps(K, V) /\ DOMAIN EmptyMap = {} /\ IsFiniteSet(DOMAIN EmptyMap)
  <2>1. DOMAIN EmptyMap = {} /\ \A V : EmptyMap \in [{} -> V]
    BY DEF EmptyMap
  <2> QED BY <2>1, FS_EmptySet DEF Maps
<1>2. Traced(EmptyMap) /\ Extremes(EmptyMap) /\ \A m : Bounded(m, EmptyMap)
  BY <1>1 DEF Traced, Extremes, Bounded
<1>3. budget.runs \in Nat
  BY TracerAssumption DEF Init, TracerInit
<1>4. nodes = EmptyMap /\ callbacks = EmptyMap /\ curEvent = EmptyMap /\ curTimer = EmptyMap /\ curTopic = EmptyMap
      /\ eventTrace = EmptyMap /\ timerTrace = EmptyMap /\ topicTrace = EmptyMap
      /\ pc = "targets" /\ runs = 0 /\ found = FALSE
  BY DEF Init, GraphInit
<1>5. nodes \in Maps(Name, NodeInfo(instance)) /\ callbacks \in Maps(Ids, CbInfo(instance))
  BY <1>1, <1>4
<1>6. Traced(curTimer) /\ Traced(curTopic) /\ Extremes(timerTrace) /\ Extremes(topicTrace)
      /\ Bounded(timerTrace, curTimer) /\ Bounded(topicTrace, curTopic)
  BY <1>2, <1>4
<1>7. DOMAIN curEvent = {} /\ DOMAIN curTimer = {} /\ DOMAIN eventTrace = {}
  BY <1>1, <1>4
<1>8. PanicOnlyForZero /\ pc = "targets" /\ found \in BOOLEAN /\ runs \in 0 .. budget.runs
  <2>1. PanicOnlyForZero /\ pc = "targets"
    BY <1>4 DEF PanicOnlyForZero
  <2>2. found \in BOOLEAN
    BY <1>4
  <2>3. runs \in 0 .. budget.runs
    BY <1>3, <1>4
  <2> QED BY <2>1, <2>2, <2>3
<1>9. /\ DOMAIN curEvent \subseteq DOMAIN callbacks /\ DOMAIN curTimer \subseteq DOMAIN callbacks
      /\ DOMAIN eventTrace \subseteq {EventTraceId}
  BY <1>7
<1> HIDE DEF EventTraceId
<1> QED BY <1>5, <1>6, <1>8, <1>9 DEF GraphInv

\* The types go up with the instance.
LEMMA InfoGrows ==
  ASSUME NEW k \in Nat, NEW l \in Nat, k <= l
  PROVE  Maps(Name, NodeInfo(k)) \subseteq Maps(Name, NodeInfo(l)) /\ Maps(Ids, CbInfo(k)) \subseteq Maps(Ids, CbInfo(l))
<1>1. ASSUME NEW K, NEW V, NEW W, V \subseteq W PROVE Maps(K, V) \subseteq Maps(K, W)
  BY <1>1 DEF Maps
<1>2. 1 .. k \subseteq 1 .. l
  OBVIOUS
<1>3. NodeInfo(k) \subseteq NodeInfo(l)
  BY <1>2 DEF NodeInfo
<1>4. CbInfo(k) \subseteq CbInfo(l)
  BY <1>2 DEF CbInfo
<1> QED BY <1>1, <1>3, <1>4

\* gen_targets and update_shm: only the nodes and the callbacks change.
LEMMA UpdateGraph ==
  ASSUME FileInv, RegInv, GraphInv, GenTargets \/ UpdateShm
  PROVE  GraphInv'
<1> DEFINE k == instance
<1>1. PICK copy \in {shm, [times |-> Sorted(times), nodes |-> nodesFile, cbs |-> cbsFile, msgs |-> msgFile]} :
        UpdateCallbackInfo(copy)
  BY DEF GenTargets, UpdateShm
<1>2. PICK naming \in Namings(copy) : callbacks' = UpdatedCallbacks(copy, naming)
  BY <1>1 DEF UpdateCallbackInfo
<1>3. k \in Nat /\ copy.nodes \in Seq(NodeUpTo(k)) /\ copy.cbs \in Seq(CallbackUpTo(k))
  BY TracerAssumption DEF FileInv, RegInv
<1>6. /\ nodes' = UpdatedNodes(copy)
      /\ UNCHANGED <<eventTrace, timerTrace, topicTrace, curEvent, curTimer, curTopic, instance, budget, runs, found>>
      /\ pc \in {"targets", "copied"} /\ pc' = "ready"
  BY <1>1 DEF GenTargets, UpdateShm, UpdateCallbackInfo, tracerVars
<1> HIDE DEF k
<1>4. nodes' \in Maps(Name, NodeInfo(k))
  <2>1. nodes \in Maps(Name, NodeInfo(k))
    BY DEF GraphInv, k
  <2> QED BY <1>3, <1>6, <2>1, NodesFold
<1>5. callbacks' \in Maps(Ids, CbInfo(k)) /\ DOMAIN callbacks \subseteq DOMAIN callbacks'
  <2>1. nodes \in Maps(Name, NodeInfo(k)) /\ callbacks \in Maps(Ids, CbInfo(k))
    BY DEF GraphInv, k
  <2> QED BY <1>2, <1>3, <2>1, CallbacksFold
<1> QED BY <1>4, <1>5, <1>6 DEF GraphInv, PanicOnlyForZero, Bounded, k

LEMMA JudgeGraph ==
  ASSUME GraphInv, Judge
  PROVE  GraphInv'
<1>1. PICK to \in SetToSeqs(DOMAIN curTimer), po \in SetToSeqs(DOMAIN curTopic) :
        /\ Monitors(to, po) /\ found' = MonitorsFound(to, po)
        /\ pc' = IF MonitorsPanic(to, po) THEN "panicked" ELSE "ready"
  BY DEF Judge
<1> DEFINE timers == MonitorEdges(timerTrace, curTimer, to)
           topics == MonitorEdges(topicTrace, curTopic, po)
<1>2. /\ UNCHANGED <<nodes, callbacks, curEvent, curTimer, curTopic, instance, budget, runs>>
      /\ timerTrace' = timers.global
      /\ topicTrace' = IF timers.panicked THEN topicTrace ELSE topics.global
  BY <1>1 DEF Judge, Monitors, tracerVars
<1>3. /\ found' = (timers.found \/ topics.found)
      /\ pc' = IF timers.panicked \/ topics.panicked THEN "panicked" ELSE "ready"
  BY <1>1 DEF MonitorsFound, MonitorsPanic
<1>4. Extremes(timerTrace) /\ Traced(curTimer) /\ Extremes(topicTrace) /\ Traced(curTopic)
  BY DEF GraphInv
<1> HIDE DEF timers, topics
<1>5. /\ Extremes(timers.global) /\ timers.found \in BOOLEAN
      /\ ~timers.found /\ ~timers.panicked => Bounded(timers.global, curTimer)
      /\ timers.panicked => \E id \in DOMAIN curTimer : \E p \in Range(curTimer[id].pairs) : p[1] = 0
  BY <1>4, MonitorFacts DEF timers
<1>6. /\ Extremes(topics.global) /\ topics.found \in BOOLEAN
      /\ ~topics.found /\ ~topics.panicked => Bounded(topics.global, curTopic)
      /\ topics.panicked => \E id \in DOMAIN curTopic : \E p \in Range(curTopic[id].pairs) : p[1] = 0
  BY <1>4, MonitorFacts DEF topics
<1>7. DOMAIN eventTrace' \subseteq {EventTraceId}
  <2>1. /\ EventTraceId \notin DOMAIN eventTrace =>
             eventTrace' = Put(eventTrace, EventTraceId, [trace |-> curEvent, time_set |-> {}])
        /\ EventTraceId \in DOMAIN eventTrace => DOMAIN eventTrace' = DOMAIN eventTrace
    BY <1>1 DEF Monitors, EventMonitor
  <2>2. \A v : DOMAIN Put(eventTrace, EventTraceId, v) = DOMAIN eventTrace \cup {EventTraceId}
    BY DEF Put
  <2> QED BY <2>1, <2>2 DEF GraphInv
<1>8. Extremes(timerTrace') /\ Extremes(topicTrace')
  BY <1>2, <1>4, <1>5, <1>6
<1>9. pc' \notin {"traced", "panicked"} /\ ~found' => Bounded(timerTrace', curTimer') /\ Bounded(topicTrace', curTopic')
  <2> SUFFICES ASSUME pc' # "panicked", ~found' PROVE Bounded(timerTrace', curTimer') /\ Bounded(topicTrace', curTopic')
    OBVIOUS
  <2>1. ~timers.panicked /\ ~topics.panicked /\ ~timers.found /\ ~topics.found
    BY <1>3
  <2>2. Bounded(timers.global, curTimer) /\ Bounded(topics.global, curTopic)
    BY <1>5, <1>6, <2>1
  <2> QED BY <1>2, <2>1, <2>2
<1>10. PanicOnlyForZero'
  BY <1>2, <1>3, <1>5, <1>6 DEF PanicOnlyForZero
<1>11. pc' \in {"ready", "panicked"} /\ found' \in BOOLEAN
  BY <1>3, <1>5, <1>6
<1> QED BY <1>2, <1>7, <1>8, <1>9, <1>10, <1>11 DEF GraphInv

LEMMA GraphNext ==
  ASSUME FileInv, RegInv, GraphInv, [Next]_vars
  PROVE  GraphInv'
<1>1. CASE UNCHANGED vars
  BY <1>1 DEF vars, tracerVars, fileVars, graphVars, runVars, GraphInv, PanicOnlyForZero, InWindow, Bounded, Traced, Extremes
<1>2. CASE BuildTrace
  <2>1. UNCHANGED <<tracerVars, start, runs, found, eventTrace, timerTrace, topicTrace>> /\ pc' = "traced"
    BY <1>2 DEF BuildTrace, GetCallTrace
  <2>2. UNCHANGED <<instance, budget, now, start, runs, found, eventTrace, timerTrace, topicTrace>>
    BY <2>1 DEF tracerVars
  <2>3. /\ nodes' \in Maps(Name, NodeInfo(instance')) /\ callbacks' \in Maps(Ids, CbInfo(instance'))
        /\ DOMAIN curEvent' \subseteq DOMAIN callbacks' /\ DOMAIN curTimer' \subseteq DOMAIN callbacks'
        /\ Traced(curTimer') /\ Traced(curTopic') /\ InWindow'
    BY <1>2, <2>2, BuildFacts DEF InWindow
  <2>4. Extremes(timerTrace') /\ Extremes(topicTrace') /\ DOMAIN eventTrace' \subseteq {EventTraceId}
    BY <2>2 DEF GraphInv
  <2>5. runs' \in 0 .. budget'.runs /\ found' \in BOOLEAN /\ PanicOnlyForZero'
    BY <2>1, <2>2 DEF GraphInv, PanicOnlyForZero
  <2> QED BY <2>1, <2>3, <2>4, <2>5 DEF GraphInv
\* The steps that leave the graph alone.
<1>3. ASSUME UNCHANGED <<graphVars, instance, budget, found>>, runs' \in 0 .. budget.runs,
             pc \notin {"traced", "panicked"},
             pc' \in {"ready", "clearing", "spawned", "running", "loading", "copying", "copied"}
      PROVE  GraphInv'
  BY <1>3 DEF graphVars, GraphInv, PanicOnlyForZero, Bounded, Traced, Extremes
<1>4. CASE Clean
  <2>1. runs' \in 0 .. budget.runs
    <3>1. runs \in 0 .. budget.runs /\ runs < budget.runs /\ runs' = runs + 1 /\ budget.runs \in Nat
      BY <1>4, TracerAssumption DEF Clean, GraphInv, FileInv
    <3> QED BY <3>1
  <2> QED BY <1>3, <1>4, <2>1 DEF Clean, BeginClear
<1>5. CASE Spawn \/ TakeStart \/ CopyTimes \/ SortTimes \/ CopyRest \/ GiveUp
  <2>1. runs' \in 0 .. budget.runs
    BY <1>5 DEF Spawn, TakeStart, CopyTimes, SortTimes, CopyRest, GiveUp, GraphInv
  <2> QED BY <1>3, <1>5, <2>1 DEF Spawn, EndClear, TakeStart, CopyTimes, SortTimes, CopyRest, GiveUp, tracerVars
<1>6. CASE Reboot
  <2>1. /\ UNCHANGED <<graphVars, budget, runs, found>> /\ pc \in {"running", "ready"} /\ pc' = "ready"
        /\ instance' = instance + 1
    BY <1>6 DEF Reboot, NewInstance
  <2>2. instance \in Nat /\ instance' \in Nat /\ instance <= instance'
    BY <2>1, TracerAssumption DEF FileInv, RegInv
  <2>3. nodes' \in Maps(Name, NodeInfo(instance')) /\ callbacks' \in Maps(Ids, CbInfo(instance'))
    <3>1. nodes \in Maps(Name, NodeInfo(instance)) /\ callbacks \in Maps(Ids, CbInfo(instance))
      BY DEF GraphInv
    <3>2. nodes' = nodes /\ callbacks' = callbacks
      BY <2>1 DEF graphVars
    <3> QED BY <2>2, <3>1, <3>2, InfoGrows
  <2> QED BY <2>1, <2>3 DEF graphVars, GraphInv, PanicOnlyForZero, Bounded, Traced, Extremes
<1>7. CASE ApplicationStep
  <2>1. UNCHANGED <<graphVars, runVars>> /\ pc \in {"ready", "clearing", "spawned", "running", "loading", "copying"}
    BY <1>7 DEF ApplicationStep
  <2>2. UNCHANGED <<instance, budget>>
    BY <1>7 DEF ApplicationStep, Application, Stamp, Lock, WriteWords, Count, Unlock, SendMsg, RecvMsg, Register
  <2>3. UNCHANGED <<pc, found, runs>> /\ runs \in 0 .. budget.runs
    BY <2>1 DEF runVars, GraphInv
  <2> QED BY <1>3, <2>1, <2>2, <2>3
<1> QED BY <1>1, <1>2, <1>4, <1>5, <1>6, <1>7, UpdateGraph, JudgeGraph DEF Next, Fuzzer

-----------------------------------------------------------------------------
(* The theorems.                                                            *)

TraceInv == FileInv /\ WholeInv /\ RegInv /\ CountInv /\ GraphInv

LEMMA TraceInduction == Spec => []TraceInv
<1>1. Init => TraceInv
  BY InitFile, InitReg, InitCount, InitGraph DEF TraceInv
<1>2. TraceInv /\ [Next]_vars => TraceInv'
  BY FileNext, RegNext, CountNext, GraphNext DEF TraceInv
<1> QED BY <1>1, <1>2, PTL DEF Spec

\* The variables have their types; traces are of known callbacks.
THEOREM TypeCorrect == Spec => []TypeOK
<1>1. TraceInv => FilesOK
  <2> SUFFICES ASSUME TraceInv PROVE FilesOK
    OBVIOUS
  <2> USE DEF TraceInv
  <2>1. times \in [1 .. SHM_LEN -> Record]
    <3>1. 0 .. now \subseteq 0 .. budget.clock
      BY TracerAssumption DEF FileInv
    <3>2. RecordUpTo(now) \subseteq Record
      BY <3>1 DEF RecordUpTo, Record
    <3> QED BY <3>2 DEF FileInv
  <2>2. count \in 0 .. SHM_LEN + Cardinality(Writers)
    BY SectionSize, TracerAssumption DEF CountInv, FileInv
  <2>3. \A i \in 1 .. Len(msgFile) : msgFile[i].recv_time = 0 \/ msgFile[i].recv_time >= msgFile[i].send_time
    <3>1. \A i \in 1 .. Len(msgFile) : msgFile[i] \in MsgUpTo(now)
      <4> HIDE DEF MsgUpTo
      <4> QED BY DEF RegInv
    <3> QED BY <3>1 DEF MsgUpTo
  <2> QED BY <2>1, <2>2, <2>3 DEF FilesOK, FileInv
<1>2. TraceInv => GraphOK
  <2> SUFFICES ASSUME TraceInv PROVE GraphOK
    OBVIOUS
  <2> USE DEF TraceInv
  <2>1. \A n \in DOMAIN nodes : nodes[n] \in NodeInfo(instance)
    BY MapFacts DEF GraphInv
  <2>2. \A id \in DOMAIN callbacks : callbacks[id] \in CbInfo(instance)
    BY MapFacts DEF GraphInv
  <2> QED BY <2>1, <2>2 DEF GraphOK, GraphInv, NodeInfo, CbInfo
<1>3. TraceInv => TypeOK
  <2> SUFFICES ASSUME TraceInv PROVE TypeOK
    OBVIOUS
  <2>1. start \in 0 .. budget.clock
    BY TracerAssumption DEF TraceInv, FileInv
  <2> QED BY <1>1, <1>2, <2>1 DEF TypeOK, TraceInv, GraphInv
<1> QED BY <1>3, TraceInduction, PTL

\* No latency is negative or longer than the program's own window.
THEOREM MeasuredInWindowCorrect == Spec => []MeasuredInWindow
<1>1. TraceInv => MeasuredInWindow
  BY DEF TraceInv, GraphInv, InWindow, MeasuredInWindow
<1> QED BY <1>1, TraceInduction, PTL

\* A program that is not called interesting has no edge outside the extremes.
THEOREM QuietIsBoundedCorrect == Spec => []QuietIsBounded
<1>1. TraceInv => QuietIsBounded
  BY DEF TraceInv, GraphInv, QuietIsBounded
<1> QED BY <1>1, TraceInduction, PTL

\* The monitors panic only for a duration or a size of 0.
THEOREM PanicOnlyForZeroCorrect == Spec => []PanicOnlyForZero
<1>1. TraceInv => PanicOnlyForZero
  BY DEF TraceInv, GraphInv
<1> QED BY <1>1, TraceInduction, PTL

\* Over all programs and instances the extremes only widen.
THEOREM ExtremesWidenCorrect == Spec => ExtremesWiden
<1>1. \A g : Extremes(g) => Widens(g, g)
  BY DEF Extremes, IsEntry, Widens
<1>2. TraceInv /\ [Next]_vars => [Widens(timerTrace, timerTrace') /\ Widens(topicTrace, topicTrace')]_vars
  <2> SUFFICES ASSUME TraceInv, [Next]_vars PROVE Widens(timerTrace, timerTrace') /\ Widens(topicTrace, topicTrace')
    OBVIOUS
  <2>1. Extremes(timerTrace) /\ Extremes(topicTrace) /\ Traced(curTimer) /\ Traced(curTopic)
    BY DEF TraceInv, GraphInv
  <2>2. CASE Judge
    <3>1. PICK to \in SetToSeqs(DOMAIN curTimer), po \in SetToSeqs(DOMAIN curTopic) : Monitors(to, po)
      BY <2>2 DEF Judge
    <3>2. /\ Widens(timerTrace, MonitorEdges(timerTrace, curTimer, to).global)
          /\ Widens(topicTrace, MonitorEdges(topicTrace, curTopic, po).global)
      BY <2>1, MonitorFacts
    <3> QED BY <1>1, <2>1, <3>1, <3>2 DEF Monitors
  <2>3. CASE ~Judge
    <3>1. UNCHANGED <<timerTrace, topicTrace>>
      <4>1. CASE GenTargets \/ UpdateShm \/ BuildTrace
        BY <4>1 DEF GenTargets, UpdateShm, UpdateCallbackInfo, BuildTrace, GetCallTrace
      <4>2. CASE Clean \/ Spawn \/ TakeStart \/ CopyTimes \/ SortTimes \/ CopyRest \/ GiveUp \/ Reboot
                   \/ ApplicationStep \/ UNCHANGED vars
        BY <4>2 DEF Clean, Spawn, TakeStart, CopyTimes, SortTimes, CopyRest, GiveUp, Reboot, ApplicationStep, vars, graphVars
      <4> QED BY <2>3, <4>1, <4>2 DEF Next, Fuzzer
    <3> QED BY <1>1, <2>1, <3>1
  <2> QED BY <2>2, <2>3
<1> QED BY <1>2, TraceInduction, PTL DEF Spec, ExtremesWiden

=============================================================================
