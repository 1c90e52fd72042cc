------------------------ MODULE SancovRuntime_proofs ------------------------
(***************************************************************************)
(* Theorems about SancovRuntime, for every number of threads, objects,     *)
(* guards and compilation units.                                           *)
(***************************************************************************)
EXTENDS SancovRuntime, FiniteSetTheorems, TLAPS

DsoNames == {NameOf[d] : d \in Dsos}
Slots == [offset : Nat, size : Nat]

\* What a thread reads as a header: names of objects with a slot each.
IsHeader(h) ==
  /\ h = [map |-> h.map, vec |-> h.vec]
  /\ h.vec \in Seq(Slots)
  /\ DOMAIN h.map \subseteq DsoNames
  /\ h.map \in [DOMAIN h.map -> 1 .. Len(h.vec)]

\* A thread knows the object it works on, and a header only from the memory.
Working ==
  /\ IsHeader(hdr)
  /\ DOMAIN mine = Threads /\ \A t \in Threads : IsHeader(mine[t])
  /\ \A t \in Threads : pc[t] # "run" => cur[t] \in Dsos
  /\ \A t \in Threads : pc[t] = "store" => off[t] \in {0} \cup HEADER_SIZE .. MAXSIZE - 1

TypeInv == TypeOK /\ Working

-----------------------------------------------------------------------------
(* The header.                                                              *)

LEMMA EmptyIsHeader == IsHeader(EmptyHeader)
<1>1. /\ EmptyHeader.map = << >> /\ EmptyHeader.vec = << >>
      /\ EmptyHeader = [map |-> EmptyHeader.map, vec |-> EmptyHeader.vec]
  BY DEF EmptyHeader
<1>2. << >> \in Seq(Slots) /\ Len(<< >>) = 0 /\ DOMAIN << >> = {}
  OBVIOUS
<1>3. << >> \in [DOMAIN << >> -> 1 .. 0]
  BY <1>2
<1> QED
  BY <1>1, <1>2, <1>3 DEF IsHeader

\* A new slot starts after the last one.
LEMMA NextOffsetType ==
  ASSUME NEW h, IsHeader(h)
  PROVE  NextOffset(h) \in Nat
<1>1. h.vec \in Seq(Slots)
  BY DEF IsHeader
<1>2. CASE h.vec = << >>
  BY <1>2 DEF NextOffset
<1>3. CASE h.vec # << >>
  <2>1. h.vec[Len(h.vec)] \in Slots
    BY <1>1, <1>3
  <2> QED
    BY <1>3, <2>1 DEF NextOffset, Slots
<1> QED
  BY <1>2, <1>3

\* An object is added under its name, and the others keep their slots.
LEMMA PushHeader ==
  ASSUME NEW h, IsHeader(h), NEW name \in DsoNames \ DOMAIN h.map, NEW len \in Nat
  PROVE  LET new == PushDso(h, name, len) IN
         /\ IsHeader(new)
         /\ DOMAIN new.map = DOMAIN h.map \cup {name}
         /\ Len(new.vec) = Len(h.vec) + 1
         /\ SlotOf(new, name).offset = NextOffset(h)
         /\ SlotOf(new, name).size = len
         /\ NextOffset(new) = NextOffset(h) + len
         /\ \A n \in DOMAIN h.map : SlotOf(new, n) = SlotOf(h, n)
<1> DEFINE new == PushDso(h, name, len)
           slot == [offset |-> NextOffset(h), size |-> len]
<1>1. /\ h.vec \in Seq(Slots) /\ DOMAIN h.map \subseteq DsoNames
      /\ h.map \in [DOMAIN h.map -> 1 .. Len(h.vec)]
  BY DEF IsHeader
<1>2. slot \in Slots
  BY NextOffsetType DEF Slots
<1>3. /\ new.vec = Append(h.vec, slot)
      /\ new.map = [n \in DOMAIN h.map \cup {name} |-> IF n = name THEN Len(h.vec) + 1 ELSE h.map[n]]
      /\ new = [map |-> new.map, vec |-> new.vec]
  BY DEF PushDso
<1>4. /\ new.vec \in Seq(Slots) /\ Len(new.vec) = Len(h.vec) + 1
      /\ new.vec[Len(h.vec) + 1] = slot
      /\ \A i \in 1 .. Len(h.vec) : new.vec[i] = h.vec[i]
  <2> HIDE DEF slot
  <2> QED
    BY <1>1, <1>2, <1>3
<1>5. /\ DOMAIN new.map = DOMAIN h.map \cup {name}
      /\ new.map[name] = Len(h.vec) + 1
      /\ \A n \in DOMAIN h.map : new.map[n] = h.map[n]
  BY <1>3
<1>6. new.map \in [DOMAIN new.map -> 1 .. Len(new.vec)]
  <2>1. Len(h.vec) \in Nat
    BY <1>1
  <2>2. ASSUME NEW n \in DOMAIN new.map PROVE new.map[n] \in 1 .. Len(new.vec)
    BY <1>1, <1>4, <1>5, <2>1, <2>2
  <2>3. new.map = [n \in DOMAIN new.map |-> new.map[n]]
    BY <1>3
  <2> QED
    BY <2>2, <2>3
<1>7. IsHeader(new)
  BY <1>1, <1>3, <1>4, <1>5, <1>6 DEF IsHeader
<1>8. SlotOf(new, name).offset = NextOffset(h) /\ SlotOf(new, name).size = len
  BY <1>4, <1>5 DEF SlotOf
<1>10. NextOffset(new) = NextOffset(h) + len
  <2>1. Len(h.vec) \in Nat /\ new.vec[Len(new.vec)] = slot /\ new.vec # << >>
    <3> HIDE DEF slot, new
    <3> QED
      BY <1>1, <1>4
  <2>2. NextOffset(new) = slot.offset + slot.size
    <3> HIDE DEF slot, new
    <3> QED
      BY <2>1 DEF NextOffset
  <2> QED
    BY <2>2
<1>9. \A n \in DOMAIN h.map : SlotOf(new, n) = SlotOf(h, n)
  BY <1>1, <1>4, <1>5 DEF SlotOf
<1> QED
  BY <1>4, <1>5, <1>7, <1>8, <1>9, <1>10

LEMMA HeaderHasType ==
  ASSUME IsHeader(hdr)
  PROVE  hdr \in HeaderType /\ DOMAIN hdr.map \subseteq {NameOf[d] : d \in Dsos}
<1>1. hdr.map \in [DOMAIN hdr.map -> Nat]
  BY DEF IsHeader
<1> QED
  BY <1>1 DEF IsHeader, HeaderType, Slots, DsoNames

-----------------------------------------------------------------------------
(* Types.                                                                   *)

LEMMA TypeInit == Init => TypeInv
<1> SUFFICES ASSUME Init PROVE TypeInv
  OBVIOUS
<1> USE RuntimeAssumption, LayoutAssumption
<1>1. IsHeader(hdr) /\ hdr \in HeaderType /\ DOMAIN hdr.map \subseteq {NameOf[d] : d \in Dsos}
  BY EmptyIsHeader, HeaderHasType DEF Init
<1>2. Working
  BY <1>1, EmptyIsHeader DEF Init, Working
<1>3. \A d \in Dsos : guards[d] \in [GuardsOf(d) -> {0} \cup HEADER_SIZE .. MAXSIZE - 1]
  BY DEF Init
<1>4. /\ calls \in [Dsos -> 0 .. Units]
      /\ shm \in [Addresses -> 0 .. ByteSize - 1]
      /\ reg \in [Threads -> 0 .. ByteSize - 1]
  BY DEF Init
<1> QED
  BY <1>1, <1>2, <1>3, <1>4 DEF Init, TypeInv, TypeOK

LEMMA TypeNext == TypeInv /\ [Next]_vars => TypeInv'
<1> SUFFICES ASSUME TypeInv, [Next]_vars PROVE TypeInv'
  OBVIOUS
<1> USE RuntimeAssumption, LayoutAssumption
<1>0. TypeOK /\ Working
  BY DEF TypeInv
<1>s. ASSUME NEW h, IsHeader(h), hdr' = h
      PROVE  /\ IsHeader(hdr)' /\ (hdr \in HeaderType)'
             /\ (DOMAIN hdr.map \subseteq {NameOf[d] : d \in Dsos})'
  <2>1. h.map \in [DOMAIN h.map -> Nat]
    BY <1>s DEF IsHeader
  <2> QED
    BY <1>s, <2>1 DEF IsHeader, HeaderType, Slots, DsoNames
<1>1. ASSUME NEW t \in Threads, NEW d \in Dsos, Enter(t, d) PROVE TypeInv'
  <2> USE DEF Enter, Goto, headerVars
  <2>1. calls' \in [Dsos -> 0 .. Units]
    BY <1>0, <1>1 DEF TypeOK
  <2>2. Working'
    BY <1>0, <1>1 DEF Working, TypeOK, IsHeader
  <2> QED
    BY <1>0, <1>1, <2>1, <2>2 DEF TypeInv, TypeOK, HeaderType
<1>2. ASSUME NEW t \in Threads, ReadHeader(t) PROVE TypeInv'
  <2> USE DEF ReadHeader, Goto
  <2>1. IsHeader(hdr') /\ IsHeader(mine'[t])
    <3>1. \A h \in Decodings \cup {EmptyHeader} : IsHeader(h)
      BY <1>0, EmptyIsHeader DEF Working, Decodings
    <3>2. mine'[t] \in {hdr', EmptyHeader} /\ (hdr' \in Decodings \/ hdr' = hdr)
      BY <1>0, <1>2 DEF Working
    <3> QED
      BY <1>0, <3>1, <3>2 DEF Working
  <2>2. /\ (hdr \in HeaderType)'
        /\ (DOMAIN hdr.map \subseteq {NameOf[d] : d \in Dsos})'
    BY <1>s, <2>1
  <2>3. DOMAIN mine' = Threads /\ \A u \in Threads : IsHeader(mine'[u])
    BY <1>0, <1>2, <2>1 DEF Working
  <2>4. Working'
    BY <1>0, <1>2, <2>1, <2>3 DEF Working, TypeOK, IsHeader
  <2>5. /\ (mapped \in BOOLEAN)' /\ (registered \in BOOLEAN)' /\ (intact \in BOOLEAN)'
    BY <1>0, <1>2 DEF TypeOK
  <2> QED
    BY <1>0, <1>2, <2>2, <2>4, <2>5 DEF TypeInv, TypeOK
<1>3. ASSUME NEW t \in Threads, Skip(t) PROVE TypeInv'
  <2>1. cur[t] \in Dsos
    BY <1>0, <1>3 DEF Skip, Working
  <2> QED
    BY <1>0, <1>3, <2>1 DEF Skip, Goto, headerVars, TypeInv, TypeOK, Working, HeaderType
<1>4. ASSUME NEW t \in Threads, UpdateHeader(t) PROVE TypeInv'
  <2> USE DEF UpdateHeader, Goto
  <2> DEFINE new == PushDso(mine[t], NameOf[cur[t]], LenOf[cur[t]])
  <2>1. cur[t] \in Dsos /\ IsHeader(mine[t])
    BY <1>0, <1>4 DEF Working
  <2>2. NameOf[cur[t]] \in DsoNames \ DOMAIN mine[t].map /\ LenOf[cur[t]] \in Nat
    BY <1>4, <2>1 DEF DsoNames, Inserted
  <2>3. IsHeader(new)
    BY <2>1, <2>2, PushHeader
  <2>4. hdr' = new /\ shm' = Spill(new)
    BY <1>4
  <2> HIDE DEF new
  <2>5. /\ IsHeader(hdr') /\ (hdr \in HeaderType)'
        /\ (DOMAIN hdr.map \subseteq {NameOf[d] : d \in Dsos})'
    BY <1>s, <2>3, <2>4
  <2>6. shm' \in [Addresses -> 0 .. ByteSize - 1]
    BY <1>0, <2>4 DEF Spill, Overrun, TypeOK
  <2>7. off' \in [Threads -> Nat]
    BY <1>0, <1>4, <2>1, NextOffsetType DEF TypeOK
  <2>8. Working'
    BY <1>0, <1>4, <2>1, <2>5 DEF Working, TypeOK, IsHeader
  <2> QED
    BY <1>0, <1>4, <2>5, <2>6, <2>7, <2>8 DEF TypeInv, TypeOK
<1>5. ASSUME NEW t \in Threads, SetGuards(t) PROVE TypeInv'
  <2> USE DEF SetGuards, Goto
  <2>1. cur[t] \in Dsos /\ off[t] \in Nat /\ LenOf[cur[t]] \in Nat
    BY <1>0, <1>5 DEF Working, TypeOK
  <2>2. /\ (alive \in BOOLEAN)' /\ (ready \subseteq Dsos)'
        /\ (\A d \in Dsos : guards[d] \in [GuardsOf(d) -> {0} \cup HEADER_SIZE .. MAXSIZE - 1])'
        /\ (DOMAIN guards = Dsos)'
    <3>1. CASE off[t] + LenOf[cur[t]] >= MAXSIZE - HEADER_SIZE
      BY <1>0, <1>5, <3>1 DEF TypeOK
    <3>2. CASE ~(off[t] + LenOf[cur[t]] >= MAXSIZE - HEADER_SIZE)
      <4>1. \A i \in GuardsOf(cur[t]) : off[t] + HEADER_SIZE + i \in HEADER_SIZE .. MAXSIZE - 1
        BY <2>1, <3>2 DEF GuardsOf
      <4>2. GuardsAt(cur[t], off[t]) \in
              [GuardsOf(cur[t]) -> {0} \cup HEADER_SIZE .. MAXSIZE - 1]
        BY <4>1 DEF GuardsAt, GuardValue
      <4> QED
        BY <1>0, <1>5, <2>1, <3>2, <4>2 DEF TypeOK
    <3> QED
      BY <3>1, <3>2
  <2>3. Working'
    BY <1>0, <1>5 DEF Working, TypeOK, headerVars, IsHeader
  <2> QED
    BY <1>0, <1>5, <2>2, <2>3 DEF TypeInv, TypeOK, headerVars, HeaderType
<1>6. ASSUME NEW t \in Threads, NEW d \in Dsos, NEW i \in GuardsOf(d), TraceLoad(t, d, i)
      PROVE  TypeInv'
  <2> USE DEF TraceLoad, Goto
  <2>1. guards[d][i] \in {0} \cup HEADER_SIZE .. MAXSIZE - 1
    BY <1>0 DEF TypeOK
  <2>2. guards[d][i] \in Nat /\ shm[CovOffset(guards[d][i])] \in 0 .. ByteSize - 1
    BY <1>0, <2>1 DEF TypeOK, CovOffset, Addresses
  <2>3. Working'
    BY <1>0, <1>6, <2>1 DEF Working, TypeOK, headerVars, IsHeader
  <2> QED
    BY <1>0, <1>6, <2>2, <2>3 DEF TypeInv, TypeOK, headerVars, HeaderType
<1>7. ASSUME NEW t \in Threads, TraceStore(t) PROVE TypeInv'
  <2> USE DEF TraceStore, Goto
  <2>1. reg[t] \in Nat /\ ByteSize \in Nat \ {0}
    BY <1>0 DEF TypeOK
  <2>2. (reg[t] + 1) % ByteSize \in 0 .. ByteSize - 1
    BY <2>1
  <2>3. shm' \in [Addresses -> 0 .. ByteSize - 1]
    <3> HIDE DEF TraceStore
    <3>1. shm' = [shm EXCEPT ![CovOffset(off[t])] = (reg[t] + 1) % ByteSize]
      BY <1>7 DEF TraceStore
    <3> QED
      BY <1>0, <2>2, <3>1 DEF TypeOK
  <2>4. (intact \in BOOLEAN)'
    BY <1>0, <1>7 DEF TypeOK
  <2>5. Working'
    BY <1>0, <1>7 DEF Working, TypeOK, IsHeader
  <2> QED
    BY <1>0, <1>7, <2>3, <2>4, <2>5 DEF TypeInv, TypeOK, HeaderType
<1>8. CASE UNCHANGED vars
  BY <1>0, <1>8 DEF vars, TypeInv, TypeOK, Working, HeaderType, IsHeader
<1> QED
  BY <1>1, <1>2, <1>3, <1>4, <1>5, <1>6, <1>7, <1>8 DEF Next

\* The variables of the runtime keep their types (guard_init and
\* __sanitizer_cov_trace_pc_guard): above all, a guard is 0 or the address of
\* a byte of COV, however many objects are loaded, and also when the header is
\* longer than HEADER_SIZE or is overwritten by a count.
THEOREM TypeCorrect == Spec => []TypeOK
<1>1. TypeInv => TypeOK
  BY DEF TypeInv
<1> QED
  BY <1>1, TypeInit, TypeNext, PTL DEF Spec

-----------------------------------------------------------------------------
(* The header is complete.  This takes what the code only hopes for: file   *)
(* names that differ, and a header that fits in HEADER_SIZE bytes.          *)

Roomy ==
  /\ \A d, e \in Dsos : NameOf[d] = NameOf[e] => d = e
  /\ IsFiniteSet(DsoNames)
  /\ Cardinality(DsoNames) <= HeaderCap

Loading == {"lock", "update", "guards"}

\* The header has a slot per name, and is what the memory holds: no count was
\* added to its bytes, since a guard that is used lies behind them.
HeaderSound ==
  /\ IsFiniteSet(DOMAIN hdr.map) /\ Len(hdr.vec) = Cardinality(DOMAIN hdr.map)
  /\ ~mapped => hdr = EmptyHeader
  /\ intact
  /\ \A t \in Threads : pc[t] = "store" => off[t] >= HEADER_SIZE

\* The thread that holds the lock has the header as it is.
LockInv ==
  \A t \in Threads : pc[t] = "update" => lock = t /\ mapped /\ mine[t] = hdr

\* One thread at a time loads an object; from the moment the object is in the
\* header until its guards are set, that thread knows its slot.
LoadInv ==
  /\ \A t, u \in Threads :
       pc[t] \in Loading /\ pc[u] \in Loading /\ cur[t] = cur[u] => t = u
  /\ \A t \in Threads : pc[t] = "guards" =>
       /\ NameOf[cur[t]] \in DOMAIN hdr.map
       /\ off[t] = SlotOf(hdr, NameOf[cur[t]]).offset
  /\ \A d \in Dsos : alive /\ NameOf[d] \in DOMAIN hdr.map =>
       d \in ready \/ \E t \in Threads : pc[t] = "guards" /\ cur[t] = d

CompleteInv == TypeInv /\ HeaderSound /\ LockInv /\ LoadInv /\ HeaderComplete

LEMMA CompleteInit == Init => CompleteInv
<1> SUFFICES ASSUME Init PROVE CompleteInv
  OBVIOUS
<1>1. TypeInv
  BY TypeInit
<1>2. DOMAIN hdr.map = {} /\ Len(hdr.vec) = 0
  BY DEF Init, EmptyHeader
<1>3. HeaderSound
  BY <1>2, FS_EmptySet DEF Init, HeaderSound
<1>4. LockInv /\ LoadInv /\ HeaderComplete
  BY <1>2 DEF Init, LockInv, LoadInv, HeaderComplete, Loading
<1> QED
  BY <1>1, <1>3, <1>4 DEF CompleteInv

\* A header with a slot per name decodes.
LEMMA RoomyDecodes ==
  ASSUME Roomy, NEW h, IsHeader(h), IsFiniteSet(DOMAIN h.map),
         Len(h.vec) = Cardinality(DOMAIN h.map)
  PROVE  HeaderDecodes(h)
<1>1. DOMAIN h.map \subseteq DsoNames
  BY DEF IsHeader
<1>2. Cardinality(DOMAIN h.map) <= Cardinality(DsoNames)
  BY <1>1, FS_Subset DEF Roomy
<1>3. Cardinality(DOMAIN h.map) \in Nat /\ Cardinality(DsoNames) \in Nat
  BY FS_CardinalityType DEF Roomy
<1> QED
  BY <1>2, <1>3, LayoutAssumption DEF Roomy, HeaderDecodes

\* The guards of an object that runs lie behind the header.
LEMMA GuardsBehindHeader ==
  ASSUME TypeInv, HeaderComplete, NEW d \in ready, NEW i \in GuardsOf(d)
  PROVE  guards[d][i] \in Nat /\ guards[d][i] >= HEADER_SIZE
<1>1. hdr.map[NameOf[d]] \in 1 .. Len(hdr.vec) /\ hdr.vec \in Seq(Slots)
  BY DEF TypeInv, Working, IsHeader, HeaderComplete
<1>2. hdr.vec[hdr.map[NameOf[d]]] \in Slots
  BY <1>1
<1>3. SlotOf(hdr, NameOf[d]).offset \in Nat
  BY <1>2 DEF SlotOf, Slots
<1>4. d \in Dsos /\ i \in Nat
  BY RuntimeAssumption DEF TypeInv, TypeOK, GuardsOf
<1>5. guards[d][i] = HEADER_SIZE + SlotOf(hdr, NameOf[d]).offset + i
  BY DEF HeaderComplete
<1> QED
  BY <1>3, <1>4, <1>5, LayoutAssumption

LEMMA CompleteNext ==
  ASSUME Roomy, CompleteInv, [Next]_vars
  PROVE  CompleteInv'
<1> USE RuntimeAssumption
<1>0. TypeOK /\ Working /\ HeaderSound /\ LockInv /\ LoadInv /\ HeaderComplete
  BY DEF CompleteInv, TypeInv
<1>d. Decodings = {hdr}
  BY RoomyDecodes DEF CompleteInv, TypeInv, Working, HeaderSound, Decodings
<1>t. TypeInv'
  BY TypeNext DEF CompleteInv
<1> SUFFICES (HeaderSound /\ LockInv /\ LoadInv /\ HeaderComplete)'
  BY <1>t DEF CompleteInv
<1>1. ASSUME NEW t \in Threads, NEW d \in Dsos, Enter(t, d)
      PROVE  (HeaderSound /\ LockInv /\ LoadInv /\ HeaderComplete)'
  <2> USE DEF Enter, Goto, headerVars
  <2>1. \A u \in Threads : /\ u # t => pc'[u] = pc[u] /\ cur'[u] = cur[u]
                           /\ pc'[t] = "lock" /\ cur'[t] = d
    BY <1>0, <1>1 DEF TypeOK
  <2>2. HeaderSound' /\ LockInv' /\ HeaderComplete'
    BY <1>0, <1>1, <2>1 DEF HeaderSound, LockInv, HeaderComplete, SlotOf
  <2>3. LoadInv'
    <3>1. \A u \in Threads : pc[u] \in Loading => cur[u] # d
      BY <1>1 DEF Loading
    <3> QED
      BY <1>0, <1>1, <2>1, <3>1 DEF LoadInv, Loading, SlotOf
  <2> QED
    BY <2>2, <2>3
<1>2. ASSUME NEW t \in Threads, ReadHeader(t)
      PROVE  (HeaderSound /\ LockInv /\ LoadInv /\ HeaderComplete)'
  <2> USE DEF ReadHeader, Goto
  <2>1. hdr' = hdr /\ intact' /\ mapped' /\ mine'[t] = hdr
    BY <1>0, <1>d, <1>2 DEF HeaderSound, Working, TypeOK
  <2>2. /\ pc[t] = "lock" /\ pc'[t] = "update"
        /\ \A u \in Threads : u # t => pc'[u] = pc[u] /\ mine'[u] = mine[u]
    BY <1>0, <1>2 DEF Working, TypeOK
  <2>3. UNCHANGED <<alive, ready, guards, cur, off>> /\ lock = Free /\ lock' = t
    BY <1>2 DEF CanLock
  <2>4. HeaderSound' /\ HeaderComplete'
    BY <1>0, <2>1, <2>2, <2>3 DEF HeaderSound, HeaderComplete, SlotOf
  <2>5. LockInv'
    BY <1>0, <2>1, <2>2, <2>3 DEF LockInv
  <2>6. LoadInv'
    BY <1>0, <2>1, <2>2, <2>3 DEF LoadInv, Loading, SlotOf
  <2> QED
    BY <2>4, <2>5, <2>6
<1>3. ASSUME NEW t \in Threads, Skip(t)
      PROVE  (HeaderSound /\ LockInv /\ LoadInv /\ HeaderComplete)'
  <2> USE DEF Skip, Goto, headerVars
  <2>1. /\ pc[t] = "update" /\ pc'[t] = "run" /\ cur'[t] = NoDso
        /\ \A u \in Threads : u # t => pc'[u] = pc[u] /\ cur'[u] = cur[u]
    BY <1>0, <1>3 DEF TypeOK
  <2>2. cur[t] \in Dsos /\ mine[t] = hdr /\ lock = t
    BY <1>0, <2>1 DEF Working, LockInv
  <2>3. cur[t] \in ready
    BY <1>0, <1>3, <2>1, <2>2 DEF LoadInv, Loading, Inserted
  <2>4. ready' = ready
    BY <1>3, <2>3
  <2>5. HeaderSound' /\ HeaderComplete'
    BY <1>0, <1>3, <2>1, <2>4 DEF HeaderSound, HeaderComplete, SlotOf
  <2>6. LockInv'
    BY <1>0, <1>3, <2>1, <2>2 DEF LockInv
  <2>7. LoadInv'
    BY <1>0, <1>3, <2>1, <2>4 DEF LoadInv, Loading, SlotOf
  <2> QED
    BY <2>5, <2>6, <2>7
<1>4. ASSUME NEW t \in Threads, UpdateHeader(t)
      PROVE  (HeaderSound /\ LockInv /\ LoadInv /\ HeaderComplete)'
  <2> DEFINE name == NameOf[cur[t]]
             new == PushDso(hdr, name, LenOf[cur[t]])
  <2>1. /\ pc[t] = "update" /\ pc'[t] = "guards" /\ UNCHANGED <<alive, ready, guards, cur, mapped>>
        /\ \A u \in Threads : u # t => pc'[u] = pc[u] /\ off'[u] = off[u]
    BY <1>0, <1>4 DEF TypeOK, UpdateHeader, Goto
  <2>2. cur[t] \in Dsos /\ mine[t] = hdr /\ lock = t /\ mapped /\ IsHeader(hdr)
    BY <1>0, <2>1 DEF Working, LockInv
  <2>3. name \in DsoNames \ DOMAIN hdr.map /\ LenOf[cur[t]] \in Nat
    BY <1>4, <2>2 DEF DsoNames, Inserted, UpdateHeader
  <2>4. /\ DOMAIN new.map = DOMAIN hdr.map \cup {name}
        /\ Len(new.vec) = Len(hdr.vec) + 1
        /\ SlotOf(new, name).offset = NextOffset(hdr)
        /\ \A n \in DOMAIN hdr.map : SlotOf(new, n) = SlotOf(hdr, n)
    BY <2>2, <2>3, PushHeader
  <2>5. hdr' = new /\ intact' /\ off'[t] = NextOffset(hdr) /\ lock' = Free
    BY <1>0, <1>4, <2>2 DEF UpdateHeader, TypeOK
  <2> HIDE DEF new
  <2>6. HeaderSound'
    <3>1. /\ IsFiniteSet(DOMAIN new.map)
          /\ Cardinality(DOMAIN new.map) = Cardinality(DOMAIN hdr.map) + 1
      <4>1. IsFiniteSet(DOMAIN hdr.map)
        BY <1>0 DEF HeaderSound
      <4>2. /\ IsFiniteSet(DOMAIN hdr.map \cup {name})
            /\ Cardinality(DOMAIN hdr.map \cup {name}) =
                 IF name \in DOMAIN hdr.map THEN Cardinality(DOMAIN hdr.map)
                                            ELSE Cardinality(DOMAIN hdr.map) + 1
        BY <4>1, FS_AddElement
      <4>3. DOMAIN new.map = DOMAIN hdr.map \cup {name} /\ name \notin DOMAIN hdr.map
        BY <2>3, <2>4
      <4> HIDE DEF name
      <4> QED
        BY <4>2, <4>3
    <3> QED
      BY <1>0, <2>1, <2>2, <2>4, <2>5, <3>1 DEF HeaderSound
  <2>7. LockInv'
    BY <1>0, <2>1, <2>2 DEF LockInv
  <2>8. LoadInv'
    <3>1. \A u, v \in Threads :
            pc'[u] \in Loading /\ pc'[v] \in Loading /\ cur'[u] = cur'[v] => u = v
      BY <1>0, <2>1 DEF LoadInv, Loading
    <3>2. \A u \in Threads : pc'[u] = "guards" =>
            /\ NameOf[cur'[u]] \in DOMAIN hdr'.map
            /\ off'[u] = SlotOf(hdr', NameOf[cur'[u]]).offset
      <4>1. \A u \in Threads : pc'[u] = "guards" /\ u # t =>
              /\ NameOf[cur[u]] \in DOMAIN hdr.map
              /\ off'[u] = SlotOf(hdr, NameOf[cur[u]]).offset
        BY <1>0, <2>1 DEF LoadInv
      <4> QED
        BY <2>1, <2>4, <2>5, <4>1
    <3>3. \A d \in Dsos : NameOf[d] = name => d = cur[t]
      BY <2>2 DEF Roomy
    <3>4. \A d \in Dsos : alive' /\ NameOf[d] \in DOMAIN hdr'.map =>
            d \in ready' \/ \E u \in Threads : pc'[u] = "guards" /\ cur'[u] = d
      BY <1>0, <2>1, <2>4, <2>5, <3>3 DEF LoadInv
    <3> QED
      BY <3>1, <3>2, <3>4 DEF LoadInv
  <2>9. HeaderComplete'
    <3> SUFFICES ASSUME NEW d \in ready
                 PROVE  /\ NameOf[d] \in DOMAIN hdr'.map
                        /\ SlotOf(hdr', NameOf[d]) = SlotOf(hdr, NameOf[d])
      BY <1>0, <2>1 DEF HeaderComplete
    <3>1. NameOf[d] \in DOMAIN hdr.map
      BY <1>0 DEF HeaderComplete
    <3> QED
      BY <2>4, <2>5, <3>1
  <2> QED
    BY <2>6, <2>7, <2>8, <2>9
<1>5. ASSUME NEW t \in Threads, SetGuards(t)
      PROVE  (HeaderSound /\ LockInv /\ LoadInv /\ HeaderComplete)'
  <2>1. /\ pc[t] = "guards" /\ pc'[t] = "run" /\ cur'[t] = NoDso
        /\ UNCHANGED <<hdr, intact, mapped, lock, mine, off>>
        /\ \A u \in Threads : u # t => pc'[u] = pc[u] /\ cur'[u] = cur[u]
    BY <1>0, <1>5 DEF TypeOK, SetGuards, Goto, headerVars
  <2>2. /\ cur[t] \in Dsos /\ NameOf[cur[t]] \in DOMAIN hdr.map
        /\ off[t] = SlotOf(hdr, NameOf[cur[t]]).offset /\ off[t] \in Nat
    BY <1>0, <2>1 DEF Working, LoadInv, TypeOK
  <2>3. HeaderSound' /\ LockInv'
    BY <1>0, <2>1 DEF HeaderSound, LockInv
  <2>4. \/ ~alive' /\ UNCHANGED <<guards, ready>>
        \/ /\ alive' = alive /\ ready' = ready \cup {cur[t]}
           /\ guards' = [guards EXCEPT ![cur[t]] = GuardsAt(cur[t], off[t])]
    BY <1>5 DEF SetGuards
  <2>5. HeaderComplete'
    <3>1. GuardsAt(cur[t], off[t]) =
            [i \in GuardsOf(cur[t]) |-> HEADER_SIZE + SlotOf(hdr, NameOf[cur[t]]).offset + i]
      BY <2>2, LayoutAssumption DEF GuardsAt, GuardValue, GuardsOf
    <3> QED
      BY <1>0, <2>1, <2>2, <2>4, <3>1 DEF HeaderComplete, TypeOK
  <2>6. LoadInv'
    <3>1. \A u, v \in Threads :
            pc'[u] \in Loading /\ pc'[v] \in Loading /\ cur'[u] = cur'[v] => u = v
      BY <1>0, <2>1 DEF LoadInv, Loading
    <3>2. \A u \in Threads : pc'[u] = "guards" =>
            /\ NameOf[cur'[u]] \in DOMAIN hdr'.map
            /\ off'[u] = SlotOf(hdr', NameOf[cur'[u]]).offset
      BY <1>0, <2>1 DEF LoadInv
    <3>3. \A d \in Dsos : alive' /\ NameOf[d] \in DOMAIN hdr'.map =>
            d \in ready' \/ \E u \in Threads : pc'[u] = "guards" /\ cur'[u] = d
      <4> SUFFICES ASSUME NEW d \in Dsos, alive', NameOf[d] \in DOMAIN hdr'.map, d \notin ready'
                   PROVE  \E u \in Threads : pc'[u] = "guards" /\ cur'[u] = d
        OBVIOUS
      <4>1. ready' = ready \cup {cur[t]} /\ NameOf[d] \in DOMAIN hdr.map /\ alive
        BY <1>5, <2>1, <2>4 DEF SetGuards
      <4>2. PICK u \in Threads : pc[u] = "guards" /\ cur[u] = d
        BY <1>0, <4>1 DEF LoadInv
      <4> QED
        BY <2>1, <4>1, <4>2
    <3> QED
      BY <3>1, <3>2, <3>3 DEF LoadInv
  <2> QED
    BY <2>3, <2>5, <2>6
<1>6. ASSUME NEW t \in Threads, NEW d \in Dsos, NEW i \in GuardsOf(d), TraceLoad(t, d, i)
      PROVE  (HeaderSound /\ LockInv /\ LoadInv /\ HeaderComplete)'
  <2>1. /\ pc[t] = "run" /\ pc'[t] = "store" /\ off'[t] = guards[d][i] /\ d \in ready
        /\ UNCHANGED <<alive, hdr, intact, mapped, lock, mine, guards, ready>>
        /\ \A u \in Threads : u # t => pc'[u] = pc[u] /\ cur'[u] = cur[u] /\ off'[u] = off[u]
    BY <1>0, <1>6 DEF TypeOK, TraceLoad, Goto, headerVars
  <2>2. HeaderSound'
    <3>1. off'[t] >= HEADER_SIZE
      BY <2>1, GuardsBehindHeader, <1>0 DEF CompleteInv
    <3> QED
      BY <1>0, <2>1, <3>1 DEF HeaderSound
  <2>3. LockInv' /\ HeaderComplete'
    BY <1>0, <2>1 DEF LockInv, HeaderComplete
  <2>4. LoadInv'
    BY <1>0, <2>1 DEF LoadInv, Loading
  <2> QED
    BY <2>2, <2>3, <2>4
<1>7. ASSUME NEW t \in Threads, TraceStore(t)
      PROVE  (HeaderSound /\ LockInv /\ LoadInv /\ HeaderComplete)'
  <2>1. /\ pc[t] = "store" /\ pc'[t] = "run"
        /\ UNCHANGED <<alive, hdr, mapped, lock, mine, off, guards, ready>>
        /\ intact' = (intact /\ off[t] >= HEADER_SIZE)
        /\ \A u \in Threads : u # t => pc'[u] = pc[u] /\ cur'[u] = cur[u]
    BY <1>0, <1>7 DEF TypeOK, TraceStore, Goto, CovOffset
  <2>2. HeaderSound'
    BY <1>0, <2>1 DEF HeaderSound
  <2>3. LockInv' /\ HeaderComplete'
    BY <1>0, <2>1 DEF LockInv, HeaderComplete
  <2>4. LoadInv'
    BY <1>0, <2>1 DEF LoadInv, Loading
  <2> QED
    BY <2>2, <2>3, <2>4
<1>8. CASE UNCHANGED vars
  BY <1>0, <1>8 DEF vars, HeaderSound, LockInv, LoadInv, HeaderComplete, SlotOf
<1> QED
  BY <1>1, <1>2, <1>3, <1>4, <1>5, <1>6, <1>7, <1>8 DEF Next, CompleteInv

\* The header is complete (guard_init, "lock for header completeness"): no
\* insertion is lost, and every object that runs counts in the bytes of its
\* slot, however many threads load objects at once.
THEOREM HeaderCorrect ==
  ASSUME Roomy
  PROVE  Spec => []HeaderComplete
<1>1. CompleteInv /\ [Next]_vars => CompleteInv'
  BY CompleteNext
<1>2. CompleteInv => HeaderComplete
  BY DEF CompleteInv
<1> QED
  BY <1>1, <1>2, CompleteInit, PTL DEF Spec

\* What a thread does leaves the guards of an object that runs alone: only
\* SetGuards writes guards, and to an object that runs it could only write the
\* values it has.
LEMMA GuardsStay ==
  ASSUME CompleteInv, Next
  PROVE  \A d \in ready : guards'[d] = guards[d]
<1> TAKE d \in ready
<1>0. TypeOK /\ Working /\ LoadInv /\ HeaderComplete
  BY DEF CompleteInv, TypeInv
<1>1. ASSUME NEW t \in Threads, SetGuards(t) PROVE guards'[d] = guards[d]
  <2>1. cur[t] \in Dsos /\ off[t] = SlotOf(hdr, NameOf[cur[t]]).offset /\ off[t] \in Nat
    BY <1>0, <1>1 DEF SetGuards, Working, LoadInv, TypeOK
  <2>2. CASE d = cur[t]
    <3>1. \A i \in GuardsOf(d) : off[t] + HEADER_SIZE + i = HEADER_SIZE + off[t] + i
      BY <2>1, <2>2, LayoutAssumption, RuntimeAssumption DEF GuardsOf
    <3>2. guards[d] = [i \in GuardsOf(d) |-> HEADER_SIZE + off[t] + i]
      BY <1>0, <2>1, <2>2 DEF HeaderComplete
    <3>3. GuardsAt(d, off[t]) = guards[d]
      BY <3>1, <3>2 DEF GuardsAt, GuardValue
    <3> QED
      BY <1>0, <1>1, <2>2, <3>3 DEF SetGuards, TypeOK
  <2>3. CASE d # cur[t]
    BY <1>0, <1>1, <2>3 DEF SetGuards, TypeOK
  <2> QED
    BY <2>2, <2>3
<1>2. ASSUME NEW t \in Threads, ~SetGuards(t),
             \/ \E e \in Dsos : Enter(t, e)
             \/ ReadHeader(t) \/ Skip(t) \/ UpdateHeader(t)
             \/ \E e \in Dsos : \E i \in GuardsOf(e) : TraceLoad(t, e, i)
             \/ TraceStore(t)
      PROVE  guards'[d] = guards[d]
  BY <1>2 DEF Enter, ReadHeader, Skip, UpdateHeader, TraceLoad, TraceStore
<1> QED
  BY <1>1, <1>2 DEF Next

\* An initialised object stays initialised: no later call of guard_init moves
\* the counters the process is already counting in.
THEOREM StableGuardsCorrect ==
  ASSUME Roomy
  PROVE  Spec => StableGuards
<1>1. CompleteInv /\ [Next]_vars => CompleteInv'
  BY CompleteNext
<1>2. CompleteInv /\ [Next]_vars => [\A d \in ready : guards'[d] = guards[d]]_vars
  BY GuardsStay
<1> QED
  BY <1>1, <1>2, CompleteInit, PTL DEF Spec, StableGuards

-----------------------------------------------------------------------------
(* The counters.                                                            *)

Slot(d) == SlotOf(hdr, NameOf[d])
InHeader == {d \in Dsos : NameOf[d] \in DOMAIN hdr.map}

\* The slots have the lengths of their objects and do not overlap: each starts
\* where those before it have ended.
SlotsInv ==
  /\ \A d \in InHeader : Slot(d).size = LenOf[d] /\ Slot(d).offset + LenOf[d] <= NextOffset(hdr)
  /\ \A d, e \in InHeader : d # e =>
       \/ Slot(d).offset + LenOf[d] <= Slot(e).offset
       \/ Slot(e).offset + LenOf[e] <= Slot(d).offset

\* Only guards of objects that run have been counted, each at its own byte;
\* what a thread is about to write back is a count not greater than the true one.
CountInv ==
  /\ DOMAIN hits = Dsos /\ \A d \in Dsos : hits[d] \in [GuardsOf(d) -> Nat]
  /\ \A t \in Threads : pc[t] = "guards" => cur[t] \notin ready
  /\ \A d \in Dsos \ ready : \A i \in GuardsOf(d) : hits[d][i] = 0
  /\ \A a \in Addresses : shm[a] # 0 =>
       \E d \in ready : \E i \in GuardsOf(d) : guards[d][i] = a
  /\ \A t \in Threads : pc[t] = "store" => cur[t] \in ready
  /\ \A t \in Threads : pc[t] = "store" =>
       \E i \in GuardsOf(cur[t]) :
         /\ off[t] = guards[cur[t]][i]
         /\ hits[cur[t]][i] < ByteSize => reg[t] < hits[cur[t]][i]
  /\ \A d \in ready : \A i \in GuardsOf(d) : hits[d][i] < ByteSize =>
       /\ shm[guards[d][i]] <= hits[d][i]
       /\ hits[d][i] > 0 /\ ~InFlight(d, i) => shm[guards[d][i]] # 0

FaithfulInv == CompleteInv /\ SlotsInv /\ CountInv

LEMMA SlotType ==
  ASSUME IsHeader(hdr), NEW d \in InHeader
  PROVE  Slot(d).offset \in Nat /\ LenOf[d] \in Nat
<1>1. hdr.map[NameOf[d]] \in 1 .. Len(hdr.vec) /\ hdr.vec \in Seq(Slots)
  BY DEF IsHeader, InHeader
<1>2. hdr.vec[hdr.map[NameOf[d]]] \in Slots
  BY <1>1
<1> QED
  BY <1>2, RuntimeAssumption DEF Slot, SlotOf, Slots, InHeader

\* Two guards of objects that run have different bytes.
LEMMA GuardsDistinct ==
  ASSUME CompleteInv, SlotsInv,
         NEW d \in ready, NEW i \in GuardsOf(d), NEW e \in ready, NEW j \in GuardsOf(e),
         guards[d][i] = guards[e][j]
  PROVE  d = e /\ i = j
<1>1. d \in InHeader /\ e \in InHeader /\ IsHeader(hdr)
  BY DEF CompleteInv, TypeInv, TypeOK, Working, HeaderComplete, InHeader
<1>2. /\ Slot(d).offset \in Nat /\ LenOf[d] \in Nat
      /\ Slot(e).offset \in Nat /\ LenOf[e] \in Nat
  BY <1>1, SlotType
<1>3. /\ guards[d][i] = HEADER_SIZE + Slot(d).offset + i
      /\ guards[e][j] = HEADER_SIZE + Slot(e).offset + j
  BY DEF CompleteInv, HeaderComplete, Slot
<1>4. i \in 0 .. LenOf[d] - 1 /\ j \in 0 .. LenOf[e] - 1 /\ HEADER_SIZE \in Nat
  BY LayoutAssumption DEF GuardsOf
<1>5. d # e => \/ Slot(d).offset + LenOf[d] <= Slot(e).offset
               \/ Slot(e).offset + LenOf[e] <= Slot(d).offset
  BY <1>1 DEF SlotsInv
<1>6. Slot(d).offset + i = Slot(e).offset + j
  <2>1. i \in Nat /\ j \in Nat
    BY <1>2, <1>4
  <2>2. \A h, a, b, k, l \in Nat : h + a + k = h + b + l => a + k = b + l
    OBVIOUS
  <2>3. HEADER_SIZE + Slot(d).offset + i = HEADER_SIZE + Slot(e).offset + j
    BY <1>3
  <2> QED
    BY <1>2, <1>4, <2>1, <2>2, <2>3
<1>7. d = e
  BY <1>2, <1>4, <1>5, <1>6
<1> QED
  BY <1>2, <1>4, <1>6, <1>7

LEMMA FaithfulInit == Init => FaithfulInv
<1> SUFFICES ASSUME Init PROVE FaithfulInv
  OBVIOUS
<1>1. InHeader = {}
  BY DEF Init, InHeader, EmptyHeader
<1>2. SlotsInv
  BY <1>1 DEF SlotsInv
<1>3. \A d \in Dsos : hits[d] \in [GuardsOf(d) -> Nat]
  BY DEF Init
<1>4. CountInv
  BY <1>3, RuntimeAssumption DEF Init, CountInv
<1> QED
  BY <1>2, <1>4, CompleteInit DEF FaithfulInv

LEMMA FaithfulImplies == FaithfulInv => CountersFaithful
<1> SUFFICES ASSUME FaithfulInv, NEW d \in ready, NEW i \in GuardsOf(d)
             PROVE  /\ hits[d][i] = 0 => shm[guards[d][i]] = 0
                    /\ hits[d][i] \in 1 .. ByteSize - 1 /\ ~InFlight(d, i) =>
                         shm[guards[d][i]] # 0
  BY DEF CountersFaithful, CovOffset
<1>1. /\ ByteSize \in Nat /\ ByteSize > 1 /\ d \in Dsos
      /\ hits[d] \in [GuardsOf(d) -> Nat]
  BY RuntimeAssumption DEF FaithfulInv, CompleteInv, TypeInv, TypeOK, CountInv
<1>2. guards[d][i] \in Addresses
  <2>1. guards[d][i] \in {0} \cup HEADER_SIZE .. MAXSIZE - 1
    BY <1>1 DEF FaithfulInv, CompleteInv, TypeInv, TypeOK
  <2> QED
    BY <2>1, LayoutAssumption DEF Addresses
<1>3. shm[guards[d][i]] \in 0 .. ByteSize - 1
  BY <1>2 DEF FaithfulInv, CompleteInv, TypeInv, TypeOK
<1>4. hits[d][i] < ByteSize =>
        /\ shm[guards[d][i]] <= hits[d][i]
        /\ hits[d][i] > 0 /\ ~InFlight(d, i) => shm[guards[d][i]] # 0
  BY DEF FaithfulInv, CountInv
<1> QED
  BY <1>1, <1>3, <1>4

\* A new slot lies behind all others.
LEMMA SlotsNext ==
  ASSUME Roomy, FaithfulInv, [Next]_vars
  PROVE  SlotsInv'
<1>0. TypeOK /\ Working /\ HeaderSound /\ LockInv /\ SlotsInv /\ Decodings = {hdr}
  BY RoomyDecodes
     DEF FaithfulInv, CompleteInv, TypeInv, Working, HeaderSound, Decodings
<1>1. CASE hdr' = hdr
  BY <1>0, <1>1 DEF SlotsInv, InHeader, Slot
<1>2. ASSUME NEW t \in Threads, UpdateHeader(t) PROVE SlotsInv'
  <2> DEFINE name == NameOf[cur[t]]
             new == PushDso(hdr, name, LenOf[cur[t]])
  <2>1. cur[t] \in Dsos /\ mine[t] = hdr /\ IsHeader(hdr)
    BY <1>0, <1>2 DEF Working, LockInv, UpdateHeader
  <2>2. name \in DsoNames \ DOMAIN hdr.map /\ LenOf[cur[t]] \in Nat
    BY <1>2, <2>1, RuntimeAssumption DEF DsoNames, Inserted, UpdateHeader
  <2>3. /\ DOMAIN new.map = DOMAIN hdr.map \cup {name}
        /\ SlotOf(new, name).offset = NextOffset(hdr)
        /\ SlotOf(new, name).size = LenOf[cur[t]]
        /\ NextOffset(new) = NextOffset(hdr) + LenOf[cur[t]]
        /\ \A n \in DOMAIN hdr.map : SlotOf(new, n) = SlotOf(hdr, n)
    BY <2>1, <2>2, PushHeader
  <2>4. hdr' = new /\ NextOffset(hdr) \in Nat
    BY <1>2, <2>1, NextOffsetType DEF UpdateHeader
  <2> HIDE DEF new
  <2>5. InHeader' = InHeader \cup {cur[t]} /\ cur[t] \notin InHeader
    BY <2>1, <2>2, <2>3, <2>4 DEF InHeader, Roomy
  <2>6. \A d \in InHeader : Slot(d)' = Slot(d)
    BY <2>3, <2>4 DEF InHeader, Slot
  <2>7. ASSUME NEW d \in {cur[t]}
        PROVE  /\ Slot(d)'.offset = NextOffset(hdr)
               /\ Slot(d)'.size = LenOf[d]
    BY <2>3, <2>4 DEF Slot
  <2>8. \A d \in InHeader : /\ Slot(d).offset \in Nat /\ LenOf[d] \in Nat
                            /\ Slot(d).size = LenOf[d]
                            /\ Slot(d).offset + LenOf[d] <= NextOffset(hdr)
    BY <1>0, <2>1, SlotType DEF SlotsInv
  <2>9. SlotsInv'
    <3>1. NextOffset(hdr') = NextOffset(hdr) + LenOf[cur[t]]
      BY <2>3, <2>4
    <3>2. \A d \in InHeader' : /\ Slot(d)'.size = LenOf[d]
                               /\ Slot(d)'.offset + LenOf[d] <= NextOffset(hdr')
      BY <2>2, <2>4, <2>5, <2>6, <2>7, <2>8, <3>1
    <3>3. \A d, e \in InHeader' : d # e =>
            \/ Slot(d)'.offset + LenOf[d] <= Slot(e)'.offset
            \/ Slot(e)'.offset + LenOf[e] <= Slot(d)'.offset
      BY <1>0, <2>5, <2>6, <2>7, <2>8 DEF SlotsInv
    <3> QED
      BY <3>2, <3>3 DEF SlotsInv
  <2> QED
    BY <2>9
<1>3. ASSUME NEW t \in Threads, ReadHeader(t) PROVE hdr' = hdr
  BY <1>0, <1>3 DEF ReadHeader
<1>4. ASSUME NEW t \in Threads,
             \/ \E d \in Dsos : Enter(t, d)
             \/ Skip(t) \/ SetGuards(t)
             \/ \E d \in Dsos : \E i \in GuardsOf(d) : TraceLoad(t, d, i)
             \/ TraceStore(t)
      PROVE  hdr' = hdr
  BY <1>4 DEF Enter, Skip, SetGuards, TraceLoad, TraceStore, headerVars
<1>5. CASE UNCHANGED vars
  BY <1>1, <1>5 DEF vars
<1> QED
  BY <1>1, <1>2, <1>3, <1>4, <1>5 DEF Next

\* Steps that neither count nor load leave the counts as they are.
LEMMA CountStay ==
  ASSUME CountInv, UNCHANGED <<shm, guards, ready, hits, off, reg>>,
         \A t \in Threads : pc[t] = "store" <=> pc'[t] = "store",
         \A t \in Threads : pc'[t] = "guards" => cur'[t] \notin ready,
         \A t \in Threads : pc[t] = "store" => cur'[t] = cur[t]
  PROVE  CountInv'
<1>1. \A d \in ready : \A i \in GuardsOf(d) : InFlight(d, i)' <=> InFlight(d, i)
  BY DEF InFlight
<1> QED
  BY <1>1 DEF CountInv

\* An object whose guards are set has bytes that nobody counted in.
LEMMA CountSetGuards ==
  ASSUME FaithfulInv, CompleteInv', SlotsInv', NEW t \in Threads, SetGuards(t)
  PROVE  CountInv'
<1> DEFINE e == cur[t]
<1>0. TypeOK /\ Working /\ LoadInv /\ CountInv /\ HeaderComplete
  BY DEF FaithfulInv, CompleteInv, TypeInv
<1>1. /\ pc[t] = "guards" /\ pc'[t] = "run"
      /\ UNCHANGED <<hdr, shm, hits, off, reg>>
      /\ \A u \in Threads : u # t => pc'[u] = pc[u] /\ cur'[u] = cur[u]
  BY <1>0 DEF SetGuards, Goto, headerVars, TypeOK
<1>2. e \in Dsos /\ e \notin ready
  BY <1>0, <1>1 DEF Working, CountInv
<1>3. CASE UNCHANGED <<guards, ready>>
  <2>1. \A u \in Threads : pc'[u] = "guards" => cur'[u] \notin ready
    BY <1>0, <1>1 DEF CountInv
  <2> QED
    BY <1>0, <1>1, <1>3, <2>1, CountStay
<1>4. CASE ready' = ready \cup {e} /\ guards' = [guards EXCEPT ![e] = GuardsAt(e, off[t])]
  <2>1. /\ guards'[e] = GuardsAt(e, off[t]) /\ e \in InHeader /\ e \in ready'
        /\ \A d \in ready : guards'[d] = guards[d] /\ d # e
    BY <1>0, <1>1, <1>2, <1>4 DEF LoadInv, InHeader, TypeOK
  <2>2. ASSUME NEW d \in ready, NEW j \in GuardsOf(d), NEW i \in GuardsOf(e)
        PROVE  guards'[e][i] # guards[d][j]
    <3>1. d \in ready' /\ d # e /\ guards'[d][j] = guards[d][j]
      BY <1>4, <2>1
    <3>2. d \in InHeader /\ IsHeader(hdr)
      BY <1>0 DEF HeaderComplete, InHeader, TypeOK, Working
    <3>3. /\ Slot(d).offset \in Nat /\ LenOf[d] \in Nat
          /\ Slot(e).offset \in Nat /\ LenOf[e] \in Nat
      BY <2>1, <3>2, SlotType
    <3>4. \/ Slot(d).offset + LenOf[d] <= Slot(e).offset
          \/ Slot(e).offset + LenOf[e] <= Slot(d).offset
      BY <2>1, <3>1, <3>2 DEF FaithfulInv, SlotsInv
    <3>5. /\ guards[d][j] = HEADER_SIZE + Slot(d).offset + j
          /\ guards'[e][i] = Slot(e).offset + HEADER_SIZE + i
      <4>1. guards[d] = [k \in GuardsOf(d) |-> HEADER_SIZE + Slot(d).offset + k]
        BY <1>0 DEF HeaderComplete, Slot
      <4>2. off[t] = Slot(e).offset
        BY <1>0, <1>1 DEF LoadInv, Slot
      <4>3. guards'[e] = [k \in GuardsOf(e) |-> off[t] + HEADER_SIZE + k]
        BY <2>1 DEF GuardsAt, GuardValue
      <4> HIDE DEF e
      <4> QED
        BY <4>1, <4>2, <4>3
    <3>6. i \in 0 .. LenOf[e] - 1 /\ j \in 0 .. LenOf[d] - 1 /\ HEADER_SIZE \in Nat
      BY LayoutAssumption DEF GuardsOf
    <3>7. \A h, a, b, m, n, k, l \in Nat :
            k < m /\ l < n /\ (a + m <= b \/ b + n <= a) => b + h + l # h + a + k
      OBVIOUS
    <3>8. i \in Nat /\ j \in Nat /\ i < LenOf[e] /\ j < LenOf[d]
      BY <3>3, <3>6
    <3> QED
      BY <3>3, <3>4, <3>5, <3>6, <3>7, <3>8
  <2>3. \A i \in GuardsOf(e) : hits[e][i] = 0 /\ shm[guards'[e][i]] = 0
    <3> TAKE i \in GuardsOf(e)
    <3>1. guards'[e][i] \in {0} \cup HEADER_SIZE .. MAXSIZE - 1
      BY <1>2 DEF CompleteInv, TypeInv, TypeOK
    <3>2. guards'[e][i] \in Addresses
      BY <3>1, LayoutAssumption DEF Addresses
    <3> QED
      BY <1>0, <1>2, <2>2, <3>2 DEF CountInv
  <2>4. \A u \in Threads : pc'[u] = "guards" => cur'[u] \notin ready'
    BY <1>0, <1>1, <1>4 DEF CountInv, LoadInv, Loading
  <2>5. \A d \in ready : \A i \in GuardsOf(d) : InFlight(d, i) => InFlight(d, i)'
    BY <1>1, <2>1 DEF InFlight
  <2>6. \A u \in Threads : pc'[u] = "store" =>
          /\ cur'[u] \in ready'
          /\ \E i \in GuardsOf(cur'[u]) :
               /\ off'[u] = guards'[cur'[u]][i]
               /\ hits'[cur'[u]][i] < ByteSize => reg'[u] < hits'[cur'[u]][i]
    <3> TAKE u \in Threads
    <3> HAVE pc'[u] = "store"
    <3>1. pc[u] = "store" /\ cur'[u] = cur[u] /\ cur[u] \in ready
      BY <1>0, <1>1 DEF CountInv
    <3> QED
      BY <1>0, <1>1, <1>4, <2>1, <3>1 DEF CountInv
  <2>7. \A a \in Addresses : shm'[a] # 0 =>
          \E d \in ready' : \E i \in GuardsOf(d) : guards'[d][i] = a
    BY <1>0, <1>1, <1>4, <2>1 DEF CountInv
  <2>8. \A d \in ready' : \A i \in GuardsOf(d) : hits'[d][i] < ByteSize =>
          /\ shm'[guards'[d][i]] <= hits'[d][i]
          /\ hits'[d][i] > 0 /\ ~InFlight(d, i)' => shm'[guards'[d][i]] # 0
    <3>1. ASSUME NEW d \in ready, NEW i \in GuardsOf(d), hits[d][i] < ByteSize
          PROVE  /\ shm'[guards'[d][i]] <= hits'[d][i]
                 /\ hits'[d][i] > 0 /\ ~InFlight(d, i)' => shm'[guards'[d][i]] # 0
      BY <1>0, <1>1, <2>1, <2>5, <3>1 DEF CountInv
    <3>2. ASSUME NEW i \in GuardsOf(e)
          PROVE  shm'[guards'[e][i]] = 0 /\ hits'[e][i] = 0
      BY <1>1, <2>3
    <3> QED
      BY <1>1, <1>4, <3>1, <3>2
  <2> QED
    BY <1>0, <1>1, <1>4, <2>4, <2>6, <2>7, <2>8 DEF CountInv
<1> QED
  BY <1>3, <1>4 DEF SetGuards

\* A count begins: one more execution, one more thread about to write.
LEMMA CountLoad ==
  ASSUME FaithfulInv, NEW t \in Threads, NEW d \in Dsos, NEW i \in GuardsOf(d),
         TraceLoad(t, d, i)
  PROVE  CountInv'
<1>0. TypeOK /\ CountInv
  BY DEF FaithfulInv, CompleteInv, TypeInv
<1>1. /\ pc[t] = "run" /\ pc'[t] = "store" /\ cur'[t] = d /\ d \in ready
      /\ off'[t] = guards[d][i] /\ reg'[t] = shm[guards[d][i]]
      /\ UNCHANGED <<shm, guards, ready>>
      /\ \A u \in Threads : u # t => /\ pc'[u] = pc[u] /\ cur'[u] = cur[u]
                                     /\ off'[u] = off[u] /\ reg'[u] = reg[u]
  BY <1>0 DEF TraceLoad, Goto, CovOffset, TypeOK
<1>2. DOMAIN hits' = Dsos /\ \A e \in Dsos : hits'[e] \in [GuardsOf(e) -> Nat]
  BY <1>0 DEF TraceLoad, CountInv
<1>3. /\ hits'[d][i] = hits[d][i] + 1 /\ hits[d][i] \in Nat
      /\ \A e \in Dsos : \A j \in GuardsOf(e) : e # d \/ j # i => hits'[e][j] = hits[e][j]
  BY <1>0 DEF TraceLoad, CountInv
<1>4. ByteSize \in Nat
  BY RuntimeAssumption
<1>5. \A u \in Threads : pc'[u] = "guards" => cur'[u] \notin ready'
  BY <1>0, <1>1 DEF CountInv
<1>6. \A e \in Dsos \ ready' : \A j \in GuardsOf(e) : hits'[e][j] = 0
  BY <1>0, <1>1, <1>3 DEF CountInv
<1>7. ASSUME NEW u \in Threads, pc'[u] = "store"
      PROVE  /\ cur'[u] \in ready'
             /\ \E j \in GuardsOf(cur'[u]) :
                  /\ off'[u] = guards'[cur'[u]][j]
                  /\ hits'[cur'[u]][j] < ByteSize => reg'[u] < hits'[cur'[u]][j]
  <2>1. CASE u = t
    <3>1. hits'[d][i] < ByteSize => shm[guards[d][i]] <= hits[d][i]
      BY <1>0, <1>1, <1>3, <1>4 DEF CountInv
    <3>2. guards[d][i] \in Addresses
      <4>1. guards[d][i] \in {0} \cup HEADER_SIZE .. MAXSIZE - 1
        BY <1>0 DEF TypeOK
      <4> QED
        BY <4>1, LayoutAssumption DEF Addresses
    <3>3. shm[guards[d][i]] \in Nat
      BY <1>0, <3>2, RuntimeAssumption DEF TypeOK
    <3>4. hits'[d][i] < ByteSize => shm[guards[d][i]] < hits'[d][i]
      BY <1>3, <3>1, <3>3
    <3> QED
      BY <1>1, <2>1, <3>4
  <2>2. CASE u # t
    <3>1. pc[u] = "store" /\ cur'[u] = cur[u] /\ cur[u] \in ready /\ cur[u] \in Dsos
      BY <1>0, <1>1, <1>7, <2>2 DEF CountInv, TypeOK
    <3>2. PICK j \in GuardsOf(cur[u]) :
            /\ off[u] = guards[cur[u]][j]
            /\ hits[cur[u]][j] < ByteSize => reg[u] < hits[cur[u]][j]
      BY <1>0, <3>1 DEF CountInv
    <3>3. reg[u] \in Nat
      BY <1>0, RuntimeAssumption DEF TypeOK
    <3>4. hits'[cur[u]][j] < ByteSize => reg[u] < hits'[cur[u]][j]
      <4>1. CASE cur[u] = d /\ j = i
        BY <1>3, <1>4, <3>2, <3>3, <4>1
      <4>2. CASE cur[u] # d \/ j # i
        BY <1>3, <3>1, <3>2, <4>2
      <4> QED
        BY <4>1, <4>2
    <3> QED
      BY <1>1, <2>2, <3>1, <3>2, <3>4
  <2> QED
    BY <2>1, <2>2
<1>8. ASSUME NEW e \in ready, NEW j \in GuardsOf(e), hits'[e][j] < ByteSize
      PROVE  /\ shm[guards[e][j]] <= hits'[e][j]
             /\ hits'[e][j] > 0 /\ ~InFlight(e, j)' => shm[guards[e][j]] # 0
  <2>1. e \in Dsos
    BY <1>0 DEF TypeOK
  <2>2. CASE e = d /\ j = i
    <3>1. InFlight(e, j)'
      BY <1>1, <2>2 DEF InFlight
    <3>2. shm[guards[e][j]] <= hits[e][j]
      BY <1>0, <1>3, <1>4, <1>8, <2>2 DEF CountInv
    <3>3. shm[guards[e][j]] \in Nat
      <4>1. guards[d][i] \in {0} \cup HEADER_SIZE .. MAXSIZE - 1
        BY <1>0 DEF TypeOK
      <4>2. guards[d][i] \in Addresses
        BY <4>1, LayoutAssumption DEF Addresses
      <4> QED
        BY <1>0, <2>2, <4>2, RuntimeAssumption DEF TypeOK
    <3> QED
      BY <1>3, <2>2, <3>1, <3>2, <3>3
  <2>3. CASE e # d \/ j # i
    <3>1. InFlight(e, j) => InFlight(e, j)'
      BY <1>1 DEF InFlight
    <3> QED
      BY <1>0, <1>3, <1>8, <2>1, <2>3, <3>1 DEF CountInv
  <2> QED
    BY <2>2, <2>3
<1> QED
  BY <1>0, <1>1, <1>2, <1>5, <1>6, <1>7, <1>8 DEF CountInv

\* A count ends: it is not 0, since it does not wrap before ByteSize counts.
LEMMA CountStore ==
  ASSUME FaithfulInv, NEW t \in Threads, TraceStore(t)
  PROVE  CountInv'
<1>0. TypeOK /\ CountInv
  BY DEF FaithfulInv, CompleteInv, TypeInv
<1> DEFINE d == cur[t]
<1>1. /\ pc[t] = "store" /\ pc'[t] = "run"
      /\ UNCHANGED <<guards, ready, off, reg, hits>>
      /\ \A u \in Threads : u # t => pc'[u] = pc[u] /\ cur'[u] = cur[u]
  BY <1>0 DEF TraceStore, Goto, TypeOK
<1>2. d \in ready /\ d \in Dsos
  BY <1>0, <1>1 DEF CountInv, TypeOK
<1>3. PICK i \in GuardsOf(d) :
        /\ off[t] = guards[d][i]
        /\ hits[d][i] < ByteSize => reg[t] < hits[d][i]
  BY <1>0, <1>1 DEF CountInv
<1>4. /\ guards[d][i] \in Addresses
      /\ shm' = [shm EXCEPT ![guards[d][i]] = (reg[t] + 1) % ByteSize]
  <2>1. guards[d][i] \in {0} \cup HEADER_SIZE .. MAXSIZE - 1
    BY <1>0, <1>2 DEF TypeOK
  <2>2. guards[d][i] \in Addresses
    BY <2>1, LayoutAssumption DEF Addresses
  <2> QED
    BY <1>3, <2>2 DEF TraceStore, CovOffset
<1>5. /\ shm'[guards[d][i]] = (reg[t] + 1) % ByteSize
      /\ \A a \in Addresses : a # guards[d][i] => shm'[a] = shm[a]
  <2>1. DOMAIN shm = Addresses
    BY <1>0 DEF TypeOK
  <2> QED
    BY <1>4, <2>1
<1>6. hits[d][i] < ByteSize => shm'[guards[d][i]] \in 1 .. hits[d][i]
  <2>1. reg[t] \in Nat /\ hits[d][i] \in Nat /\ ByteSize \in Nat \ {0}
    BY <1>0, <1>2, RuntimeAssumption DEF TypeOK, CountInv
  <2>2. \A r \in Nat, b \in Nat \ {0} : r + 1 < b => (r + 1) % b = r + 1
    OBVIOUS
  <2>3. hits[d][i] < ByteSize => (reg[t] + 1) % ByteSize = reg[t] + 1 /\ reg[t] < hits[d][i]
    BY <1>3, <2>1, <2>2
  <2> QED
    BY <1>5, <2>1, <2>3
<1>7. \A a \in Addresses : shm'[a] # 0 =>
        \E e \in ready' : \E j \in GuardsOf(e) : guards'[e][j] = a
  BY <1>0, <1>1, <1>2, <1>5 DEF CountInv
<1>8. \A u \in Threads : pc'[u] = "guards" => cur'[u] \notin ready'
  BY <1>0, <1>1 DEF CountInv
<1>9. ASSUME NEW u \in Threads, pc'[u] = "store"
      PROVE  /\ cur'[u] \in ready'
             /\ \E j \in GuardsOf(cur'[u]) :
                  /\ off'[u] = guards'[cur'[u]][j]
                  /\ hits'[cur'[u]][j] < ByteSize => reg'[u] < hits'[cur'[u]][j]
  BY <1>0, <1>1, <1>9 DEF CountInv
<1>10. ASSUME NEW e \in ready, NEW j \in GuardsOf(e), hits[e][j] < ByteSize
       PROVE  /\ shm'[guards[e][j]] <= hits[e][j]
              /\ hits[e][j] > 0 /\ ~InFlight(e, j)' => shm'[guards[e][j]] # 0
  <2>1. e \in Dsos /\ hits[e][j] \in Nat
    BY <1>0 DEF TypeOK, CountInv
  <2>2. CASE e = d /\ j = i
    BY <1>6, <1>10, <2>1, <2>2
  <2>3. CASE ~(e = d /\ j = i)
    <3>1. guards[e][j] # guards[d][i]
      BY <1>2, <2>3, GuardsDistinct DEF FaithfulInv
    <3>2. guards[e][j] \in Addresses
      <4>1. guards[e][j] \in {0} \cup HEADER_SIZE .. MAXSIZE - 1
        BY <1>0, <2>1 DEF TypeOK
      <4> QED
        BY <4>1, LayoutAssumption DEF Addresses
    <3>3. InFlight(e, j) => InFlight(e, j)'
      <4>1. ASSUME NEW u \in Threads, pc[u] = "store", cur[u] = e, off[u] = guards[e][j]
            PROVE  u # t
        BY <1>3, <3>1, <4>1
      <4> QED
        BY <1>1, <4>1 DEF InFlight
    <3> QED
      BY <1>0, <1>5, <1>10, <3>1, <3>2, <3>3 DEF CountInv
  <2> QED
    BY <2>2, <2>3
<1> QED
  BY <1>0, <1>1, <1>7, <1>8, <1>9, <1>10 DEF CountInv

LEMMA FaithfulNext ==
  ASSUME Roomy, FaithfulInv, [Next]_vars
  PROVE  FaithfulInv'
<1>0. TypeOK /\ Working /\ HeaderSound /\ LockInv /\ LoadInv /\ HeaderComplete /\ CountInv
  BY DEF FaithfulInv, CompleteInv, TypeInv
<1>n. CompleteInv' /\ SlotsInv'
  BY CompleteNext, SlotsNext DEF FaithfulInv
<1> SUFFICES CountInv'
  BY <1>n DEF FaithfulInv
<1>1. ASSUME NEW t \in Threads, NEW d \in Dsos, Enter(t, d) PROVE CountInv'
  <2>1. /\ UNCHANGED <<shm, guards, ready, hits, off, reg>>
        /\ pc[t] = "run" /\ pc'[t] = "lock"
        /\ \A u \in Threads : u # t => pc'[u] = pc[u] /\ cur'[u] = cur[u]
    BY <1>0, <1>1 DEF Enter, Goto, TypeOK
  <2>2. /\ \A u \in Threads : pc[u] = "store" <=> pc'[u] = "store"
        /\ \A u \in Threads : pc'[u] = "guards" => cur'[u] \notin ready
        /\ \A u \in Threads : pc[u] = "store" => cur'[u] = cur[u]
    BY <1>0, <2>1 DEF CountInv
  <2> QED
    BY <1>0, <2>1, <2>2, CountStay
<1>2. ASSUME NEW t \in Threads, ReadHeader(t) PROVE CountInv'
  <2>1. /\ UNCHANGED <<shm, guards, ready, hits, off, reg, cur>>
        /\ pc[t] = "lock" /\ pc'[t] = "update"
        /\ \A u \in Threads : u # t => pc'[u] = pc[u]
    BY <1>0, <1>2 DEF ReadHeader, Goto, TypeOK
  <2>2. /\ \A u \in Threads : pc[u] = "store" <=> pc'[u] = "store"
        /\ \A u \in Threads : pc'[u] = "guards" => cur'[u] \notin ready
        /\ \A u \in Threads : pc[u] = "store" => cur'[u] = cur[u]
    BY <1>0, <2>1 DEF CountInv
  <2> QED
    BY <1>0, <2>1, <2>2, CountStay
<1>3. ASSUME NEW t \in Threads, Skip(t) PROVE CountInv'
  <2>1. /\ UNCHANGED <<shm, guards, hits, off, reg>>
        /\ pc[t] = "update" /\ pc'[t] = "run" /\ ready' = ready \cup {cur[t]}
        /\ \A u \in Threads : u # t => pc'[u] = pc[u] /\ cur'[u] = cur[u]
    BY <1>0, <1>3 DEF Skip, Goto, TypeOK
  <2>2. cur[t] \in Dsos /\ NameOf[cur[t]] \in DOMAIN hdr.map
    BY <1>0, <1>3, <2>1 DEF Skip, Working, LockInv, Inserted
  <2>3. ready' = ready
    BY <1>0, <1>3, <2>1, <2>2 DEF Skip, LoadInv, Loading
  <2>4. /\ \A u \in Threads : pc[u] = "store" <=> pc'[u] = "store"
        /\ \A u \in Threads : pc'[u] = "guards" => cur'[u] \notin ready
        /\ \A u \in Threads : pc[u] = "store" => cur'[u] = cur[u]
    BY <1>0, <2>1 DEF CountInv
  <2> QED
    BY <1>0, <2>1, <2>3, <2>4, CountStay
<1>4. ASSUME NEW t \in Threads, UpdateHeader(t) PROVE CountInv'
  <2>1. /\ UNCHANGED <<guards, ready, hits, reg, cur>>
        /\ pc[t] = "update" /\ pc'[t] = "guards" /\ mine[t] = hdr
        /\ \A u \in Threads : u # t => pc'[u] = pc[u] /\ off'[u] = off[u]
    BY <1>0, <1>4 DEF UpdateHeader, Goto, TypeOK, LockInv
  <2>2. HeaderDecodes(hdr') /\ shm' = Spill(hdr')
    <3>1. IsHeader(hdr') /\ IsFiniteSet(DOMAIN hdr'.map) /\ Len(hdr'.vec) = Cardinality(DOMAIN hdr'.map)
      BY <1>n DEF CompleteInv, TypeInv, Working, HeaderSound
    <3> QED
      BY <1>4, <3>1, RoomyDecodes DEF UpdateHeader
  <2>3. shm' = shm
    BY <1>0, <2>2 DEF Spill, Overrun, TypeOK
  <2>4. cur[t] \notin ready
    BY <1>0, <1>4, <2>1 DEF UpdateHeader, HeaderComplete, Inserted
  <2>5. \A u \in Threads : pc'[u] = "guards" => cur'[u] \notin ready
    BY <1>0, <2>1, <2>4 DEF CountInv
  <2>6. \A d \in ready : \A i \in GuardsOf(d) : InFlight(d, i)' <=> InFlight(d, i)
    BY <2>1 DEF InFlight
  <2>7. \A u \in Threads : pc'[u] = "store" => pc[u] = "store" /\ off'[u] = off[u]
    BY <2>1
  <2> QED
    BY <1>0, <2>1, <2>3, <2>5, <2>6, <2>7 DEF CountInv
<1>5. ASSUME NEW t \in Threads, SetGuards(t) PROVE CountInv'
  BY <1>5, <1>n, CountSetGuards
<1>6. ASSUME NEW t \in Threads, NEW d \in Dsos, NEW i \in GuardsOf(d), TraceLoad(t, d, i)
      PROVE  CountInv'
  BY <1>6, CountLoad
<1>7. ASSUME NEW t \in Threads, TraceStore(t) PROVE CountInv'
  BY <1>7, CountStore
<1>8. CASE UNCHANGED vars
  BY <1>0, <1>8, CountStay DEF vars, CountInv
<1> QED
  BY <1>1, <1>2, <1>3, <1>4, <1>5, <1>6, <1>7, <1>8 DEF Next

\* A byte of COV counts one guard and nothing else (utils.rs:21): as long as
\* names differ and the header fits, it is 0 before the first execution and
\* not 0 after fewer than 256, although racing threads lose counts
\* (lib.rs:49 reads and writes the byte without a lock).
THEOREM CountersCorrect ==
  ASSUME Roomy
  PROVE  Spec => []CountersFaithful
<1>1. FaithfulInv /\ [Next]_vars => FaithfulInv'
  BY FaithfulNext
<1> QED
  BY <1>1, FaithfulInit, FaithfulImplies, PTL DEF Spec

=============================================================================
