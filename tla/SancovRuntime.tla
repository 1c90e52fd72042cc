---------------------------- MODULE SancovRuntime ----------------------------
(***************************************************************************)
(* The runtime linked into an instrumented process.  Each object calls     *)
(* __sanitizer_cov_trace_pc_guard_init once per compilation unit, from     *)
(* whatever thread loads it, and every edge the program executes calls     *)
(* __sanitizer_cov_trace_pc_guard from any thread, without a lock.         *)
(*                                                                         *)
(* Sources: src/rozz_cover/sancov_runtime/src/{lib,utils}.rs.  A process   *)
(* that is black-listed or has no SHM_DIR never maps the memory (the       *)
(* runtime ignores it or exits) and has no state to speak of.              *)
(***************************************************************************)
EXTENDS SancovLayout, FiniteSets

CONSTANTS
  Threads,    \* the threads of the process
  Dsos,       \* the instrumented objects
  NameOf,     \* NameOf[d]: the file name of d, without its directories
  LenOf,      \* LenOf[d]: the number of guards of d
  Units,      \* the compilation units per object, each with its init call
  ByteSize,   \* the values of a counter (256)
  HeaderByte, \* what a header that is too long leaves in a byte of COV
  EntryBytes, \* the bytes of an object's entry in the serialized header (57)
  MaxTrace,   \* MaxTrace[d]: bound on the executions of each guard of d
  Free,       \* the lock is not held
  NoDso       \* a thread is not in guard_init

ASSUME RuntimeAssumption ==
  /\ LenOf \in [Dsos -> Nat \ {0}]
  /\ DOMAIN NameOf = Dsos
  /\ Units \in Nat \ {0}
  /\ ByteSize \in Nat /\ ByteSize > 1
  /\ HeaderByte \in 0 .. ByteSize - 1
  /\ EntryBytes \in Nat \ {0}
  /\ MaxTrace \in [Dsos -> Nat]
  /\ Free \notin Threads
  /\ NoDso \notin Dsos

VARIABLES
  alive,      \* the process runs
  mapped,     \* SHM is not null
  registered, \* CONNECTOR is a connection to the server
  hdr,        \* the header whose serialization starts at SHM
  intact,     \* no counter was added to the header's bytes since
  shm,        \* the bytes of the memory (those of the header: only additions)
  guards,     \* guards[d]: the guards of d, numbered from 0; 0 before init
  ready,      \* the objects whose code runs: an init call for them returned
  calls,      \* calls[d]: the init calls made for d
  lock,       \* CAN_USE_HEADER_LOCK
  pc,         \* pc[t]: what thread t does next
  cur,        \* cur[t]: the object t initialises or whose edge it executes
  mine,       \* mine[t]: the local variable "header" of guard_init
  off,        \* off[t]: start_offset of guard_init; the guard in trace
  reg,        \* reg[t]: the counter value t read and has not written back
  hits        \* hits[d][i]: how often guard i of d was executed (history)

headerVars == <<mapped, registered, hdr, intact>>
threadVars == <<cur, mine, off, reg>>
vars == <<alive, mapped, registered, hdr, intact, shm, guards, ready, calls,
          lock, pc, cur, mine, off, reg, hits>>

Addresses == 0 .. MAXSIZE - 1
GuardsOf(d) == 0 .. LenOf[d] - 1

Init ==
  /\ alive = TRUE
  /\ mapped = FALSE
  /\ registered = FALSE
  /\ hdr = EmptyHeader
  /\ intact = TRUE
  /\ shm = [a \in Addresses |-> 0]
  /\ guards = [d \in Dsos |-> [i \in GuardsOf(d) |-> 0]]
  /\ ready = {}
  /\ calls = [d \in Dsos |-> 0]
  /\ lock = Free
  /\ pc = [t \in Threads |-> "run"]
  /\ cur = [t \in Threads |-> NoDso]
  /\ mine = [t \in Threads |-> EmptyHeader]
  /\ off = [t \in Threads |-> 0]
  /\ reg = [t \in Threads |-> 0]
  /\ hits = [d \in Dsos |-> [i \in GuardsOf(d) |-> 0]]

Goto(t, label) == pc' = [pc EXCEPT ![t] = label]

-----------------------------------------------------------------------------
(* __sanitizer_cov_trace_pc_guard_init                                      *)

\* A constructor of object d calls guard_init.  The loader runs the
\* constructors of one object one after another.
Enter(t, d) ==
  /\ alive
  /\ pc[t] = "run"
  /\ calls[d] < Units
  /\ \A u \in Threads : cur[u] = d => pc[u] = "store"
  /\ calls' = [calls EXCEPT ![d] = @ + 1]
  /\ cur' = [cur EXCEPT ![t] = d]
  /\ Goto(t, "lock")
  /\ UNCHANGED <<alive, headerVars, shm, guards, ready, lock, mine, off, reg, hits>>

\* get_header: bytes that do not decode are overwritten with an empty header.
\* Bytes that counts were added to may decode once the counts have wrapped to
\* what was there (that they decode to yet another header is left out).
Decodings ==
  IF ~HeaderDecodes(hdr) THEN {EmptyHeader}
  ELSE IF intact THEN {hdr} ELSE {hdr, EmptyHeader}

\* Who may enter the section that reads and writes the header.
CanLockAlways == TRUE
CanLock == lock = Free

\* The lock is taken.  The first call maps the memory, zero-filled, and
\* registers with the server if there is one; later ones read the header.
ReadHeader(t) ==
  /\ alive
  /\ pc[t] = "lock"
  /\ CanLock
  /\ lock' = t
  /\ Goto(t, "update")
  /\ IF ~mapped
     THEN /\ mapped' = TRUE
          /\ registered' \in BOOLEAN
          /\ mine' = [mine EXCEPT ![t] = EmptyHeader]
          /\ UNCHANGED <<hdr, intact>>
     ELSE /\ hdr' \in Decodings
          /\ mine' = [mine EXCEPT ![t] = hdr']
          /\ intact' = TRUE
          /\ UNCHANGED <<mapped, registered>>
  /\ UNCHANGED <<alive, shm, guards, ready, calls, cur, off, reg, hits>>

\* Is the object's name in the header the thread read?
InsertedNever(t) == FALSE
Inserted(t) == NameOf[cur[t]] \in DOMAIN mine[t].map

\* An object that has been inserted is left as it is, whoever inserted it.
Skip(t) ==
  /\ alive
  /\ pc[t] = "update"
  /\ Inserted(t)
  /\ lock' = Free
  /\ ready' = ready \cup {cur[t]}
  /\ cur' = [cur EXCEPT ![t] = NoDso]
  /\ Goto(t, "run")
  /\ UNCHANGED <<alive, headerVars, shm, guards, calls, mine, off, reg, hits>>

\* The serialized header is copied to the start of the memory, byte by byte
\* and as long as it is: one that is too long runs on into COV, with the
\* entries that do not fit.
Overrun(h) ==
  IF HeaderDecodes(h) THEN {}
  ELSE HEADER_SIZE .. HEADER_SIZE + EntryBytes * (Len(h.vec) - HeaderCap) - 1

Spill(h) ==
  [a \in Addresses |-> IF a \in Overrun(h) THEN HeaderByte ELSE shm[a]]

\* The object gets the offset after the last slot; the lock is given up.
UpdateHeader(t) ==
  /\ alive
  /\ pc[t] = "update"
  /\ ~Inserted(t)
  /\ LET new == PushDso(mine[t], NameOf[cur[t]], LenOf[cur[t]])
     IN  /\ hdr' = new
         /\ shm' = Spill(new)
  /\ intact' = TRUE
  /\ off' = [off EXCEPT ![t] = NextOffset(mine[t])]
  /\ lock' = Free
  /\ Goto(t, "guards")
  /\ UNCHANGED <<alive, mapped, registered, guards, ready, calls, cur, mine, reg, hits>>

\* The guards written, given where the object's counters start.  An object
\* that does not fit makes the process panic, with the header already updated.
GuardsAtOffset(d, o) == [i \in GuardsOf(d) |-> o + i]
GuardsAt(d, o) == [i \in GuardsOf(d) |-> GuardValue(o, i)]

SetGuards(t) ==
  /\ alive
  /\ pc[t] = "guards"
  /\ IF off[t] + LenOf[cur[t]] >= MAXSIZE - HEADER_SIZE
     THEN /\ alive' = FALSE
          /\ UNCHANGED <<guards, ready>>
     ELSE /\ guards' = [guards EXCEPT ![cur[t]] = GuardsAt(cur[t], off[t])]
          /\ ready' = ready \cup {cur[t]}
          /\ UNCHANGED alive
  /\ cur' = [cur EXCEPT ![t] = NoDso]
  /\ Goto(t, "run")
  /\ UNCHANGED <<headerVars, shm, calls, lock, mine, off, reg, hits>>

-----------------------------------------------------------------------------
(* __sanitizer_cov_trace_pc_guard: the counter is read and written back in  *)
(* two steps, so that two threads at the same guard may lose a count.       *)

TraceLoad(t, d, i) ==
  /\ alive
  /\ pc[t] = "run"
  /\ d \in ready
  /\ hits[d][i] < MaxTrace[d]
  /\ cur' = [cur EXCEPT ![t] = d]
  /\ off' = [off EXCEPT ![t] = guards[d][i]]
  /\ reg' = [reg EXCEPT ![t] = shm[CovOffset(guards[d][i])]]
  /\ hits' = [hits EXCEPT ![d][i] = @ + 1]
  /\ Goto(t, "store")
  /\ UNCHANGED <<alive, headerVars, shm, guards, ready, calls, lock, mine>>

\* A count may be added to a byte of the header, where guards are still 0.
TraceStore(t) ==
  /\ alive
  /\ pc[t] = "store"
  /\ shm' = [shm EXCEPT ![CovOffset(off[t])] = (reg[t] + 1) % ByteSize]
  /\ intact' = (intact /\ CovOffset(off[t]) >= HEADER_SIZE)
  /\ cur' = [cur EXCEPT ![t] = NoDso]
  /\ Goto(t, "run")
  /\ UNCHANGED <<alive, mapped, registered, hdr, guards, ready, calls, lock, mine, off, reg, hits>>

Next ==
  \E t \in Threads :
    \/ \E d \in Dsos : Enter(t, d)
    \/ ReadHeader(t) \/ Skip(t) \/ UpdateHeader(t) \/ SetGuards(t)
    \/ \E d \in Dsos : \E i \in GuardsOf(d) : TraceLoad(t, d, i)
    \/ TraceStore(t)

Spec == Init /\ [][Next]_vars

-----------------------------------------------------------------------------
(* Properties.                                                              *)

HeaderType ==
  [map : [DOMAIN hdr.map -> Nat], vec : Seq([offset : Nat, size : Nat])]

\* Every variable of the runtime has its type; a guard is 0 or the address of
\* a byte of COV, so that the counting never leaves the memory.
TypeOK ==
  /\ alive \in BOOLEAN /\ mapped \in BOOLEAN /\ registered \in BOOLEAN
  /\ intact \in BOOLEAN
  /\ hdr \in HeaderType
  /\ DOMAIN hdr.map \subseteq {NameOf[d] : d \in Dsos}
  /\ shm \in [Addresses -> 0 .. ByteSize - 1]
  /\ DOMAIN guards = Dsos
  /\ \A d \in Dsos : guards[d] \in [GuardsOf(d) -> {0} \cup HEADER_SIZE .. MAXSIZE - 1]
  /\ ready \subseteq Dsos
  /\ calls \in [Dsos -> 0 .. Units]
  /\ lock \in Threads \cup {Free}
  /\ pc \in [Threads -> {"run", "lock", "update", "guards", "store"}]
  /\ cur \in [Threads -> Dsos \cup {NoDso}]
  /\ off \in [Threads -> Nat]
  /\ reg \in [Threads -> 0 .. ByteSize - 1]

\* The header is complete ("lock for header completeness", guard_init): what
\* the threads insert concurrently is never lost, so that every object that
\* runs has its slot, and its guards point at the bytes of that slot.
HeaderComplete ==
  \A d \in ready :
    /\ NameOf[d] \in DOMAIN hdr.map
    /\ guards[d] = [i \in GuardsOf(d) |-> HEADER_SIZE + SlotOf(hdr, NameOf[d]).offset + i]

\* An initialised object stays initialised: no later load moves its counters,
\* which the process is already counting in and the server will read.
StableGuards == [][\A d \in ready : guards'[d] = guards[d]]_vars

\* A byte of COV counts one guard and nothing else: it is 0 while the guard was
\* not executed, and not 0 once it was executed fewer than 256 times, although
\* threads that race lose counts.  The layout comment, utils.rs:21-26: the
\* header keeps to [SHM, SHM+HEADER_SIZE).
InFlight(d, i) ==
  \E t \in Threads : pc[t] = "store" /\ cur[t] = d /\ off[t] = guards[d][i]

CountersFaithful ==
  \A d \in ready : \A i \in GuardsOf(d) :
    LET byte == shm[CovOffset(guards[d][i])] IN
    /\ hits[d][i] = 0 => byte = 0
    /\ hits[d][i] \in 1 .. ByteSize - 1 /\ ~InFlight(d, i) => byte # 0
=============================================================================
