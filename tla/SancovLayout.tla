---------------------------- MODULE SancovLayout ----------------------------
(***************************************************************************)
(* The layout of the coverage shared memory that the instrumented process  *)
(* (sancov_runtime/src/lib.rs) writes and sancov_server reads:             *)
(*                                                                         *)
(*    0 .. HEADER_SIZE-1        the serialized Header                      *)
(*    HEADER_SIZE .. MAXSIZE-1  COV, one counter byte per guard            *)
(*                                                                         *)
(* A Header maps the file name of each instrumented object (DSO) to a slot *)
(* of "vec", and a slot holds the object's offset in COV and its number of *)
(* guards.                                                                 *)
(***************************************************************************)
EXTENDS Integers, Sequences

CONSTANTS
  HEADER_SIZE,   \* bytes reserved for the header (utils.rs: 1 << 10)
  MAXSIZE,       \* bytes of the shared memory and of the server's vector
  HeaderCap      \* most slots whose serialization fits in HEADER_SIZE bytes

ASSUME LayoutAssumption ==
  /\ HEADER_SIZE \in Nat \ {0}
  /\ MAXSIZE \in Nat
  /\ HEADER_SIZE < MAXSIZE
  /\ HeaderCap \in Nat

\* Header::default()
EmptyHeader == [map |-> << >>, vec |-> << >>]

\* Where the counters of the next object start, relative to COV.
NextOffset(h) ==
  IF h.vec = << >>
  THEN 0
  ELSE h.vec[Len(h.vec)].offset + h.vec[Len(h.vec)].size

\* header.vec.push((start_offset, len)); header.map.insert(dso_name, index)
PushDso(h, name, len) ==
  [map |-> [n \in DOMAIN h.map \cup {name} |->
              IF n = name THEN Len(h.vec) + 1 ELSE h.map[n]],
   vec |-> Append(h.vec, [offset |-> NextOffset(h), size |-> len])]

\* The slot of a named object.
SlotOf(h, name) == h.vec[h.map[name]]

\* get_cov_offset_pointer: the offset is added to the start of the memory as
\* it is; whether HEADER_SIZE is part of it is up to the caller.
CovOffset(off) == off

\* The value guard_init gives to guard number i (from 0) of an object whose
\* counters start at "offset".
GuardValue(offset, i) == offset + HEADER_SIZE + i

\* get_header looks at HEADER_SIZE bytes only: a longer header does not decode.
HeaderDecodes(h) == Len(h.vec) <= HeaderCap
=============================================================================
