----------------------------- MODULE MCCovServer -----------------------------
(***************************************************************************)
(* Constants for the runs of CovServer: two instrumented processes whose   *)
(* memories hold up to two objects, laid out by the definitions the        *)
(* runtime uses.                                                           *)
(***************************************************************************)
EXTENDS CovServer, TLC

CONSTANTS c1, c2

MCClients == {c1, c2}
MCNames == {1, 2}
MCSessionIds == {0, 1}
MCSession == [c \in Clients |-> IF c = c1 THEN 0 ELSE 1]

\* The memory of a process that loaded the objects in the order of "load", a
\* sequence of <<name, guards>>, and executed "hits", pairs <<name, index>>.
\* The bytes of its header are not zero.
LoadOrder(load) ==
  LET hdr[i \in 0 .. Len(load)] ==
        IF i = 0 THEN EmptyHeader ELSE PushDso(hdr[i - 1], load[i][1], load[i][2])
  IN  hdr[Len(load)]

MemoryOf(load, hits) ==
  LET hdr == LoadOrder(load) IN
  [hdr |-> hdr,
   nz |-> (0 .. HEADER_SIZE - 1)
            \cup {GuardValue(SlotOf(hdr, h[1]).offset, h[2]) : h \in hits}]

\* The memory of a process in which guard_init panicked because its second
\* object does not fit: the slot is in the header, and what the server reads
\* for the object's last guard lies behind the mapping.
Unfitting == [MemoryOf(<< <<1, 4>>, <<2, 3>> >>, {}) EXCEPT !.nz = @ \cup {MAXSIZE}]

\* Memories that do not agree on an object's length, that together exceed the
\* vector, that are not tracked (object 1 missing), or whose header is lost.
SafetyImages ==
  {MemoryOf(<< <<1, 4>> >>, {<<1, 1>>}),
   MemoryOf(<< <<1, 1>>, <<2, 3>> >>, {<<2, 1>>}),
   MemoryOf(<< <<2, 2>>, <<1, 1>> >>, {<<2, 0>>}),
   MemoryOf(<< <<2, 2>> >>, {<<2, 0>>}),
   [hdr |-> EmptyHeader, nz |-> {}],
   Unfitting}

\* Memories that agree on the lengths: object 1 has one guard, object 2 two.
AgreeingImages ==
  {MemoryOf(<< <<1, 1>> >>, {}),
   MemoryOf(<< <<1, 1>>, <<2, 2>> >>, {<<2, 0>>}),
   MemoryOf(<< <<2, 2>>, <<1, 1>> >>, {<<2, 0>>, <<1, 0>>})}
=============================================================================
