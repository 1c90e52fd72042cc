--------------------------- MODULE MCSancovRuntime ---------------------------
(***************************************************************************)
(* Constants for the runs of SancovRuntime: two threads that load three    *)
(* objects, which together exceed the memory.                              *)
(***************************************************************************)
EXTENDS SancovRuntime, TLC

CONSTANTS t1, t2, libA, libB, libC

MCThreads == {t1, t2}
MCDsos == {libA, libB, libC}
MCNameOf == [d \in Dsos |-> d]
MCLenOf == [d \in Dsos |-> IF d = libC THEN 2 ELSE 1]

\* Two threads may race at any guard; a counter of three values wraps in libA.
MCMaxTrace == [d \in Dsos |-> IF d = libA THEN 3 ELSE 2]

MCSymmetry == Permutations(MCThreads)
=============================================================================
