--------------------------- MODULE CoverageLedger ---------------------------
(***************************************************************************)
(* What the coverage collection promises, without sockets, locks, address  *)
(* arithmetic or tasks: a process that ends leaves evidence (the guards it *)
(* executed, named by object and index), the evidence of each process is   *)
(* credited at most once and as a whole, and what is published is a total  *)
(* that was reached and never goes back.                                   *)
(***************************************************************************)
CONSTANTS
  Clients,   \* the instrumented processes
  Points     \* the guards: pairs <<object name, index>>

VARIABLES
  evidence,  \* evidence[c]: the guards whose counters c left non-zero
  credited,  \* the processes whose evidence is in the total
  covered,   \* the total
  published  \* the total in the newest line of the output file

vars == <<evidence, credited, covered, published>>

Init ==
  /\ evidence = [c \in Clients |-> {}]
  /\ credited = {}
  /\ covered = {}
  /\ published = {}

\* A process ends and leaves any evidence.
Leave(c) ==
  /\ c \notin credited
  /\ evidence[c] = {}
  /\ evidence'[c] \subseteq Points
  /\ evidence' = [evidence EXCEPT ![c] = evidence'[c]]
  /\ UNCHANGED <<credited, covered, published>>

\* Its evidence is added to the total, once.
Credit(c) ==
  /\ c \notin credited
  /\ credited' = credited \cup {c}
  /\ covered' = covered \cup evidence[c]
  /\ UNCHANGED <<evidence, published>>

\* The total is written out: what was published stays published.
Publish ==
  /\ published \subseteq covered
  /\ published' = covered
  /\ UNCHANGED <<evidence, credited, covered>>

Next ==
  \/ \E c \in Clients : Leave(c)
  \/ \E c \in Clients : Credit(c)
  \/ Publish

Spec == Init /\ [][Next]_vars
=============================================================================
