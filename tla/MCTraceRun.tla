----------------------------- MODULE MCTraceRun ------------------------------
(***************************************************************************)
(* A node with a timer and a subscription in two instances that use the    *)
(* same addresses for different things.                                    *)
(***************************************************************************)
EXTENDS TraceRun, Bitwise

CONSTANTS executor, spinner

MCWriters == {executor, spinner}
Event(cb, flag, size, rmw) == [cb |-> cb, flag |-> flag, size |-> size, rmw |-> rmw]

\* The executor thread of the timer, and a thread of the subscription.
MCScript == [w \in Writers |->
  IF w = executor THEN <<Event(1, ExeRdy, 0, 1), Event(1, ExeExe, 2, 1), Event(1, CbStart, 0, 1)>>
  ELSE <<Event(2, CbStart, 0, 2), Event(3, CbEnd, 0, 2)>>]

MCMsgKinds == {[callback |-> 2, subscription |-> 3, size |-> 0],
               [callback |-> 2, subscription |-> 3, size |-> 1]}

MCNodeRegs == [p \in 1 .. 2 |->
  <<[name |-> "n", handle |-> 9, pid |-> p], [name |-> "", handle |-> 0, pid |-> 0]>>]

Callback(name, type, handle, p) ==
  [cb_name |-> name, cb_type |-> type, rcl_handle |-> handle, handles |-> {handle},
   rmw_handle |-> handle, node_handle |-> 9, pid |-> p]

MCCallbackRegs == [p \in 1 .. 2 |->
  <<Callback("timer", 5, p, p), Callback("sub", 1, 3 - p, p)>>]
MCAtBoot == <<2, 1>>

Single == {{f} : f \in Words}
Halves == {{"cb", "time"}, {"flag", "message_size", "rmw_handle"}}

\* Two threads that store word by word; two threads and a reboot; a timer over
\* two programs; a timer and a message; messages over three programs.
Budget(ws, e, m, c, r, i, s) ==
  [writers |-> ws, events |-> e, msgs |-> m, clock |-> c, runs |-> r, instances |-> i, stores |-> s]
MCBudgets == {Budget({executor}, 2, 0, 2, 1, 1, Single),
              Budget(MCWriters, 2, 0, 2, 2, 2, Halves), Budget({executor}, 6, 0, 3, 2, 1, {Words}),
              Budget({executor}, 3, 1, 2, 1, 1, {Words}), Budget({}, 0, 3, 2, 3, 1, {Words})}
MCTopicKey(a, b) == a ^^ b
=============================================================================
