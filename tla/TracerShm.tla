------------------------------ MODULE TracerShm ------------------------------
(***************************************************************************)
(* The files through which the tracer, a library inside every ROS process, *)
(* reports to the fuzzer: "times" with the events of callbacks, "msg" with *)
(* the messages, "nodes" and "callbacks" with what is registered.  The     *)
(* tracer itself is not part of the repository: its writers are modelled   *)
(* by the C structures and the protocol (lock, slot "count", unlock) that  *)
(* src/feryr_util/src/shmem.rs relies on.  The fuzzer copies the files     *)
(* without the lock and clears "times" with the lock in it; neither is one *)
(* step, and a record is written word by word.                             *)
(*                                                                         *)
(* A handle is a number, 0 for none.  The three handles by which an event  *)
(* may name its callback (rcl, rclcpp, rclcpp1) are one set.               *)
(***************************************************************************)
EXTENDS Naturals, Sequences, FiniteSets

CONSTANTS
  Writers,      \* the threads of the application that record events
  Script,       \* Script[w]: the events w records, again and again, in order
  MsgKinds,     \* messages: records of callback, subscription and size
  NodeRegs,     \* NodeRegs[p]: the nodes that instance p registers
  CallbackRegs, \* CallbackRegs[p]: the callbacks it registers, in order
  AtBoot,       \* AtBoot[p]: how many have registered when p has booted
  SHM_LEN,      \* the slots of a file
  Budgets,      \* the bounds, one of which a behaviour has: threads that
                \* record, events, messages, clock, programs, instances, and
                \* the sets of words that are stored and seen at once
  Free          \* the mutex is not locked, or all its bytes are 0

Name == STRING

\* The words of a record.
Words == {"cb", "time", "flag", "message_size", "rmw_handle"}

\* What instance p registers; a slot without a handle is not in use.  Five
\* types of callbacks are known, 0 is none: set_type panics for another one.
NodeReg(p) == {r \in [name : Name, handle : Nat, pid : Nat] : r.handle # 0 => r.pid = p}
CallbackReg(p) == [cb_name : Name, cb_type : 0 .. 5, rcl_handle : Nat, handles : SUBSET Nat,
                   rmw_handle : Nat, node_handle : Nat, pid : {p}]

ASSUME TracerAssumption ==
  /\ SHM_LEN \in Nat \ {0}
  /\ IsFiniteSet(Writers) /\ Free \notin Writers
  /\ \A w \in Writers :
       Script[w] \in Seq([cb : Nat, flag : 1 .. 10, size : Nat, rmw : Nat]) \ {<< >>}
  /\ MsgKinds \subseteq [callback : Nat, subscription : Nat, size : Nat]
  /\ \A b \in Budgets :
       /\ b.writers \subseteq Writers /\ b.stores \subseteq SUBSET Words
       /\ b.clock \in Nat \ {0} /\ b.instances \in Nat \ {0} /\ b.runs \in Nat
       /\ \A p \in 1 .. b.instances :
            /\ NodeRegs[p] \in Seq(NodeReg(p)) /\ CallbackRegs[p] \in Seq(CallbackReg(p))
            /\ AtBoot[p] \in 0 .. Len(CallbackRegs[p])

VARIABLES
  budget,    \* the bounds of this behaviour
  times,     \* the slots of the file "times"
  count,     \* its count
  mutex,     \* its mutex: who holds it, or Free
  nodesFile, \* the file "nodes"
  cbsFile,   \* the file "callbacks"
  msgFile,   \* the file "msg"
  instance,  \* the instance of the application that runs; it is the pid
  pc,        \* what the fuzzer does next
  writer,    \* writer[w]: where w is, its event and slot, the words it has not
             \* stored yet, its place in the script
  now,       \* the clock
  shm,       \* the fuzzer's copy of the files: SharedMem
  events,    \* how many events were recorded
  recorded,  \* those of them since the program started (history)
  sent,      \* the messages sent so far (history)
  torn       \* the last clearing hit a writer in its critical section (history)

fileVars == <<times, count, mutex, nodesFile, cbsFile, msgFile>>
tracerVars == <<fileVars, budget, instance, writer, now, shm, events, recorded, sent, torn>>

NoTime == [cb |-> 0, time |-> 0, flag |-> 0, message_size |-> 0, rmw_handle |-> 0]
NoTimes == [i \in 1 .. SHM_LEN |-> NoTime]
NoCopy == [times |-> NoTimes, nodes |-> << >>, cbs |-> << >>, msgs |-> << >>]
IdleWriter == [pc |-> "idle", ev |-> NoTime, slot |-> 0, left |-> {}, pos |-> 1]

BootRegs(p) == SubSeq(CallbackRegs[p], 1, AtBoot[p])

TracerInit ==
  /\ budget \in Budgets
  /\ times = NoTimes /\ count = 0 /\ mutex = Free
  /\ nodesFile = NodeRegs[1] /\ cbsFile = BootRegs(1) /\ msgFile = << >>
  /\ instance = 1
  /\ writer = [w \in Writers |-> IdleWriter]
  /\ now = 1
  /\ shm = NoCopy
  /\ events = 0 /\ recorded = {} /\ sent = 0 /\ torn = FALSE

-----------------------------------------------------------------------------
(* The application.                                                         *)

Tick == now' \in {now, now + 1} /\ now' <= budget.clock

\* A thread takes the time of its next event, then waits for the mutex.
Stamp(w) ==
  /\ writer[w].pc = "idle"
  /\ events < budget.events
  /\ events' = events + 1
  /\ Tick
  /\ LET e == Script[w][writer[w].pos]
         ev == [cb |-> e.cb, time |-> now', flag |-> e.flag,
                message_size |-> e.size, rmw_handle |-> e.rmw]
     IN  /\ ev \notin recorded
         /\ recorded' = recorded \cup {ev}
         /\ writer' = [writer EXCEPT ![w].pc = "wait", ![w].ev = ev]
  /\ UNCHANGED <<fileVars, budget, instance, shm, sent, torn>>

Lock(w) ==
  /\ writer[w].pc = "wait"
  /\ mutex = Free
  /\ count < SHM_LEN
  /\ mutex' = w
  /\ writer' = [writer EXCEPT ![w].pc = "write", ![w].slot = count + 1, ![w].left = Words]
  /\ UNCHANGED <<times, count, nodesFile, cbsFile, msgFile, budget, instance, now, shm,
                 events, recorded, sent, torn>>

\* Record r with the words F of event e.
Stored(r, e, F) ==
  [cb |-> IF "cb" \in F THEN e.cb ELSE r.cb,
   time |-> IF "time" \in F THEN e.time ELSE r.time,
   flag |-> IF "flag" \in F THEN e.flag ELSE r.flag,
   message_size |-> IF "message_size" \in F THEN e.message_size ELSE r.message_size,
   rmw_handle |-> IF "rmw_handle" \in F THEN e.rmw_handle ELSE r.rmw_handle]

\* A record is not written at once: its words are stored in any order.  Words
\* that are stored while the file is being cleared may be erased again; those
\* stored while it is being copied are seen or not.
WriteWords(w, F) ==
  LET slot == writer[w].slot
      ev == writer[w].ev
  IN  /\ writer[w].pc = "write" /\ F \subseteq writer[w].left
      /\ \/ times' = [times EXCEPT ![slot] = Stored(@, ev, F)]
         \/ pc = "clearing" /\ times' = times
      /\ \/ shm' = shm
         \/ pc = "loading" /\ shm' = [shm EXCEPT !.times[slot] = Stored(@, ev, F)]
      /\ writer' = [writer EXCEPT ![w].left = @ \ F]
      /\ UNCHANGED <<count, mutex, nodesFile, cbsFile, msgFile, budget, instance, now,
                     events, recorded, sent, torn>>

\* The record is counted: the count is read again, or known from before.
Count(w) ==
  /\ writer[w].pc = "write" /\ writer[w].left = {}
  /\ count' \in {count + 1, writer[w].slot}
  /\ writer' = [writer EXCEPT ![w].pc = "unlock"]
  /\ UNCHANGED <<times, mutex, nodesFile, cbsFile, msgFile, budget, instance, now, shm,
                 events, recorded, sent, torn>>

Unlock(w) ==
  /\ writer[w].pc = "unlock"
  /\ mutex' = Free
  /\ writer' = [writer EXCEPT ![w] = [IdleWriter EXCEPT
                   !.pos = (writer[w].pos % Len(Script[w])) + 1]]
  /\ UNCHANGED <<times, count, nodesFile, cbsFile, msgFile, budget, instance, now, shm,
                 events, recorded, sent, torn>>

\* A message gets its record when it is sent and its recv_time on arrival.
SendMsg(k) ==
  /\ sent < budget.msgs
  /\ Tick
  /\ sent' = sent + 1
  /\ msgFile' = Append(msgFile, [callback |-> k.callback, subscription |-> k.subscription,
                                 size |-> k.size, send_time |-> now', recv_time |-> 0])
  /\ UNCHANGED <<times, count, mutex, nodesFile, cbsFile, budget, instance, writer, shm, events, recorded, torn>>

RecvMsg(i) ==
  /\ msgFile[i].recv_time = 0
  /\ Tick
  /\ msgFile' = [msgFile EXCEPT ![i].recv_time = now']
  /\ UNCHANGED <<times, count, mutex, nodesFile, cbsFile, budget, instance, writer, shm, events, recorded, sent, torn>>

\* A callback registers, some while the first programs already run.
Register ==
  /\ Len(cbsFile) < Len(CallbackRegs[instance])
  /\ cbsFile' = Append(cbsFile, CallbackRegs[instance][Len(cbsFile) + 1])
  /\ UNCHANGED <<times, count, mutex, nodesFile, msgFile, budget, instance, writer, now, shm, events, recorded, sent, torn>>

Application ==
  \/ \E w \in budget.writers :
       \/ Stamp(w) \/ Lock(w) \/ Count(w) \/ Unlock(w)
       \/ \E F \in budget.stores : WriteWords(w, F)
  \/ \E k \in MsgKinds : SendMsg(k)
  \/ \E i \in 1 .. Len(msgFile) : RecvMsg(i)
  \/ Register

-----------------------------------------------------------------------------
(* The fuzzer's operations on the files.                                    *)

\* Is w where only the holder of the mutex may be?
InSection(w) == writer[w].pc \in {"write", "unlock"}

\* allow_time_write: records, then count and mutex are set to 0, whoever holds
\* it.  The copies, which are not read again before they are replaced, are left
\* out.  It is torn if a thread is in its section at the end, or if a word
\* that a thread stored meanwhile was not erased.
BeginClear ==
  /\ times' = NoTimes
  /\ shm' = NoCopy
  /\ UNCHANGED <<count, mutex, nodesFile, cbsFile, msgFile, budget, instance, writer, now,
                 events, recorded, sent, torn>>

EndClear ==
  /\ count' = 0
  /\ mutex' = Free
  /\ torn' = ((\E w \in Writers : InSection(w)) \/ times # NoTimes)
  /\ UNCHANGED <<times, nodesFile, cbsFile, msgFile, budget, instance, writer, now, shm,
                 events, recorded, sent>>

\* set_shm_cb_time: all slots are copied word by word ...
BeginLoad == shm' = [shm EXCEPT !.times = times]

\* ... and the copy is sorted by time (a stable sort).
Sorted(slots) ==
  LET before(i, j) == \/ slots[i].time < slots[j].time
                      \/ slots[i].time = slots[j].time /\ i < j
      order == CHOOSE p \in [1 .. SHM_LEN -> 1 .. SHM_LEN] :
                 \A i, j \in 1 .. SHM_LEN : i < j => before(p[i], p[j])
  IN  [i \in 1 .. SHM_LEN |-> slots[order[i]]]

EndLoad == shm' = [shm EXCEPT !.times = Sorted(shm.times)]

\* The other three files are mapped and copied after it.
LoadRest == shm' = [shm EXCEPT !.nodes = nodesFile, !.cbs = cbsFile, !.msgs = msgFile]

\* reboot: the instance is killed, the files removed, another one started.
NewInstance ==
  /\ instance < budget.instances
  /\ instance' = instance + 1
  /\ times' = NoTimes /\ count' = 0 /\ mutex' = Free
  /\ nodesFile' = NodeRegs[instance'] /\ cbsFile' = BootRegs(instance') /\ msgFile' = << >>
  /\ writer' = [w \in Writers |-> IdleWriter]
  /\ torn' = FALSE
  /\ UNCHANGED <<budget, now, shm, events, recorded, sent>>
=============================================================================
