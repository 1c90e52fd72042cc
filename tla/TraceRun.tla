------------------------------ MODULE TraceRun -------------------------------
(***************************************************************************)
(* The fuzzer runs programs against the traced application: exec_one       *)
(* clears the file "times", starts the command, takes the time, waits,     *)
(* copies the tracer's files one after another, builds the call trace and  *)
(* lets the monitors judge it, while the application goes on recording.    *)
(*                                                                         *)
(* Sources: src/feryr_prog/src/corpus_handle/{prog,target}.rs (exec_one,   *)
(* check_timeout_and_interets), src/feryr_fuzzer/src/lib.rs (gen_targets,  *)
(* reboot), with TracerShm and CallGraph.                                  *)
(***************************************************************************)
EXTENDS TracerShm, CallGraph

VARIABLES
  start,    \* start_time of the program
  runs,     \* the programs run so far
  found,    \* what the last monitors returned
  carried   \* callbacks that came from an earlier instance when the trace of
            \* the program was built (history)

runVars == <<pc, start, runs, found, carried>>
vars == <<tracerVars, graphVars, runVars>>

Init ==
  /\ TracerInit /\ GraphInit
  /\ pc = "targets" /\ start = 0 /\ runs = 0 /\ found = FALSE /\ carried = {}

\* gen_targets, once, at the end: all files are copied.
GenTargets ==
  /\ pc = "targets"
  /\ pc' = "ready"
  /\ LET copy == [times |-> Sorted(times), nodes |-> nodesFile, cbs |-> cbsFile, msgs |-> msgFile]
     IN  shm' = copy /\ UpdateCallbackInfo(copy)
  /\ UNCHANGED <<fileVars, budget, instance, writer, now, events, recorded, sent, torn,
                 start, runs, found, carried>>

\* exec_one: the file is cleared and the command spawned ...
Clean ==
  /\ pc = "ready"
  /\ runs < budget.runs
  /\ pc' = "clearing"
  /\ runs' = runs + 1
  /\ BeginClear
  /\ carried' = {}
  /\ UNCHANGED <<graphVars, start, found>>

Spawn ==
  /\ pc = "clearing"
  /\ pc' = "spawned"
  /\ EndClear
  /\ UNCHANGED <<graphVars, start, runs, found, carried>>

\* ... and only then the time taken.
TakeStart ==
  /\ pc = "spawned"
  /\ pc' = "running"
  /\ Tick
  /\ start' = now'
  /\ recorded' = {e \in recorded : e.time >= start'}
  /\ UNCHANGED <<fileVars, budget, instance, writer, shm, events, sent, torn, graphVars,
                 runs, found, carried>>

\* The command has ended well, or was killed after a while but has printed
\* something: mmap_load_info copies the times first.
CopyTimes ==
  /\ pc = "running"
  /\ pc' = "loading"
  /\ BeginLoad
  /\ UNCHANGED <<fileVars, budget, instance, writer, now, events, recorded, sent, torn, graphVars,
                 start, runs, found, carried>>

SortTimes ==
  /\ pc = "loading"
  /\ pc' = "copying"
  /\ EndLoad
  /\ UNCHANGED <<fileVars, budget, instance, writer, now, events, recorded, sent, torn, graphVars,
                 start, runs, found, carried>>

CopyRest ==
  /\ pc = "copying"
  /\ pc' = "copied"
  /\ LoadRest
  /\ UNCHANGED <<fileVars, budget, instance, writer, now, events, recorded, sent, torn, graphVars,
                 start, runs, found, carried>>

\* update_shm, for a command that was killed: no trace is built or judged.
UpdateShm ==
  /\ pc = "copied"
  /\ pc' = "ready"
  /\ UpdateCallbackInfo(shm)
  /\ UNCHANGED <<tracerVars, start, runs, found, carried>>

\* A command that was killed and had printed nothing: nothing is even copied.
GiveUp ==
  /\ pc = "running"
  /\ pc' = "ready"
  /\ UNCHANGED <<tracerVars, graphVars, start, runs, found, carried>>

BuildTrace ==
  /\ pc = "copied"
  /\ pc' = "traced"
  /\ GetCallTrace(shm, start)
  /\ carried' = {id \in DOMAIN callbacks : callbacks[id].pid # instance}
  /\ UNCHANGED <<tracerVars, start, runs, found>>

Judge ==
  /\ pc = "traced"
  /\ \E to \in SetToSeqs(DOMAIN curTimer), po \in SetToSeqs(DOMAIN curTopic) :
       /\ Monitors(to, po)
       /\ found' = MonitorsFound(to, po)
       /\ pc' = IF MonitorsPanic(to, po) THEN "panicked" ELSE "ready"
  /\ UNCHANGED <<tracerVars, start, runs, carried>>

\* The program failed or the application died: another instance is booted,
\* and nothing of the call graph is reset.
Reboot ==
  /\ pc \in {"running", "ready"}
  /\ runs \in 1 .. budget.runs - 1
  /\ NewInstance
  /\ pc' = "ready"
  /\ UNCHANGED <<graphVars, start, runs, found, carried>>

Fuzzer == \/ GenTargets \/ Clean \/ Spawn \/ TakeStart \/ CopyTimes \/ SortTimes \/ CopyRest
          \/ UpdateShm \/ GiveUp \/ BuildTrace \/ Judge \/ Reboot

\* What the application does before gen_targets, which would be cleared, and
\* after the last program is left out; while the fuzzer works on its copies,
\* the application's steps commute with the fuzzer's.
ApplicationStep ==
  /\ pc \in {"ready", "clearing", "spawned", "running", "loading", "copying"}
  /\ pc = "ready" => runs < budget.runs
  /\ Application
  /\ UNCHANGED <<graphVars, runVars>>

Next == Fuzzer \/ ApplicationStep

Spec == Init /\ [][Next]_vars

-----------------------------------------------------------------------------
(* Properties.                                                              *)

Record == [cb : Nat, time : 0 .. budget.clock, flag : 0 .. 10, message_size : Nat, rmw_handle : Nat]

FilesOK ==
  /\ times \in [1 .. SHM_LEN -> Record]
  /\ count \in 0 .. SHM_LEN + Cardinality(Writers)
  /\ mutex \in Writers \cup {Free}
  /\ \A i \in 1 .. Len(msgFile) : msgFile[i].recv_time = 0 \/ msgFile[i].recv_time >= msgFile[i].send_time

GraphOK ==
  /\ \A id \in DOMAIN callbacks : callbacks[id].pid \in 1 .. instance
  /\ DOMAIN curEvent \subseteq DOMAIN callbacks
  /\ DOMAIN curTimer \subseteq DOMAIN callbacks
  /\ \A n \in DOMAIN nodes : nodes[n].pid \in 1 .. instance
  /\ DOMAIN eventTrace \subseteq {EventTraceId}

\* The variables have their types; traces are of known callbacks.
TypeOK ==
  /\ FilesOK /\ GraphOK
  /\ pc \in {"targets", "ready", "clearing", "spawned", "running", "loading", "copying",
             "copied", "traced", "panicked"}
  /\ start \in 0 .. budget.clock /\ runs \in 0 .. budget.runs /\ found \in BOOLEAN

\* Is r what one event e recorded, or a part of it: what, when and which event
\* it was, while the size and the middleware handle may still be 0?
PartOfEvent(r, e) ==
  /\ r.cb = e.cb /\ r.time = e.time /\ r.flag = e.flag
  /\ r.message_size \in {0, e.message_size} /\ r.rmw_handle \in {0, e.rmw_handle}

\* The file is read without the lock, word by word, while threads store their
\* records.  What passes the filter (callgraph.rs:135) may lack words, but it
\* never mixes two events, is never older than the program and never carries
\* the time of another event; unless the clearing of the file, which also
\* opens the lock (shmem.rs:216), hit a thread in its critical section.
RecordsUnmixed ==
  pc \in {"copying", "copied", "traced"} /\ ~torn =>
    \A r \in TrimTimes(shm, start) : \E e \in recorded : PartOfEvent(r, e)

\* Every measurement was taken inside the program's own window: no latency is
\* negative (the subtractions at callgraph.rs:316 and 377 would panic) or
\* longer than the time since the program started.
MeasuredInWindow ==
  pc = "traced" =>
    /\ \A id \in DOMAIN curTimer : \A p \in Range(curTimer[id].pairs) : p[1] \in 0 .. now - start
    /\ \A id \in DOMAIN curTopic : \A p \in Range(curTopic[id].pairs) : p[2] \in 0 .. now - start

Ages(cb) == Range(cb.invoke_time) \cup Range(cb.start_time) \cup Range(cb.end_time)

\* Events pile up in the global entry of a callback (callgraph.rs:254), of
\* which a trace gets a copy.  A trace still shows events from before its
\* program only for a callback that came from an earlier instance.
OldEventsOnlyCarried ==
  pc = "traced" =>
    \A id \in DOMAIN curEvent : (\E t \in Ages(curEvent[id]) : t < start) => id \in carried

Bounded(global, current) ==
  \A id \in DOMAIN current :
    /\ id \in DOMAIN global
    /\ \A q \in Throughputs(current[id].pairs) : global[id].min <= q /\ q <= global[id].max

\* When the monitors say that a program is not interesting, then no edge of
\* its traces is outside the extremes that are known: returning early, and
\* looking at the maximum only if there is no new minimum, hides nothing then.
QuietIsBounded ==
  pc = "ready" /\ ~found =>
    Bounded(timerTrace, curTimer) /\ Bounded(topicTrace, curTopic)

\* The monitors panic, with the manager locked, only for a division by the
\* duration of a timer or by the size of a message that is 0
\* (callgraph.rs:545 and 616), never for an edge without measurements.
PanicOnlyForZero ==
  pc = "panicked" =>
    \/ \E id \in DOMAIN curTimer : \E p \in Range(curTimer[id].pairs) : p[1] = 0
    \/ \E id \in DOMAIN curTopic : \E p \in Range(curTopic[id].pairs) : p[1] = 0

Widens(old, new) ==
  \A id \in DOMAIN old : id \in DOMAIN new /\ new[id].min <= old[id].min /\ old[id].max <= new[id].max

\* Over all programs and instances the extremes only widen.
ExtremesWiden == [][Widens(timerTrace, timerTrace') /\ Widens(topicTrace, topicTrace')]_vars
=============================================================================
