------------------------------ MODULE CallGraph ------------------------------
(***************************************************************************)
(* The fuzzer's picture of the application: its nodes and callbacks, the   *)
(* traces of the program that has just run, and the extremes of all        *)
(* programs that the monitors keep.  One operator per method of            *)
(* src/feryr_prog/src/cover_handle/callgraph.rs; "shm" is the copy of the  *)
(* tracer's files that the methods are given.                              *)
(*                                                                         *)
(* Ids are tuples of what the code hashes.  A HashMap is iterated in any   *)
(* order: such an order is a parameter that the caller chooses.            *)
(***************************************************************************)
EXTENDS Integers, Sequences, SequencesExt, FiniteSets, Functions, Bags

CONSTANTS
  TopicKey(_, _), \* the exclusive or of two handles
  Infinity,       \* f64::MAX, above every quotient
  MaxMsgSize      \* larger messages are taken for garbage (2048000000)

ASSUME GraphAssumption == Infinity \in Nat /\ MaxMsgSize \in Nat

VARIABLES
  nodes,          \* NodeInfo by id: handle and pid
  callbacks,      \* CallbackInfo by id
  eventTrace,     \* event_trace, by the id of a CallTrace
  timerTrace,     \* timer_trace, by the id of a callback
  topicTrace,     \* topic_trace, by the key of callback and subscription
  curEvent,       \* current_event_trace: CallbackInfo by id
  curTimer,       \* current_timer_trace
  curTopic        \* current_topic_trace

graphVars == <<nodes, callbacks, eventTrace, timerTrace, topicTrace,
               curEvent, curTimer, curTopic>>
EmptyMap == [x \in {} |-> 0]

\* HashMap::insert
Put(map, key, value) ==
  [x \in DOMAIN map \cup {key} |-> IF x = key THEN value ELSE map[x]]

GraphInit ==
  /\ nodes = EmptyMap /\ callbacks = EmptyMap
  /\ eventTrace = EmptyMap /\ timerTrace = EmptyMap /\ topicTrace = EmptyMap
  /\ curEvent = EmptyMap /\ curTimer = EmptyMap /\ curTopic = EmptyMap

\* EventType, for the events that the traces use and one that they do not.
CbStart == 1
CbEnd == 2
RclPub == 3
ExeExe == 9
ExeRdy == 10
Ending == {CbEnd, 4, 5, 8, ExeExe, ExeRdy} \* also RclSub, SrvReq, CliRsp

-----------------------------------------------------------------------------
(* update_callback_info                                                     *)

\* Slots without a handle are skipped; a known name gets the handle and pid.
UpdateNode(g, n) ==
  IF n.handle = 0 THEN g ELSE Put(g, n.name, [handle |-> n.handle, pid |-> n.pid])

UpdatedNodes(shm) == FoldLeft(UpdateNode, nodes, shm.nodes)

\* The node whose callback it is: any with that handle, else "ros2cli".
NodeNames(g, handle) ==
  LET found == {n \in DOMAIN g : g[n].handle = handle}
  IN  IF found = {} THEN {"ros2cli"} ELSE found

\* The ways to name the nodes of all registered callbacks.
Namings(shm) ==
  LET g == UpdatedNodes(shm)
      handles == {shm.cbs[i].node_handle : i \in 1 .. Len(shm.cbs)}
  IN  {f \in [handles -> UNION {NodeNames(g, h) : h \in handles}] :
         \A h \in handles : f[h] \in NodeNames(g, h)}

CallbackId(name, cb) == <<name, cb.cb_name, cb.cb_type>>

\* CallbackInfo::new, with the name of the node or, in one place, without. The
\* types are those set_type knows (0 to 5); it panics for any other one.
NewCallbackNoPid(name, cb) ==
  [node_name |-> name, handles |-> cb.handles, rmw_handle |-> cb.rmw_handle,
   pid |-> 0, node_handle |-> cb.node_handle,
   invoke_time |-> << >>, start_time |-> << >>, end_time |-> << >>]
NewCallback(name, cb) ==
  [node_name |-> name, handles |-> cb.handles, rmw_handle |-> cb.rmw_handle,
   pid |-> cb.pid, node_handle |-> cb.node_handle,
   invoke_time |-> << >>, start_time |-> << >>, end_time |-> << >>]

\* A callback of another pid keeps its times; one of the same pid is new.
KeptAlways(old, cb) == TRUE
KeptOnUpdate(old, cb) == old.pid # cb.pid

ResetCbVal(g, name, cb) ==
  LET id == CallbackId(name, cb) IN
  IF id \notin DOMAIN g
  THEN Put(g, id, NewCallback(name, cb))
  ELSE IF KeptOnUpdate(g[id], cb)
  THEN [g EXCEPT ![id] = [g[id] EXCEPT !.handles = cb.handles, !.rmw_handle = cb.rmw_handle,
                                       !.pid = cb.pid, !.node_handle = cb.node_handle]]
  ELSE [g EXCEPT ![id] = NewCallback("", cb)]

\* Slots that are not in use are skipped.
UpdateCallback(g, cb, naming) ==
  IF 0 \in {cb.rcl_handle, cb.node_handle, cb.cb_type} THEN g
  ELSE ResetCbVal(g, naming[cb.node_handle], cb)

UpdatedCallbacks(shm, naming) ==
  FoldLeft(LAMBDA g, cb : UpdateCallback(g, cb, naming), callbacks, shm.cbs)

UpdateCallbackInfo(shm) ==
  /\ nodes' = UpdatedNodes(shm)
  /\ \E naming \in Namings(shm) : callbacks' = UpdatedCallbacks(shm, naming)
  /\ UNCHANGED <<eventTrace, timerTrace, topicTrace, curEvent, curTimer, curTopic>>

-----------------------------------------------------------------------------
(* trim_times                                                               *)

\* A record that was written, and not before the program started.
PassesNoFlag(r, start) == r.cb # 0 /\ r.time >= start
Passes(r, start) == r.cb # 0 /\ r.flag # 0 /\ r.time >= start

\* From the newest back: events that only begin something are skipped until
\* the first that ends something, and all before it are taken.  The vector
\* goes through a HashSet: what remains is a set.
TrimTimes(shm, start) ==
  {shm.times[i] : i \in {j \in DOMAIN shm.times :
     /\ Passes(shm.times[j], start)
     /\ \E k \in DOMAIN shm.times :
          k >= j /\ Passes(shm.times[k], start) /\ shm.times[k].flag \in Ending}}

\* Messages that arrived, of a sensible size, sent since the start.
MsgPasses(m, start) ==
  /\ m.callback # 0 /\ m.subscription # 0 /\ m.send_time # 0 /\ m.recv_time # 0
  /\ m.size <= MaxMsgSize /\ m.recv_time >= m.send_time /\ m.send_time >= start

-----------------------------------------------------------------------------
(* get_call_trace                                                           *)

AddMsg(t, m, start) ==
  LET key == TopicKey(m.callback, m.subscription)
      pair == <<m.size, m.recv_time - m.send_time>>
  IN  IF ~MsgPasses(m, start) THEN t
      ELSE IF key \in DOMAIN t THEN [t EXCEPT ![key].pairs = Append(@, pair)]
      ELSE Put(t, key, [callback |-> m.callback, subscription |-> m.subscription,
                        pairs |-> <<pair>>])

TopicTraces(shm, start) == FoldLeft(LAMBDA t, m : AddMsg(t, m, start), EmptyMap, shm.msgs)

\* get_callback_id_via_time: an event belongs to a callback if it names one
\* of its handles or the same middleware handle, 0 for none included.
Matching(g, r) == {id \in DOMAIN g : r.cb \in g[id].handles \/ r.rmw_handle = g[id].rmw_handle}

\* The map does not change in between: one handle finds one callback.
Attributions(g, recs) ==
  {f \in [{<<r.cb, r.rmw_handle>> : r \in recs} -> DOMAIN g \cup {<< >>}] :
     \A r \in recs : LET id == f[<<r.cb, r.rmw_handle>>] IN
       IF Matching(g, r) = {} THEN id = << >> ELSE id \in Matching(g, r)}

\* The set in the order of time; equal times in any order.
AnyOrders(recs) == SetToSeqs(recs)
TimeOrders(recs) ==
  {s \in SetToSeqs(recs) : \A i \in 1 .. Len(s) - 1 : s[i].time <= s[i + 1].time}

\* update_cb_start_end_time
AddTime(cb, r) ==
  CASE r.flag = CbStart -> [cb EXCEPT !.start_time = Append(@, r.time)]
    [] r.flag = CbEnd   -> [cb EXCEPT !.end_time = Append(@, r.time)]
    [] r.flag = ExeRdy  -> [cb EXCEPT !.invoke_time = Append(@, r.time)]

\* get_event_trace: the first event of a callback is added to the global
\* entry, of which the trace gets a copy; later ones to the copy.
GetEventTrace(st, id, r) ==
  IF id \in DOMAIN st.event
  THEN [st EXCEPT !.event[id] = AddTime(@, r)]
  ELSE LET cb == AddTime(st.callbacks[id], r)
       IN  [st EXCEPT !.callbacks[id] = cb, !.event = Put(@, id, cb)]

\* get_timer_trace: a start is paired with the oldest scheduling and queue size.
NoTimer == [pairs |-> << >>, sched |-> << >>, queue |-> << >>, start |-> << >>]

GetTimerTrace(st, id, r) ==
  LET t == IF id \in DOMAIN st.timer THEN st.timer[id] ELSE NoTimer
      new == CASE r.flag = ExeRdy -> [t EXCEPT !.sched = Append(@, r.time)]
               [] r.flag = ExeExe -> [t EXCEPT !.queue = Append(@, r.message_size)]
               [] r.flag = CbStart ->
                    [pairs |-> Append(t.pairs, <<r.time - Head(t.sched), Head(t.queue)>>),
                     sched |-> Tail(t.sched), queue |-> Tail(t.queue),
                     start |-> Append(t.start, r.time)]
  IN  IF r.flag = CbStart /\ (t.sched = << >> \/ t.queue = << >>) THEN st
      ELSE [st EXCEPT !.timer = Put(@, id, new)]

\* The loop over the events.
TraceEvent(st, id, r) ==
  LET ev == IF r.flag \in {CbStart, CbEnd, ExeRdy} THEN GetEventTrace(st, id, r) ELSE st
  IN  IF r.flag \in {CbStart, ExeExe, ExeRdy} THEN GetTimerTrace(ev, id, r) ELSE ev

TraceAttributed(st, att, r) ==
  LET id == att[<<r.cb, r.rmw_handle>>]
  IN  IF id = << >> THEN st ELSE TraceEvent(st, id, r)

Traces(g, att, order) ==
  FoldLeft(LAMBDA st, r : TraceAttributed(st, att, r),
           [callbacks |-> g, event |-> EmptyMap, timer |-> EmptyMap], order)

\* Timers without a measurement are removed at the end.
AllTimers(t) == DOMAIN t
NonEmptyTimers(t) == {id \in DOMAIN t : t[id].pairs # << >>}

GetCallTrace(shm, start) ==
  /\ nodes' = UpdatedNodes(shm)
  /\ curTopic' = TopicTraces(shm, start)
  /\ \E naming \in Namings(shm) :
       LET g == UpdatedCallbacks(shm, naming)
           recs == TrimTimes(shm, start)
       IN \E att \in Attributions(g, recs), order \in TimeOrders(recs) :
            LET trace == Traces(g, att, order)
            IN  /\ callbacks' = trace.callbacks
                /\ curEvent' = trace.event
                /\ curTimer' = Restrict(trace.timer, NonEmptyTimers(trace.timer))
  /\ UNCHANGED <<eventTrace, timerTrace, topicTrace>>

-----------------------------------------------------------------------------
(* The monitors.                                                            *)

\* event_monitor: neither the id nor the latency of a trace is ever computed,
\* so all traces share one entry, the first, and none is a new maximum.
EventTraceId == 0
CurLatency == 0

EventMonitor ==
  eventTrace' =
    IF EventTraceId \notin DOMAIN eventTrace
    THEN Put(eventTrace, EventTraceId, [trace |-> curEvent, time_set |-> {}])
    ELSE [eventTrace EXCEPT ![EventTraceId].time_set = @ \cup {CurLatency}]

\* The second of a pair by the first, as integers.
Throughputs(pairs) == {p[2] \div p[1] : p \in Range(pairs)}
Divides(pairs) == pairs # << >> /\ \A p \in Range(pairs) : p[1] # 0

LeastOf(S) == CHOOSE x \in S : \A y \in S : x <= y
GreatestOf(S) == CHOOSE x \in S : \A y \in S : x >= y
PairBag(pairs) == [p \in Range(pairs) |-> Cardinality({i \in DOMAIN pairs : pairs[i] = p})]

\* What is inserted for an edge that is not known yet.
NewExtremes(pairs) == [first |-> pairs, min |-> Infinity, max |-> -1, seen |-> EmptyBag]

\* One edge against its extremes: a new minimum, else a new maximum.
JudgedMin(e, pairs) ==
  LET lo == LeastOf(Throughputs(pairs))
  IN  IF lo < e.min THEN [e EXCEPT !.min = lo, !.seen = @ (+) PairBag(pairs)] ELSE e
JudgedLast(e, pairs) ==
  [e EXCEPT !.min = LeastOf(Throughputs(pairs)), !.max = GreatestOf(Throughputs(pairs))]
Judged(e, pairs) ==
  LET lo == LeastOf(Throughputs(pairs))
      hi == GreatestOf(Throughputs(pairs))
  IN  CASE lo < e.min -> [e EXCEPT !.min = lo, !.seen = @ (+) PairBag(pairs)]
        [] lo >= e.min /\ hi > e.max -> [e EXCEPT !.max = hi, !.seen = @ (+) PairBag(pairs)]
        [] OTHER -> e

\* The entry of an edge, inserted when the edge is not known yet.
Entry(global, id, pairs) == IF id \in DOMAIN global THEN global[id] ELSE NewExtremes(pairs)

\* An edge ends the loop: a division by 0 panics, a new extreme is returned.
Stops(global, id, pairs) ==
  \/ ~Divides(pairs)
  \/ Judged(Entry(global, id, pairs), pairs) # Entry(global, id, pairs)

\* timer_monitor and topic_monitor: the edges in some order up to the first
\* that ends the loop.  Each has an entry of its own.
MonitorEdges(global, current, order) ==
  LET visited == {order[i] : i \in {k \in DOMAIN order : \A j \in 1 .. k - 1 :
                                      ~Stops(global, order[j], current[order[j]].pairs)}}
      last == {id \in visited : Stops(global, id, current[id].pairs)}
  IN  [global |-> [id \in DOMAIN global \cup visited |->
                     IF id \in last /\ Divides(current[id].pairs)
                     THEN Judged(Entry(global, id, current[id].pairs), current[id].pairs)
                     ELSE Entry(global, id, current[id].pairs)],
       found |-> \E id \in last : Divides(current[id].pairs),
       panicked |-> \E id \in last : ~Divides(current[id].pairs)]

\* monitors, given the orders; a panic in the second leaves the third out.
Monitors(timerOrder, topicOrder) ==
  LET timers == MonitorEdges(timerTrace, curTimer, timerOrder)
      topics == MonitorEdges(topicTrace, curTopic, topicOrder)
  IN  /\ EventMonitor
      /\ timerTrace' = timers.global
      /\ topicTrace' = IF timers.panicked THEN topicTrace ELSE topics.global
      /\ UNCHANGED <<nodes, callbacks, curEvent, curTimer, curTopic>>

MonitorsPanic(timerOrder, topicOrder) ==
  \/ MonitorEdges(timerTrace, curTimer, timerOrder).panicked
  \/ MonitorEdges(topicTrace, curTopic, topicOrder).panicked

MonitorsFound(timerOrder, topicOrder) ==
  \/ MonitorEdges(timerTrace, curTimer, timerOrder).found
  \/ MonitorEdges(topicTrace, curTopic, topicOrder).found
=============================================================================
