--------------------------- MODULE CovServer_proofs ---------------------------
(***************************************************************************)
(* Theorems about CovServer, for every set of clients, objects and         *)
(* memories: the ranges of the shared memory and what ends a task, then    *)
(* the entries of socket2id and map, the files of the shared memories, the *)
(* processes that are left out of the statistics, and the ledger that the  *)
(* statistics implement.                                                   *)
(***************************************************************************)
EXTENDS CovServer, TLAPS

\* Where the task of a process is that has ended: past its last read.
PastRead ==
  {"close_socket", "close_map", "open", "lock_statistics", "scan", "output",
   "write", "remove", "done"}

\* What the statistics are.
Statistics ==
  [cov : SUBSET Nat, cov_map : [Names -> Ranges \cup {None}],
   end : Nat, exec_num : Nat, is_active : BOOLEAN]

\* Each of the three ways the code changes the statistics keeps their type.
LEMMA StatisticsActivate ==
  ASSUME NEW s \in Statistics
  PROVE  [s EXCEPT !.is_active = TRUE] \in Statistics
BY DEF Statistics

LEMMA StatisticsScan ==
  ASSUME NEW s \in Statistics, NEW n \in Names, NEW r \in Ranges, NEW e \in Nat
  PROVE  [s EXCEPT !.cov_map[n] = r, !.end = e] \in Statistics
<1>1. [s.cov_map EXCEPT ![n] = r] \in [Names -> Ranges \cup {None}]
  BY DEF Statistics
<1> QED
  BY <1>1 DEF Statistics

LEMMA StatisticsCommit ==
  ASSUME NEW s \in Statistics, NEW hits \in SUBSET Nat
  PROVE  [s EXCEPT !.exec_num = @ + 1, !.cov = @ \cup hits] \in Statistics
<1>1. s.cov \in SUBSET Nat /\ s.exec_num \in Nat
  BY DEF Statistics
<1>2. s.cov \cup hits \in SUBSET Nat
  BY <1>1
<1>3. ASSUME NEW C \in SUBSET Nat, NEW e \in Nat
      PROVE  [s EXCEPT !.exec_num = e, !.cov = C] \in Statistics
  BY DEF Statistics
<1>4. s.exec_num + 1 \in Nat
  BY <1>1
<1> QED
  BY <1>2, <1>3, <1>4 DEF Statistics


\* A task leaves its read loop only after the process has ended, and then
\* there is a memory to scan, which does not change any more.
Ended ==
  \A c \in Clients :
    /\ c \in eof \/ pc[c] \in PastRead => net[c].end \in {"eof", "reset"}
    /\ net[c].end \in {"eof", "reset"} => image[c] \in Images
    /\ pc[c] = "accept" => net[c].end = "absent"
    /\ pc[c] = "scan" => todo[c] \subseteq DOMAIN image[c].hdr.map

TypeInv == TypeOK /\ Ended

\* A new value for one client.
LEMMA SetUpdate ==
  ASSUME NEW S, NEW f \in [Clients -> SUBSET S], NEW c \in Clients, NEW v \in SUBSET S
  PROVE  [f EXCEPT ![c] = v] \in [Clients -> SUBSET S]
OBVIOUS

\* What a stream is; one whose message is read stays one.
Streams == [end : {"absent", "open", "eof", "reset"}, unread : BOOLEAN]

LEMMA StreamRead ==
  ASSUME NEW s \in [Clients -> Streams], NEW c \in Clients
  PROVE  [s EXCEPT ![c].unread = FALSE] \in [Clients -> Streams]
BY DEF Streams

LEMMA InitType == Init => TypeInv
<1> SUFFICES ASSUME Init PROVE TypeInv
  OBVIOUS
<1> USE ServerAssumption DEF Init
<1>1. TypeNet
  BY DEF TypeNet, RegisterMsgInfo, BlankMsg, Paths, Tasks, Labels
<1>2. TypeReg
  BY DEF TypeReg, RegisterMsgInfo, BlankMsg, Paths
<1>3. TypeStat
  BY DEF TypeStat, Tasks, NoOutput
<1>4. Ended
  BY DEF Ended, PastRead, Tasks
<1> QED
  BY <1>1, <1>2, <1>3, <1>4 DEF TypeInv, TypeOK

\* The registration a client sends, and the one in an empty buffer.
LEMMA MessageTypes ==
  /\ BlankMsg \in RegisterMsgInfo
  /\ \A c \in Clients : RegisterMsg(c) \in RegisterMsgInfo
BY ServerAssumption DEF BlankMsg, RegisterMsg, RegisterMsgInfo, Paths

\* The range an object is scanned into.
LEMMA RangeTypes ==
  ASSUME TypeInv, NEW c \in Clients, NEW n \in Names, pc[c] = "scan", n \in todo[c]
  PROVE  /\ SlotOf(image[c].hdr, n).size \in Nat
         /\ RangeOf(c, n) \in Ranges
         /\ EndAfter(n, RangeOf(c, n)) \in Nat
         /\ HitIndexes(c, n, RangeOf(c, n)) \subseteq Nat
<1>1. image[c] \in Images /\ n \in DOMAIN image[c].hdr.map
  BY DEF TypeInv, Ended, PastRead
<1>2. SlotOf(image[c].hdr, n).size \in Nat
  BY <1>1, ImageAssumption
<1>3. stats.end \in Nat /\ stats.cov_map[n] \in Ranges \cup {None}
  BY DEF TypeInv, TypeOK, TypeStat
<1>4. RangeOf(c, n) \in Ranges
  BY <1>2, <1>3 DEF RangeOf, Known, NewRange, Ranges
<1>5. EndAfter(n, RangeOf(c, n)) \in Nat
  BY <1>3, <1>4 DEF EndAfter, Ranges
<1>6. HitIndexes(c, n, RangeOf(c, n)) \subseteq Nat
  BY <1>4 DEF HitIndexes, Indexes, Ranges
<1> QED
  BY <1>2, <1>4, <1>5, <1>6

-----------------------------------------------------------------------------
(* Every step keeps the types.                                              *)

LEMMA NextType == TypeInv /\ [Next]_vars => TypeInv'
<1> SUFFICES ASSUME TypeInv, [Next]_vars PROVE TypeInv'
  OBVIOUS
<1> USE ServerAssumption DEF netVars, regVars, statVars, scanVars, outVars, histVars
<1>1. TypeNet /\ TypeReg /\ TypeStat /\ Ended
  BY DEF TypeInv, TypeOK
<1>2. SUFFICES TypeNet' /\ TypeReg' /\ TypeStat' /\ Ended'
  BY DEF TypeInv, TypeOK
<1>3. ASSUME NEW c \in Clients, Connect(c)
      PROVE  TypeNet' /\ TypeReg' /\ TypeStat' /\ Ended'
  <2> USE <1>3 DEF Connect, Goto, At
  <2>1. TypeNet'
    BY <1>1 DEF TypeNet, Tasks, Labels, RegisterMsgInfo, Paths
  <2>2. TypeReg'
    BY <1>1 DEF TypeNet, TypeReg, RegisterMsgInfo, Paths
  <2>3. TypeStat'
    BY <1>1 DEF TypeNet, TypeStat, Tasks
  <2>4. Ended'
    BY <1>1 DEF TypeNet, Ended, PastRead, Tasks
  <2> QED
    BY <2>1, <2>2, <2>3, <2>4
<1>4. ASSUME NEW c \in Clients, NEW how \in {"eof", "reset"}, ClientEnd(c, how)
      PROVE  TypeNet' /\ TypeReg' /\ TypeStat' /\ Ended'
  <2> USE <1>4 DEF ClientEnd, Goto, At
  <2>1. TypeNet'
    BY <1>1 DEF TypeNet, Tasks, Labels, RegisterMsgInfo, Paths
  <2>2. TypeReg'
    BY <1>1 DEF TypeNet, TypeReg, RegisterMsgInfo, Paths
  <2>3. TypeStat'
    BY <1>1 DEF TypeNet, TypeStat, Tasks
  <2>4. Ended'
    BY <1>1 DEF TypeNet, Ended, PastRead, Tasks
  <2> QED
    BY <2>1, <2>2, <2>3, <2>4
<1>5. ASSUME NEW c \in Clients, ReadMessage(c)
      PROVE  TypeNet' /\ TypeReg' /\ TypeStat' /\ Ended'
  <2>1. TypeNet'
    <3>1. net' \in [Clients -> [end : {"absent", "open", "eof", "reset"}, unread : BOOLEAN]]
      <4>1. net' = [net EXCEPT ![c].unread = FALSE]
        BY <1>5 DEF ReadMessage
      <4>2. net \in [Clients -> Streams]
        BY <1>1 DEF TypeNet, Streams
      <4> QED
        BY <4>1, <4>2, StreamRead DEF Streams
    <3>2. buf' \in [Clients -> RegisterMsgInfo]
      BY <1>1, <1>5, MessageTypes DEF TypeNet, ReadMessage
    <3>3. pc' \in [Tasks -> Labels]
      BY <1>1, <1>5 DEF TypeNet, ReadMessage, Goto, Tasks, Labels
    <3> QED
      BY <1>1, <1>5, <3>1, <3>2, <3>3 DEF TypeNet, ReadMessage
  <2>2. TypeReg'
    BY <1>1, <1>5 DEF ReadMessage, TypeReg
  <2>3. TypeStat'
    BY <1>1, <1>5 DEF ReadMessage, TypeStat
  <2>4. Ended'
    BY <1>1, <1>5 DEF ReadMessage, Goto, At, TypeNet, Ended, PastRead, Tasks
  <2> QED
    BY <2>1, <2>2, <2>3, <2>4
<1>6. ASSUME NEW c \in Clients, ReadEof(c)
      PROVE  TypeNet' /\ TypeReg' /\ TypeStat' /\ Ended'
  <2> USE <1>6 DEF ReadEof, Goto, At
  <2>1. TypeNet'
    BY <1>1 DEF TypeNet, Tasks, Labels, RegisterMsgInfo, Paths
  <2>2. TypeReg'
    BY <1>1 DEF TypeNet, TypeReg, RegisterMsgInfo, Paths
  <2>3. TypeStat'
    BY <1>1 DEF TypeNet, TypeStat, Tasks
  <2>4. Ended'
    BY <1>1 DEF TypeNet, Ended, PastRead, Tasks
  <2> QED
    BY <2>1, <2>2, <2>3, <2>4
<1>7. ASSUME NEW c \in Clients, ReadError(c)
      PROVE  TypeNet' /\ TypeReg' /\ TypeStat' /\ Ended'
  <2> USE <1>7 DEF ReadError, Goto, At
  <2>1. TypeNet'
    BY <1>1 DEF TypeNet, Tasks, Labels, RegisterMsgInfo, Paths
  <2>2. TypeReg'
    BY <1>1 DEF TypeNet, TypeReg, RegisterMsgInfo, Paths
  <2>3. TypeStat'
    BY <1>1 DEF TypeNet, TypeStat, Tasks
  <2>4. Ended'
    BY <1>1 DEF TypeNet, Ended, PastRead, Tasks
  <2> QED
    BY <2>1, <2>2, <2>3, <2>4
<1>8. ASSUME NEW c \in Clients, InsertSocket(c)
      PROVE  TypeNet' /\ TypeReg' /\ TypeStat' /\ Ended'
  <2> USE <1>8 DEF InsertSocket, Goto, At
  <2>1. TypeNet'
    BY <1>1 DEF TypeNet, Tasks, Labels, RegisterMsgInfo, Paths
  <2>2. TypeReg'
    BY <1>1 DEF TypeNet, TypeReg, RegisterMsgInfo, Paths
  <2>3. TypeStat'
    BY <1>1 DEF TypeNet, TypeStat, Tasks
  <2>4. Ended'
    BY <1>1 DEF TypeNet, Ended, PastRead, Tasks
  <2> QED
    BY <2>1, <2>2, <2>3, <2>4
<1>9. ASSUME NEW c \in Clients, InsertMap(c)
      PROVE  TypeNet' /\ TypeReg' /\ TypeStat' /\ Ended'
  <2> USE <1>9 DEF InsertMap, Goto, At
  <2>1. TypeNet'
    BY <1>1 DEF TypeNet, Tasks, Labels, RegisterMsgInfo, Paths
  <2>2. TypeReg'
    BY <1>1 DEF TypeNet, TypeReg, RegisterMsgInfo, Paths
  <2>3. TypeStat'
    BY <1>1 DEF TypeNet, TypeStat, Tasks
  <2>4. Ended'
    BY <1>1 DEF TypeNet, Ended, PastRead, Tasks
  <2> QED
    BY <2>1, <2>2, <2>3, <2>4
<1>10. ASSUME NEW c \in Clients, ReadActive(c)
      PROVE  TypeNet' /\ TypeReg' /\ TypeStat' /\ Ended'
  <2> USE <1>10 DEF ReadActive, AfterConnected, Goto, At
  <2>1. TypeNet'
    BY <1>1 DEF TypeNet, Tasks, Labels, RegisterMsgInfo, Paths
  <2>2. TypeReg'
    BY <1>1 DEF TypeNet, TypeReg, RegisterMsgInfo, Paths
  <2>3. TypeStat'
    BY <1>1 DEF TypeNet, TypeStat, Tasks
  <2>4. Ended'
    BY <1>1 DEF TypeNet, Ended, PastRead, Tasks
  <2> QED
    BY <2>1, <2>2, <2>3, <2>4
<1>11. ASSUME NEW c \in Clients, Activate(c)
      PROVE  TypeNet' /\ TypeReg' /\ TypeStat' /\ Ended'
  <2> USE <1>11 DEF Activate, Goto, At
  <2>1. TypeNet'
    BY <1>1 DEF TypeNet, Tasks, Labels, RegisterMsgInfo, Paths
  <2>2. TypeReg'
    BY <1>1 DEF TypeNet, TypeReg, RegisterMsgInfo, Paths
  <2>3. TypeStat'
    <3>1. stats \in Statistics
      BY <1>1 DEF TypeStat, Statistics
    <3>2. stats' \in Statistics
      BY <3>1, StatisticsActivate
    <3> QED
      BY <1>1, <3>2 DEF TypeStat, Statistics
  <2>4. Ended'
    BY <1>1 DEF TypeNet, Ended, PastRead, Tasks
  <2> QED
    BY <2>1, <2>2, <2>3, <2>4
<1>12. ASSUME NEW c \in Clients, CloseSocket(c)
      PROVE  TypeNet' /\ TypeReg' /\ TypeStat' /\ Ended'
  <2> USE <1>12 DEF CloseSocket, Goto, At
  <2>1. TypeNet'
    BY <1>1 DEF TypeNet, Tasks, Labels, RegisterMsgInfo, Paths
  <2>2. TypeReg'
    BY <1>1 DEF TypeNet, TypeReg, RegisterMsgInfo, Paths
  <2>3. TypeStat'
    BY <1>1 DEF TypeNet, TypeStat, Tasks
  <2>4. Ended'
    BY <1>1 DEF TypeNet, Ended, PastRead, Tasks
  <2> QED
    BY <2>1, <2>2, <2>3, <2>4
<1>13. ASSUME NEW c \in Clients, CloseMap(c)
      PROVE  TypeNet' /\ TypeReg' /\ TypeStat' /\ Ended'
  <2> USE <1>13 DEF CloseMap, Goto, At
  <2>1. TypeNet'
    BY <1>1 DEF TypeNet, Tasks, Labels, RegisterMsgInfo, Paths
  <2>2. TypeReg'
    BY <1>1 DEF TypeNet, TypeReg, RegisterMsgInfo, Paths
  <2>3. TypeStat'
    BY <1>1 DEF TypeNet, TypeStat, Tasks
  <2>4. Ended'
    BY <1>1 DEF TypeNet, Ended, PastRead, Tasks
  <2> QED
    BY <2>1, <2>2, <2>3, <2>4
<1>14. ASSUME NEW c \in Clients, OpenShm(c)
      PROVE  TypeNet' /\ TypeReg' /\ TypeStat' /\ Ended'
  <2> USE <1>14 DEF OpenShm, Goto, At
  <2>1. TypeNet'
    BY <1>1 DEF TypeNet, Tasks, Labels, RegisterMsgInfo, Paths
  <2>2. TypeReg'
    BY <1>1 DEF TypeNet, TypeReg, RegisterMsgInfo, Paths
  <2>3. TypeStat'
    BY <1>1 DEF TypeNet, TypeStat, Tasks
  <2>4. Ended'
    BY <1>1 DEF TypeNet, Ended, PastRead, Tasks
  <2> QED
    BY <2>1, <2>2, <2>3, <2>4
<1>15. ASSUME NEW c \in Clients, LockStatistics(c)
      PROVE  TypeNet' /\ TypeReg' /\ TypeStat' /\ Ended'
  <2>1. TypeNet'
    BY <1>1, <1>15 DEF LockStatistics, Goto, TypeNet, Tasks, Labels
  <2>2. TypeReg'
    BY <1>1, <1>15 DEF LockStatistics, TypeReg
  <2>3. TypeStat'
    <3>1. todo \in [Clients -> SUBSET Names] /\ upd \in [Clients -> SUBSET Nat]
      BY <1>1 DEF TypeStat
    <3>2. \/ UNCHANGED <<todo, upd>>
          \/ /\ todo' = [todo EXCEPT ![c] = DOMAIN image[c].hdr.map \cap AllowList]
             /\ upd' = [upd EXCEPT ![c] = {}]
      BY <1>15 DEF LockStatistics
    <3>3. DOMAIN image[c].hdr.map \cap AllowList \in SUBSET Names
      OBVIOUS
    <3>4. todo' \in [Clients -> SUBSET Names]
      BY <3>1, <3>2, <3>3, SetUpdate
    <3>5. upd' \in [Clients -> SUBSET Nat]
      BY <3>1, <3>2, SetUpdate
    <3> QED
      BY <1>1, <1>15, <3>4, <3>5 DEF TypeStat, LockStatistics
  <2>4. Ended'
    BY <1>1, <1>15 DEF LockStatistics, Goto, At, TypeNet, TypeStat, Ended, PastRead, Tasks
  <2> QED
    BY <2>1, <2>2, <2>3, <2>4
<1>16. ASSUME NEW c \in Clients, NEW n \in Names, ScanDso(c, n)
      PROVE  TypeNet' /\ TypeReg' /\ TypeStat' /\ Ended'
  <2>1. TypeNet'
    BY <1>1, <1>16 DEF ScanDso, Goto, TypeNet, Tasks, Labels
  <2>2. TypeReg'
    BY <1>1, <1>16 DEF ScanDso, TypeReg
  <2>3. TypeStat'
    <3> DEFINE r == RangeOf(c, n)
               hits == HitIndexes(c, n, r)
    <3>1. r \in Ranges /\ EndAfter(n, r) \in Nat /\ hits \in SUBSET Nat
      BY <1>1, <1>16, RangeTypes DEF TypeInv, TypeOK, ScanDso, At
    <3>2. stats' = [stats EXCEPT !.cov_map[n] = r, !.end = EndAfter(n, r)]
      BY <1>16 DEF ScanDso
    <3>3. \/ UNCHANGED <<todo, upd>>
          \/ /\ todo' = [todo EXCEPT ![c] = @ \ {n}]
             /\ upd' = [upd EXCEPT ![c] = @ \cup (hits \ stats.cov)]
      BY <1>16 DEF ScanDso
    <3> HIDE DEF r, hits
    <3>4. stats \in Statistics /\ todo \in [Clients -> SUBSET Names] /\ upd \in [Clients -> SUBSET Nat]
      BY <1>1 DEF TypeStat, Statistics
    <3>5. stats' \in Statistics
      BY <3>1, <3>2, <3>4, StatisticsScan
    <3>6. todo' \in [Clients -> SUBSET Names]
      <4>1. todo[c] \ {n} \in SUBSET Names
        BY <3>4
      <4>2. [todo EXCEPT ![c] = todo[c] \ {n}] \in [Clients -> SUBSET Names]
        BY <3>4, <4>1, SetUpdate
      <4>3. todo' = todo \/ todo' = [todo EXCEPT ![c] = todo[c] \ {n}]
        BY <3>3
      <4> QED
        BY <3>4, <4>2, <4>3
    <3>7. upd' \in [Clients -> SUBSET Nat]
      <4>1. upd[c] \in SUBSET Nat
        BY <3>4
      <4>2. upd[c] \cup (hits \ stats.cov) \in SUBSET Nat
        BY <3>1, <4>1
      <4> QED
        BY <3>3, <3>4, <4>2, SetUpdate
    <3> QED
      BY <1>1, <1>16, <3>5, <3>6, <3>7 DEF TypeStat, Statistics, ScanDso
  <2>4. Ended'
    <3>1. UNCHANGED <<net, image, eof>> /\ pc[c] = "scan"
      BY <1>16 DEF ScanDso, At
    <3>2. \/ pc' = [pc EXCEPT ![c] = "panicked"] /\ todo' = todo
          \/ pc' = pc /\ todo' = [todo EXCEPT ![c] = todo[c] \ {n}]
      BY <1>16 DEF ScanDso, Goto
    <3>3. pc \in [Tasks -> Labels] /\ todo \in [Clients -> SUBSET Names]
      BY <1>1 DEF TypeNet, TypeStat
    <3>4. ASSUME NEW d \in Clients
          PROVE  (pc'[d] = pc[d] \/ pc'[d] = "panicked") /\ todo'[d] \subseteq todo[d]
      BY <3>2, <3>3 DEF Tasks
    <3> QED
      BY <1>1, <3>1, <3>4 DEF Ended, PastRead
  <2> QED
    BY <2>1, <2>2, <2>3, <2>4
<1>17. ASSUME NEW c \in Clients, Commit(c)
      PROVE  TypeNet' /\ TypeReg' /\ TypeStat' /\ Ended'
  <2> USE <1>17 DEF Commit, Goto, At
  <2>1. TypeNet'
    BY <1>1 DEF TypeNet, Tasks, Labels, RegisterMsgInfo, Paths
  <2>2. TypeReg'
    BY <1>1 DEF TypeNet, TypeReg, RegisterMsgInfo, Paths
  <2>3. TypeStat'
    <3>1. stats \in Statistics /\ upd[c] \in SUBSET Nat
      BY <1>1 DEF TypeStat, Statistics
    <3>2. stats' \in Statistics
      BY <3>1, StatisticsCommit
    <3> QED
      BY <1>1, <3>2 DEF TypeStat, Statistics
  <2>4. Ended'
    BY <1>1 DEF TypeNet, Ended, PastRead, Tasks
  <2> QED
    BY <2>1, <2>2, <2>3, <2>4
<1>18. ASSUME NEW c \in Clients, RemoveFile(c)
      PROVE  TypeNet' /\ TypeReg' /\ TypeStat' /\ Ended'
  <2> USE <1>18 DEF RemoveFile, Goto, At
  <2>1. TypeNet'
    BY <1>1 DEF TypeNet, Tasks, Labels, RegisterMsgInfo, Paths
  <2>2. TypeReg'
    BY <1>1 DEF TypeNet, TypeReg, RegisterMsgInfo, Paths
  <2>3. TypeStat'
    BY <1>1 DEF TypeNet, TypeStat, Tasks
  <2>4. Ended'
    BY <1>1 DEF TypeNet, Ended, PastRead, Tasks
  <2> QED
    BY <2>1, <2>2, <2>3, <2>4
<1>19. ASSUME NEW t \in Tasks, SerializeBegin(t)
      PROVE  TypeNet' /\ TypeReg' /\ TypeStat' /\ Ended'
  <2> USE <1>19 DEF SerializeBegin, Output, Writing, AfterOutput, AfterConnected, HoldRead, Snapshot, Goto, At
  <2>1. TypeNet'
    BY <1>1 DEF TypeNet, Tasks, Labels, RegisterMsgInfo, Paths
  <2>2. TypeReg'
    BY <1>1 DEF TypeNet, TypeReg, RegisterMsgInfo, Paths
  <2>3. TypeStat'
    BY <1>1 DEF TypeNet, TypeStat, Tasks
  <2>4. Ended'
    BY <1>1 DEF TypeNet, Ended, PastRead, Tasks
  <2> QED
    BY <2>1, <2>2, <2>3, <2>4
<1>20. ASSUME NEW t \in Tasks, SerializeEnd(t)
      PROVE  TypeNet' /\ TypeReg' /\ TypeStat' /\ Ended'
  <2> USE <1>20 DEF SerializeEnd, AfterOutput, AfterConnected, Goto, At
  <2>1. TypeNet'
    BY <1>1 DEF TypeNet, Tasks, Labels, RegisterMsgInfo, Paths
  <2>2. TypeReg'
    BY <1>1 DEF TypeNet, TypeReg, RegisterMsgInfo, Paths
  <2>3. TypeStat'
    BY <1>1 DEF TypeNet, TypeStat, Tasks
  <2>4. Ended'
    BY <1>1 DEF TypeNet, Ended, PastRead, Tasks
  <2> QED
    BY <2>1, <2>2, <2>3, <2>4
<1>21. CASE UNCHANGED vars
  BY <1>1, <1>21 DEF vars, TypeNet, TypeReg, TypeStat, Ended
<1> QED
  BY <1>3, <1>4, <1>5, <1>6, <1>7, <1>8, <1>9, <1>10, <1>11, <1>12, <1>13, <1>14,
     <1>15, <1>16, <1>17, <1>18, <1>19, <1>20, <1>21
     DEF Next, ClientStep, TaskStep, TickerStep, Tasks

\* The collector's variables keep their types, whatever processes connect, end
\* or leave behind and however the tasks interleave: on_socket_connected,
\* update_index_with_allow_list and on_socket_closed.
THEOREM TypeCorrect == Spec => []TypeOK
<1>1. Init => TypeInv
  BY InitType
<1>2. TypeInv /\ [Next]_vars => TypeInv'
  BY NextType
<1>3. TypeInv => TypeOK
  BY DEF TypeInv
<1> QED
  BY <1>1, <1>2, <1>3, PTL DEF Spec

-----------------------------------------------------------------------------
(* The ranges of the coverage vector.                                       *)

PackedInv == TypeInv /\ RangesPacked

\* A task finds its object's range, or the range it will make, as follows.
LEMMA ScanEffect ==
  ASSUME TypeInv, NEW c \in Clients, NEW n \in Names, ScanDso(c, n)
  PROVE  \E r \in Ranges :
           /\ stats'.cov_map = [stats.cov_map EXCEPT ![n] = r]
           /\ stats'.cov = stats.cov /\ stats'.exec_num = stats.exec_num
           /\ \/ Known(n) /\ r = stats.cov_map[n] /\ stats'.end = stats.end
              \/ /\ ~Known(n)
                 /\ r.start = stats.end /\ r.end = stats'.end
                 /\ stats.end <= stats'.end
<1>1. pc[c] = "scan" /\ n \in todo[c]
  BY DEF ScanDso, At
<1>2. SlotOf(image[c].hdr, n).size \in Nat /\ RangeOf(c, n) \in Ranges
  BY <1>1, RangeTypes
<1>3. stats' = [stats EXCEPT !.cov_map[n] = RangeOf(c, n),
                             !.end = EndAfter(n, RangeOf(c, n))]
  BY DEF ScanDso
<1>4. stats \in Statistics
  BY DEF TypeInv, TypeOK, TypeStat, Statistics
<1>5. /\ stats'.cov_map = [stats.cov_map EXCEPT ![n] = RangeOf(c, n)]
      /\ stats'.end = EndAfter(n, RangeOf(c, n))
      /\ stats'.cov = stats.cov /\ stats'.exec_num = stats.exec_num
  BY <1>3, <1>4 DEF Statistics
<1>6. CASE Known(n)
  BY <1>2, <1>5, <1>6 DEF RangeOf, EndAfter
<1>7. CASE ~Known(n)
  <2>1. stats.end \in Nat
    BY <1>4 DEF Statistics
  <2>2. RangeOf(c, n) = NewRange(SlotOf(image[c].hdr, n).size)
    BY <1>7 DEF RangeOf
  <2>3. /\ RangeOf(c, n).start = stats.end
        /\ RangeOf(c, n).end = stats.end + SlotOf(image[c].hdr, n).size
    BY <2>2 DEF NewRange
  <2>4. stats'.end = RangeOf(c, n).end
    BY <1>5, <1>7 DEF EndAfter
  <2>5. stats.end <= stats'.end
    BY <1>2, <2>1, <2>3, <2>4
  <2> QED
    BY <1>2, <1>5, <1>7, <2>3, <2>4, <2>5
<1> QED
  BY <1>6, <1>7

\* The new range lies behind all known ones and ends where the vector's used
\* part now ends.
LEMMA PackedScan ==
  ASSUME PackedInv, NEW c \in Clients, NEW n \in Names, ScanDso(c, n)
  PROVE  RangesPacked'
<1>1. PICK r \in Ranges :
         /\ stats'.cov_map = [stats.cov_map EXCEPT ![n] = r]
         /\ \/ Known(n) /\ r = stats.cov_map[n] /\ stats'.end = stats.end
            \/ /\ ~Known(n)
               /\ r.start = stats.end /\ r.end = stats'.end
               /\ stats.end <= stats'.end
  BY ScanEffect DEF PackedInv
<1>2. stats.cov_map \in [Names -> Ranges \cup {None}] /\ stats.end \in Nat
  BY DEF PackedInv, TypeInv, TypeOK, TypeStat
<1>3. CASE Known(n)
  <2>1. stats'.cov_map = stats.cov_map /\ stats'.end = stats.end
    BY <1>1, <1>2, <1>3
  <2> QED
    BY <2>1 DEF PackedInv, RangesPacked, Known, Indexes
<1>4. CASE ~Known(n)
  <2>1. /\ r.start = stats.end /\ r.end = stats'.end
        /\ stats.end <= stats'.end /\ stats'.end \in Nat
    BY <1>1, <1>4 DEF Ranges
  <2>2. /\ stats'.cov_map[n] = r
        /\ \A m \in Names \ {n} : stats'.cov_map[m] = stats.cov_map[m]
    BY <1>1, <1>2
  <2>3. ASSUME NEW m \in Names \ {n}, Known(m)
        PROVE  /\ stats.cov_map[m] \in Ranges
               /\ stats.cov_map[m].start <= stats.cov_map[m].end
               /\ stats.cov_map[m].end <= stats.end
    BY <1>2, <2>3 DEF PackedInv, RangesPacked, Known
  <2>4. ASSUME NEW m \in Names, Known(m)'
        PROVE  /\ stats'.cov_map[m].start <= stats'.cov_map[m].end
               /\ stats'.cov_map[m].end <= stats'.end
    <3>1. CASE m = n
      BY <2>1, <2>2, <3>1
    <3>2. CASE m # n
      <4>1. Known(m) /\ stats'.cov_map[m] = stats.cov_map[m]
        BY <2>2, <2>4, <3>2 DEF Known
      <4> QED
        BY <1>2, <2>1, <2>3, <3>2, <4>1 DEF Ranges
    <3> QED
      BY <3>1, <3>2
  <2>5. ASSUME NEW m \in Names \ {n}, Known(m)
        PROVE  Indexes(stats.cov_map[m]) \cap Indexes(r) = {}
    BY <1>2, <2>1, <2>3, <2>5 DEF Indexes, Ranges
  <2>6. ASSUME NEW l \in Names, NEW m \in Names, l # m, Known(l)', Known(m)'
        PROVE  Indexes(stats'.cov_map[l]) \cap Indexes(stats'.cov_map[m]) = {}
    <3>1. CASE l = n
      BY <2>2, <2>5, <2>6, <3>1 DEF Known
    <3>2. CASE m = n
      BY <2>2, <2>5, <2>6, <3>2 DEF Known
    <3>3. CASE l # n /\ m # n
      BY <2>2, <2>6, <3>3 DEF PackedInv, RangesPacked, Known
    <3> QED
      BY <3>1, <3>2, <3>3
  <2>7. ASSUME NEW i \in 0 .. stats'.end - 1
        PROVE  \E m \in Names : Known(m)' /\ i \in Indexes(stats'.cov_map[m])
    <3>1. CASE i < stats.end
      <4>1. PICK m \in Names : Known(m) /\ i \in Indexes(stats.cov_map[m])
        BY <1>2, <3>1 DEF PackedInv, RangesPacked
      <4>2. m # n
        BY <1>4, <4>1
      <4> QED
        BY <2>2, <4>1, <4>2 DEF Known
    <3>2. CASE stats.end <= i
      <4>1. i \in Indexes(r)
        BY <1>2, <2>1, <3>2 DEF Indexes
      <4>2. r # None
        BY ServerAssumption DEF Ranges
      <4> QED
        BY <2>2, <4>1, <4>2 DEF Known
    <3> QED
      BY <1>2, <3>1, <3>2
  <2> QED
    BY <2>4, <2>6, <2>7 DEF RangesPacked, Known, Indexes
<1> QED
  BY <1>3, <1>4

\* What the other steps that write the statistics change of them.
LEMMA StatisticsEffect ==
  ASSUME TypeInv, NEW c \in Clients
  PROVE  /\ Activate(c) =>
              /\ stats'.cov_map = stats.cov_map /\ stats'.end = stats.end
              /\ stats'.cov = stats.cov /\ stats'.exec_num = stats.exec_num
         /\ Commit(c) =>
              /\ stats'.cov_map = stats.cov_map /\ stats'.end = stats.end
              /\ stats'.cov = stats.cov \cup upd[c]
              /\ stats'.exec_num = stats.exec_num + 1
<1>1. stats \in Statistics
  BY DEF TypeInv, TypeOK, TypeStat, Statistics
<1>2. ASSUME Activate(c)
      PROVE  stats' = stats \/ stats' = [stats EXCEPT !.is_active = TRUE]
  BY <1>2 DEF Activate
<1>3. ASSUME Commit(c)
      PROVE  stats' = [stats EXCEPT !.exec_num = @ + 1, !.cov = @ \cup upd[c]]
  BY <1>3 DEF Commit
<1> QED
  BY <1>1, <1>2, <1>3 DEF Statistics

LEMMA NextPacked == PackedInv /\ [Next]_vars => PackedInv'
<1> SUFFICES ASSUME PackedInv, [Next]_vars PROVE PackedInv'
  OBVIOUS
<1>1. TypeInv /\ TypeInv' /\ RangesPacked
  BY NextType DEF PackedInv
<1>2. ASSUME UNCHANGED <<stats.cov_map, stats.end>>
      PROVE  RangesPacked'
  BY <1>1, <1>2 DEF RangesPacked, Known, Indexes
<1>3. ASSUME NEW c \in Clients, NEW n \in Names, ScanDso(c, n)
      PROVE  RangesPacked'
  BY <1>3, PackedScan
<1>4. ASSUME NEW c \in Clients, Activate(c) \/ Commit(c)
      PROVE  RangesPacked'
  BY <1>1, <1>2, <1>4, StatisticsEffect
<1>5. \/ \E c \in Clients, n \in Names : ScanDso(c, n)
      \/ \E c \in Clients : Activate(c) \/ Commit(c)
      \/ UNCHANGED stats
  BY DEF Next, ClientStep, TaskStep, TickerStep, vars, statVars, Connect,
     ClientEnd, ReadMessage, ReadEof, ReadError, InsertSocket, InsertMap,
     ReadActive, CloseSocket, CloseMap, OpenShm, LockStatistics, RemoveFile,
     SerializeBegin, SerializeEnd
<1>6. RangesPacked'
  BY <1>2, <1>3, <1>4, <1>5
<1> QED
  BY <1>1, <1>6 DEF PackedInv

\* cov_map gives the objects disjoint ranges that fill the used part of the
\* coverage vector, whatever lengths the processes report for an object and in
\* whatever order they end: update_index_with_allow_list, cov_range.
THEOREM PackedCorrect == Spec => []RangesPacked
<1>1. Init => PackedInv
  <2> SUFFICES ASSUME Init PROVE PackedInv
    OBVIOUS
  <2>1. stats.end = 0 /\ \A n \in Names : ~Known(n)
    BY DEF Init, Known
  <2>2. RangesPacked
    BY <2>1 DEF RangesPacked
  <2> QED
    BY <2>2, InitType DEF PackedInv
<1>2. PackedInv /\ [Next]_vars => PackedInv'
  BY NextPacked
<1>3. PackedInv => RangesPacked
  BY DEF PackedInv
<1> QED
  BY <1>1, <1>2, <1>3, PTL DEF Spec

-----------------------------------------------------------------------------
(* What is written out.                                                     *)

WriteLabels == {"write_first", "write", "write_tick"}

\* A snapshot that is being written is still the present state, because the
\* read lock keeps every writer out, and the file is never ahead of the
\* statistics.
OutputInv ==
  /\ \A t \in Tasks : pc[t] \in WriteLabels => t \in readers /\ snap[t] = Snapshot
  /\ readers # {} => writer = Free
  /\ \A c \in Clients : pc[c] = "scan" => writer = c
  /\ out.exec <= stats.exec_num
  /\ out.cov \subseteq stats.cov
  /\ out.end <= stats.end

OutInv == TypeInv /\ OutputInv

\* The file after a step, and whether it went back.
OutputGrows ==
  /\ out.exec <= out'.exec
  /\ out.cov \subseteq out'.cov
  /\ out.end <= out'.end

\* The steps that touch neither the locks nor the statistics nor the output,
\* and move a task to a place where it neither writes nor scans.
LEMMA OutputQuiet ==
  ASSUME OutInv, NEW t \in Tasks, NEW l \in Labels \ (WriteLabels \cup {"scan"}),
         pc' = pc \/ pc' = [pc EXCEPT ![t] = l],
         UNCHANGED <<writer, readers, stats, snap, out>>
  PROVE  OutputInv' /\ OutputGrows
<1>1. pc \in [Tasks -> Labels]
  BY DEF OutInv, TypeInv, TypeOK, TypeNet
<1>2. \A u \in Tasks : pc'[u] = pc[u] \/ pc'[u] = l
  BY <1>1
<1>3. OutputInv'
  BY <1>2 DEF OutInv, OutputInv, Snapshot, Tasks
<1>4. out \in [exec : Nat, cov : SUBSET Nat, end : Nat]
  BY DEF OutInv, TypeInv, TypeOK, TypeStat
<1>5. OutputGrows
  BY <1>4 DEF OutputGrows
<1> QED
  BY <1>3, <1>5

LEMMA OutputStep == OutInv /\ [Next]_vars => OutputInv' /\ OutputGrows
<1> SUFFICES ASSUME OutInv, [Next]_vars PROVE OutputInv' /\ OutputGrows
  OBVIOUS
<1>1. TypeInv /\ TypeNet /\ TypeReg /\ TypeStat /\ OutputInv
  BY DEF OutInv, TypeInv, TypeOK
<1>2. /\ out.exec \in Nat /\ out.end \in Nat
      /\ stats.exec_num \in Nat /\ stats.end \in Nat
      /\ stats.cov \in SUBSET Nat
      /\ pc \in [Tasks -> Labels]
  BY <1>1 DEF TypeStat, TypeNet
<1>3. ASSUME NEW c \in Clients,
             \/ Connect(c) \/ \E how \in {"eof", "reset"} : ClientEnd(c, how)
             \/ ReadMessage(c) \/ ReadEof(c) \/ ReadError(c)
             \/ InsertSocket(c) \/ InsertMap(c) \/ ReadActive(c)
             \/ CloseSocket(c) \/ CloseMap(c) \/ OpenShm(c)
      PROVE  OutputInv' /\ OutputGrows
  <2>1. UNCHANGED <<writer, readers, stats, snap, out>>
    BY <1>3 DEF statVars, outVars, Connect, ClientEnd, ReadMessage, ReadEof,
       ReadError, InsertSocket, InsertMap, ReadActive, CloseSocket, CloseMap,
       OpenShm
  <2>2. \E l \in Labels \ (WriteLabels \cup {"scan"}) :
          pc' = pc \/ pc' = [pc EXCEPT ![c] = l]
    BY <1>3 DEF Connect, ClientEnd, ReadMessage, ReadEof, ReadError,
       InsertSocket, InsertMap, ReadActive, CloseSocket, CloseMap, OpenShm,
       Goto, AfterConnected, Labels, WriteLabels
  <2> QED
    BY <2>1, <2>2, OutputQuiet DEF Tasks
<1>4. ASSUME NEW c \in Clients, Activate(c)
      PROVE  OutputInv' /\ OutputGrows
  <2>1. /\ UNCHANGED <<writer, readers, snap, out>>
        /\ Snapshot' = Snapshot
        /\ stats'.cov = stats.cov /\ stats'.exec_num = stats.exec_num
        /\ stats'.end = stats.end
    BY <1>1, <1>4, StatisticsEffect DEF Activate, outVars, Snapshot
  <2>2. \A u \in Tasks : pc'[u] = pc[u] \/ pc'[u] \in {"panicked", "first_output"}
    BY <1>2, <1>4 DEF Activate, Goto
  <2> QED
    BY <1>1, <1>2, <2>1, <2>2 DEF OutputInv, OutputGrows, WriteLabels, Tasks
<1>5. ASSUME NEW c \in Clients, LockStatistics(c)
      PROVE  OutputInv' /\ OutputGrows
  <2>1. UNCHANGED <<readers, stats, snap, out>> /\ writer = Free /\ readers = {}
    BY <1>5 DEF LockStatistics, outVars
  <2>2. \A d \in Clients : pc[d] # "scan"
    BY <1>1, <2>1, ServerAssumption DEF OutputInv
  <2>3. \A t \in Tasks : pc[t] \notin WriteLabels
    BY <1>1, <2>1 DEF OutputInv
  <2>4. \/ writer' = writer /\ pc' = [pc EXCEPT ![c] = "panicked"]
        \/ writer' = c /\ pc' = [pc EXCEPT ![c] = "scan"]
    BY <1>5 DEF LockStatistics, Goto
  <2> QED
    BY <1>1, <1>2, <2>1, <2>2, <2>3, <2>4 DEF OutputInv, OutputGrows, WriteLabels, Tasks
<1>6. ASSUME NEW c \in Clients, (\E n \in Names : ScanDso(c, n)) \/ Commit(c)
      PROVE  OutputInv' /\ OutputGrows
  <2>1. UNCHANGED <<readers, snap, out>>
    BY <1>6 DEF ScanDso, Commit, outVars
  <2>2. pc[c] = "scan"
    BY <1>6 DEF ScanDso, Commit, At
  <2>3. writer = c /\ readers = {}
    BY <1>1, <2>2, ServerAssumption DEF OutputInv
  <2>4. /\ \A t \in Tasks : pc[t] \notin WriteLabels
        /\ \A d \in Clients \ {c} : pc[d] # "scan"
    BY <1>1, <2>3 DEF OutputInv
  <2>5. /\ stats.exec_num <= stats'.exec_num
        /\ stats.cov \subseteq stats'.cov
        /\ stats.end <= stats'.end
        /\ stats'.exec_num \in Nat /\ stats'.end \in Nat
    <3>1. CASE \E n \in Names : ScanDso(c, n)
      <4>1. PICK n \in Names : ScanDso(c, n)
        BY <3>1
      <4>2. PICK r \in Ranges :
              /\ stats'.cov = stats.cov /\ stats'.exec_num = stats.exec_num
              /\ \/ stats'.end = stats.end
                 \/ r.end = stats'.end /\ stats.end <= stats'.end
        BY <1>1, <4>1, ScanEffect
      <4>3. r.end \in Nat
        BY DEF Ranges
      <4> QED
        BY <1>2, <4>2, <4>3
    <3>2. CASE Commit(c)
      BY <1>1, <1>2, <3>2, StatisticsEffect
    <3> QED
      BY <1>6, <3>1, <3>2
  <2>6. \/ pc' = pc /\ writer' = writer
        \/ \E l \in {"panicked", "remove", "output"} : pc' = [pc EXCEPT ![c] = l]
    BY <1>6 DEF ScanDso, Commit, Goto
  <2>7. /\ \A t \in Tasks : pc'[t] \notin WriteLabels
        /\ \A d \in Clients : pc'[d] = "scan" => writer' = d
    BY <1>2, <2>3, <2>4, <2>6 DEF WriteLabels, Tasks
  <2> QED
    BY <1>1, <1>2, <2>1, <2>3, <2>5, <2>7 DEF OutputInv, OutputGrows
<1>7. ASSUME NEW t \in Tasks, SerializeBegin(t)
      PROVE  OutputInv' /\ OutputGrows
  <2>1. UNCHANGED <<writer, stats, out>> /\ writer = Free
    BY <1>7 DEF SerializeBegin
  <2>2. \/ /\ UNCHANGED <<readers, snap>>
           /\ \E l \in Labels \ (WriteLabels \cup {"scan"}) :
                pc' = [pc EXCEPT ![t] = l]
        \/ /\ readers' = readers \cup {t}
           /\ snap' = [snap EXCEPT ![t] = Snapshot]
           /\ \E l \in WriteLabels : pc' = [pc EXCEPT ![t] = l]
    BY <1>7 DEF SerializeBegin, AfterOutput, AfterConnected, Writing, HoldRead,
       Goto, Labels, WriteLabels
  <2>3. CASE UNCHANGED readers
    <3>1. CASE UNCHANGED snap /\ \E l \in Labels \ (WriteLabels \cup {"scan"}) :
                                   pc' = [pc EXCEPT ![t] = l]
      BY <2>1, <2>3, <3>1, OutputQuiet
    <3>2. CASE /\ snap' = [snap EXCEPT ![t] = Snapshot]
               /\ readers' = readers \cup {t}
               /\ \E l \in WriteLabels : pc' = [pc EXCEPT ![t] = l]
      <4>1. OutputInv'
        BY <1>1, <1>2, <2>1, <3>2 DEF OutputInv, Snapshot, TypeStat, Tasks, WriteLabels
      <4> QED
        BY <1>2, <2>1, <4>1 DEF OutputGrows
    <3> QED
      BY <2>2, <3>1, <3>2
  <2>4. CASE /\ readers' = readers \cup {t}
             /\ snap' = [snap EXCEPT ![t] = Snapshot]
             /\ \E l \in WriteLabels : pc' = [pc EXCEPT ![t] = l]
    <3>1. OutputInv'
      BY <1>1, <1>2, <2>1, <2>4 DEF OutputInv, Snapshot, TypeStat, Tasks, WriteLabels
    <3> QED
      BY <1>2, <2>1, <3>1 DEF OutputGrows
  <2> QED
    BY <2>2, <2>3, <2>4
<1>8. ASSUME NEW t \in Tasks, SerializeEnd(t)
      PROVE  OutputInv' /\ OutputGrows
  <2>1. /\ UNCHANGED <<writer, stats, snap>> /\ pc[t] \in WriteLabels
        /\ out' = snap[t] /\ readers' = readers \ {t}
    BY <1>8 DEF SerializeEnd, WriteLabels
  <2>2. \E l \in Labels \ (WriteLabels \cup {"scan"}) : pc' = [pc EXCEPT ![t] = l]
    <3>1. pc' = [pc EXCEPT ![t] = AfterOutput(t)]
      BY <1>8 DEF SerializeEnd, Goto
    <3>2. AfterOutput(t) \in {"close_socket", "read", "remove", "tick"}
      BY DEF AfterOutput, AfterConnected
    <3> QED
      BY <3>1, <3>2 DEF Labels, WriteLabels
  <2>3. out' = Snapshot
    BY <1>1, <2>1 DEF OutputInv
  <2>4. /\ out'.exec = stats.exec_num /\ out'.cov = stats.cov /\ out'.end = stats.end
    BY <2>3 DEF Snapshot
  <2>5. OutputInv'
    BY <1>1, <1>2, <2>1, <2>2, <2>4 DEF OutputInv, Snapshot, Tasks, WriteLabels
  <2> QED
    BY <1>1, <2>4, <2>5 DEF OutputInv, OutputGrows
<1>9. ASSUME NEW c \in Clients, RemoveFile(c)
      PROVE  OutputInv' /\ OutputGrows
  <2>1. /\ UNCHANGED <<readers, stats, snap, out>>
        /\ writer' = (IF writer = c THEN Free ELSE writer)
        /\ pc' = [pc EXCEPT ![c] = "done"]
    BY <1>9 DEF RemoveFile, outVars, Goto
  <2>2. \A t \in Tasks : t # c => pc'[t] = pc[t]
    BY <1>2, <2>1
  <2>3. pc'[c] = "done"
    BY <1>2, <2>1 DEF Tasks
  <2> QED
    BY <1>1, <1>2, <2>1, <2>2, <2>3
       DEF OutputInv, OutputGrows, Snapshot, WriteLabels, Tasks
<1>10. CASE UNCHANGED vars
  BY <1>1, <1>2, <1>10 DEF vars, OutputInv, OutputGrows, Snapshot
<1> QED
  BY <1>3, <1>4, <1>5, <1>6, <1>7, <1>8, <1>9, <1>10
     DEF Next, ClientStep, TaskStep, TickerStep, Tasks

\* The newest line of the output file, and the .cov file with it, never report
\* less than they did, although every task and the ticker write them:
\* serialize_statistics_to_filesystem under the read lock.
THEOREM OutputMonotoneCorrect == Spec => OutputMonotone
<1>1. Init => OutInv
  <2> SUFFICES ASSUME Init PROVE OutInv
    OBVIOUS
  <2>1. OutputInv
    BY DEF Init, OutputInv, NoOutput, WriteLabels, Tasks
  <2> QED
    BY <2>1, InitType DEF OutInv
<1>2. OutInv /\ [Next]_vars => OutInv'
  BY NextType, OutputStep DEF OutInv
<1>3. OutInv /\ [Next]_vars =>
        [/\ out.exec <= out'.exec
         /\ out.cov \subseteq out'.cov
         /\ out.end <= out'.end]_vars
  BY OutputStep DEF OutputGrows
<1> QED
  BY <1>1, <1>2, <1>3, PTL DEF Spec, OutputMonotone

-----------------------------------------------------------------------------
(* The ledger: what the entries, the files and the statistics come to       *)

\* A process has an entry in both hash maps, or in neither.
Entered(c) == socket2id[c] = buf[c] /\ map[buf[c].id][c] = buf[c].path
Absent(c) == socket2id[c] = None /\ \A i \in SessionIds : map[i][c] = None

\* Where the task of c is once its two entries are made, and once both are
\* taken out again.
Made == {"read_active", "activate", "first_output", "write_first"}
Taken ==
  {"open", "lock_statistics", "scan", "output", "write", "remove", "done"}

\* The buffer holds the registration once it was read and zeroes before; an
\* entry of map is under the id in the buffer, also the one that the call for
\* 0 bytes makes; a message that still waits has made no entry.
EntriesOf(c) ==
  /\ buf[c] = IF c \in registered THEN RegisterMsg(c) ELSE BlankMsg
  /\ \A i \in SessionIds : map[i][c] # None => i = buf[c].id
  /\ c \in eof => net[c].end = "eof"
  /\ c \in eof \/ net[c].end = "reset" => ~net[c].unread
  /\ net[c].unread => pc[c] = "read" /\ Absent(c)
  /\ pc[c] = "accept" => Absent(c)
  /\ pc[c] = "insert_map" => socket2id[c] = buf[c]
  /\ pc[c] \in Made => Entered(c)
  /\ pc[c] \in {"read", "close_socket"} => Entered(c) \/ Absent(c)
  /\ pc[c] = "close_map" =>
       socket2id[c] = None /\ info[c] = buf[c] /\ map[buf[c].id][c] # None
  /\ pc[c] \in Taken => Absent(c) /\ info[c] = buf[c]

\* The file is there from the connection to the end of the task, and a task
\* that got past the scan has committed it.
FileOf(c) ==
  /\ pc[c] \notin {"accept", "done"} => c \in file
  /\ pc[c] = "done" /\ c \in registered => c \notin file
  /\ pc[c] \in {"output", "write", "remove"} => c \in counted
  /\ pc[c] = "done" /\ c \in registered => c \in counted \/ ~Filter(image[c].hdr)
  /\ pc[c] = "panicked" => c \in Oversized \/ sPoisoned \/ stPoisoned
  /\ pc[c] = "accept" => c \notin registered

RegistryInv == \A c \in Clients : EntriesOf(c) /\ FileOf(c)
RegInv == TypeInv /\ RegistryInv

-----------------------------------------------------------------------------
(* A step of one process or of its task leaves the others' entries alone.   *)

SameFor(d) ==
  /\ net'[d] = net[d] /\ image'[d] = image[d]
  /\ buf'[d] = buf[d] /\ pc'[d] = pc[d]
  /\ socket2id'[d] = socket2id[d] /\ info'[d] = info[d]
  /\ \A i \in SessionIds : map'[i][d] = map[i][d]
  /\ d \in file' <=> d \in file
  /\ d \in eof' <=> d \in eof
  /\ d \in registered' <=> d \in registered
  /\ d \in counted' <=> d \in counted

\* A lock that is poisoned stays poisoned.
PoisonStays == (sPoisoned => sPoisoned') /\ (stPoisoned => stPoisoned')

LEMMA Frame ==
  ASSUME TypeInv, NEW c \in Clients, ClientStep(c) \/ TaskStep(c),
         NEW d \in Clients, d # c
  PROVE  SameFor(d) /\ PoisonStays
<1> USE DEF SameFor, PoisonStays, netVars, regVars, statVars, scanVars, outVars, histVars, Goto
<1>1. /\ net \in [Clients -> Streams] /\ image \in [Clients -> Images \cup {None}]
      /\ buf \in [Clients -> RegisterMsgInfo] /\ pc \in [Tasks -> Labels]
      /\ socket2id \in [Clients -> RegisterMsgInfo \cup {None}]
      /\ map \in [SessionIds -> [Clients -> Paths \cup {None}]]
      /\ info \in [Clients -> RegisterMsgInfo]
      /\ sPoisoned \in BOOLEAN /\ stPoisoned \in BOOLEAN
  BY DEF TypeInv, TypeOK, TypeNet, TypeReg, TypeStat, Streams
<1>2. CASE Connect(c)
  BY <1>1, <1>2 DEF Connect, Tasks
<1>3. CASE \E how \in {"eof", "reset"} : ClientEnd(c, how)
  BY <1>1, <1>3 DEF ClientEnd, Tasks
<1>4. CASE ReadMessage(c)
  BY <1>1, <1>4 DEF ReadMessage, Tasks
<1>5. CASE ReadEof(c)
  BY <1>1, <1>5 DEF ReadEof, Tasks
<1>6. CASE ReadError(c)
  BY <1>1, <1>6 DEF ReadError, Tasks
<1>7. CASE InsertSocket(c)
  BY <1>1, <1>7 DEF InsertSocket, Tasks
<1>8. CASE InsertMap(c)
  BY <1>1, <1>8 DEF InsertMap, Tasks
<1>9. CASE ReadActive(c)
  BY <1>1, <1>9 DEF ReadActive, Tasks
<1>10. CASE Activate(c)
  BY <1>1, <1>10 DEF Activate, Tasks
<1>11. CASE CloseSocket(c)
  BY <1>1, <1>11 DEF CloseSocket, Tasks
<1>12. CASE CloseMap(c)
  BY <1>1, <1>12 DEF CloseMap, Tasks
<1>13. CASE OpenShm(c)
  BY <1>1, <1>13 DEF OpenShm, Tasks
<1>14. CASE LockStatistics(c)
  BY <1>1, <1>14 DEF LockStatistics, Tasks
<1>15. CASE \E n \in Names : ScanDso(c, n)
  BY <1>1, <1>15 DEF ScanDso, Tasks
<1>16. CASE Commit(c)
  BY <1>1, <1>16 DEF Commit, Tasks
<1>17. CASE RemoveFile(c)
  BY <1>1, <1>17 DEF RemoveFile, Tasks
<1>18. CASE SerializeBegin(c)
  BY <1>1, <1>18 DEF SerializeBegin, Tasks
<1>19. CASE SerializeEnd(c)
  BY <1>1, <1>19 DEF SerializeEnd, Tasks
<1> QED
  BY <1>2, <1>3, <1>4, <1>5, <1>6, <1>7, <1>8, <1>9, <1>10, <1>11, <1>12, <1>13,
     <1>14, <1>15, <1>16, <1>17, <1>18, <1>19 DEF ClientStep, TaskStep

-----------------------------------------------------------------------------
(* A step of a process or of its task keeps its own entries in order.       *)

LEMMA OwnStep ==
  ASSUME RegInv, NEW c \in Clients, ClientStep(c) \/ TaskStep(c)
  PROVE  EntriesOf(c)' /\ FileOf(c)'
<1> USE ServerAssumption, MessageTypes
    DEF EntriesOf, FileOf, Entered, Absent, Made, Taken, netVars, regVars,
        statVars, scanVars, outVars, histVars, Goto, At
<1>1. /\ net \in [Clients -> Streams] /\ image \in [Clients -> Images \cup {None}]
      /\ buf \in [Clients -> RegisterMsgInfo] /\ pc \in [Tasks -> Labels]
      /\ socket2id \in [Clients -> RegisterMsgInfo \cup {None}]
      /\ map \in [SessionIds -> [Clients -> Paths \cup {None}]]
      /\ info \in [Clients -> RegisterMsgInfo]
  BY DEF RegInv, TypeInv, TypeOK, TypeNet, TypeReg, TypeStat, Streams
<1>2. EntriesOf(c) /\ FileOf(c)
  BY DEF RegInv, RegistryInv
<1>0. /\ pc[c] \in PastRead => net[c].end \in {"eof", "reset"}
      /\ pc[c] = "accept" => net[c].end = "absent"
  BY DEF RegInv, TypeInv, Ended
<1>3. buf[c].id \in SessionIds /\ buf[c].path \in Paths /\ buf[c] # None /\ buf[c].path # None
  BY <1>1 DEF RegisterMsgInfo, Paths
<1>4. CASE Connect(c)
  BY <1>1, <1>2, <1>3, <1>4, <1>0 DEF Connect, PastRead, Tasks, Streams
<1>5. CASE \E how \in {"eof", "reset"} : ClientEnd(c, how)
  <2>1. PICK how \in {"eof", "reset"} : ClientEnd(c, how)
    BY <1>5
  <2>2. net[c].end = "open" /\ pc[c] \notin PastRead /\ c \notin eof
    BY <1>0, <1>2, <2>1 DEF ClientEnd
  <2>3. /\ UNCHANGED <<buf, eof, pc, file, regVars, statVars, histVars>>
        /\ net'[c].unread => net[c].unread /\ how = "eof"
        /\ net'[c].end = how
    BY <1>1, <2>1 DEF ClientEnd, Streams
  <2> QED
    BY <1>1, <1>2, <2>2, <2>3 DEF PastRead
<1>6. CASE ReadMessage(c)
  BY <1>1, <1>2, <1>3, <1>6 DEF ReadMessage, Tasks, Streams
<1>7. CASE ReadEof(c)
  BY <1>1, <1>2, <1>3, <1>7 DEF ReadEof, Tasks, Streams
<1>8. CASE ReadError(c)
  BY <1>1, <1>2, <1>3, <1>8 DEF ReadError, Tasks, Streams
<1>9. CASE InsertSocket(c)
  BY <1>1, <1>2, <1>3, <1>9 DEF InsertSocket, Tasks, Streams
<1>10. CASE InsertMap(c)
  BY <1>1, <1>2, <1>3, <1>10 DEF InsertMap, Tasks, Streams
<1>11. CASE ReadActive(c)
  BY <1>1, <1>2, <1>3, <1>11 DEF ReadActive, Tasks, Streams, AfterConnected
<1>12. CASE Activate(c)
  BY <1>1, <1>2, <1>3, <1>12 DEF Activate, Tasks, Streams
<1>13. CASE CloseSocket(c)
  BY <1>1, <1>2, <1>3, <1>13 DEF CloseSocket, Tasks, Streams
<1>14. CASE CloseMap(c)
  BY <1>1, <1>2, <1>3, <1>14 DEF CloseMap, Tasks, Streams
<1>15. CASE OpenShm(c)
  BY <1>1, <1>2, <1>3, <1>15 DEF OpenShm, RegisterMsg, Tasks, Streams
<1>16. CASE LockStatistics(c)
  BY <1>1, <1>2, <1>3, <1>16 DEF LockStatistics, Tasks, Streams
<1>17. CASE \E n \in Names : ScanDso(c, n)
  BY <1>1, <1>2, <1>3, <1>17 DEF ScanDso, Tasks, Streams
<1>18. CASE Commit(c)
  BY <1>1, <1>2, <1>3, <1>18 DEF Commit, Tasks, Streams
<1>19. CASE RemoveFile(c)
  BY <1>1, <1>2, <1>3, <1>19 DEF RemoveFile, Tasks, Streams
<1>20. CASE SerializeBegin(c)
  BY <1>1, <1>2, <1>3, <1>20 DEF SerializeBegin, Tasks, Streams, AfterOutput, AfterConnected, Output, Writing
<1>21. CASE SerializeEnd(c)
  BY <1>1, <1>2, <1>3, <1>21 DEF SerializeEnd, Tasks, Streams, AfterOutput, AfterConnected
<1> QED
  BY <1>4, <1>5, <1>6, <1>7, <1>8, <1>9, <1>10, <1>11, <1>12, <1>13, <1>14, <1>15, <1>16, <1>17, <1>18, <1>19, <1>20, <1>21 DEF ClientStep, TaskStep

LEMMA NextRegistry == RegInv /\ [Next]_vars => RegInv'
<1> SUFFICES ASSUME RegInv, [Next]_vars PROVE RegInv'
  OBVIOUS
<1>1. TypeInv /\ TypeInv' /\ RegistryInv
  BY NextType DEF RegInv
<1>2. ASSUME NEW d \in Clients, SameFor(d), PoisonStays
      PROVE  EntriesOf(d)' /\ FileOf(d)'
  <2>1. EntriesOf(d) /\ FileOf(d) /\ buf[d].id \in SessionIds
    BY <1>1 DEF RegistryInv, TypeInv, TypeOK, TypeNet, RegisterMsgInfo
  <2> QED
    BY <1>2, <2>1 DEF EntriesOf, FileOf, Entered, Absent, SameFor, PoisonStays
<1>3. ASSUME NEW c \in Clients, ClientStep(c) \/ TaskStep(c)
      PROVE  RegistryInv'
  <2>1. ASSUME NEW d \in Clients PROVE EntriesOf(d)' /\ FileOf(d)'
    BY <1>1, <1>2, <1>3, Frame, OwnStep
  <2> QED
    BY <2>1 DEF RegistryInv
<1>4. ASSUME TickerStep PROVE RegistryInv'
  <2>1. /\ UNCHANGED <<net, image, file, buf, eof, socket2id, map, info,
                       sPoisoned, stPoisoned, registered, counted>>
        /\ \A d \in Clients : pc'[d] = pc[d]
    BY <1>1, <1>4, ServerAssumption DEF TickerStep, SerializeBegin, SerializeEnd, Goto, netVars,
       regVars, histVars, TypeInv, TypeOK, TypeNet, Tasks
  <2>2. PoisonStays /\ \A d \in Clients : SameFor(d)
    BY <2>1 DEF SameFor, PoisonStays
  <2>3. ASSUME NEW d \in Clients PROVE EntriesOf(d)' /\ FileOf(d)'
    BY <1>2, <2>2
  <2> QED
    BY <2>3 DEF RegistryInv
<1>5. ASSUME UNCHANGED vars PROVE RegistryInv'
  <2>1. PoisonStays /\ \A d \in Clients : SameFor(d)
    BY <1>5 DEF vars, SameFor, PoisonStays
  <2>2. ASSUME NEW d \in Clients PROVE EntriesOf(d)' /\ FileOf(d)'
    BY <1>2, <2>1
  <2> QED
    BY <2>2 DEF RegistryInv
<1>6. RegistryInv'
  BY <1>3, <1>4, <1>5 DEF Next
<1> QED
  BY <1>1, <1>6 DEF RegInv

LEMMA InitRegistry == Init => RegInv
<1> SUFFICES ASSUME Init PROVE RegInv
  OBVIOUS
<1>1. \A c \in Clients : /\ pc[c] = "accept" /\ net[c].end = "absent" /\ ~net[c].unread
                         /\ buf[c] = BlankMsg /\ socket2id[c] = None
                         /\ \A i \in SessionIds : map[i][c] = None
  BY ServerAssumption DEF Init, Tasks
<1>2. registered = {} /\ eof = {} /\ file = {}
  BY DEF Init
<1>3. RegistryInv
  BY <1>1, <1>2 DEF RegistryInv, EntriesOf, FileOf, Absent, Made, Taken
<1> QED
  BY <1>3, InitType DEF RegInv

LEMMA RegistryCorrect == Spec => []RegInv
BY InitRegistry, NextRegistry, PTL DEF Spec

\* Neither hash map keeps an entry of a connection whose task has let go of
\* it, and the entry that on_socket_closed expects under the second lock is
\* there, for every order of connections, registrations, ends and resets: the
\* call that on_socket_connected gets for 0 bytes repeats the entries it made.
THEOREM NoStaleEntriesCorrect == Spec => []NoStaleEntries
<1>1. RegInv => NoStaleEntries
  <2> SUFFICES ASSUME RegInv, NEW c \in Clients
               PROVE  /\ At(c, "close_map") => map[info[c].id][c] # None
                      /\ pc[c] \in Taken => Absent(c)
    BY DEF NoStaleEntries, Taken, Absent
  <2> QED
    BY DEF RegInv, RegistryInv, EntriesOf, At
<1> QED
  BY <1>1, RegistryCorrect, PTL

\* A registered process is left out of the statistics only if the filter
\* rejects it or a panic ended its task, and a task that is done has removed
\* the file of the memory it was for: on_socket_closed.
THEOREM DroppedOnlyForCorrect == Spec => []DroppedOnlyFor
<1>1. RegInv => DroppedOnlyFor
  BY DEF RegInv, RegistryInv, FileOf, DroppedOnlyFor, At
<1> QED
  BY <1>1, RegistryCorrect, PTL

-----------------------------------------------------------------------------
(* The statistics and the ledger.                                           *)

\* The objects of a process that count, by name.
Tracked(img) == DOMAIN img.hdr.map \cap AllowList

\* Two processes that loaded an object of the same name have as many guards in
\* it: they loaded the same object.
ImagesAgree ==
  \A img, other \in Images : \A n \in Tracked(img) \cap Tracked(other) :
    SlotOf(img.hdr, n).size = SlotOf(other.hdr, n).size

\* The points that a set of indexes stands for under given ranges.
PointsIn(ranges, C) ==
  {p \in Points :
     /\ ranges[p[1]] # None
     /\ ranges[p[1]].start + p[2] \in C
     /\ p[2] < RangeLen(ranges[p[1]])}

\* What the scan of c's memory has found so far that is not set yet.
Visited(c) == Tracked(image[c]) \ todo[c]
Found(c) ==
  (UNION {HitIndexes(c, n, stats.cov_map[n]) : n \in Visited(c)}) \ stats.cov

\* A counted process has ended and its task is past the scan; a task that
\* scans has in "upd" what it found in the objects it visited.
ScanOf(c) ==
  /\ c \in counted =>
       /\ net[c].end \in {"eof", "reset"}
       /\ pc[c] \in {"output", "write", "remove", "done", "panicked"}
  /\ pc[c] = "scan" =>
       /\ todo[c] \subseteq Tracked(image[c])
       /\ \A n \in Visited(c) : Known(n)
       /\ upd[c] = Found(c)

\* No index is set beyond the used part of the vector, and the range of an
\* object is as long as every process that has the object says.
CoverInv ==
  /\ \A i \in stats.cov : i < stats.end
  /\ \A n \in Names : Known(n) =>
       \A img \in Images : n \in Tracked(img) =>
         RangeLen(stats.cov_map[n]) = SlotOf(img.hdr, n).size

LedgerParts == CoverInv /\ \A c \in Clients : ScanOf(c)
LedgerInv == PackedInv /\ OutputInv /\ LedgerParts

-----------------------------------------------------------------------------
(* LedgerInv is inductive.                                                  *)

\* The steps of a task that neither start, continue nor commit a scan.
QuietStep(c) ==
  \/ ClientStep(c)
  \/ ReadMessage(c) \/ ReadEof(c) \/ ReadError(c)
  \/ InsertSocket(c) \/ InsertMap(c) \/ ReadActive(c) \/ Activate(c)
  \/ CloseSocket(c) \/ CloseMap(c) \/ OpenShm(c) \/ RemoveFile(c)
  \/ SerializeBegin(c) \/ SerializeEnd(c)

\* They leave the coverage, its ranges and every scan alone.
LEMMA QuietEffect ==
  ASSUME TypeInv, NEW c \in Clients, QuietStep(c)
  PROVE  /\ stats'.cov = stats.cov /\ stats'.cov_map = stats.cov_map
         /\ stats'.end = stats.end
         /\ UNCHANGED <<todo, upd, counted>>
<1>1. CASE Activate(c)
  BY <1>1, StatisticsEffect DEF Activate, scanVars, histVars
<1>2. CASE ~Activate(c)
  BY <1>2 DEF QuietStep, ClientStep, Connect, ClientEnd, ReadMessage, ReadEof,
     ReadError, InsertSocket, InsertMap, ReadActive, CloseSocket, CloseMap,
     OpenShm, RemoveFile, SerializeBegin, SerializeEnd, statVars, scanVars, histVars
<1> QED
  BY <1>1, <1>2

\* What they do to a task whose process was counted, and where they lead.
LEMMA QuietPlace ==
  ASSUME TypeInv, NEW c \in Clients, QuietStep(c)
  PROVE  /\ pc'[c] # "scan"
         /\ net[c].end \in {"eof", "reset"} => net'[c].end = net[c].end
         /\ pc[c] \in {"output", "write", "remove", "done", "panicked"} =>
              pc'[c] \in {"output", "write", "remove", "done", "panicked"}
<1> USE DEF Goto, At, netVars
<1>1. /\ pc \in [Tasks -> Labels] /\ net \in [Clients -> Streams] /\ c \in Tasks
      /\ pc[c] \in PastRead => net[c].end \in {"eof", "reset"}
      /\ pc[c] = "accept" => net[c].end = "absent"
  BY DEF TypeInv, TypeOK, TypeNet, Streams, Ended, Tasks
<1>2. CASE Connect(c)
  BY <1>1, <1>2 DEF Connect
<1>3. CASE \E how \in {"eof", "reset"} : ClientEnd(c, how)
  <2>1. net[c].end = "open" /\ pc' = pc
    BY <1>3 DEF ClientEnd
  <2>2. pc[c] # "scan"
    BY <1>1, <2>1 DEF PastRead
  <2> QED
    BY <2>1, <2>2
<1>4. CASE ReadMessage(c)
  BY <1>1, <1>4 DEF ReadMessage, Streams
<1>5. CASE ReadEof(c) \/ ReadError(c) \/ InsertSocket(c) \/ InsertMap(c)
  BY <1>1, <1>5 DEF ReadEof, ReadError, InsertSocket, InsertMap
<1>6. CASE ReadActive(c) \/ Activate(c)
  BY <1>1, <1>6 DEF ReadActive, Activate, AfterConnected
<1>7. CASE CloseSocket(c) \/ CloseMap(c) \/ OpenShm(c) \/ RemoveFile(c)
  BY <1>1, <1>7 DEF CloseSocket, CloseMap, OpenShm, RemoveFile
<1>8. CASE SerializeBegin(c)
  BY <1>1, <1>8, ServerAssumption
     DEF SerializeBegin, Output, Writing, AfterOutput, AfterConnected
<1>9. CASE SerializeEnd(c)
  BY <1>1, <1>9, ServerAssumption DEF SerializeEnd, AfterOutput, AfterConnected
<1> QED
  BY <1>2, <1>3, <1>4, <1>5, <1>6, <1>7, <1>8, <1>9 DEF QuietStep, ClientStep

\* A task's scan is where it was if neither its own state nor the coverage
\* nor the ranges it found so far changed.
LEMMA ScanSame ==
  ASSUME NEW d \in Clients, ScanOf(d),
         pc'[d] = pc[d], image'[d] = image[d], net'[d].end = net[d].end,
         d \in counted' => d \in counted,
         pc[d] = "scan" =>
           /\ todo'[d] = todo[d] /\ upd'[d] = upd[d]
           /\ stats'.cov = stats.cov /\ stats'.cov_map = stats.cov_map
  PROVE  ScanOf(d)'
<1>1. ASSUME pc[d] = "scan"
      PROVE  /\ Tracked(image[d])' = Tracked(image[d])
             /\ Visited(d)' = Visited(d)
             /\ \A n \in Names : Known(n)' <=> Known(n)
             /\ Found(d)' = Found(d)
  <2>1. Tracked(image[d])' = Tracked(image[d])
    BY DEF Tracked
  <2>2. Visited(d)' = Visited(d)
    BY <1>1, <2>1 DEF Visited
  <2>3. ASSUME NEW n
        PROVE  HitIndexes(d, n, stats.cov_map[n])' = HitIndexes(d, n, stats.cov_map[n])
    BY <1>1 DEF HitIndexes
  <2>4. Found(d)' = Found(d)
    BY <1>1, <2>2, <2>3 DEF Found
  <2> QED
    BY <1>1, <2>1, <2>2, <2>4 DEF Known
<1>2. Visited(d) \subseteq Names
  BY ServerAssumption DEF Visited, Tracked
<1> QED
  BY <1>1, <1>2 DEF ScanOf

LEMMA LedgerQuiet ==
  ASSUME LedgerInv, NEW c \in Clients, QuietStep(c)
  PROVE  LedgerParts'
<1>1. TypeInv /\ CoverInv /\ \A d \in Clients : ScanOf(d)
  BY DEF LedgerInv, LedgerParts, PackedInv
<1>2. CoverInv'
  BY <1>1, QuietEffect DEF CoverInv, Known
<1>3. ASSUME NEW d \in Clients
      PROVE  ScanOf(d)'
  <2>1. CASE d = c
    BY <1>1, <2>1, QuietEffect, QuietPlace DEF ScanOf
  <2>2. CASE d # c
    <3>1. ClientStep(c) \/ TaskStep(c)
      BY DEF QuietStep, TaskStep
    <3>2. SameFor(d)
      BY <1>1, <2>2, <3>1, Frame
    <3> QED
      BY <1>1, <3>2, QuietEffect, ScanSame DEF SameFor
  <2> QED
    BY <2>1, <2>2
<1> QED
  BY <1>2, <1>3 DEF LedgerParts

\* A scan starts with every tracked object to visit and nothing found.
LEMMA LedgerLock ==
  ASSUME LedgerInv, NEW c \in Clients, LockStatistics(c)
  PROVE  LedgerParts'
<1>1. TypeInv /\ CoverInv /\ (\A d \in Clients : ScanOf(d)) /\ OutputInv
  BY DEF LedgerInv, LedgerParts, PackedInv
<1>2. /\ UNCHANGED <<stats, net, image, counted>> /\ pc[c] = "lock_statistics"
      /\ \/ pc' = [pc EXCEPT ![c] = "panicked"]
         \/ /\ pc' = [pc EXCEPT ![c] = "scan"]
            /\ todo' = [todo EXCEPT ![c] = Tracked(image[c])]
            /\ upd' = [upd EXCEPT ![c] = {}]
      /\ todo' = todo \/ todo' = [todo EXCEPT ![c] = Tracked(image[c])]
      /\ upd' = upd \/ upd' = [upd EXCEPT ![c] = {}]
  BY DEF LockStatistics, Goto, At, netVars, histVars, Tracked
<1>3. pc \in [Tasks -> Labels] /\ todo \in [Clients -> SUBSET Names] /\ upd \in [Clients -> SUBSET Nat]
  BY <1>1 DEF TypeInv, TypeOK, TypeNet, TypeStat
<1>4. CoverInv'
  BY <1>1, <1>2 DEF CoverInv, Known
<1>5. ScanOf(c)'
  <2>1. c \notin counted
    BY <1>1, <1>2 DEF ScanOf
  <2>2. CASE pc' = [pc EXCEPT ![c] = "panicked"]
    BY <1>2, <1>3, <2>1, <2>2 DEF ScanOf, Tasks
  <2>3. CASE /\ pc' = [pc EXCEPT ![c] = "scan"]
             /\ todo' = [todo EXCEPT ![c] = Tracked(image[c])]
             /\ upd' = [upd EXCEPT ![c] = {}]
    <3>1. todo'[c] = Tracked(image[c])' /\ upd'[c] = {}
      BY <1>2, <1>3, <2>3 DEF Tracked
    <3>2. Visited(c)' = {}
      BY <3>1 DEF Visited
    <3>3. Found(c)' = {}
      BY <3>2 DEF Found
    <3> QED
      BY <1>2, <2>1, <3>1, <3>2, <3>3 DEF ScanOf
  <2> QED
    BY <1>2, <2>2, <2>3
<1>6. ASSUME NEW d \in Clients, d # c
      PROVE  ScanOf(d)'
  <2>1. pc'[d] = pc[d] /\ todo'[d] = todo[d] /\ upd'[d] = upd[d]
    BY <1>2, <1>3, <1>6 DEF Tasks
  <2> QED
    BY <1>1, <1>2, <2>1, ScanSame
<1> QED
  BY <1>4, <1>5, <1>6 DEF LedgerParts

\* Only the task that scans can change the coverage or its ranges.
LEMMA OneScan ==
  ASSUME LedgerInv, NEW c \in Clients, NEW d \in Clients, pc[c] = "scan", pc[d] = "scan"
  PROVE  c = d
BY DEF LedgerInv, OutputInv

\* A visit adds what it finds in the object's range, and a new range has the
\* length that every process gives the object.
LEMMA LedgerScan ==
  ASSUME ImagesAgree, LedgerInv, NEW c \in Clients, NEW n \in Names, ScanDso(c, n)
  PROVE  LedgerParts'
<1>1. /\ TypeInv /\ CoverInv /\ ScanOf(c) /\ RangesPacked
      /\ \A d \in Clients : ScanOf(d)
  BY DEF LedgerInv, LedgerParts, PackedInv
<1>2. /\ pc[c] = "scan" /\ n \in todo[c] /\ c \notin counted
      /\ UNCHANGED <<net, image, counted>>
  BY <1>1 DEF ScanDso, At, netVars, histVars, ScanOf
<1>3. PICK r \in Ranges :
         /\ stats'.cov_map = [stats.cov_map EXCEPT ![n] = r]
         /\ stats'.cov = stats.cov /\ stats'.exec_num = stats.exec_num
         /\ \/ Known(n) /\ r = stats.cov_map[n] /\ stats'.end = stats.end
            \/ /\ ~Known(n)
               /\ r.start = stats.end /\ r.end = stats'.end
               /\ stats.end <= stats'.end
  BY <1>1, ScanEffect
<1>4. /\ pc \in [Tasks -> Labels] /\ todo \in [Clients -> SUBSET Names]
      /\ upd \in [Clients -> SUBSET Nat] /\ image[c] \in Images
      /\ stats.cov_map \in [Names -> Ranges \cup {None}]
      /\ stats.cov \in SUBSET Nat /\ stats.end \in Nat
  BY <1>1, <1>2 DEF TypeInv, TypeOK, TypeNet, TypeStat, Ended, PastRead
<1>5. r # None /\ stats'.cov_map[n] = r
  BY <1>3, <1>4, ServerAssumption DEF Ranges
<1>6. /\ \A m \in Names \ {n} : stats'.cov_map[m] = stats.cov_map[m]
      /\ \A m \in Names : Known(m) => stats'.cov_map[m] = stats.cov_map[m]
  BY <1>3, <1>4
<1>7. n \in Tracked(image[c]) /\ Tracked(image[c])' = Tracked(image[c])
  BY <1>1, <1>2 DEF ScanOf, Tracked
<1>8. r = RangeOf(c, n) /\ (~Known(n) => RangeLen(r) = SlotOf(image[c].hdr, n).size)
  <2>1. stats' = [stats EXCEPT !.cov_map[n] = RangeOf(c, n),
                               !.end = EndAfter(n, RangeOf(c, n))]
    BY DEF ScanDso
  <2>2. stats \in Statistics
    BY <1>1 DEF TypeInv, TypeOK, TypeStat, Statistics
  <2>3. stats'.cov_map = [stats.cov_map EXCEPT ![n] = RangeOf(c, n)]
    BY <2>1, <2>2 DEF Statistics
  <2>4. r = RangeOf(c, n)
    BY <1>4, <1>5, <2>3
  <2>5. SlotOf(image[c].hdr, n).size \in Nat
    BY <1>4, <1>7, ImageAssumption DEF Tracked
  <2>6. ASSUME ~Known(n) PROVE RangeLen(r) = SlotOf(image[c].hdr, n).size
    <3>1. r = NewRange(SlotOf(image[c].hdr, n).size)
      BY <2>4, <2>6 DEF RangeOf
    <3>2. RangeLen(r) = (stats.end + SlotOf(image[c].hdr, n).size) - stats.end
      BY <3>1 DEF RangeLen, NewRange
    <3> QED
      BY <1>4, <2>5, <3>2
  <2> QED
    BY <2>4, <2>6
<1>9. CoverInv'
  <2>1. \A i \in stats'.cov : i < stats'.end
    BY <1>1, <1>3, <1>4 DEF CoverInv, Ranges
  <2>2. ASSUME NEW m \in Names, Known(m)', NEW img \in Images, m \in Tracked(img)
        PROVE  RangeLen(stats'.cov_map[m]) = SlotOf(img.hdr, m).size
    <3>1. CASE Known(m)
      BY <1>1, <1>6, <2>2, <3>1 DEF CoverInv
    <3>2. CASE ~Known(m)
      <4>1. m = n
        BY <1>6, <2>2, <3>2 DEF Known
      <4>2. SlotOf(image[c].hdr, n).size = SlotOf(img.hdr, n).size
        BY <1>4, <1>7, <2>2, <4>1 DEF ImagesAgree
      <4> QED
        BY <1>5, <1>8, <3>2, <4>1, <4>2
    <3> QED
      BY <3>1, <3>2
  <2> QED
    BY <2>1, <2>2 DEF CoverInv, Known
<1>10. ScanOf(c)'
  <2>1. CASE pc' = [pc EXCEPT ![c] = "panicked"]
    BY <1>2, <1>4, <2>1 DEF ScanOf, Tasks
  <2>2. CASE /\ pc' = pc
             /\ todo' = [todo EXCEPT ![c] = todo[c] \ {n}]
             /\ upd' = [upd EXCEPT ![c] = upd[c] \cup (HitIndexes(c, n, r) \ stats.cov)]
    <3>1. /\ todo'[c] = todo[c] \ {n}
          /\ upd'[c] = upd[c] \cup (HitIndexes(c, n, r) \ stats.cov)
      BY <1>4, <2>2
    <3>2. Visited(c)' = Visited(c) \cup {n}
      BY <1>2, <1>7, <3>1 DEF Visited
    <3>3. \A m \in Visited(c) : Known(m) /\ m \in Names
      BY <1>1, <1>2, ServerAssumption DEF ScanOf, Visited, Tracked
    <3>4. \A m \in Visited(c)' : Known(m)'
      BY <1>5, <1>6, <3>2, <3>3 DEF Known
    <3>5. \A m \in Visited(c) :
            HitIndexes(c, m, stats.cov_map[m])' = HitIndexes(c, m, stats.cov_map[m])
      BY <1>2, <1>6, <3>3 DEF HitIndexes
    <3>6. HitIndexes(c, n, stats.cov_map[n])' = HitIndexes(c, n, r)
      BY <1>2, <1>5 DEF HitIndexes
    <3>7. Found(c)' = Found(c) \cup (HitIndexes(c, n, r) \ stats.cov)
      BY <1>3, <3>2, <3>5, <3>6 DEF Found
    <3>8. upd[c] = Found(c) /\ todo[c] \subseteq Tracked(image[c])
      BY <1>1, <1>2 DEF ScanOf
    <3> QED
      BY <1>2, <1>7, <3>1, <3>4, <3>7, <3>8 DEF ScanOf
  <2> QED
    BY <1>8, <2>1, <2>2 DEF ScanDso, Goto
<1>11. ASSUME NEW d \in Clients, d # c
       PROVE  ScanOf(d)'
  <2>1. pc'[d] = pc[d]
    BY <1>4, <1>11 DEF ScanDso, Goto, Tasks
  <2>2. pc[d] # "scan"
    BY <1>2, <1>11, OneScan
  <2> QED
    BY <1>1, <1>2, <2>1, <2>2, ScanSame
<1> QED
  BY <1>9, <1>10, <1>11 DEF LedgerParts

\* What a finished scan found lies inside the ranges of the visited objects.
LEMMA FoundBelow ==
  ASSUME LedgerInv, NEW c \in Clients, pc[c] = "scan", NEW i \in upd[c]
  PROVE  i \in Nat /\ i < stats.end
<1>1. upd[c] = Found(c) /\ \A n \in Visited(c) : Known(n) /\ n \in Names
  BY ServerAssumption DEF LedgerInv, LedgerParts, ScanOf, Visited, Tracked
<1>2. PICK n \in Visited(c) : i \in HitIndexes(c, n, stats.cov_map[n])
  BY <1>1 DEF Found
<1>3. i \in Indexes(stats.cov_map[n])
  BY <1>2 DEF HitIndexes
<1>4. stats.cov_map[n] \in Ranges /\ stats.cov_map[n].end <= stats.end /\ stats.end \in Nat
  BY <1>1, <1>2 DEF LedgerInv, PackedInv, RangesPacked, TypeInv, TypeOK, TypeStat, Known
<1> QED
  BY <1>3, <1>4 DEF Indexes, Ranges

LEMMA LedgerCommit ==
  ASSUME LedgerInv, NEW c \in Clients, Commit(c)
  PROVE  LedgerParts'
<1>1. /\ TypeInv /\ CoverInv /\ \A d \in Clients : ScanOf(d)
  BY DEF LedgerInv, LedgerParts, PackedInv
<1>2. /\ pc[c] = "scan" /\ UNCHANGED <<net, image>> /\ counted' = counted \cup {c}
      /\ \E l \in {"remove", "output"} : pc' = [pc EXCEPT ![c] = l]
  BY DEF Commit, At, Goto, netVars
<1>3. /\ stats'.cov_map = stats.cov_map /\ stats'.end = stats.end
      /\ stats'.cov = stats.cov \cup upd[c]
  BY <1>1, StatisticsEffect
<1>4. pc \in [Tasks -> Labels] /\ net[c].end \in {"eof", "reset"}
  BY <1>1, <1>2 DEF TypeInv, TypeOK, TypeNet, Ended, PastRead
<1>5. CoverInv'
  <2>1. \A i \in stats'.cov : i < stats'.end
    BY <1>1, <1>2, <1>3, FoundBelow DEF CoverInv
  <2> QED
    BY <1>1, <1>3, <2>1 DEF CoverInv, Known
<1>6. ScanOf(c)'
  BY <1>2, <1>4 DEF ScanOf, Tasks
<1>7. ASSUME NEW d \in Clients, d # c
      PROVE  ScanOf(d)'
  <2>1. pc'[d] = pc[d] /\ (d \in counted' => d \in counted)
    BY <1>2, <1>4, <1>7 DEF Tasks
  <2>2. pc[d] # "scan"
    BY <1>2, <1>7, OneScan
  <2> QED
    BY <1>1, <1>2, <2>1, <2>2, ScanSame
<1> QED
  BY <1>5, <1>6, <1>7 DEF LedgerParts

LEMMA NextLedger == ImagesAgree /\ LedgerInv /\ [Next]_vars => LedgerInv'
<1> SUFFICES ASSUME ImagesAgree, LedgerInv, [Next]_vars PROVE LedgerInv'
  OBVIOUS
<1>1. /\ TypeInv /\ PackedInv' /\ OutputInv' /\ OutputInv /\ CoverInv
      /\ \A d \in Clients : ScanOf(d)
  BY NextPacked, OutputStep DEF LedgerInv, LedgerParts, PackedInv, OutInv
<1>2. ASSUME NEW c \in Clients, ClientStep(c) \/ TaskStep(c)
      PROVE  LedgerParts'
  <2>1. \/ QuietStep(c) \/ LockStatistics(c) \/ Commit(c)
        \/ \E n \in Names : ScanDso(c, n)
    BY <1>2 DEF TaskStep, QuietStep
  <2> QED
    BY <2>1, LedgerQuiet, LedgerLock, LedgerScan, LedgerCommit
<1>3. ASSUME TickerStep \/ UNCHANGED vars
      PROVE  LedgerParts'
  <2>1. UNCHANGED <<net, image, stats, todo, upd, counted>>
    BY <1>3 DEF TickerStep, SerializeBegin, SerializeEnd, netVars, scanVars, histVars, vars
  <2>2. ASSUME NEW d \in Clients PROVE pc'[d] = pc[d]
    BY <1>1, <1>3, ServerAssumption DEF TickerStep, SerializeBegin, SerializeEnd, Goto,
       vars, TypeInv, TypeOK, TypeNet, Tasks
  <2>3. ASSUME NEW d \in Clients PROVE ScanOf(d)'
    BY <1>1, <2>1, <2>2, ScanSame
  <2>4. CoverInv'
    BY <1>1, <2>1 DEF CoverInv, Known
  <2> QED
    BY <2>3, <2>4 DEF LedgerParts
<1>4. LedgerParts'
  BY <1>2, <1>3 DEF Next
<1> QED
  BY <1>1, <1>4 DEF LedgerInv

LEMMA InitLedger == Init => LedgerInv
<1> SUFFICES ASSUME Init PROVE LedgerInv
  OBVIOUS
<1>1. TypeInv
  BY InitType
<1>2. /\ stats.end = 0 /\ stats.cov = {} /\ (\A n \in Names : ~Known(n))
      /\ counted = {} /\ (\A t \in Tasks : pc[t] \in {"tick", "accept"})
      /\ out = NoOutput /\ readers = {}
  BY DEF Init, Known
<1>3. RangesPacked
  BY <1>2 DEF RangesPacked
<1>4. OutputInv
  BY <1>2 DEF Init, OutputInv, NoOutput, WriteLabels, Tasks
<1>5. LedgerParts
  BY <1>2 DEF LedgerParts, CoverInv, ScanOf, Tasks
<1> QED
  BY <1>1, <1>3, <1>4, <1>5 DEF LedgerInv, PackedInv

-----------------------------------------------------------------------------
(* The points that the coverage vector stands for.                          *)

\* A range that starts behind every set index adds no point.
LEMMA PointsGrow ==
  ASSUME NEW ranges \in [Names -> Ranges \cup {None}],
         NEW more \in [Names -> Ranges \cup {None}],
         NEW e \in Nat, NEW C \in SUBSET Nat, \A i \in C : i < e,
         \A n \in Names : ranges[n] # None => more[n] = ranges[n],
         \A n \in Names : ranges[n] = None => more[n] = None \/ more[n].start >= e
  PROVE  PointsIn(more, C) = PointsIn(ranges, C)
<1>1. ASSUME NEW p \in Points, more[p[1]] # None, more[p[1]].start + p[2] \in C
      PROVE  ranges[p[1]] # None
  <2>1. p[1] \in Names /\ p[2] \in Nat
    BY <1>1, LayoutAssumption DEF Points
  <2>2. SUFFICES ASSUME ranges[p[1]] = None PROVE FALSE
    OBVIOUS
  <2>3. more[p[1]] \in Ranges /\ more[p[1]].start >= e
    BY <1>1, <2>1, <2>2
  <2>4. more[p[1]].start + p[2] < e /\ more[p[1]].start \in Nat
    BY <1>1, <2>3 DEF Ranges
  <2> QED
    BY <2>1, <2>3, <2>4
<1>2. ASSUME NEW p \in Points PROVE p[1] \in Names
  BY <1>2 DEF Points
<1> QED
  BY <1>1, <1>2 DEF PointsIn

\* More indexes are at least as many points.
LEMMA PointsMonotone ==
  ASSUME NEW ranges, NEW C, NEW D, C \subseteq D
  PROVE  PointsIn(ranges, C) \subseteq PointsIn(ranges, D)
BY DEF PointsIn

\* The indexes of a finished scan stand for the evidence of the process,
\* together with what was covered: the ranges of different objects share no
\* index, and the k-th index of a range goes with the k-th counter.
LEMMA PointsCredit ==
  ASSUME LedgerInv, NEW c \in Clients, pc[c] = "scan", todo[c] = {}
  PROVE  PointsIn(stats.cov_map, stats.cov \cup upd[c])
           = PointsIn(stats.cov_map, stats.cov) \cup Evidence(c)
<1> DEFINE R == stats.cov_map
           img == image[c]
<1>1. /\ R \in [Names -> Ranges \cup {None}] /\ img \in Images /\ img # None
      /\ net[c].end \in {"eof", "reset"}
  <2>1. TypeInv
    BY DEF LedgerInv, PackedInv
  <2>2. img \in Images /\ net[c].end \in {"eof", "reset"}
    BY <2>1 DEF TypeInv, Ended, PastRead
  <2> QED
    BY <2>1, <2>2, ServerAssumption DEF TypeInv, TypeOK, TypeStat
<1>2. /\ Visited(c) = Tracked(img) /\ upd[c] = Found(c)
      /\ \A n \in Tracked(img) :
           n \in Names /\ R[n] \in Ranges /\ RangeLen(R[n]) = SlotOf(img.hdr, n).size
  <2>1. /\ todo[c] \subseteq Tracked(img) /\ upd[c] = Found(c)
        /\ \A n \in Visited(c) : Known(n)
    BY DEF LedgerInv, LedgerParts, ScanOf
  <2>2. Visited(c) = Tracked(img)
    BY DEF Visited
  <2>3. ASSUME NEW n \in Tracked(img)
        PROVE  n \in Names /\ R[n] \in Ranges /\ RangeLen(R[n]) = SlotOf(img.hdr, n).size
    <3>1. n \in Names /\ Known(n)
      BY <2>1, <2>2, <2>3, ServerAssumption DEF Tracked
    <3> QED
      BY <1>1, <2>3, <3>1 DEF LedgerInv, LedgerParts, CoverInv, Known
  <2> QED
    BY <2>1, <2>2, <2>3
<1>3. ASSUME NEW n \in Tracked(img), NEW k \in Nat, k < RangeLen(R[n])
      PROVE  /\ R[n].start + k \in Indexes(R[n]) /\ R[n].start + k \in Nat
             /\ (R[n].start + k) - R[n].start = k
  BY <1>2, <1>3 DEF Indexes, Ranges, RangeLen
<1>4. ASSUME NEW p \in Evidence(c)
      PROVE  p \in PointsIn(R, stats.cov \cup upd[c])
  <2>1. /\ p \in Points /\ p[1] \in Tracked(img) /\ p[2] < SlotOf(img.hdr, p[1]).size
        /\ CovOffset(SlotOf(img.hdr, p[1]).offset) + p[2] \in img.nz
    BY <1>1, <1>4 DEF Evidence, Tracked
  <2>2. p[2] \in Nat /\ p[2] < RangeLen(R[p[1]])
    BY <1>2, <2>1, LayoutAssumption DEF Points
  <2>3. R[p[1]].start + p[2] \in HitIndexes(c, p[1], R[p[1]])
    BY <1>3, <2>1, <2>2 DEF HitIndexes
  <2>4. R[p[1]].start + p[2] \in stats.cov \cup upd[c]
    BY <1>2, <2>1, <2>3 DEF Found
  <2>5. R[p[1]] # None
    BY <1>2, <2>1, ServerAssumption DEF Ranges
  <2> QED
    BY <2>1, <2>2, <2>4, <2>5 DEF PointsIn
<1>5. ASSUME NEW p \in PointsIn(R, stats.cov \cup upd[c]), p \notin PointsIn(R, stats.cov)
      PROVE  p \in Evidence(c)
  <2> DEFINE n == p[1]
             k == p[2]
             i == R[n].start + k
  <2>1. /\ p \in Points /\ n \in Names /\ k \in Nat /\ R[n] # None /\ i \in upd[c]
        /\ k < RangeLen(R[n])
    BY <1>5, LayoutAssumption DEF PointsIn, Points
  <2>2. PICK m \in Tracked(img) : i \in HitIndexes(c, m, R[m])
    BY <1>2, <2>1 DEF Found
  <2>3. i \in Indexes(R[m])
    BY <2>2 DEF HitIndexes
  <2>4. i \in Indexes(R[n])
    BY <1>1, <2>1 DEF Indexes, Ranges, RangeLen
  <2>5. R[m] # None /\ m \in Names
    BY <1>2, ServerAssumption DEF Ranges
  <2>6. m = n
    BY <2>1, <2>3, <2>4, <2>5 DEF LedgerInv, PackedInv, RangesPacked, Known
  <2>7. CovOffset(SlotOf(img.hdr, n).offset) + (i - R[n].start) \in img.nz
    BY <2>2, <2>6 DEF HitIndexes
  <2>8. i - R[n].start = k
    BY <1>3, <2>1, <2>2, <2>6
  <2>9. k < SlotOf(img.hdr, n).size
    BY <1>2, <2>1, <2>2, <2>6
  <2> QED
    BY <1>1, <2>1, <2>2, <2>6, <2>7, <2>8, <2>9 DEF Evidence, Tracked
<1>6. PointsIn(R, stats.cov) \subseteq PointsIn(R, stats.cov \cup upd[c])
  BY PointsMonotone
<1> QED
  BY <1>4, <1>5, <1>6

-----------------------------------------------------------------------------
(* Every step is a step of the ledger or leaves it alone.                   *)

evidence == [c \in Clients |-> Evidence(c)]
covered == PointsIn(stats.cov_map, stats.cov)
published == PointsIn(stats.cov_map, out.cov)

\* The mapping of LedgerRefined.
LEMMA LedgerMapping ==
  /\ UNCHANGED Ledger!vars <=> UNCHANGED <<evidence, counted, covered, published>>
  /\ \A c \in Clients :
       Ledger!Credit(c) <=>
         /\ c \notin counted
         /\ counted' = counted \cup {c}
         /\ covered' = covered \cup evidence[c]
         /\ UNCHANGED <<evidence, published>>
  /\ \A c \in Clients :
       Ledger!Leave(c) <=>
         /\ c \notin counted
         /\ evidence[c] = {}
         /\ evidence'[c] \subseteq Points
         /\ evidence' = [evidence EXCEPT ![c] = evidence'[c]]
         /\ UNCHANGED <<counted, covered, published>>
  /\ Ledger!Publish <=>
       /\ published \subseteq covered
       /\ published' = covered
       /\ UNCHANGED <<evidence, counted, covered>>
BY DEF Ledger!vars, Ledger!Credit, Ledger!Leave, Ledger!Publish, evidence, covered,
   published, PointsOf, PointsIn, Known

\* The evidence of a process depends on its memory and on whether it ended.
LEMMA EvidenceSame ==
  ASSUME NEW d \in Clients, image'[d] = image[d],
         net'[d].end \in {"eof", "reset"} <=> net[d].end \in {"eof", "reset"}
  PROVE  Evidence(d)' = Evidence(d)
BY DEF Evidence

\* Only the end of a process changes its evidence.
LEMMA EvidenceFrame ==
  ASSUME TypeInv, NEW c \in Clients, ClientStep(c) \/ TaskStep(c), NEW d \in Clients,
         d # c \/ ~\E how \in {"eof", "reset"} : ClientEnd(c, how)
  PROVE  Evidence(d)' = Evidence(d)
<1>1. CASE d # c
  <2>1. SameFor(d)
    BY <1>1, Frame
  <2> QED
    BY <2>1, EvidenceSame DEF SameFor
<1>2. CASE d = c /\ ~\E how \in {"eof", "reset"} : ClientEnd(c, how)
  <2>1. /\ net \in [Clients -> Streams]
        /\ pc[c] = "accept" => net[c].end = "absent"
    BY DEF TypeInv, TypeOK, TypeNet, Ended, Streams
  <2>2. CASE Connect(c)
    BY <1>2, <2>1, <2>2, EvidenceSame DEF Connect, At
  <2>3. CASE ReadMessage(c)
    <3>1. image' = image /\ net'[c].end = net[c].end
      BY <2>1, <2>3 DEF ReadMessage, Streams
    <3> QED
      BY <1>2, <3>1, EvidenceSame
  <2>4. CASE TaskStep(c) /\ ~ReadMessage(c)
    <3>1. UNCHANGED <<net, image>>
      BY <2>4 DEF TaskStep, netVars, ReadEof, ReadError, InsertSocket, InsertMap,
         ReadActive, Activate, CloseSocket, CloseMap, OpenShm, LockStatistics,
         ScanDso, Commit, RemoveFile, SerializeBegin, SerializeEnd
    <3> QED
      BY <3>1, EvidenceSame
  <2> QED
    BY <1>2, <2>2, <2>3, <2>4 DEF ClientStep
<1> QED
  BY <1>1, <1>2

\* A step that leaves the mapped state alone.
LedgerSame == UNCHANGED <<evidence, counted, covered, published>>

LEMMA RefineQuiet ==
  ASSUME LedgerInv, NEW c \in Clients, QuietStep(c),
         ~\E how \in {"eof", "reset"} : ClientEnd(c, how), ~SerializeEnd(c)
  PROVE  LedgerSame
<1>1. TypeInv /\ (ClientStep(c) \/ TaskStep(c))
  BY DEF LedgerInv, PackedInv, QuietStep, TaskStep
<1>2. evidence' = evidence
  BY <1>1, EvidenceFrame DEF evidence
<1>3. out' = out
  BY DEF QuietStep, ClientStep, outVars, Connect, ReadMessage, ReadEof, ReadError,
     InsertSocket, InsertMap, ReadActive, Activate, CloseSocket, CloseMap, OpenShm,
     RemoveFile, SerializeBegin
<1> QED
  BY <1>1, <1>2, <1>3, QuietEffect DEF LedgerSame, covered, published

LEMMA RefineEnd ==
  ASSUME LedgerInv, NEW c \in Clients, NEW how \in {"eof", "reset"}, ClientEnd(c, how)
  PROVE  Ledger!Leave(c)
<1>1. TypeInv /\ ClientStep(c) /\ ScanOf(c)
  BY DEF LedgerInv, LedgerParts, PackedInv, ClientStep
<1>2. /\ net[c].end = "open"
      /\ UNCHANGED <<counted, stats, out>>
  BY DEF ClientEnd, histVars, statVars, outVars
<1>3. c \notin counted /\ evidence[c] = {}
  BY <1>1, <1>2 DEF ScanOf, evidence, Evidence
<1>4. /\ evidence'[c] = Evidence(c)' /\ Evidence(c)' \subseteq Points
      /\ \A d \in Clients \ {c} : evidence'[d] = evidence[d]
  BY <1>1, EvidenceFrame DEF evidence, Evidence
<1>5. evidence' = [evidence EXCEPT ![c] = evidence'[c]]
  BY <1>4 DEF evidence
<1> QED
  BY <1>2, <1>3, <1>4, <1>5, LedgerMapping DEF covered, published

LEMMA RefineWrite ==
  ASSUME LedgerInv, NEW t \in Tasks, SerializeEnd(t)
  PROVE  Ledger!Publish
<1>1. /\ UNCHANGED <<net, image, stats, counted>> /\ out' = snap[t]
      /\ pc[t] \in WriteLabels
  BY DEF SerializeEnd, netVars, histVars, WriteLabels
<1>2. out'.cov = stats.cov /\ out.cov \subseteq stats.cov
  BY <1>1 DEF LedgerInv, OutputInv, Snapshot
<1>3. evidence' = evidence
  BY <1>1, EvidenceSame DEF evidence
<1> QED
  BY <1>1, <1>2, <1>3, LedgerMapping, PointsMonotone DEF covered, published

LEMMA RefineScan ==
  ASSUME LedgerInv, NEW c \in Clients, NEW n \in Names, ScanDso(c, n)
  PROVE  LedgerSame
<1>1. TypeInv /\ CoverInv /\ OutputInv /\ TaskStep(c)
  BY DEF LedgerInv, LedgerParts, PackedInv, TaskStep
<1>2. PICK r \in Ranges :
         /\ stats'.cov_map = [stats.cov_map EXCEPT ![n] = r]
         /\ stats'.cov = stats.cov
         /\ \/ Known(n) /\ r = stats.cov_map[n]
            \/ ~Known(n) /\ r.start = stats.end
  BY <1>1, ScanEffect
<1>3. /\ stats.cov_map \in [Names -> Ranges \cup {None}] /\ stats.end \in Nat
      /\ stats.cov \in SUBSET Nat /\ out.cov \in SUBSET Nat
  BY <1>1 DEF TypeInv, TypeOK, TypeStat
<1>4. /\ stats'.cov_map \in [Names -> Ranges \cup {None}]
      /\ \A m \in Names : stats.cov_map[m] # None => stats'.cov_map[m] = stats.cov_map[m]
      /\ \A m \in Names : stats.cov_map[m] = None =>
           stats'.cov_map[m] = None \/ stats'.cov_map[m].start >= stats.end
  BY <1>2, <1>3 DEF Known
<1>5. /\ \A i \in stats.cov : i < stats.end
      /\ \A i \in out.cov : i < stats.end
  BY <1>1 DEF CoverInv, OutputInv
<1>6. /\ PointsIn(stats'.cov_map, stats.cov) = PointsIn(stats.cov_map, stats.cov)
      /\ PointsIn(stats'.cov_map, out.cov) = PointsIn(stats.cov_map, out.cov)
  BY <1>3, <1>4, <1>5, PointsGrow
<1>7. evidence' = evidence
  BY EvidenceSame DEF evidence, ScanDso, netVars
<1> QED
  BY <1>2, <1>6, <1>7 DEF LedgerSame, covered, published, ScanDso, outVars, histVars

LEMMA RefineCommit ==
  ASSUME LedgerInv, NEW c \in Clients, Commit(c)
  PROVE  Ledger!Credit(c)
<1>1. TypeInv /\ ScanOf(c)
  BY DEF LedgerInv, LedgerParts, PackedInv
<1>2. /\ UNCHANGED <<net, image, out>> /\ counted' = counted \cup {c}
      /\ pc[c] = "scan" /\ todo[c] = {}
  BY DEF Commit, At, netVars, outVars
<1>3. stats'.cov_map = stats.cov_map /\ stats'.cov = stats.cov \cup upd[c]
  BY <1>1, StatisticsEffect
<1>4. evidence' = evidence /\ evidence[c] = Evidence(c)
  BY <1>2, EvidenceSame DEF evidence
<1>5. covered' = covered \cup evidence[c]
  BY <1>2, <1>3, <1>4, PointsCredit DEF covered
<1>6. c \notin counted
  BY <1>1, <1>2 DEF ScanOf
<1> QED
  BY <1>2, <1>3, <1>4, <1>5, <1>6, LedgerMapping DEF published

LEMMA RefineStep ==
  ImagesAgree /\ LedgerInv /\ [Next]_vars => [Ledger!Next]_(Ledger!vars)
<1> SUFFICES ASSUME LedgerInv, [Next]_vars
             PROVE  Ledger!Next \/ LedgerSame
  BY LedgerMapping DEF LedgerSame
<1>1. ASSUME NEW c \in Clients, ClientStep(c) \/ TaskStep(c)
      PROVE  Ledger!Next \/ LedgerSame
  <2>1. CASE \E how \in {"eof", "reset"} : ClientEnd(c, how)
    BY <2>1, RefineEnd DEF Ledger!Next
  <2>2. CASE SerializeEnd(c)
    BY <2>2, RefineWrite DEF Ledger!Next, Tasks
  <2>3. CASE LockStatistics(c)
    <3>1. UNCHANGED <<net, image, stats, out, counted>>
      BY <2>3 DEF LockStatistics, netVars, outVars, histVars
    <3> QED
      BY <3>1, EvidenceSame DEF LedgerSame, evidence, covered, published
  <2>4. CASE Commit(c)
    BY <2>4, RefineCommit DEF Ledger!Next
  <2>5. CASE \E n \in Names : ScanDso(c, n)
    BY <2>5, RefineScan
  <2>6. CASE /\ QuietStep(c) /\ ~SerializeEnd(c)
             /\ ~\E how \in {"eof", "reset"} : ClientEnd(c, how)
    BY <2>6, RefineQuiet
  <2> QED
    BY <1>1, <2>1, <2>2, <2>3, <2>4, <2>5, <2>6 DEF TaskStep, QuietStep
<1>2. CASE TickerStep
  <2>1. CASE SerializeEnd(Ticker)
    BY <2>1, RefineWrite DEF Ledger!Next, Tasks
  <2>2. CASE SerializeBegin(Ticker)
    <3>1. UNCHANGED <<net, image, stats, out, counted>>
      BY <2>2 DEF SerializeBegin, netVars, histVars
    <3> QED
      BY <3>1, EvidenceSame DEF LedgerSame, evidence, covered, published
  <2> QED
    BY <1>2, <2>1, <2>2 DEF TickerStep
<1>3. CASE UNCHANGED vars
  <2>1. UNCHANGED <<net, image, stats, out, counted>>
    BY <1>3 DEF vars
  <2> QED
    BY <2>1, EvidenceSame DEF LedgerSame, evidence, covered, published
<1> QED
  BY <1>1, <1>2, <1>3 DEF Next

LEMMA RefineInit == Init => Ledger!Init
<1> SUFFICES ASSUME Init PROVE Ledger!Init
  OBVIOUS
<1>1. /\ counted = {} /\ (\A n \in Names : ~Known(n))
      /\ \A c \in Clients : image[c] = None
  BY DEF Init, Known
<1>2. \A C : PointsOf(C) = {}
  BY <1>1 DEF PointsOf, Points
<1>3. \A c \in Clients : Evidence(c) = {}
  BY <1>1 DEF Evidence
<1> QED
  BY <1>1, <1>2, <1>3 DEF Ledger!Init

\* The packed vector, its ranges, the two locks and the tasks implement the
\* ledger: a process is credited once and with all it executed, an object's
\* coverage is not mixed up with another's, and what is written out is a total
\* that was reached.  It takes processes that agree on the length of an object
\* of the same name: with one that does not, the range the first one made cuts
\* the other's counters off.
THEOREM LedgerRefinement == ASSUME ImagesAgree PROVE Spec => LedgerRefined
<1>1. Init => LedgerInv /\ Ledger!Init
  BY InitLedger, RefineInit
<1>2. LedgerInv /\ [Next]_vars => LedgerInv' /\ [Ledger!Next]_(Ledger!vars)
  BY NextLedger, RefineStep
<1> QED
  BY <1>1, <1>2, PTL DEF Spec, LedgerRefined, Ledger!Spec
=============================================================================
