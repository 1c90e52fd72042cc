------------------------------ MODULE CovServer ------------------------------
(***************************************************************************)
(* sancov_server: one task per connection registers an instrumented        *)
(* process and, when its connection ends, adds the coverage the process    *)
(* left in shared memory to the statistics; a ticker writes the statistics *)
(* out every minute.  The tasks run in parallel on the runtime's threads   *)
(* and share CovCollector: socket2id and map (mutexes) and statistics (a   *)
(* reader-writer lock).  A task that panics while it holds a lock poisons  *)
(* it, and from then on every lock().unwrap() of it panics too.            *)
(*                                                                         *)
(* Sources: src/rozz_cover/sancov_runtime/src/{sancov_server,utils}.rs.    *)
(***************************************************************************)
EXTENDS SancovLayout, FiniteSets

CONSTANTS
  Clients,      \* the instrumented processes, one connection each
  Names,        \* the file names of the objects, in BTreeMap order: 1..n
  SessionIds,   \* the values of SESSION_ID; BlankId is one of them
  BlankId,      \* the id in a zeroed buffer (0)
  Session,      \* Session[c]: the id that c registers with
  Images,       \* the shared memories a process can leave: [hdr, nz]
  AllowList,    \* the names whose coverage counts (all but in webkit mode)
  Required,     \* the names one of which must be loaded ({}: no filter)
  Resettable,   \* the clients whose connection may end in an error
  Oversized,    \* the clients whose registration may exceed the read buffer
  Blank,        \* the path in a zeroed buffer: no file has it
  None,         \* absent from a hash map
  Free,         \* a lock nobody holds
  Ticker        \* the periodic task

ASSUME ServerAssumption ==
  /\ IsFiniteSet(Clients)
  /\ Names \subseteq Nat
  /\ AllowList \subseteq Names
  /\ Required \subseteq Names
  /\ BlankId \in SessionIds
  /\ Session \in [Clients -> SessionIds]
  /\ Resettable \subseteq Clients /\ Oversized \subseteq Clients
  /\ Blank \notin Clients
  /\ None \notin Clients \cup {Blank}
  /\ None \notin [id : SessionIds, path : Clients \cup {Blank}]
  /\ None \notin [start : Nat, end : Nat]
  /\ None \notin Images
  /\ Free \notin Clients \cup {Ticker}
  /\ Ticker \notin Clients

\* An image holds the header as get_header decodes it and "nz", the
\* addresses at which the server finds a byte that is not zero: below MAXSIZE
\* what the process left, from there on whatever lies behind the mapping (a
\* read that ends the server with a signal is left out).
ASSUME ImageAssumption ==
  \A img \in Images :
    /\ DOMAIN img.hdr.map \subseteq Names
    /\ \A n \in DOMAIN img.hdr.map :
         /\ SlotOf(img.hdr, n).offset \in Nat
         /\ SlotOf(img.hdr, n).size \in Nat

VARIABLES
  net,          \* net[c]: [end, unread]: the stream as the server's read sees it
  image,        \* image[c]: what c left in its shared memory, once it has ended
  file,         \* the clients whose shared memory file exists
  buf,          \* buf[c]: what the task's 256-byte buffer decodes to
  eof,          \* the tasks whose last read returned 0 bytes
  pc,           \* pc[t]: what task t does next
  socket2id,    \* CovCollector.socket2id
  map,          \* CovCollector.map: map[id][c] is the path registered for c
  sLock,        \* who holds the mutex of socket2id
  sPoisoned,    \* the mutex of socket2id is poisoned
  info,         \* info[c]: register_info of on_socket_closed
  writer,       \* who holds the statistics for writing
  readers,      \* who holds them for reading
  stPoisoned,   \* the lock of the statistics is poisoned
  stats,        \* Statistics: cov (the indexes set), cov_map, end, exec_num, is_active
  todo,         \* todo[c]: names the scan of c's header still has to visit
  upd,          \* upd[c]: update_indexes
  snap,         \* snap[t]: the statistics t is about to write out
  out,          \* the newest line of the output file, and the .cov file
  registered,   \* the clients whose registration was taken in (history)
  counted       \* the clients whose scan was committed (history)

netVars == <<net, image>>
regVars == <<socket2id, map, sLock, sPoisoned, info>>
statVars == <<writer, readers, stPoisoned, stats>>
scanVars == <<todo, upd>>
outVars == <<snap, out>>
histVars == <<registered, counted>>
vars == <<net, image, file, buf, eof, pc, socket2id, map, sLock, sPoisoned,
          info, writer, readers, stPoisoned, stats, todo, upd, snap, out,
          registered, counted>>

Tasks == Clients \cup {Ticker}
Paths == Clients \cup {Blank}
RegisterMsgInfo == [id : SessionIds, path : Paths]
BlankMsg == [id |-> BlankId, path |-> Blank]
RegisterMsg(c) == [id |-> Session[c], path |-> c]

Ranges == [start : Nat, end : Nat]
NoOutput == [exec |-> 0, cov |-> {}, end |-> 0]

\* The indexes of a range of the coverage vector, and its length.
Indexes(r) == {i \in r.start .. r.end : i < r.end}
RangeLen(r) == r.end - r.start

Init ==
  /\ net = [c \in Clients |-> [end |-> "absent", unread |-> FALSE]]
  /\ image = [c \in Clients |-> None]
  /\ file = {}
  /\ buf = [c \in Clients |-> BlankMsg]
  /\ eof = {}
  /\ pc = [t \in Tasks |-> IF t = Ticker THEN "tick" ELSE "accept"]
  /\ socket2id = [c \in Clients |-> None]
  /\ map = [i \in SessionIds |-> [c \in Clients |-> None]]
  /\ sLock = Free
  /\ sPoisoned = FALSE
  /\ info = [c \in Clients |-> BlankMsg]
  /\ writer = Free
  /\ readers = {}
  /\ stPoisoned = FALSE
  /\ stats = [cov |-> {}, cov_map |-> [n \in Names |-> None], end |-> 0,
              exec_num |-> 0, is_active |-> FALSE]
  /\ todo = [c \in Clients |-> {}]
  /\ upd = [c \in Clients |-> {}]
  /\ snap = [t \in Tasks |-> NoOutput]
  /\ out = NoOutput
  /\ registered = {}
  /\ counted = {}

Goto(t, label) == pc' = [pc EXCEPT ![t] = label]
At(t, label) == pc[t] = label

-----------------------------------------------------------------------------
(* The clients and their streams.                                           *)

\* A process creates its shared memory and connects; it writes its
\* registration unless it ends in between.  The server accepts it and spawns
\* its task.
Connect(c) ==
  /\ At(c, "accept")
  /\ \E wrote \in BOOLEAN :
       net' = [net EXCEPT ![c] = [end |-> "open", unread |-> wrote]]
  /\ file' = file \cup {c}
  /\ Goto(c, "read")
  /\ UNCHANGED <<image, buf, eof, regVars, statVars, scanVars, outVars, histVars>>

\* The process ends (normally or not), and with it the connection: the server
\* reads what was sent and then 0 bytes.  A connection that is reset loses
\* what was not read yet and makes read fail.
ClientEnd(c, how) ==
  /\ net[c].end = "open"
  /\ how = "reset" => c \in Resettable
  /\ net' = [net EXCEPT ![c] = [end |-> how,
                                unread |-> @.unread /\ how = "eof"]]
  /\ \E img \in Images : image' = [image EXCEPT ![c] = img]
  /\ UNCHANGED <<file, buf, eof, pc, regVars, statVars, scanVars, outVars, histVars>>

-----------------------------------------------------------------------------
(* The read loop of a connection's task.                                    *)

\* read returns the registration.  One that does not fit in the buffer does
\* not decode: on_socket_connected panics before it takes a lock, the task
\* ends and nothing is recorded.
ReadMessage(c) ==
  /\ At(c, "read")
  /\ net[c].unread
  /\ net' = [net EXCEPT ![c].unread = FALSE]
  /\ \/ /\ buf' = [buf EXCEPT ![c] = RegisterMsg(c)]
        /\ registered' = registered \cup {c}
        /\ Goto(c, "insert_socket")
     \/ /\ c \in Oversized
        /\ Goto(c, "panicked")
        /\ UNCHANGED <<buf, registered>>
  /\ UNCHANGED <<image, file, eof, regVars, statVars, scanVars, outVars, counted>>

\* As ReadEof, with the buffer cleared before each read.
ReadEofCleared(c) ==
  /\ At(c, "read")
  /\ ~net[c].unread
  /\ net[c].end = "eof"
  /\ buf' = [buf EXCEPT ![c] = BlankMsg]
  /\ eof' = eof \cup {c}
  /\ Goto(c, "insert_socket")
  /\ UNCHANGED <<netVars, file, regVars, statVars, scanVars, outVars, histVars>>

\* read returns 0: the loop still calls on_socket_connected, with whatever
\* the buffer holds, before on_socket_closed.
ReadEof(c) ==
  /\ At(c, "read")
  /\ ~net[c].unread
  /\ net[c].end = "eof"
  /\ eof' = eof \cup {c}
  /\ Goto(c, "insert_socket")
  /\ UNCHANGED <<netVars, file, buf, regVars, statVars, scanVars, outVars, histVars>>

\* read fails: straight to on_socket_closed.
ReadError(c) ==
  /\ At(c, "read")
  /\ net[c].end = "reset"
  /\ Goto(c, "close_socket")
  /\ UNCHANGED <<netVars, file, buf, eof, regVars, statVars, scanVars, outVars, histVars>>

-----------------------------------------------------------------------------
(* on_socket_connected                                                      *)

\* After on_socket_connected the loop reads again, or closes after 0 bytes.
AfterConnected(c) == IF c \in eof THEN "close_socket" ELSE "read"

InsertSocket(c) ==
  /\ At(c, "insert_socket")
  /\ sLock = Free
  /\ IF sPoisoned
     THEN /\ Goto(c, "panicked")
          /\ UNCHANGED socket2id
     ELSE /\ socket2id' = [socket2id EXCEPT ![c] = buf[c]]
          /\ Goto(c, "insert_map")
  /\ UNCHANGED <<netVars, file, buf, eof, map, sLock, sPoisoned, info, statVars,
                 scanVars, outVars, histVars>>

InsertMap(c) ==
  /\ At(c, "insert_map")
  /\ map' = [map EXCEPT ![buf[c].id][c] = buf[c].path]
  /\ Goto(c, "read_active")
  /\ UNCHANGED <<netVars, file, buf, eof, socket2id, sLock, sPoisoned, info,
                 statVars, scanVars, outVars, histVars>>

\* is_active is read under a read lock that is given up before it is used.
ReadActive(c) ==
  /\ At(c, "read_active")
  /\ writer = Free
  /\ Goto(c, CASE stPoisoned -> "panicked"
               [] ~stPoisoned /\ stats.is_active -> AfterConnected(c)
               [] OTHER -> "activate")
  /\ UNCHANGED <<netVars, file, buf, eof, regVars, statVars, scanVars, outVars, histVars>>

Activate(c) ==
  /\ At(c, "activate")
  /\ writer = Free
  /\ readers = {}
  /\ IF stPoisoned
     THEN /\ Goto(c, "panicked")
          /\ UNCHANGED stats
     ELSE /\ stats' = [stats EXCEPT !.is_active = TRUE]
          /\ Goto(c, "first_output")
  /\ UNCHANGED <<netVars, file, buf, eof, regVars, writer, readers, stPoisoned,
                 scanVars, outVars, histVars>>

-----------------------------------------------------------------------------
(* serialize_statistics_to_filesystem: the read lock is held from the       *)
(* snapshot to the end of both writes.                                      *)

Snapshot == [exec |-> stats.exec_num, cov |-> stats.cov, end |-> stats.end]

\* What its three callers do next: a task after its first registration, a
\* task after its commit, and the ticker.
Output(label) == label \in {"first_output", "output", "tick"}
Writing(label) == CASE label = "first_output" -> "write_first"
                    [] label = "output" -> "write"
                    [] OTHER -> "write_tick"
AfterOutput(t) == CASE pc[t] \in {"first_output", "write_first"} -> AfterConnected(t)
                    [] pc[t] \in {"output", "write"} -> "remove"
                    [] OTHER -> "tick"

\* The readers while t writes.
HoldReadDropped(t) == readers
HoldRead(t) == readers \cup {t}

SerializeBegin(t) ==
  /\ Output(pc[t])
  /\ writer = Free
  /\ CASE stPoisoned -> Goto(t, "panicked") /\ UNCHANGED <<readers, snap>>
       [] ~stPoisoned /\ ~stats.is_active ->
            Goto(t, AfterOutput(t)) /\ UNCHANGED <<readers, snap>>
       [] OTHER -> /\ readers' = HoldRead(t)
                   /\ snap' = [snap EXCEPT ![t] = Snapshot]
                   /\ Goto(t, Writing(pc[t]))
  /\ UNCHANGED <<netVars, file, buf, eof, regVars, writer, stPoisoned, stats,
                 scanVars, out, histVars>>

\* The line is written (the first one into an emptied file, the others at its
\* end) and the .cov file replaced.
SerializeEnd(t) ==
  /\ pc[t] \in {"write_first", "write", "write_tick"}
  /\ out' = snap[t]
  /\ readers' = readers \ {t}
  /\ Goto(t, AfterOutput(t))
  /\ UNCHANGED <<netVars, file, buf, eof, regVars, writer, stPoisoned, stats,
                 scanVars, snap, histVars>>

-----------------------------------------------------------------------------
(* on_socket_closed                                                         *)

\* The mutex of socket2id is taken and kept.  An address that was never
\* registered makes expect panic with the mutex held.
CloseSocket(c) ==
  /\ At(c, "close_socket")
  /\ sLock = Free
  /\ IF sPoisoned \/ socket2id[c] = None
     THEN /\ sPoisoned' = TRUE
          /\ Goto(c, "panicked")
          /\ UNCHANGED <<socket2id, sLock, info>>
     ELSE /\ info' = [info EXCEPT ![c] = socket2id[c]]
          /\ socket2id' = [socket2id EXCEPT ![c] = None]
          /\ sLock' = c
          /\ Goto(c, "close_map")
          /\ UNCHANGED sPoisoned
  /\ UNCHANGED <<netVars, file, buf, eof, map, statVars, scanVars, outVars, histVars>>

\* As CloseMap, with the mutex of socket2id never given up.
CloseMapKeeping(c) ==
  /\ At(c, "close_map")
  /\ map' = [map EXCEPT ![info[c].id][c] = None]
  /\ Goto(c, "open")
  /\ UNCHANGED <<netVars, file, buf, eof, socket2id, sLock, sPoisoned, info,
                 statVars, scanVars, outVars, histVars>>

\* With the mutex of map too, the path is taken out; both are given up.
CloseMap(c) ==
  /\ At(c, "close_map")
  /\ map' = [map EXCEPT ![info[c].id][c] = None]
  /\ sLock' = Free
  /\ Goto(c, "open")
  /\ UNCHANGED <<netVars, file, buf, eof, socket2id, sPoisoned, info, statVars,
                 scanVars, outVars, histVars>>

\* filer_for_*: is a required object loaded?
Filter(hdr) == Required = {} \/ DOMAIN hdr.map \cap Required # {}

\* The file is opened and its header read.  A path nobody has is given up; a
\* process that is not tracked has its file removed and is given up.
OpenShm(c) ==
  /\ At(c, "open")
  /\ IF info[c].path \notin file
     THEN /\ Goto(c, "done")
          /\ UNCHANGED file
     ELSE IF ~Filter(image[c].hdr)
     THEN /\ file' = file \ {c}
          /\ Goto(c, "done")
     ELSE /\ Goto(c, "lock_statistics")
          /\ UNCHANGED file
  /\ UNCHANGED <<netVars, buf, eof, regVars, statVars, scanVars, outVars, histVars>>

LockStatistics(c) ==
  /\ At(c, "lock_statistics")
  /\ writer = Free
  /\ readers = {}
  /\ IF stPoisoned
     THEN /\ Goto(c, "panicked")
          /\ UNCHANGED <<writer, todo, upd>>
     ELSE /\ writer' = c
          /\ todo' = [todo EXCEPT ![c] = DOMAIN image[c].hdr.map \cap AllowList]
          /\ upd' = [upd EXCEPT ![c] = {}]
          /\ Goto(c, "scan")
  /\ UNCHANGED <<netVars, file, buf, eof, regVars, readers, stPoisoned, stats,
                 outVars, histVars>>

\* A name seen for the first time, by whichever process, gets the next free
\* range of the vector, of the length this process has for it.
NewRangeDown(len) == [start |-> stats.end - len, end |-> stats.end]
NewRange(len) == [start |-> stats.end, end |-> stats.end + len]
Known(n) == stats.cov_map[n] # None
EndAfterAlways(n, r) == r.end
EndAfter(n, r) == IF Known(n) THEN stats.end ELSE r.end
RangeOf(c, n) ==
  IF Known(n) THEN stats.cov_map[n] ELSE NewRange(SlotOf(image[c].hdr, n).size)

\* The indexes of a range whose byte in the client's memory is not zero: the
\* k-th index goes with the k-th byte from the object's offset.
HitIndexesAbsolute(c, n, r) ==
  {i \in Indexes(r) : CovOffset(SlotOf(image[c].hdr, n).offset) + i \in image[c].nz}
HitIndexes(c, n, r) ==
  {i \in Indexes(r) :
     CovOffset(SlotOf(image[c].hdr, n).offset) + (i - r.start) \in image[c].nz}

\* One round of update_index_with_allow_list's loop, in the order of the
\* names.  An index beyond the vector panics with the statistics held.
ScanDso(c, n) ==
  /\ At(c, "scan")
  /\ n \in todo[c]
  /\ \A m \in todo[c] : n <= m
  /\ LET r == RangeOf(c, n)
         hits == HitIndexes(c, n, r)
     IN  /\ stats' = [stats EXCEPT !.cov_map[n] = r,
                                   !.end = EndAfter(n, r)]
         /\ IF \E i \in hits : i >= MAXSIZE
            THEN /\ stPoisoned' = TRUE
                 /\ writer' = Free
                 /\ Goto(c, "panicked")
                 /\ UNCHANGED scanVars
            ELSE /\ upd' = [upd EXCEPT ![c] = @ \cup (hits \ stats.cov)]
                 /\ todo' = [todo EXCEPT ![c] = @ \ {n}]
                 /\ UNCHANGED <<writer, stPoisoned, pc>>
  /\ UNCHANGED <<netVars, file, buf, eof, regVars, readers, outVars, histVars>>

\* The process is counted and its new indexes set.  If there is one the lock
\* is given up and the statistics are written out; if there is none it is kept
\* until on_socket_closed returns.
Commit(c) ==
  /\ At(c, "scan")
  /\ todo[c] = {}
  /\ stats' = [stats EXCEPT !.exec_num = @ + 1, !.cov = @ \cup upd[c]]
  /\ counted' = counted \cup {c}
  /\ \/ upd[c] # {} /\ writer' = Free /\ Goto(c, "output")
     \/ upd[c] = {} /\ writer' = writer /\ Goto(c, "remove")
  /\ UNCHANGED <<netVars, file, buf, eof, regVars, readers, stPoisoned, scanVars,
                 outVars, registered>>

\* The file is removed; a task that still holds the lock gives it up.
RemoveFile(c) ==
  /\ At(c, "remove")
  /\ file' = file \ {c}
  /\ writer' = IF writer = c THEN Free ELSE writer
  /\ Goto(c, "done")
  /\ UNCHANGED <<netVars, buf, eof, regVars, readers, stPoisoned, stats, scanVars,
                 outVars, histVars>>

-----------------------------------------------------------------------------

ClientStep(c) ==
  \/ Connect(c)
  \/ \E how \in {"eof", "reset"} : ClientEnd(c, how)

TaskStep(c) ==
  \/ ReadMessage(c) \/ ReadEof(c) \/ ReadError(c)
  \/ InsertSocket(c) \/ InsertMap(c) \/ ReadActive(c) \/ Activate(c)
  \/ CloseSocket(c) \/ CloseMap(c) \/ OpenShm(c) \/ LockStatistics(c)
  \/ \E n \in Names : ScanDso(c, n)
  \/ Commit(c) \/ RemoveFile(c)
  \/ SerializeBegin(c) \/ SerializeEnd(c)

TickerStep == SerializeBegin(Ticker) \/ SerializeEnd(Ticker)

Next ==
  \/ \E c \in Clients : ClientStep(c) \/ TaskStep(c)
  \/ TickerStep

\* The runtime keeps polling every task, and a thread that waits for a lock
\* gets it in the end: the standard library's locks queue their waiters and
\* its reader-writer lock lets no new reader in ahead of a waiting writer.
\* Hence strong fairness of the tasks, whose steps that take a lock are
\* disabled while others hold it.  Nothing makes a client connect or end.
Fairness ==
  /\ \A c \in Clients : SF_vars(TaskStep(c))
  /\ WF_vars(TickerStep)

Spec == Init /\ [][Next]_vars
FairSpec == Spec /\ Fairness

-----------------------------------------------------------------------------
(* Properties.                                                              *)

Labels ==
  {"accept", "read", "insert_socket", "insert_map", "read_active", "activate",
   "first_output", "write_first", "close_socket", "close_map", "open",
   "lock_statistics", "scan", "output", "write", "remove", "done", "panicked",
   "tick", "write_tick"}

TypeNet ==
  /\ net \in [Clients -> [end : {"absent", "open", "eof", "reset"}, unread : BOOLEAN]]
  /\ image \in [Clients -> Images \cup {None}]
  /\ file \subseteq Clients
  /\ buf \in [Clients -> RegisterMsgInfo]
  /\ eof \subseteq Clients
  /\ registered \subseteq Clients
  /\ pc \in [Tasks -> Labels]

TypeReg ==
  /\ socket2id \in [Clients -> RegisterMsgInfo \cup {None}]
  /\ map \in [SessionIds -> [Clients -> Paths \cup {None}]]
  /\ sLock \in Clients \cup {Free}
  /\ sPoisoned \in BOOLEAN
  /\ info \in [Clients -> RegisterMsgInfo]

TypeStat ==
  /\ writer \in Clients \cup {Free}
  /\ readers \subseteq Tasks
  /\ stPoisoned \in BOOLEAN
  /\ stats \in [cov : SUBSET Nat, cov_map : [Names -> Ranges \cup {None}],
                end : Nat, exec_num : Nat, is_active : BOOLEAN]
  /\ todo \in [Clients -> SUBSET Names]
  /\ upd \in [Clients -> SUBSET Nat]
  /\ snap \in [Tasks -> [exec : Nat, cov : SUBSET Nat, end : Nat]]
  /\ out \in [exec : Nat, cov : SUBSET Nat, end : Nat]
  /\ counted \subseteq Clients

\* Every variable of the collector has its type; in particular no range of the
\* coverage vector starts below 0 and none of its lengths is negative.
TypeOK == TypeNet /\ TypeReg /\ TypeStat

\* The ranges of the objects tile the used part of the coverage vector: they
\* do not overlap, whatever order the processes ended in, and every index
\* below "end" belongs to one.  cov_map, cov_range in Statistics.
RangesPacked ==
  /\ \A n \in Names : Known(n) =>
       /\ stats.cov_map[n].start <= stats.cov_map[n].end
       /\ stats.cov_map[n].end <= stats.end
  /\ \A m, n \in Names : m # n /\ Known(m) /\ Known(n) =>
       Indexes(stats.cov_map[m]) \cap Indexes(stats.cov_map[n]) = {}
  /\ \A i \in 0 .. stats.end - 1 :
       \E n \in Names : Known(n) /\ i \in Indexes(stats.cov_map[n])

\* Lines appear in the output in the order of the states they report, although
\* several tasks write the file at once: the newest line never goes back.
OutputMonotone ==
  [][/\ out.exec <= out'.exec
     /\ out.cov \subseteq out'.cov
     /\ out.end <= out'.end]_vars

\* The second on_socket_connected call of a connection, the one for 0 bytes,
\* leaves nothing behind: where a task has let go of its address, neither hash
\* map has an entry for it, and where the second lock is taken the entry that
\* expect needs is there.
NoStaleEntries ==
  \A c \in Clients :
    /\ At(c, "close_map") => map[info[c].id][c] # None
    /\ pc[c] \in {"open", "lock_statistics", "scan", "output", "write", "remove", "done"} =>
         /\ socket2id[c] = None
         /\ \A i \in SessionIds : map[i][c] = None

\* A process that registered is left out of the statistics only because it is
\* not tracked, or because a panic (its own, or one that poisoned a lock) ended
\* its task.  Its file does not outlive the task that collects it.
DroppedOnlyFor ==
  \A c \in Clients :
    /\ At(c, "done") /\ c \in registered \ counted => ~Filter(image[c].hdr)
    /\ At(c, "panicked") => c \in Oversized \/ sPoisoned \/ stPoisoned
    /\ At(c, "done") /\ c \in registered => c \notin file

\* The ledger the statistics implement.  A guard is a name and an index; the
\* evidence of a process is what update_index_with_allow_list reads in its
\* memory, object by object.
Points == {<<n, k>> : n \in Names, k \in 0 .. MAXSIZE - 1}

Evidence(c) ==
  IF image[c] = None \/ net[c].end \notin {"eof", "reset"}
  THEN {}
  ELSE {p \in Points :
          /\ p[1] \in DOMAIN image[c].hdr.map \cap AllowList
          /\ p[2] < SlotOf(image[c].hdr, p[1]).size
          /\ CovOffset(SlotOf(image[c].hdr, p[1]).offset) + p[2] \in image[c].nz}

PointsOf(cov) ==
  {p \in Points :
     /\ Known(p[1])
     /\ stats.cov_map[p[1]].start + p[2] \in cov
     /\ p[2] < RangeLen(stats.cov_map[p[1]])}

Ledger == INSTANCE CoverageLedger WITH
  evidence <- [c \in Clients |-> Evidence(c)],
  credited <- counted,
  covered <- PointsOf(stats.cov),
  published <- PointsOf(out.cov)

\* The packed vector, its ranges and the locks implement the ledger: each
\* process is credited once and as a whole, its objects are not mixed up with
\* those of other processes, and the output is a total that was reached.
LedgerRefined == Ledger!Spec

\* Every process whose connection has ended is dealt with to the end: its
\* entry, its statistics and its file.  sancov_runtime/src/readme.md:25: after the
\* program is terminated (normally or abnormally) the server collects it.
EveryEndCollected ==
  \A c \in Clients : net[c].end \in {"eof", "reset"} ~> At(c, "done")

\* Header.vec's comment (utils.rs:31-33): "the offset is to the beginning of
\* the COV section ... So I should add a HEADER_SIZE when using the offset".
\* An index of the vector is set only if a counted process executed that very
\* guard, that is, if the byte guard_init pointed the guard to is not zero.
CoverageIsExecution ==
  \A p \in PointsOf(stats.cov) : \E c \in counted :
    /\ p[1] \in DOMAIN image[c].hdr.map
    /\ GuardValue(SlotOf(image[c].hdr, p[1]).offset, p[2]) \in image[c].nz
=============================================================================
