----------------------------- MODULE MemRuntime ------------------------------
(***************************************************************************)
(* The runtime linked into a process whose calls and memory accesses are   *)
(* recorded.  Compiled-in callbacks run on every thread: the entry and the *)
(* return of a function and each load, store and address computation.      *)
(*                                                                         *)
(* Source: src/rozz_cover/mem_analysis_runtime/src/lib.rs.  Its statics    *)
(* are plain memory, except for one mutex, one reader-writer lock and one  *)
(* flag; a step here is what runs between two accesses to them.            *)
(***************************************************************************)
EXTENDS MemDependency

CONSTANTS
  Threads,   \* the threads of the process
  Funcs,     \* Funcs[t]: the recorded functions that t calls
  Accesses,  \* records of kind and access
  Links,     \* the files and connections of all processes, those of Files included
  MaxFiles,  \* bound on the initializations
  MaxEntries,\* bound on the calls of each thread
  NoFile,    \* SHM is null
  NoThread,  \* VISIT_TID is 0, or nobody holds a lock
  NoFunc     \* CURRENT_FUNC is None

Files == 1 .. MaxFiles

ASSUME MemAssumption ==
  /\ Files \subseteq Links /\ NoFile \notin Links /\ NoThread \notin Threads
  /\ \A t \in Threads : Funcs[t] \subseteq Name /\ NoFunc \notin Funcs[t]
  /\ \A a \in Accesses : a.kind \in Kinds /\ a.access \in Access(a.kind)
  /\ MaxFiles \in Nat /\ IsFiniteSet(Threads) /\ Cardinality(Threads) <= MaxFiles

VARIABLES
  process,   \* "runs", or how it stopped: "ended", "died"
  shm,       \* SHM: the file the pointer points to
  mmap,      \* MMAP: the mapping that is kept
  content,   \* content[f]: what the bytes of file f decode to
  link,      \* link[f]: what the process did to the connection that registers f
  connected, \* CONNECTOR: the file whose connection it holds
  disable,   \* DISABLE_MINI_COLLECTION is set
  mini,      \* MINI_COLLECTION
  memDep,    \* MEM_DEP
  visitTid,  \* VISIT_TID
  curFunc,   \* CURRENT_FUNC
  depLock,   \* who holds MEM_DEP over more than one step
  dest,      \* the file that the holder copies to
  tpc,       \* tpc[t]: where t is
  func,      \* func[t]: the function whose entry or return t executes
  target,    \* target[t]: the file t has created
  entries,   \* entries[t]: the calls of t
  pushes,    \* bound: how many more accesses are recorded
  who,       \* who[i]: the thread that added call i (history)
  owners,    \* owners[i]: the threads whose accesses are in call i (history)
  raced      \* two entries overlapped (history)

mapVars == <<shm, mmap, content>>
netVars == <<link, connected, disable, mini>>
curVars == <<visitTid, curFunc>>
lockVars == <<depLock, dest>>
countVars == <<entries, pushes>>
histVars == <<who, owners, raced>>
memVars == <<process, mapVars, netVars, memDep, curVars, lockVars, tpc, func, target, countVars, histVars>>

MemInit ==
  /\ process = "runs"
  /\ shm = NoFile /\ mmap = NoFile
  /\ connected = NoFile
  /\ disable \in BOOLEAN /\ mini = TRUE
  /\ memDep = EmptyDep
  /\ visitTid = NoThread /\ curFunc = NoFunc
  /\ depLock = NoThread /\ dest = NoFile
  /\ tpc = [t \in Threads |-> "app"]
  /\ func = [t \in Threads |-> NoFunc]
  /\ target = [t \in Threads |-> NoFile]
  /\ entries = [t \in Threads |-> 0]
  /\ who = << >> /\ owners = << >> /\ raced = FALSE

At(t, label) == process = "runs" /\ tpc[t] = label
Goto(t, label) == tpc' = [tpc EXCEPT ![t] = label]

\* The end of the process ends its connections: "cut" before they registered.
Ended == [f \in Links |-> IF f \notin Files THEN link[f]
                          ELSE CASE link[f] = "open" -> "cut"
                                 [] link[f] = "sent" -> "closed"
                                 [] OTHER -> link[f]]
Closed(f) == IF f = NoFile THEN link ELSE [link EXCEPT ![f] = "closed"]

ReaderLetsGo == FALSE
\* The guard of CURRENT_FUNC that func_return keeps, and asks to write under.
ReaderHolds == \E t \in Threads : tpc[t] \in {"copy_final", "final", "relock", "stuck"}
WriterWaits == \E t \in Threads : tpc[t] = "stuck"

-----------------------------------------------------------------------------
(* __mem_analysis_func_entry                                                *)

\* Where a thread is after it found that no call is recorded.
Entering == {"check_shm", "map", "keep", "copy_initial", "initial", "connect", "register",
             "set_tid", "set_func", "add_func"}

\* An entry while another call is recorded returns at once.
FuncEntry(t) ==
  /\ At(t, "app")
  /\ ~WriterWaits
  /\ entries[t] < MaxEntries
  /\ entries' = [entries EXCEPT ![t] = @ + 1]
  /\ \/ curFunc # NoFunc /\ UNCHANGED <<tpc, func, raced>>
     \/ /\ curFunc = NoFunc
        /\ \E f \in Funcs[t] : func' = [func EXCEPT ![t] = f]
        /\ Goto(t, IF shm = NoFile THEN "check_shm" ELSE "set_tid")
        /\ raced' = (raced \/ \E u \in Threads \ {t} : tpc[u] \in Entering)
  /\ UNCHANGED <<process, mapVars, netVars, memDep, curVars, lockVars, target, pushes, who, owners>>

\* initialization looks at SHM again and creates a file ...
CheckShm(t) ==
  /\ At(t, "check_shm")
  /\ IF shm # NoFile
     THEN Goto(t, "set_tid") /\ UNCHANGED target
     ELSE /\ target' = [target EXCEPT ![t] =
                          CHOOSE f \in Files : \A u \in Threads : target[u] # f]
          /\ Goto(t, "map")
  /\ UNCHANGED <<process, mapVars, netVars, memDep, curVars, lockVars, func, countVars, histVars>>

\* ... sets SHM to its mapping ...
MapFile(t) ==
  /\ At(t, "map")
  /\ shm' = target[t]
  /\ Goto(t, "keep")
  /\ UNCHANGED <<process, mmap, content, netVars, memDep, curVars, lockVars, func, target,
                 countVars, histVars>>

\* ... and then MMAP.  The mapping that was there is dropped: it is unmapped.
KeepMap(t) ==
  /\ At(t, "keep")
  /\ mmap' = target[t]
  /\ Goto(t, "copy_initial")
  /\ UNCHANGED <<process, shm, content, netVars, memDep, curVars, lockVars, func, target,
                 countVars, histVars>>

Mapped(f) == mmap = f \/ \E t \in Threads : tpc[t] = "keep" /\ target[t] = f

\* serialize_dependency_to_shm takes the mutex, deduplicates the last call
\* (need_dedup_last) and reads SHM.  CAN_WRITE_SHM_LOCK, which it waits for
\* and sets before, excludes nobody whom the mutex does not exclude.
BeginCopy(t, from, to, needDedupLast) ==
  /\ At(t, from)
  /\ depLock = NoThread
  /\ depLock' = t /\ dest' = shm
  /\ memDep' = IF needDedupLast THEN DedupMem(memDep, Len(memDep.call_seq)) ELSE memDep
  /\ Goto(t, to)
  /\ UNCHANGED <<process, mapVars, netVars, curVars, func, target, countVars, histVars>>

\* The bytes are copied one by one: the process dies if they are not mapped.
EndCopy(t, from, to) ==
  /\ At(t, from)
  /\ depLock' = NoThread /\ dest' = NoFile
  /\ IF Mapped(dest)
     THEN content' = [content EXCEPT ![dest] = memDep] /\ UNCHANGED <<process, link>>
     ELSE process' = "died" /\ link' = Ended /\ UNCHANGED content
  /\ Goto(t, to)
  /\ UNCHANGED <<shm, mmap, connected, disable, mini, memDep, curVars, func, target, countVars, histVars>>

\* connect_to_server connects ...
Connect(t) ==
  /\ At(t, "connect")
  /\ link' = [link EXCEPT ![target[t]] = "open"]
  /\ Goto(t, "register")
  /\ UNCHANGED <<process, mapVars, connected, disable, mini, memDep, curVars, lockVars, func, target,
                 countVars, histVars>>

\* ... and registers the file; or nobody listens.  What CONNECTOR held is
\* closed, and only then is MINI_COLLECTION set.
Register(t) ==
  /\ \/ /\ At(t, "register")
        /\ link' = [Closed(connected) EXCEPT ![target[t]] = "sent"]
        /\ connected' = target[t]
     \/ At(t, "connect") /\ link' = Closed(connected) /\ connected' = NoFile
  /\ mini' = ~disable
  /\ Goto(t, "set_tid")
  /\ UNCHANGED <<process, mapVars, disable, memDep, curVars, lockVars, func, target, countVars, histVars>>

SetTid(t) ==
  /\ At(t, "set_tid")
  /\ visitTid' = t
  /\ Goto(t, "set_func")
  /\ UNCHANGED <<process, mapVars, netVars, memDep, curFunc, lockVars, func, target, countVars, histVars>>

SetFunc(t) ==
  /\ At(t, "set_func")
  /\ ~ReaderHolds
  /\ curFunc' = func[t]
  /\ Goto(t, "add_func")
  /\ UNCHANGED <<process, mapVars, netVars, memDep, visitTid, lockVars, func, target, countVars, histVars>>

AddFunc(t) ==
  /\ At(t, "add_func")
  /\ depLock = NoThread
  /\ memDep' = AddNewFunc(memDep, func[t])
  /\ who' = Append(who, t)
  /\ owners' = Append(owners, {})
  /\ Goto(t, "app")
  /\ UNCHANGED <<process, mapVars, netVars, curVars, lockVars, func, target, countVars, raced>>

-----------------------------------------------------------------------------
(* The callbacks of loads, stores and address computations.                 *)

\* Only the accesses of the thread that VISIT_TID names are recorded.
VisitedNotNone(t) == visitTid # NoThread
Visited(t) == visitTid = t

KindUsed(k) == k = "gep_mem" \/ (mini <=> k \in {"mini_load_mem", "mini_store_mem"})

Pointer(t, a) ==
  /\ At(t, "app")
  /\ pushes > 0
  /\ shm # NoFile
  /\ Visited(t)
  /\ depLock = NoThread
  /\ KindUsed(a.kind)
  /\ pushes' = pushes - 1
  /\ memDep' = PushLast(memDep, a.kind, a.access)
  /\ owners' = [owners EXCEPT ![Len(owners)] = @ \cup {t}]
  /\ UNCHANGED <<process, mapVars, netVars, curVars, lockVars, tpc, func, target, entries, who, raced>>

-----------------------------------------------------------------------------
(* __mem_analysis_func_return                                               *)

\* The return of the recorded function on the thread that entered it last.
FuncReturn(t, f) ==
  /\ At(t, "app")
  /\ ~WriterWaits
  /\ shm # NoFile
  /\ curFunc = f
  /\ Visited(t)
  /\ func' = [func EXCEPT ![t] = f]
  /\ Goto(t, "copy_final")
  /\ UNCHANGED <<process, mapVars, netVars, memDep, curVars, lockVars, target, countVars, histVars>>

\* CURRENT_FUNC is asked for writing while the guard of the reading is alive:
\* the standard library lets the thread wait for ever, or panics.
Relock(t) ==
  /\ At(t, "relock")
  /\ \/ Goto(t, "stuck") /\ UNCHANGED <<process, link>>
     \/ process' = "died" /\ link' = Ended /\ UNCHANGED tpc
  /\ UNCHANGED <<mapVars, connected, disable, mini, memDep, curVars, lockVars, func, target,
                 countVars, histVars>>

-----------------------------------------------------------------------------
\* What a copy that was cut off leaves: the lists are written one after the
\* other, over the zeros of a new file, which decode to nothing. Left out: a cut
\* within a list, and the bytes of an earlier, longer copy behind the cut.
Wholes == {{}, {"load_mem"}, {"load_mem", "store_mem"}, {"load_mem", "store_mem", "gep_mem"},
           Kinds \ {"mini_store_mem"}}
CutOff(dep) ==
  {EmptyDep, dep} \cup
  {[call_seq |-> dep.call_seq,
    mem |-> [k \in Kinds |-> IF k \in whole THEN dep.mem[k] ELSE << >>]] : whole \in Wholes}

\* The process exits or is killed, at any point: also in front of a copy, where
\* it exits by itself when the dependency is longer than the file. CONNECTOR
\* is closed with it.
ProcessEnds ==
  /\ process = "runs"
  /\ process' = "ended"
  /\ \/ UNCHANGED content
     \/ /\ depLock # NoThread
        /\ Mapped(dest)
        /\ \E cut \in CutOff(memDep) : content' = [content EXCEPT ![dest] = cut]
  /\ link' = Ended /\ connected' = NoFile
  /\ UNCHANGED <<shm, mmap, disable, mini, memDep, curVars, lockVars, tpc, func, target,
                 countVars, histVars>>

Callback(t) ==
  \/ FuncEntry(t) \/ CheckShm(t) \/ MapFile(t) \/ KeepMap(t)
  \/ BeginCopy(t, "copy_initial", "initial", FALSE)
  \/ EndCopy(t, "initial", "connect")
  \/ Connect(t) \/ Register(t) \/ SetTid(t) \/ SetFunc(t) \/ AddFunc(t)
  \/ \E a \in Accesses : Pointer(t, a)
  \/ \E f \in Funcs[t] : FuncReturn(t, f)
  \/ BeginCopy(t, "copy_final", "final", TRUE)
  \/ EndCopy(t, "final", "relock") \/ Relock(t)
=============================================================================
