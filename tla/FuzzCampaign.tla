---------------------------- MODULE FuzzCampaign ----------------------------
(***************************************************************************)
(* The fuzzing campaign: the main thread boots the ROS application, feeds  *)
(* it one program after another through the ros2 command line, looks after *)
(* each whether the application crashed or hangs, saves what it found and  *)
(* boots the application again.  Around it run the application's own       *)
(* processes, the signals sent to them, the thread that logs the status    *)
(* and the Ctrl-C handler.                                                 *)
(*                                                                         *)
(* Every boot makes an instance: a launch process (xvfb-run with           *)
(* ros2 launch, a child of the fuzzer) and the node processes it starts.   *)
(* A node that starts creates the tracer's files in the shm directory.     *)
(*                                                                         *)
(* Sources: src/feryr_fuzzer/src/{lib.rs,bin/fuzzer.rs},                   *)
(* src/feryr_prog/src/corpus_handle/{prog,target}.rs.                      *)
(***************************************************************************)
EXTENDS Integers, Sequences, FiniteSets

CONSTANTS
  HangKinds,   \* what the ros2 command line may say it is waiting for
  MaxBoots,    \* bound on the instances
  MaxExec,     \* bound on the programs
  Mortal       \* the instances whose processes may end

ASSUME CampaignAssumption ==
  /\ MaxBoots \in Nat
  /\ MaxExec \in Nat
  /\ Mortal \subseteq 1 .. MaxBoots

VARIABLES
  fate,     \* of the fuzzer: up, killed, panicked or exited
  running,  \* RUNNING
  pc,       \* what the main thread does next
  hang,     \* the description of the hang being saved
  inst,     \* fuzzing_inst: the newest instance
  pid,      \* ros_launch.pid: the instance that check_crash looks at
  launch,   \* launch[k]: the launch process of instance k
  node,     \* node[k]: its nodes
  term,     \* the SIGTERMs sent and not delivered: pairs <<k, process>>
  shmBy,    \* the instances whose files are in the shm directory
  total,    \* total_exec; programs are numbered by it
  cur,      \* current_corpus
  corpus,   \* corpus
  crash,    \* crash[h][i]: what is saved under index i of description h
  logged,   \* the total in the newest line of the log
  given     \* given[k]: the programs run while k was the instance (history)

procVars == <<launch, node, term, shmBy>>
progVars == <<total, cur, corpus, given>>
vars == <<fate, running, pc, hang, inst, pid, launch, node, term, shmBy, total,
          cur, corpus, crash, logged, given>>

Insts == 1 .. MaxBoots
Programs == 1 .. MaxExec
Dead == {"signaled", "exited"}   \* a launch process that is a zombie
NoHang == "none"

Init ==
  /\ fate = "up"
  /\ running = TRUE
  /\ pc = "gen_boot"
  /\ hang = NoHang
  /\ inst = 0
  /\ pid = 0
  /\ launch = [k \in Insts |-> "none"]
  /\ node = [k \in Insts |-> "none"]
  /\ term = {}
  /\ shmBy = {}
  /\ total = 0
  /\ cur = << >>
  /\ corpus = {}
  /\ crash = [h \in HangKinds |-> << >>]
  /\ logged = 0
  /\ given = [k \in Insts |-> << >>]

Main(label) == fate = "up" /\ pc = label
Goto(label) == pc' = label
Die(how) == fate' = how

-----------------------------------------------------------------------------
(* boot, kill_ros_app, clean_shm_file and reboot                            *)

\* The launch process is spawned, with the log files emptied for it.
Spawn(from, to) ==
  /\ Main(from)
  /\ inst < MaxBoots
  /\ inst' = inst + 1
  /\ launch' = [launch EXCEPT ![inst + 1] = "up"]
  /\ Goto(to)
  /\ UNCHANGED <<fate, running, hang, pid, node, term, shmBy, progVars, crash, logged>>

\* check_boot: are the tracer's files there and not empty?  Nothing in them
\* says whose they are.
CheckBoot == shmBy # {}

\* The first boot, by gen_targets, which then asks the application for its
\* nodes and interfaces.  It is not tried again.
GenTargets ==
  /\ Main("gen_wait")
  /\ IF CheckBoot
     THEN Goto("first_reboot") /\ UNCHANGED fate
     ELSE Die("panicked") /\ UNCHANGED pc
  /\ UNCHANGED <<running, hang, inst, pid, procVars, progVars, crash, logged>>

FirstReboot ==
  /\ Main("first_reboot")
  /\ Goto("kill")
  /\ UNCHANGED <<fate, running, hang, inst, pid, procVars, progVars, crash, logged>>

\* The processes kill_ros_app sends SIGTERM to: the tree under the launch
\* process as pstree sees it.  Nodes whose launch process has died are in
\* another tree, and nodes that start later are in none.
PstreeNodes == {s \in {<<inst, "node">>} : launch[inst] = "up" /\ node[inst] = "up"}
Pstree == PstreeNodes \cup {s \in {<<inst, "launch">>} : launch[inst] = "up"}

KillRosApp ==
  /\ Main("kill")
  /\ term' = term \cup Pstree
  /\ Goto("clean")
  /\ UNCHANGED <<fate, running, hang, inst, pid, launch, node, shmBy, progVars, crash, logged>>

CleanShmFile ==
  /\ Main("clean")
  /\ shmBy' = {}
  /\ Goto("boot")
  /\ UNCHANGED <<fate, running, hang, inst, pid, launch, node, term, progVars, crash, logged>>

\* What is left of current_corpus after a reboot: clean_prog.
CleanProgNot == cur
CleanProg == << >>

\* After the reboot of an error the programs are forgotten, too.  (Before the
\* first iteration there is none.)
BootOk ==
  /\ Main("wait")
  /\ CheckBoot
  /\ pid' = inst
  /\ cur' = CleanProg
  /\ Goto("loop")
  /\ UNCHANGED <<fate, running, hang, inst, procVars, total, corpus, given, crash, logged>>

\* A boot that times out, after 10 s, is tried again from the start.
BootTimeout ==
  /\ Main("wait")
  /\ ~CheckBoot
  /\ Goto("kill")
  /\ UNCHANGED <<fate, running, hang, inst, pid, procVars, progVars, crash, logged>>

-----------------------------------------------------------------------------
(* fuzz_loop and check_crash                                                *)

\* The number of the program that is generated: total_exec once it is counted.
NextExecStale == total
NextExec == total + 1

\* A program is generated and, with the manager locked for writing until the
\* end of the iteration, handed to the instance.
Iterate ==
  /\ Main("loop")
  /\ running
  /\ total < MaxExec
  /\ total' = NextExec
  /\ cur' = Append(cur, NextExec)
  /\ given' = [given EXCEPT ![inst] = Append(@, NextExec)]
  /\ pid' = inst
  /\ Goto("check_before")
  /\ UNCHANGED <<fate, running, hang, inst, procVars, corpus, crash, logged>>

\* The loop ends: the event traces are written out and main returns.
LoopEnd ==
  /\ Main("loop")
  /\ ~running
  /\ Die("exited")
  /\ UNCHANGED <<running, pc, hang, inst, pid, procVars, progVars, crash, logged>>

\* The three calls of check_crash, their second halves and what follows Ok.
Checks == {"check_before", "check_after", "check_timeout"}
Waitpid(label) == CASE label = "check_before" -> "waitpid_before"
                    [] label = "check_after" -> "waitpid_after"
                    [] label = "check_timeout" -> "waitpid_timeout"
AfterCheck(label) == CASE label \in {"check_before", "waitpid_before"} -> "exec"
                       [] label \in {"check_after", "waitpid_after"} -> "interest"
                       [] label \in {"check_timeout", "waitpid_timeout"} -> "timeout"

\* The status of the launch process is read.  For a zombie, kill -9 goes to
\* its parent.  A process that is not there passes.
CheckStatus ==
  /\ fate = "up"
  /\ pc \in Checks
  /\ CASE launch[pid] = "up" -> Goto(Waitpid(pc)) /\ UNCHANGED fate
       [] launch[pid] \in Dead -> Die("killed") /\ UNCHANGED pc
       [] OTHER -> Goto(AfterCheck(pc)) /\ UNCHANGED fate
  /\ UNCHANGED <<running, hang, inst, pid, procVars, progVars, crash, logged>>

\* Mutant: every answer of waitpid is a good one.
CrashedNever(status) == FALSE
\* Does waitpid's answer count as a crash? The end of the process does not.
Crashed(status) == status = "signaled"

\* waitpid on the first process of the tree, which is the launch process
\* itself, decides.  One that has been killed since is reported as a crash,
\* whose message save_crash cannot split: it panics.  Both are reaped.
CheckWaitpid ==
  /\ fate = "up"
  /\ pc \in {Waitpid(label) : label \in Checks}
  /\ launch' = [launch EXCEPT ![pid] = IF @ \in Dead THEN "reaped" ELSE @]
  /\ IF Crashed(launch[pid])
     THEN Die("panicked") /\ UNCHANGED pc
     ELSE Goto(AfterCheck(pc)) /\ UNCHANGED fate
  /\ UNCHANGED <<running, hang, inst, pid, node, term, shmBy, progVars, crash, logged>>

-----------------------------------------------------------------------------
(* exec_one                                                                 *)

\* The ros2 command ends within 10 s or not.  An error in its output makes
\* the fuzzer reboot without saving.
Exec ==
  /\ Main("exec")
  /\ \E next \in {"kill", "check_after", "check_timeout"} : Goto(next)
  /\ UNCHANGED <<fate, running, hang, inst, pid, procVars, progVars, crash, logged>>

\* The call traces are computed and the monitors decide; both may panic.
CheckInterest ==
  /\ Main("interest")
  /\ \/ \E interesting \in BOOLEAN :
          /\ corpus' = corpus \cup {p \in {total} : interesting}
          /\ Goto("loop")
          /\ UNCHANGED fate
     \/ /\ Die("panicked")
        /\ UNCHANGED <<pc, corpus>>
  /\ UNCHANGED <<running, hang, inst, pid, procVars, total, cur, given, crash, logged>>

\* The command is killed and its output read to its end, which waits for as
\* long as a child of the command keeps the pipe open: nothing makes this step
\* happen.  Output that says what it waits for is a hang; no output or any
\* other is taken as a normal end.
Timeout ==
  /\ Main("timeout")
  /\ \/ /\ Goto("loop")
        /\ UNCHANGED hang
     \/ \E h \in HangKinds :
          /\ hang' = h
          /\ Goto("save")
  /\ UNCHANGED <<fate, running, inst, pid, procVars, progVars, crash, logged>>

-----------------------------------------------------------------------------
(* save_crash                                                               *)

\* What a saved crash holds: the programs, and whose logs and tracer files
\* were copied (none yet).
Artefact == [progs |-> cur, log |-> 0, shm |-> {}]

\* The index is one more than the last digit of the first entry of the
\* directory, in no particular order.  The first entry may be "description",
\* which ends in no digit.
FreshIndex(h) == IF crash[h] = << >> THEN {0} ELSE {(i % 10) + 1 : i \in DOMAIN crash[h]}

SaveInput ==
  /\ Main("save")
  /\ \/ \E i \in FreshIndex(hang) :
          /\ crash' = [crash EXCEPT ![hang] =
               [j \in DOMAIN @ \cup {i} |-> IF j = i THEN Artefact ELSE @[j]]]
          /\ cur' = << >>
          /\ Goto("save_copies")
          /\ UNCHANGED fate
     \/ /\ crash[hang] # << >>
        /\ Die("panicked")
        /\ UNCHANGED <<crash, cur, pc>>
  /\ UNCHANGED <<running, hang, inst, pid, procVars, total, corpus, given, logged>>

\* What follows a saved crash: the application is booted again.
AfterSaveLoop == "loop"
AfterSave == "kill"

SaveCopies ==
  /\ Main("save_copies")
  /\ crash' = [crash EXCEPT ![hang] =
       [i \in DOMAIN @ |-> IF @[i].log = 0
                           THEN [@[i] EXCEPT !.log = inst, !.shm = shmBy]
                           ELSE @[i]]]
  /\ hang' = NoHang
  /\ Goto(AfterSave)
  /\ UNCHANGED <<fate, running, inst, pid, procVars, progVars, logged>>

-----------------------------------------------------------------------------
(* The status thread and the Ctrl-C handler.                                *)

\* May the status thread read the manager?  The main thread gives its lock up
\* between two iterations only.
CanRead == pc \in {"first_reboot", "loop"}

OutputLog ==
  /\ fate = "up"
  /\ CanRead
  /\ logged' = total
  /\ UNCHANGED <<fate, running, pc, hang, inst, pid, procVars, progVars, crash>>

CtrlC ==
  /\ fate = "up"
  /\ running
  /\ running' = FALSE
  /\ UNCHANGED <<fate, pc, hang, inst, pid, procVars, progVars, crash, logged>>

\* The handler leaves the application as it is and exits.
Quit ==
  /\ fate = "up"
  /\ ~running
  /\ Die("exited")
  /\ UNCHANGED <<running, pc, hang, inst, pid, procVars, progVars, crash, logged>>

-----------------------------------------------------------------------------
(* The application and the operating system.                                *)

NodeStart(k) ==
  /\ launch[k] = "up"
  /\ node[k] = "none"
  /\ node' = [node EXCEPT ![k] = "up"]
  /\ shmBy' = shmBy \cup {k}
  /\ UNCHANGED <<launch, term>>

\* A signal or anything else makes a process end.
NodeEnds(k) ==
  /\ k \in Mortal
  /\ node[k] = "up"
  /\ node' = [node EXCEPT ![k] = "dead"]
  /\ term' = term \ {<<k, "node">>}
  /\ UNCHANGED <<launch, shmBy>>

LaunchEnds(k) ==
  /\ k \in Mortal
  /\ launch[k] = "up"
  /\ \E how \in Dead : launch' = [launch EXCEPT ![k] = how]
  /\ term' = term \ {<<k, "launch">>}
  /\ UNCHANGED <<node, shmBy>>

Environment ==
  /\ fate = "up"
  /\ \E k \in Insts : NodeStart(k) \/ NodeEnds(k) \/ LaunchEnds(k)
  /\ UNCHANGED <<fate, running, pc, hang, inst, pid, progVars, crash, logged>>

-----------------------------------------------------------------------------

MainStep ==
  \/ Spawn("gen_boot", "gen_wait") \/ GenTargets \/ FirstReboot
  \/ KillRosApp \/ CleanShmFile \/ Spawn("boot", "wait") \/ BootOk \/ BootTimeout
  \/ Iterate \/ LoopEnd \/ CheckStatus \/ CheckWaitpid
  \/ Exec \/ CheckInterest \/ Timeout \/ SaveInput \/ SaveCopies

Next == MainStep \/ OutputLog \/ CtrlC \/ Quit \/ Environment

Spec == Init /\ [][Next]_vars

-----------------------------------------------------------------------------
(* Properties.                                                              *)

Labels ==
  {"gen_boot", "gen_wait", "first_reboot", "kill", "clean", "boot", "wait",
   "loop", "exec", "interest", "timeout", "save", "save_copies"}
    \cup Checks \cup {Waitpid(label) : label \in Checks}

Artefacts == [progs : Seq(Programs), log : 0 .. MaxBoots, shm : SUBSET Insts]

\* Every variable of the campaign has its type; the ends of a process are
\* ends: only an instance that was spawned has a launch process or a node.
TypeOK ==
  /\ fate \in {"up", "killed", "panicked", "exited"}
  /\ running \in BOOLEAN
  /\ pc \in Labels
  /\ hang \in HangKinds \cup {NoHang}
  /\ inst \in 0 .. MaxBoots
  /\ pid \in 0 .. inst
  /\ launch \in [Insts -> {"none", "up", "reaped"} \cup Dead]
  /\ node \in [Insts -> {"none", "up", "dead"}]
  /\ term \subseteq Insts \X {"launch", "node"}
  /\ shmBy \subseteq 1 .. inst
  /\ total \in 0 .. MaxExec
  /\ cur \in Seq(Programs)
  /\ corpus \subseteq 1 .. total
  /\ DOMAIN crash = HangKinds
  /\ \A h \in HangKinds : \A i \in DOMAIN crash[h] : i \in Nat /\ crash[h][i] \in Artefacts
  /\ logged \in 0 .. total
  /\ given \in [Insts -> Seq(Programs)]

\* While an iteration runs, current_corpus is the whole history of the
\* instance: every program given to it since it was booted, in order, and none
\* of an instance before, however often a boot was tried again in between.
InIteration == {"exec", "interest", "timeout", "save"}
                 \cup Checks \cup {Waitpid(label) : label \in Checks}

HistorySinceBoot == pc \in InIteration => cur = given[inst]

\* A saved crash can be reproduced from what is saved: the programs are all
\* those the instance whose logs lie beside them was ever given, so that the
\* instance was not used again after the crash.
SavedReproducible ==
  \A h \in HangKinds : \A i \in DOMAIN crash[h] :
    crash[h][i].log # 0 => crash[h][i].progs = given[crash[h][i].log]

\* No launch process of an earlier instance goes on unless it has been sent
\* SIGTERM: kill_ros_app has dealt with each before the next is spawned, also
\* where boots time out.
SupersededSignalled ==
  \A k \in Insts : k < inst /\ launch[k] = "up" => <<k, "launch">> \in term

\* prog.rs:251, "check system condition before execution": once a signal has
\* ended the launch process, no program is run any more against its instance,
\* wherever between status, waitpid and boot the signal came. (An exit that
\* falls between status and waitpid is reaped and forgotten.)
CrashNotPassedOver ==
  \A k \in Insts :
    [](launch[k] = "signaled" /\ pid = k /\ pc # "exec" => [](pc = "exec" => pid # k))

\* target.rs:771, "kill zombie process on site": the signal is for the zombie,
\* so check_crash never ends the fuzzer itself.
NeverKillsItself == fate # "killed"

\* lib.rs:99, "compare with crash_idx": the index of a crash is found by
\* comparing with those that are there, so that no saved crash is overwritten.
CrashesKept ==
  [][\A h \in HangKinds : \A i \in DOMAIN crash[h] :
       crash[h][i].log # 0 => crash'[h][i] = crash[h][i]]_vars

\* lib.rs:344-345, "check boot", "waiting ros app to boot: <pid>": a boot that
\* ends well means that the application just spawned has come up, and that the
\* files in the shm directory are its own.
BootMeansUp == [][pc = "wait" /\ pc' = "loop" => inst \in shmBy]_vars
=============================================================================
