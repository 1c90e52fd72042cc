------------------------- MODULE FuzzCampaign_proofs -------------------------
(***************************************************************************)
(* Theorems about FuzzCampaign, for every number of instances, programs    *)
(* and kinds of hang, and whichever processes may end.                     *)
(***************************************************************************)
EXTENDS FuzzCampaign, TLAPS

\* Between two boots the main thread is here; it then has no instance to use.
Between == {"kill", "clean", "boot"}
Waits == {"waitpid_before", "waitpid_after", "waitpid_timeout"}

\* Where the main thread is determines which instance it has.
Place ==
  /\ IF pc = "gen_boot" THEN inst = 0 ELSE inst \in Insts
  /\ pc \in InIteration => pid = inst /\ total \in Programs
  /\ pc \in {"save", "save_copies"} => hang \in HangKinds
  /\ \A k \in Insts : launch[k] # "none" => k <= inst

TypeInv == TypeOK /\ Place

\* An instance that is not used yet was given no program.
HistoryInv ==
  /\ pc \in InIteration \cup {"loop"} => cur = given[inst]
  /\ pc = "wait" => given[inst] = << >>
  /\ \A k \in Insts : k > inst => given[k] = << >>

\* What is saved belongs to an instance that is not used any more, except
\* for the crash whose copies are being made.
SavedInv ==
  \A h \in HangKinds : \A i \in DOMAIN crash[h] :
    /\ crash[h][i].log = 0 =>
         pc = "save_copies" /\ h = hang /\ crash[h][i].progs = given[inst]
    /\ crash[h][i].log # 0 =>
         /\ crash[h][i].log \in 1 .. inst
         /\ crash[h][i].progs = given[crash[h][i].log]
         /\ pc \notin Between => crash[h][i].log < inst

\* Once the signals are sent, that goes for the newest instance as well.
SupersededInv ==
  \A k \in Insts :
    launch[k] = "up" /\ (k < inst \/ pc \in {"clean", "boot"}) => <<k, "launch">> \in term

-----------------------------------------------------------------------------
(* The labels.                                                              *)

LEMMA WaitLabels == {Waitpid(label) : label \in Checks} = Waits
BY DEF Waitpid, Checks, Waits

LEMMA IterationLabels ==
  InIteration = {"exec", "interest", "timeout", "save"} \cup Checks \cup Waits
BY WaitLabels DEF InIteration

LEMMA AllLabels ==
  Labels = {"gen_boot", "gen_wait", "first_reboot", "kill", "clean", "boot", "wait",
            "loop", "exec", "interest", "timeout", "save", "save_copies"} \cup Checks \cup Waits
BY WaitLabels DEF Labels

\* Where a check goes on: to its second half, or to what follows it.
LEMMA CheckLabels ==
  /\ \A label \in Checks : Waitpid(label) \in Waits
  /\ \A label \in Checks \cup Waits : AfterCheck(label) \in {"exec", "interest", "timeout"}
BY DEF Waitpid, AfterCheck, Checks, Waits

\* Both halves of a check leave the main thread in its iteration, and no launch
\* process gets up.
LEMMA CheckEffect ==
  ASSUME TypeOK, CheckStatus \/ CheckWaitpid
  PROVE  /\ pc \in Checks \cup Waits
         /\ pc' \in Checks \cup Waits \cup {"exec", "interest", "timeout"}
         /\ fate' \in {"up", "killed", "panicked"}
         /\ launch' \in [Insts -> {"none", "up", "reaped"} \cup Dead]
         /\ \A k \in Insts : launch'[k] = "up" => launch[k] = "up"
         /\ \A k \in Insts : launch'[k] # "none" => launch[k] # "none"
         /\ UNCHANGED <<running, hang, inst, pid, node, term, shmBy, progVars, crash, logged>>
<1>1. CASE CheckStatus
  <2>1. /\ fate = "up" /\ pc \in Checks
        /\ UNCHANGED <<running, hang, inst, pid, launch, node, term, shmBy, progVars, crash, logged>>
    BY <1>1 DEF CheckStatus, procVars
  <2>2. CASE launch[pid] = "up"
    <3>1. pc' = Waitpid(pc) /\ fate' = fate
      BY <1>1, <2>2 DEF CheckStatus, Goto, Dead
    <3> QED
      BY <2>1, <3>1, CheckLabels DEF TypeOK
  <2>3. CASE launch[pid] \in Dead
    <3>1. pc' = pc /\ fate' = "killed"
      BY <1>1, <2>3 DEF CheckStatus, Die, Dead
    <3> QED
      BY <2>1, <3>1 DEF TypeOK
  <2>4. CASE launch[pid] # "up" /\ launch[pid] \notin Dead
    <3>1. pc' = AfterCheck(pc) /\ fate' = fate
      BY <1>1, <2>4 DEF CheckStatus, Goto
    <3> QED
      BY <2>1, <3>1, CheckLabels DEF TypeOK
  <2> QED
    BY <2>2, <2>3, <2>4
<1>2. CASE CheckWaitpid
  <2>1. /\ fate = "up" /\ pc \in Waits
        /\ launch' = [launch EXCEPT ![pid] = IF @ \in Dead THEN "reaped" ELSE @]
        /\ UNCHANGED <<running, hang, inst, pid, node, term, shmBy, progVars, crash, logged>>
    BY <1>2, WaitLabels DEF CheckWaitpid
  <2>2. /\ launch' \in [Insts -> {"none", "up", "reaped"} \cup Dead]
        /\ \A k \in Insts : launch'[k] = "up" => launch[k] = "up"
        /\ \A k \in Insts : launch'[k] # "none" => launch[k] # "none"
    BY <2>1 DEF TypeOK, Dead
  <2>3. (pc' = pc /\ fate' = "panicked") \/ (pc' = AfterCheck(pc) /\ fate' = fate)
    BY <1>2 DEF CheckWaitpid, Die, Goto
  <2> QED
    BY <2>1, <2>2, <2>3, CheckLabels
<1> QED
  BY <1>1, <1>2

-----------------------------------------------------------------------------
(* Types.                                                                   *)

LEMMA InitType == Init => TypeInv
<1> SUFFICES ASSUME Init PROVE TypeInv
  OBVIOUS
<1>1. TypeOK
  BY CampaignAssumption, AllLabels DEF Init, TypeOK, Insts, Programs, Dead
<1>2. Place
  BY IterationLabels DEF Init, Place, Checks, Waits
<1> QED
  BY <1>1, <1>2 DEF TypeInv

\* The saved crashes keep their type when one is added, and when one is completed.
LEMMA SaveInputType ==
  ASSUME TypeInv, SaveInput
  PROVE  TypeInv'
<1>1. /\ pc = "save" /\ hang \in HangKinds /\ inst \in Insts
      /\ UNCHANGED <<running, hang, inst, pid, launch, node, term, shmBy, total, corpus, given, logged>>
  BY IterationLabels DEF TypeInv, Place, SaveInput, Main, procVars
<1>2. Artefact \in Artefacts
  BY CampaignAssumption DEF TypeInv, TypeOK, Artefact, Artefacts
<1>3. FreshIndex(hang) \subseteq Nat
  <2>1. \A i \in DOMAIN crash[hang] : i \in Nat
    BY <1>1 DEF TypeInv, TypeOK
  <2> QED
    BY <2>1 DEF FreshIndex
<1>4. CASE fate' = "up"
  <2>1. PICK i \in FreshIndex(hang) :
          crash' = [crash EXCEPT ![hang] =
            [j \in DOMAIN crash[hang] \cup {i} |-> IF j = i THEN Artefact ELSE crash[hang][j]]]
    BY <1>4 DEF SaveInput, Die
  <2>2. cur' = << >> /\ pc' = "save_copies"
    BY <1>4 DEF SaveInput, Die, Goto
  <2>3. /\ DOMAIN crash' = HangKinds
        /\ \A h \in HangKinds : \A j \in DOMAIN crash'[h] : j \in Nat /\ crash'[h][j] \in Artefacts
    BY <1>1, <1>2, <1>3, <2>1 DEF TypeInv, TypeOK
  <2>4. TypeOK'
    BY <1>1, <1>4, <2>2, <2>3, AllLabels DEF TypeInv, TypeOK
  <2>5. Place'
    BY <1>1, <2>2, IterationLabels DEF TypeInv, Place, Checks, Waits
  <2> QED
    BY <2>4, <2>5 DEF TypeInv
<1>5. CASE fate' # "up"
  <2>1. fate' = "panicked" /\ UNCHANGED <<crash, cur, pc>>
    BY <1>5 DEF SaveInput, Main, Die
  <2> QED
    BY <1>1, <2>1 DEF TypeInv, TypeOK, Place
<1> QED
  BY <1>4, <1>5

LEMMA SaveCopiesType ==
  ASSUME TypeInv, SaveCopies
  PROVE  TypeInv'
<1>1. /\ pc = "save_copies" /\ hang \in HangKinds /\ inst \in Insts
      /\ hang' = NoHang /\ pc' = "kill"
      /\ UNCHANGED <<fate, running, inst, pid, launch, node, term, shmBy, total, cur, corpus, given, logged>>
  BY DEF TypeInv, Place, SaveCopies, Main, Goto, AfterSave, procVars, progVars
<1>2. crash' = [crash EXCEPT ![hang] =
        [i \in DOMAIN crash[hang] |->
           IF crash[hang][i].log = 0 THEN [crash[hang][i] EXCEPT !.log = inst, !.shm = shmBy]
           ELSE crash[hang][i]]]
  BY DEF SaveCopies
<1>3. ASSUME NEW a \in Artefacts
      PROVE  [a EXCEPT !.log = inst, !.shm = shmBy] \in Artefacts
  <2>1. inst \in 0 .. MaxBoots /\ shmBy \in SUBSET Insts
    BY CampaignAssumption DEF TypeInv, TypeOK, Insts
  <2> QED
    BY <2>1 DEF Artefacts
<1>4. /\ DOMAIN crash' = HangKinds
      /\ \A h \in HangKinds : \A j \in DOMAIN crash'[h] : j \in Nat /\ crash'[h][j] \in Artefacts
  BY <1>1, <1>2, <1>3 DEF TypeInv, TypeOK
<1>5. TypeOK'
  BY <1>1, <1>4, AllLabels DEF TypeInv, TypeOK
<1>6. Place'
  BY <1>1, IterationLabels DEF TypeInv, Place, Checks, Waits
<1> QED
  BY <1>5, <1>6 DEF TypeInv

LEMMA IterateType ==
  ASSUME TypeInv, Iterate
  PROVE  TypeInv'
<1>1. /\ pc = "loop" /\ inst \in Insts /\ total < MaxExec
      /\ total' = total + 1 /\ cur' = Append(cur, total + 1)
      /\ given' = [given EXCEPT ![inst] = Append(@, total + 1)]
      /\ pid' = inst /\ pc' = "check_before"
      /\ UNCHANGED <<fate, running, hang, inst, launch, node, term, shmBy, corpus, crash, logged>>
  BY DEF TypeInv, Place, Iterate, Main, NextExec, Goto, procVars
<1>2. total + 1 \in Programs
  BY <1>1, CampaignAssumption DEF TypeInv, TypeOK, Programs
<1>3. cur' \in Seq(Programs) /\ given' \in [Insts -> Seq(Programs)]
  BY <1>1, <1>2 DEF TypeInv, TypeOK
<1>4. total' \in 0 .. MaxExec /\ corpus' \subseteq 1 .. total' /\ logged' \in 0 .. total' /\ pid' \in 0 .. inst'
  BY <1>1, CampaignAssumption DEF TypeInv, TypeOK, Insts
<1>5. pc' \in Labels
  BY <1>1, AllLabels DEF Checks
<1>6. TypeOK'
  BY <1>1, <1>3, <1>4, <1>5 DEF TypeInv, TypeOK
<1>7. Place'
  BY <1>1, <1>2, IterationLabels DEF TypeInv, Place, Checks, Waits
<1> QED
  BY <1>6, <1>7 DEF TypeInv

LEMMA SpawnType ==
  ASSUME TypeInv,
         Spawn("gen_boot", "gen_wait") \/ Spawn("boot", "wait")
  PROVE  TypeInv'
<1>1. /\ inst < MaxBoots /\ inst' = inst + 1
      /\ launch' = [launch EXCEPT ![inst + 1] = "up"]
      /\ pc' \in {"gen_wait", "wait"}
      /\ UNCHANGED <<fate, running, hang, pid, node, term, shmBy, total, cur, corpus, given, crash, logged>>
  BY DEF Spawn, Goto, progVars
<1>2. inst + 1 \in Insts
  BY <1>1, CampaignAssumption DEF TypeInv, TypeOK, Insts
<1>3. inst' \in 0 .. MaxBoots /\ pid' \in 0 .. inst' /\ shmBy' \subseteq 1 .. inst'
  BY <1>1, CampaignAssumption DEF TypeInv, TypeOK
<1>4. launch' \in [Insts -> {"none", "up", "reaped"} \cup Dead]
  BY <1>1, <1>2 DEF TypeInv, TypeOK
<1>5. TypeOK'
  BY <1>1, <1>3, <1>4, AllLabels DEF TypeInv, TypeOK
<1>6. ASSUME NEW k \in Insts, launch'[k] # "none"
      PROVE  k <= inst'
  <2>1. k = inst + 1 \/ launch[k] # "none"
    BY <1>1, <1>6 DEF TypeInv, TypeOK
  <2>2. k \in Nat /\ inst \in Nat
    BY CampaignAssumption DEF TypeInv, TypeOK, Insts
  <2> QED
    BY <1>1, <2>1, <2>2 DEF TypeInv, Place
<1>7. Place'
  BY <1>1, <1>2, <1>6, IterationLabels DEF Place, Checks, Waits
<1> QED
  BY <1>5, <1>7 DEF TypeInv

\* The application's processes: what starts, starts under a launch process.
LEMMA EnvironmentType ==
  ASSUME TypeInv, Environment
  PROVE  TypeInv'
<1>1. UNCHANGED <<fate, running, pc, hang, inst, pid, total, cur, corpus, given, crash, logged>>
  BY DEF Environment, progVars
<1>2. PICK k \in Insts : NodeStart(k) \/ NodeEnds(k) \/ LaunchEnds(k)
  BY DEF Environment
<1>3. CASE NodeStart(k)
  <2>1. /\ node' = [node EXCEPT ![k] = "up"] /\ shmBy' = shmBy \cup {k}
        /\ k <= inst /\ UNCHANGED <<launch, term>>
    BY <1>2, <1>3 DEF NodeStart, TypeInv, Place
  <2>2. k \in 1 .. inst
    BY <1>2, <2>1, CampaignAssumption DEF TypeInv, TypeOK, Insts
  <2> QED
    BY <1>1, <1>2, <2>1, <2>2 DEF TypeInv, TypeOK, Place
<1>4. CASE NodeEnds(k)
  <2>1. /\ node' = [node EXCEPT ![k] = "dead"] /\ term' \subseteq term
        /\ UNCHANGED <<launch, shmBy>>
    BY <1>4 DEF NodeEnds
  <2> QED
    BY <1>1, <1>2, <2>1 DEF TypeInv, TypeOK, Place
<1>5. CASE LaunchEnds(k)
  <2>1. PICK how \in Dead : launch' = [launch EXCEPT ![k] = how]
    BY <1>5 DEF LaunchEnds
  <2>2. launch[k] = "up" /\ term' \subseteq term /\ UNCHANGED <<node, shmBy>>
    BY <1>5 DEF LaunchEnds
  <2>3. launch' \in [Insts -> {"none", "up", "reaped"} \cup Dead]
    BY <1>2, <2>1 DEF TypeInv, TypeOK
  <2>4. \A j \in Insts : launch'[j] # "none" => launch[j] # "none"
    BY <1>2, <2>1, <2>2 DEF TypeInv, TypeOK
  <2> QED
    BY <1>1, <2>2, <2>3, <2>4 DEF TypeInv, TypeOK, Place
<1> QED
  BY <1>2, <1>3, <1>4, <1>5

LEMMA MainType ==
  ASSUME TypeInv, MainStep
  PROVE  TypeInv'
<1> USE DEF Main, Goto, Die, procVars, progVars
<1>1. CASE Spawn("gen_boot", "gen_wait") \/ Spawn("boot", "wait")
  BY <1>1, SpawnType
<1>2. CASE GenTargets
  BY <1>2, AllLabels, IterationLabels DEF GenTargets, TypeInv, TypeOK, Place, Checks, Waits
<1>3. CASE FirstReboot
  BY <1>3, AllLabels, IterationLabels DEF FirstReboot, TypeInv, TypeOK, Place, Checks, Waits
<1>4. CASE KillRosApp
  <2>1. inst \in Insts
    BY <1>4 DEF KillRosApp, TypeInv, Place
  <2>2. Pstree \subseteq Insts \X {"launch", "node"}
    BY <2>1 DEF Pstree, PstreeNodes
  <2> QED
    BY <1>4, <2>2, AllLabels, IterationLabels DEF KillRosApp, TypeInv, TypeOK, Place, Checks, Waits
<1>5. CASE CleanShmFile
  BY <1>5, AllLabels, IterationLabels DEF CleanShmFile, TypeInv, TypeOK, Place, Checks, Waits
<1>6. CASE BootOk
  <2>1. inst \in Insts /\ pc = "wait"
    BY <1>6 DEF BootOk, TypeInv, Place
  <2>2. inst \in 0 .. inst
    BY <2>1, CampaignAssumption DEF Insts
  <2> QED
    BY <1>6, <2>1, <2>2, AllLabels, IterationLabels
    DEF BootOk, CleanProg, TypeInv, TypeOK, Place, Checks, Waits
<1>7. CASE BootTimeout
  BY <1>7, AllLabels, IterationLabels DEF BootTimeout, TypeInv, TypeOK, Place, Checks, Waits
<1>8. CASE Iterate
  BY <1>8, IterateType
<1>9. CASE LoopEnd
  BY <1>9 DEF LoopEnd, TypeInv, TypeOK, Place
<1>10. CASE CheckStatus \/ CheckWaitpid
  <2>1. TypeOK'
    BY <1>10, CheckEffect, AllLabels DEF TypeInv, TypeOK
  <2>2. Place'
    BY <1>10, CheckEffect, IterationLabels DEF TypeInv, Place, Checks, Waits
  <2> QED
    BY <2>1, <2>2 DEF TypeInv
<1>11. CASE Exec
  BY <1>11, AllLabels, IterationLabels DEF Exec, TypeInv, TypeOK, Place, Checks, Waits
<1>12. CASE CheckInterest
  <2>1. total \in 1 .. total
    BY <1>12, CampaignAssumption, IterationLabels DEF CheckInterest, TypeInv, Place, Programs
  <2>2. corpus' \subseteq corpus \cup {total}
    BY <1>12 DEF CheckInterest
  <2>3. corpus' \subseteq 1 .. total
    BY <2>1, <2>2 DEF TypeInv, TypeOK
  <2>4. fate' \in {"up", "panicked"} /\ pc' \in {"interest", "loop"}
    BY <1>12 DEF CheckInterest
  <2> QED
    BY <1>12, <2>3, <2>4, AllLabels, IterationLabels
    DEF CheckInterest, TypeInv, TypeOK, Place, Checks, Waits
<1>13. CASE Timeout
  BY <1>13, AllLabels, IterationLabels DEF Timeout, TypeInv, TypeOK, Place, Checks, Waits
<1>14. CASE SaveInput
  BY <1>14, SaveInputType
<1>15. CASE SaveCopies
  BY <1>15, SaveCopiesType
<1> QED
  BY <1>1, <1>2, <1>3, <1>4, <1>5, <1>6, <1>7, <1>8, <1>9, <1>10, <1>11, <1>12, <1>13, <1>14, <1>15
  DEF MainStep

LEMMA NextType ==
  ASSUME TypeInv, [Next]_vars
  PROVE  TypeInv'
<1>1. CASE MainStep
  BY <1>1, MainType
<1>2. CASE OutputLog
  <2>1. total \in 0 .. total
    BY CampaignAssumption DEF TypeInv, TypeOK
  <2> QED
    BY <1>2, <2>1 DEF OutputLog, procVars, progVars, TypeInv, TypeOK, Place
<1>3. CASE CtrlC \/ Quit
  BY <1>3 DEF CtrlC, Quit, Die, procVars, progVars, TypeInv, TypeOK, Place
<1>4. CASE Environment
  BY <1>4, EnvironmentType
<1>5. CASE UNCHANGED vars
  BY <1>5 DEF vars, TypeInv, TypeOK, Place
<1> QED
  BY <1>1, <1>2, <1>3, <1>4, <1>5 DEF Next

\* The variables of the campaign keep their types: in particular, the process
\* that is checked belongs to an instance that was spawned, the tracer's files
\* are of such instances, and programs are numbered as they were counted.
THEOREM TypeCorrect == Spec => []TypeOK
<1>1. Init => TypeInv
  BY InitType
<1>2. TypeInv /\ [Next]_vars => TypeInv'
  BY NextType
<1>3. TypeInv => TypeOK
  BY DEF TypeInv
<1> QED
  BY <1>1, <1>2, <1>3, PTL DEF Spec

-----------------------------------------------------------------------------
(* The programs since the boot.                                             *)

LEMMA HistoryNext ==
  ASSUME TypeInv, HistoryInv, [Next]_vars
  PROVE  HistoryInv'
<1> USE DEF Main, Goto, Die, procVars, progVars
<1>1. CASE Spawn("gen_boot", "gen_wait") \/ Spawn("boot", "wait")
  <2>1. /\ inst < MaxBoots /\ inst' = inst + 1 /\ pc' \in {"gen_wait", "wait"}
        /\ UNCHANGED <<cur, given>>
    BY <1>1 DEF Spawn
  <2>2. inst + 1 \in Insts /\ inst \in Nat
    BY <2>1, CampaignAssumption DEF TypeInv, TypeOK, Insts
  <2>3. given[inst + 1] = << >>
    BY <2>2 DEF HistoryInv
  <2>4. \A k \in Insts : k > inst' => given[k] = << >>
    BY <2>1, <2>2, CampaignAssumption DEF HistoryInv, Insts
  <2> QED
    BY <2>1, <2>3, <2>4, IterationLabels DEF HistoryInv, Checks, Waits
<1>2. CASE Iterate
  <2>1. /\ pc = "loop" /\ inst' = inst /\ inst \in Insts /\ pc' = "check_before"
        /\ cur' = Append(cur, NextExec) /\ given' = [given EXCEPT ![inst] = Append(@, NextExec)]
    BY <1>2 DEF Iterate, TypeInv, Place
  <2>2. cur' = given'[inst']
    BY <2>1 DEF HistoryInv, TypeInv, TypeOK
  <2>3. ASSUME NEW k \in Insts, k > inst' PROVE given'[k] = << >>
    <3>1. k # inst
      BY <2>1, <2>3, CampaignAssumption DEF Insts
    <3> QED
      BY <2>1, <2>3, <3>1 DEF HistoryInv, TypeInv, TypeOK
  <2> QED
    BY <2>1, <2>2, <2>3 DEF HistoryInv
<1>3. CASE BootOk
  BY <1>3 DEF BootOk, CleanProg, HistoryInv
<1>4. CASE CheckStatus \/ CheckWaitpid
  BY <1>4, CheckEffect, IterationLabels DEF TypeInv, HistoryInv, Checks, Waits
<1>5. CASE SaveInput
  <2>1. pc = "save" /\ pc' \in {"save", "save_copies"} /\ UNCHANGED <<inst, given>>
    BY <1>5 DEF SaveInput
  <2>2. pc' = "save" => cur' = cur
    BY <1>5, <2>1 DEF SaveInput
  <2> QED
    BY <2>1, <2>2, IterationLabels DEF HistoryInv, Checks, Waits
<1>6. CASE GenTargets \/ FirstReboot \/ KillRosApp \/ CleanShmFile \/ BootTimeout \/ SaveCopies
  <2>1. /\ pc' \in {"gen_wait", "first_reboot", "kill", "clean", "boot"}
        /\ UNCHANGED <<inst, cur, given>>
    BY <1>6 DEF GenTargets, FirstReboot, KillRosApp, CleanShmFile, BootTimeout, SaveCopies, AfterSave
  <2> QED
    BY <2>1, IterationLabels DEF HistoryInv, Checks, Waits
<1>7. CASE LoopEnd \/ Exec \/ CheckInterest \/ Timeout
  <2>1. pc \in InIteration \cup {"loop"} /\ pc' # "wait" /\ UNCHANGED <<inst, cur, given>>
    BY <1>7, IterationLabels DEF LoopEnd, Exec, CheckInterest, Timeout, Checks
  <2> QED
    BY <2>1 DEF HistoryInv
<1>8. CASE OutputLog \/ CtrlC \/ Quit \/ Environment \/ UNCHANGED vars
  BY <1>8 DEF OutputLog, CtrlC, Quit, Environment, vars, HistoryInv
<1> QED
  BY <1>1, <1>2, <1>3, <1>4, <1>5, <1>6, <1>7, <1>8 DEF Next, MainStep

\* While an iteration runs, the programs that would be saved with a crash are
\* all that the running instance was given since it was booted, in order,
\* whatever boots timed out and were tried again (fuzzer.rs:162, prog.rs:163).
THEOREM HistoryCorrect == Spec => []HistorySinceBoot
<1>1. Init => TypeInv /\ HistoryInv
  BY InitType, IterationLabels DEF Init, HistoryInv, Checks, Waits
<1>2. TypeInv /\ HistoryInv /\ [Next]_vars => (TypeInv /\ HistoryInv)'
  BY NextType, HistoryNext
<1>3. HistoryInv => HistorySinceBoot
  BY DEF HistoryInv, HistorySinceBoot
<1> QED
  BY <1>1, <1>2, <1>3, PTL DEF Spec

-----------------------------------------------------------------------------
(* The signals to earlier instances.                                        *)

LEMMA SupersededNext ==
  ASSUME TypeInv, SupersededInv, [Next]_vars
  PROVE  SupersededInv'
<1> USE DEF Main, Goto, Die, procVars, progVars
<1>1. CASE Spawn("gen_boot", "gen_wait") \/ Spawn("boot", "wait")
  <2>1. /\ inst' = inst + 1 /\ launch' = [launch EXCEPT ![inst + 1] = "up"]
        /\ term' = term /\ pc' \in {"gen_wait", "wait"}
        /\ pc = "boot" \/ inst = 0
    <3>1. pc = "gen_boot" => inst = 0
      BY DEF TypeInv, Place
    <3> QED
      BY <1>1, <3>1 DEF Spawn
  <2>2. ASSUME NEW k \in Insts, launch'[k] = "up", k < inst'
        PROVE  <<k, "launch">> \in term'
    <3>1. inst \in Nat /\ k \in Nat /\ k > 0
      BY CampaignAssumption DEF TypeInv, TypeOK, Insts
    <3>2. pc = "boot" /\ launch[k] = "up"
      BY <2>1, <2>2, <3>1 DEF TypeInv, TypeOK
    <3> QED
      BY <2>1, <3>2 DEF SupersededInv
  <2> QED
    BY <2>1, <2>2 DEF SupersededInv
<1>2. CASE KillRosApp
  <2>1. /\ term' = term \cup Pstree /\ pc' = "clean"
        /\ UNCHANGED <<launch, inst>>
    BY <1>2 DEF KillRosApp
  <2>2. ASSUME NEW k \in Insts, launch[k] = "up"
        PROVE  <<k, "launch">> \in term \cup Pstree
    <3>1. k <= inst /\ inst \in Nat /\ k \in Nat
      BY <2>2, CampaignAssumption DEF TypeInv, TypeOK, Place, Insts
    <3>2. CASE k = inst
      BY <2>2, <3>2 DEF Pstree
    <3>3. CASE k < inst
      BY <2>2, <3>3 DEF SupersededInv
    <3> QED
      BY <3>1, <3>2, <3>3
  <2> QED
    BY <2>1, <2>2 DEF SupersededInv
<1>3. CASE CleanShmFile
  BY <1>3 DEF CleanShmFile, SupersededInv
<1>4. CASE CheckStatus \/ CheckWaitpid
  BY <1>4, CheckEffect DEF TypeInv, SupersededInv, Checks, Waits
<1>5. CASE GenTargets \/ FirstReboot \/ BootOk \/ BootTimeout \/ Iterate \/ LoopEnd
             \/ Exec \/ CheckInterest \/ Timeout \/ SaveInput \/ SaveCopies
  <2>1. /\ UNCHANGED <<launch, inst, term>>
        /\ pc' \in {"clean", "boot"} => pc' = pc
    BY <1>5 DEF GenTargets, FirstReboot, BootOk, BootTimeout, Iterate, LoopEnd,
                Exec, CheckInterest, Timeout, SaveInput, SaveCopies, AfterSave
  <2> QED
    BY <2>1 DEF SupersededInv
<1>6. CASE Environment
  <2>1. UNCHANGED <<inst, pc>>
    BY <1>6 DEF Environment
  <2>2. PICK k \in Insts : NodeStart(k) \/ NodeEnds(k) \/ LaunchEnds(k)
    BY <1>6 DEF Environment
  <2>3. ASSUME NEW j \in Insts
        PROVE  /\ launch'[j] = "up" => launch[j] = "up"
               /\ launch'[j] = "up" /\ <<j, "launch">> \in term => <<j, "launch">> \in term'
    <3>1. CASE NodeStart(k)
      BY <3>1 DEF NodeStart
    <3>2. CASE NodeEnds(k)
      BY <3>2 DEF NodeEnds
    <3>3. CASE LaunchEnds(k)
      <4>1. PICK how \in Dead : launch' = [launch EXCEPT ![k] = how]
        BY <3>3 DEF LaunchEnds
      <4>2. launch'[k] # "up" /\ (j # k => launch'[j] = launch[j])
        BY <2>2, <4>1 DEF TypeInv, TypeOK, Dead
      <4> QED
        BY <3>3, <4>2 DEF LaunchEnds
    <3> QED
      BY <2>2, <3>1, <3>2, <3>3
  <2> QED
    BY <2>1, <2>3 DEF SupersededInv
<1>7. CASE OutputLog \/ CtrlC \/ Quit \/ UNCHANGED vars
  BY <1>7 DEF OutputLog, CtrlC, Quit, vars, SupersededInv
<1> QED
  BY <1>1, <1>2, <1>3, <1>4, <1>5, <1>6, <1>7 DEF Next, MainStep

\* A launch process of an earlier instance that still runs has been sent
\* SIGTERM, however often boots time out and whatever else ends meanwhile:
\* kill_ros_app (lib.rs:421) has seen it before the next one is spawned.
THEOREM SupersededCorrect == Spec => []SupersededSignalled
<1>1. Init => TypeInv /\ SupersededInv
  BY InitType DEF Init, SupersededInv
<1>2. TypeInv /\ SupersededInv /\ [Next]_vars => (TypeInv /\ SupersededInv)'
  BY NextType, SupersededNext
<1>3. SupersededInv => SupersededSignalled
  BY DEF SupersededInv, SupersededSignalled
<1> QED
  BY <1>1, <1>2, <1>3, PTL DEF Spec

-----------------------------------------------------------------------------
(* What is saved.                                                           *)

\* A step that leaves what is saved and the programs alone, and does not take
\* an instance into use again whose crash was saved.
LEMMA SavedKept ==
  ASSUME TypeInv, SavedInv,
         UNCHANGED <<crash, given, inst>>, pc # "save_copies",
         pc' \notin Between => pc \notin Between
  PROVE  SavedInv'
BY DEF SavedInv

LEMMA SavedNext ==
  ASSUME TypeInv, SavedInv, HistoryInv, [Next]_vars
  PROVE  SavedInv'
<1> USE DEF Main, Goto, Die, procVars, progVars
<1>1. CASE Spawn("gen_boot", "gen_wait") \/ Spawn("boot", "wait")
  <2>1. /\ pc # "save_copies" /\ inst' = inst + 1
        /\ UNCHANGED <<crash, given>>
    BY <1>1 DEF Spawn
  <2>2. inst \in Nat
    BY CampaignAssumption DEF TypeInv, TypeOK
  <2>3. ASSUME NEW l \in 1 .. inst PROVE l \in 1 .. inst' /\ l < inst'
    BY <2>1, <2>2, <2>3
  <2> QED
    BY <2>1, <2>3 DEF SavedInv
<1>2. CASE BootOk \/ BootTimeout
  <2>1. pc = "wait" /\ UNCHANGED <<crash, given, inst>>
    BY <1>2 DEF BootOk, BootTimeout
  <2> QED
    BY <2>1, SavedKept DEF Between
<1>3. CASE Iterate
  <2>1. /\ pc = "loop" /\ pc' = "check_before" /\ UNCHANGED <<crash, inst>>
        /\ given' = [given EXCEPT ![inst] = Append(@, NextExec)] /\ inst \in Insts
    BY <1>3 DEF Iterate, TypeInv, Place
  <2>2. ASSUME NEW h \in HangKinds, NEW i \in DOMAIN crash[h]
        PROVE  /\ crash[h][i].log # 0 /\ crash[h][i].log \in 1 .. inst /\ crash[h][i].log < inst
               /\ crash[h][i].progs = given[crash[h][i].log]
    BY <2>1 DEF SavedInv, Between
  <2>3. ASSUME NEW h \in HangKinds, NEW i \in DOMAIN crash[h]
        PROVE  given'[crash[h][i].log] = given[crash[h][i].log]
    <3>1. crash[h][i].log \in Insts /\ crash[h][i].log # inst
      BY <2>1, <2>2, CampaignAssumption DEF Insts
    <3> QED
      BY <2>1, <3>1 DEF TypeInv, TypeOK
  <2> QED
    BY <2>1, <2>2, <2>3 DEF SavedInv
<1>4. CASE CheckStatus \/ CheckWaitpid
  <2>1. pc \in Checks \cup Waits /\ UNCHANGED <<crash, given, inst>>
    BY <1>4, CheckEffect DEF TypeInv
  <2> QED
    BY <2>1, SavedKept DEF Between, Checks, Waits
<1>5. CASE SaveInput
  <2>1. pc = "save" /\ hang \in HangKinds /\ UNCHANGED <<inst, given, hang>>
    BY <1>5 DEF SaveInput, TypeInv, Place
  <2>2. CASE fate' = "up"
    <3>1. PICK i \in FreshIndex(hang) :
            crash' = [crash EXCEPT ![hang] =
              [j \in DOMAIN crash[hang] \cup {i} |-> IF j = i THEN Artefact ELSE crash[hang][j]]]
      BY <1>5, <2>2 DEF SaveInput
    <3>2. pc' = "save_copies"
      BY <1>5, <2>2 DEF SaveInput
    <3>3. Artefact.log = 0 /\ Artefact.progs = given[inst]
      BY <2>1, IterationLabels DEF Artefact, HistoryInv
    <3>4. ASSUME NEW h \in HangKinds, NEW j \in DOMAIN crash'[h]
          PROVE  \/ h = hang /\ crash'[h][j] = Artefact
                 \/ j \in DOMAIN crash[h] /\ crash'[h][j] = crash[h][j]
      BY <2>1, <3>1 DEF TypeInv, TypeOK
    <3>5. ASSUME NEW h \in HangKinds, NEW j \in DOMAIN crash[h]
          PROVE  /\ crash[h][j].log # 0 /\ crash[h][j].log \in 1 .. inst
                 /\ crash[h][j].progs = given[crash[h][j].log] /\ crash[h][j].log < inst
      BY <2>1 DEF SavedInv, Between
    <3> QED
      BY <2>1, <3>2, <3>3, <3>4, <3>5 DEF SavedInv
  <2>3. CASE fate' # "up"
    <3>1. UNCHANGED <<crash, pc>>
      BY <1>5, <2>3 DEF SaveInput
    <3> QED
      BY <2>1, <3>1, SavedKept DEF Between
  <2> QED
    BY <2>2, <2>3
<1>6. CASE SaveCopies
  <2>1. /\ pc = "save_copies" /\ pc' = "kill" /\ hang \in HangKinds
        /\ inst \in 1 .. inst /\ inst # 0
        /\ UNCHANGED <<inst, given>>
    <3>1. pc = "save_copies" /\ inst \in Insts /\ pc' = "kill" /\ hang \in HangKinds /\ UNCHANGED <<inst, given>>
      BY <1>6 DEF SaveCopies, AfterSave, TypeInv, Place
    <3> QED
      BY <3>1, CampaignAssumption DEF Insts
  <2>2. crash' = [crash EXCEPT ![hang] =
          [i \in DOMAIN crash[hang] |->
             IF crash[hang][i].log = 0 THEN [crash[hang][i] EXCEPT !.log = inst, !.shm = shmBy]
             ELSE crash[hang][i]]]
    BY <1>6 DEF SaveCopies
  <2>3. ASSUME NEW a \in Artefacts, NEW b, b = [a EXCEPT !.log = inst, !.shm = shmBy]
        PROVE  b.log = inst /\ b.progs = a.progs
    BY <2>3 DEF Artefacts
  <2>4. ASSUME NEW h \in HangKinds, NEW j \in DOMAIN crash'[h]
        PROVE  /\ crash'[h][j].log # 0 /\ crash'[h][j].log \in 1 .. inst
               /\ crash'[h][j].progs = given[crash'[h][j].log]
    <3>1. /\ j \in DOMAIN crash[h] /\ crash[h][j] \in Artefacts
          /\ \/ crash'[h][j] = crash[h][j] /\ (h # hang \/ crash[h][j].log # 0)
             \/ h = hang /\ crash[h][j].log = 0
                  /\ crash'[h][j] = [crash[h][j] EXCEPT !.log = inst, !.shm = shmBy]
      BY <2>1, <2>2, <2>4 DEF TypeInv, TypeOK
    <3>2. CASE crash'[h][j] = crash[h][j] /\ (h # hang \/ crash[h][j].log # 0)
      BY <3>1, <3>2 DEF SavedInv
    <3>3. CASE h = hang /\ crash[h][j].log = 0
                 /\ crash'[h][j] = [crash[h][j] EXCEPT !.log = inst, !.shm = shmBy]
      <4>1. crash'[h][j].log = inst /\ crash'[h][j].progs = crash[h][j].progs
        BY <2>3, <3>1, <3>3
      <4>2. crash[h][j].progs = given[inst]
        BY <3>1, <3>3 DEF SavedInv
      <4> QED
        BY <2>1, <4>1, <4>2
    <3> QED
      BY <3>1, <3>2, <3>3
  <2> QED
    BY <2>1, <2>4 DEF SavedInv, Between
<1>7. CASE GenTargets \/ FirstReboot \/ KillRosApp \/ CleanShmFile \/ LoopEnd
             \/ Exec \/ CheckInterest \/ Timeout
  <2>1. /\ pc # "save_copies" /\ UNCHANGED <<crash, given, inst>>
        /\ pc' \notin Between => pc \notin Between
    BY <1>7 DEF GenTargets, FirstReboot, KillRosApp, CleanShmFile, LoopEnd, Exec, CheckInterest,
                Timeout, Between
  <2> QED
    BY <2>1, SavedKept
<1>8. CASE OutputLog \/ CtrlC \/ Quit \/ Environment \/ UNCHANGED vars
  <2>1. UNCHANGED <<crash, given, inst, pc, hang>>
    BY <1>8 DEF OutputLog, CtrlC, Quit, Environment, vars
  <2> QED
    BY <2>1 DEF SavedInv
<1> QED
  BY <1>1, <1>2, <1>3, <1>4, <1>5, <1>6, <1>7, <1>8 DEF Next, MainStep

\* The programs saved with a crash are all those that the instance whose logs
\* lie beside them was ever given: an instance is not used again once its crash
\* is saved (fuzzer.rs:162), and no other shares its programs.
THEOREM SavedCorrect == Spec => []SavedReproducible
<1>1. Init => TypeInv /\ HistoryInv /\ SavedInv
  BY InitType, IterationLabels DEF Init, HistoryInv, SavedInv, Checks, Waits
<1>2. TypeInv /\ HistoryInv /\ SavedInv /\ [Next]_vars => (TypeInv /\ HistoryInv /\ SavedInv)'
  BY NextType, HistoryNext, SavedNext
<1>3. SavedInv => SavedReproducible
  BY DEF SavedInv, SavedReproducible
<1> QED
  BY <1>1, <1>2, <1>3, PTL DEF Spec
=============================================================================
