----------------------- MODULE UpgradeDiagnoseProofs -----------------------
(***************************************************************************)
(* Theorems about UpgradeDiagnose for every table of containers, programs  *)
(* and images and every budget: what a passed check means, what a rollback *)
(* rests on, and that a watch implements UpgradeWatch.                     *)
(***************************************************************************)
EXTENDS UpgradeDiagnose, WellFoundedInduction, TLAPS

-----------------------------------------------------------------------------
(* The inductive invariant, in three parts.                                 *)

(* Where _run stands with its budget.                                       *)
BudgetInv ==
    /\ pc \in {"loop", "inspect", "exec", "rollback", "tick", "sread", "raised"}
    /\ orders \in Orders
    /\ forced \in BOOLEAN
    /\ timeCnt \in 0..TimeCnt
    /\ minutes = TimeCnt - timeCnt
    /\ orders.type = "none" => pc \in {"loop", "sread"} /\ timeCnt = TimeCnt
    /\ forced => pc \in {"rollback", "sread", "raised"} /\ timeCnt = 0
    /\ pc \in {"inspect", "exec", "tick"} => timeCnt > 0
    /\ pc = "rollback" /\ ~ forced => timeCnt > 0

(* A minute passes only after a check that found a container in ill health. *)
CauseInv ==
    /\ pc \in {"rollback", "tick"} => culprit
    /\ pc = "loop" /\ timeCnt < TimeCnt => culprit

(* The targets of a check are divided between those that were listed, with  *)
(* nothing amiss in the listing, and todo.                                  *)
Handled(c) ==
    \E l \in listings :
        /\ l[1] = c
        /\ l[1] \in Listed => \A p \in Required[l[1]] : ShownOrMistaken(p, l[2])

TargetInv ==
    /\ pc \in {"inspect", "exec"} =>
          /\ todo \in Seq(Containers \cup Packages) /\ todo # <<>>
          /\ \A i \in 1..Len(Targets) :
                Handled(Targets[i]) \/ \E j \in 1..Len(todo) : todo[j] = Targets[i]
    /\ Passed => \A i \in 1..Len(Targets) : Handled(Targets[i])

DInv == BudgetInv /\ CauseInv /\ TargetInv

-----------------------------------------------------------------------------
(* The names of procs_table's programs: whoever is not found in the listing *)
(* of check_processes_status does not run.                                  *)
LEMMA UnmatchedIsMissing ==
    ASSUME NEW c PROVE Unmatched(c) \subseteq Missing(c)
BY TableAssumption DEF Unmatched, Missing, Programs

(* And when all are found, each is shown or mistaken for another line.      *)
LEMMA FoundIsShown ==
    ASSUME NEW c, Unmatched(c) = {}
    PROVE  c \in Listed => \A p \in Required[c] : ShownOrMistaken(p, Shown(c))
BY DEF Unmatched, Shown, ShownOrMistaken

(* system_diagnose, container_diagnose and deb_diagnose have something to   *)
(* check.                                                                   *)
LEMMA TargetsType ==
    ASSUME orders \in Orders, orders.type # "none"
    PROVE  Targets \in Seq(Containers \cup Packages) /\ Targets # <<>>
<1>1. CASE orders.type = "system"
  BY <1>1, TableAssumption DEF Targets, Containers
<1>2. CASE orders.type = "container"
  BY <1>2 DEF Targets, Orders
<1>3. CASE orders.type = "deb"
  BY <1>3 DEF Targets, Orders
<1>4. QED
  BY <1>1, <1>2, <1>3 DEF Orders

(* No step of _run or of the world around it breaks DInv.                   *)
LEMMA BudgetStep == ASSUME DInv, [Next]_vars PROVE BudgetInv'
<1> USE TimeAssumption DEF DInv, BudgetInv, world, boot, history
<1>1. CASE BeginCheck
  BY <1>1 DEF BeginCheck
<1>2. CASE Inspect
  BY <1>2 DEF Inspect
<1>3. CASE ExecFails
  BY <1>3 DEF ExecFails
<1>4. CASE ExecAnswers
  BY <1>4 DEF ExecAnswers
<1>5. CASE Wait
  BY <1>5 DEF Wait
<1>6. CASE GiveUp
  BY <1>6 DEF GiveUp
<1>7. CASE RollbackSkipped
  BY <1>7 DEF RollbackSkipped
<1>8. CASE Rollback
  BY <1>8 DEF Rollback
<1>9. CASE ContainerChanges
  BY <1>9 DEF ContainerChanges
<1>10. CASE ProgramChanges
  BY <1>10 DEF ProgramChanges
<1>11. CASE UNCHANGED vars
  BY <1>11 DEF vars
<1>12. QED
  BY <1>1, <1>2, <1>3, <1>4, <1>5, <1>6, <1>7, <1>8, <1>9, <1>10, <1>11 DEF Next, Daemon

(* A check that fails has a container to blame, by UnmatchedIsMissing.      *)
LEMMA CauseStep == ASSUME DInv, [Next]_vars PROVE CauseInv'
<1> USE TimeAssumption DEF DInv, BudgetInv, CauseInv, world, boot, history
<1>1. CASE BeginCheck
  BY <1>1 DEF BeginCheck
<1>2. CASE Inspect
  BY <1>2 DEF Inspect
<1>3. CASE ExecFails
  BY <1>3 DEF ExecFails
<1>4. CASE ExecAnswers
  BY <1>4, UnmatchedIsMissing DEF ExecAnswers
<1>5. CASE Wait
  BY <1>5 DEF Wait
<1>6. CASE GiveUp
  BY <1>6 DEF GiveUp
<1>7. CASE RollbackSkipped
  BY <1>7 DEF RollbackSkipped
<1>8. CASE Rollback
  BY <1>8 DEF Rollback
<1>9. CASE ContainerChanges
  BY <1>9 DEF ContainerChanges
<1>10. CASE ProgramChanges
  BY <1>10 DEF ProgramChanges
<1>11. CASE UNCHANGED vars
  BY <1>11 DEF vars
<1>12. QED
  BY <1>1, <1>2, <1>3, <1>4, <1>5, <1>6, <1>7, <1>8, <1>9, <1>10, <1>11 DEF Next, Daemon

(* A container leaves todo only once it has answered and been found whole.  *)
LEMMA TargetStep == ASSUME DInv, [Next]_vars PROVE TargetInv'
<1> USE DEF DInv, BudgetInv, TargetInv, world, boot, history
<1> DEFINE T == Targets
<1>a. orders' = orders
  BY DEF Next, Daemon, BeginCheck, Inspect, ExecFails, ExecAnswers, Wait, GiveUp,
         RollbackSkipped, Rollback, ContainerChanges, ProgramChanges, vars
<1>b. T' = T
  BY <1>a DEF Targets
<1>c. \A c : Handled(c) /\ listings \subseteq listings' => Handled(c)'
  BY DEF Handled, ShownOrMistaken
<1>1. CASE BeginCheck
  <2>1. CASE orders.type = "none"
    BY <1>1, <1>a, <2>1 DEF BeginCheck, Passed
  <2>2. CASE orders.type # "none"
    <3>1. Targets \in Seq(Containers \cup Packages) /\ Targets # <<>>
      BY <2>2, TargetsType
    <3>2. pc' = "inspect" /\ todo' = Targets /\ alive' = alive
      BY <1>1, <2>2 DEF BeginCheck
    <3>3. QED
      BY <3>1, <3>2, <1>b DEF Passed
  <2>3. QED
    BY <2>1, <2>2
<1>2. CASE Inspect
  BY <1>2, <1>a, <1>b, <1>c DEF Inspect, Passed
<1>3. CASE ExecFails
  BY <1>3, <1>a, <1>b, <1>c DEF ExecFails, Passed
<1>4. CASE ExecAnswers
  <2>1. alive' = alive /\ forced' = forced /\ pc = "exec"
    BY <1>4 DEF ExecAnswers
  <2> PICK c : c = Head(todo)
    OBVIOUS
  <2>2. CASE Unmatched(c) # {}
    BY <1>4, <2>1, <2>2 DEF ExecAnswers, Passed
  <2>3. CASE Unmatched(c) = {}
    <3>1. /\ todo' = Tail(todo)
          /\ pc' = IF Tail(todo) = <<>> THEN "sread" ELSE "inspect"
          /\ listings' = listings \cup {<<c, Shown(c)>>}
      BY <1>4, <2>3 DEF ExecAnswers
    <3>2. Handled(c)'
      <4>1. ASSUME NEW l, l = <<c, Shown(c)>>
            PROVE  /\ l \in listings' /\ l[1] = c
                   /\ l[1] \in Listed => \A p \in Required[l[1]] : ShownOrMistaken(p, l[2])
        BY <3>1, <2>3, <4>1, FoundIsShown
      <4>2. QED
        BY <4>1 DEF Handled, ShownOrMistaken
    <3>3. \A d : Handled(d) => Handled(d)'
      BY <3>1, <1>c
    <3>4. todo \in Seq(Containers \cup Packages) /\ todo # <<>>
      BY <2>1
    <3>5. /\ Tail(todo) \in Seq(Containers \cup Packages)
          /\ Len(Tail(todo)) = Len(todo) - 1
          /\ \A j \in 1..Len(Tail(todo)) : Tail(todo)[j] = todo[j + 1]
          /\ todo[1] = c
          /\ Len(todo) \in Nat
      BY <3>4
    <3>6. ASSUME NEW i \in 1..Len(T)
          PROVE  Handled(T[i])' \/ \E j \in 1..Len(Tail(todo)) : Tail(todo)[j] = T[i]
      <4>1. CASE Handled(T[i])
        BY <4>1, <3>3, <1>b
      <4>2. ASSUME NEW j \in 1..Len(todo), todo[j] = T[i], j = 1
            PROVE  Handled(T[i])'
        BY <4>2, <3>2, <3>5, <1>b
      <4>3. ASSUME NEW j \in 1..Len(todo), todo[j] = T[i], j # 1
            PROVE  \E k \in 1..Len(Tail(todo)) : Tail(todo)[k] = T[i]
        <5>1. j - 1 \in 1..Len(Tail(todo)) /\ Tail(todo)[j - 1] = todo[j]
          BY <3>5, <4>3
        <5>2. QED
          BY <5>1, <4>3
      <4>4. QED
        BY <4>1, <4>2, <4>3, <2>1
    <3>7. CASE Tail(todo) = <<>>
      <4> DEFINE rest == Tail(todo)
      <4>0. rest \in Seq(Containers \cup Packages) /\ rest = <<>>
        BY <3>5, <3>7
      <4>1. Len(rest) = 0
        <5> HIDE DEF rest
        <5> QED
          BY <4>0
      <4>2. ASSUME NEW i \in 1..Len(T) PROVE Handled(T[i])'
        <5>1. ~ \E j \in 1..Len(rest) : rest[j] = T[i]
          BY <4>1
        <5>2. QED
          BY <3>6, <5>1
      <4>3. QED
        BY <3>1, <3>7, <4>2, <2>1, <1>b DEF Passed
    <3>8. CASE Tail(todo) # <<>>
      BY <3>1, <3>5, <3>6, <3>8, <2>1, <1>b DEF Passed
    <3>9. QED
      BY <3>7, <3>8
  <2>4. QED
    BY <2>2, <2>3
<1>5. CASE Wait
  BY <1>5, <1>a, <1>b, <1>c DEF Wait, Passed
<1>6. CASE GiveUp
  BY <1>6, <1>a, <1>b, <1>c DEF GiveUp, Passed
<1>7. CASE RollbackSkipped
  BY <1>7, <1>a, <1>b, <1>c DEF RollbackSkipped, Passed
<1>8. CASE Rollback
  BY <1>8, <1>a, <1>b, <1>c DEF Rollback, Passed
<1>9. CASE ContainerChanges
  BY <1>9, <1>a, <1>b, <1>c DEF ContainerChanges, Passed, Ended
<1>10. CASE ProgramChanges
  BY <1>10, <1>a, <1>b, <1>c DEF ProgramChanges, Passed, Ended
<1>11. CASE UNCHANGED vars
  BY <1>11, <1>a, <1>b, <1>c DEF vars, Passed
<1>12. QED
  BY <1>1, <1>2, <1>3, <1>4, <1>5, <1>6, <1>7, <1>8, <1>9, <1>10, <1>11 DEF Next, Daemon

(* DInv holds of every reachable state.                                     *)
LEMMA DiagnoseInd == Spec => []DInv
<1>1. Init => DInv
  <2> SUFFICES ASSUME Init PROVE DInv
    OBVIOUS
  <2>1. BudgetInv
    <3>1. /\ pc = "loop" /\ timeCnt = TimeCnt /\ forced = FALSE /\ minutes = 0
          /\ orders \in Orders
      BY DEF Init
    <3>2. timeCnt \in 0..TimeCnt /\ minutes = TimeCnt - timeCnt /\ timeCnt > 0
      BY <3>1, TimeAssumption
    <3>3. QED
      BY <3>1, <3>2, Zenon DEF BudgetInv
  <2>2. CauseInv
    <3>1. pc = "loop" /\ timeCnt = TimeCnt
      BY DEF Init
    <3>2. QED
      BY <3>1, TimeAssumption DEF CauseInv
  <2>3. pc \notin {"inspect", "exec"} /\ ~ Passed
    BY DEF Init, Passed
  <2>4. TargetInv
    BY <2>3 DEF TargetInv
  <2>5. QED
    BY <2>1, <2>2, <2>4 DEF DInv
<1>2. DInv /\ [Next]_vars => DInv'
  BY BudgetStep, CauseStep, TargetStep DEF DInv
<1>3. QED
  BY <1>1, <1>2, PTL DEF Spec

-----------------------------------------------------------------------------
(* Types.  rollback_system's choice of an image is one of those installed.  *)

LEMMA LeastNumber ==
    ASSUME NEW S \in SUBSET Nat, S # {}
    PROVE  \E i \in S : \A j \in S : i <= j
<1>1. PICK i \in S : \A j \in S : <<j, i>> \notin OpToRel(<, Nat)
  BY NatLessThanWellFounded, WFMin
<1>2. \A j \in S : ~ (j < i)
  BY <1>1 DEF OpToRel
<1>3. QED
  BY <1>2

TInv ==
    /\ TypeOK
    /\ \A p \in Packages : status[p] = "absent"

(* A check's first container, as long as there is one.                      *)
LEMMA NextTarget ==
    ASSUME todo \in Seq(Containers \cup Packages), todo # <<>>
    PROVE  /\ Head(todo) \in Containers \cup Packages
           /\ Tail(todo) \in Seq(Containers \cup Packages)
OBVIOUS

LEMMA TypeStep == ASSUME DInv, TInv, [Next]_vars PROVE TInv'
<1> USE TimeAssumption DEF DInv, BudgetInv, TInv, TypeOK, world, boot, history
<1>a. BudgetInv'
  BY BudgetStep
<1>1. CASE BeginCheck
  BY <1>1, <1>a, TargetsType DEF BeginCheck
<1>2. CASE Inspect
  BY <1>2, <1>a DEF Inspect
<1>3. CASE ExecFails
  BY <1>3, <1>a DEF ExecFails
<1>4. CASE ExecAnswers
  <2>1. Head(todo) \in Containers /\ Tail(todo) \in Seq(Containers \cup Packages)
    BY <1>4, NextTarget DEF ExecAnswers, TargetInv
  <2>2. Shown(Head(todo)) \in SUBSET (Programs \cup Others)
    BY DEF Shown
  <2>3. listings' \subseteq Containers \X SUBSET (Programs \cup Others)
    <3>1. listings' = listings \cup {<<Head(todo), Shown(Head(todo))>>}
      BY <1>4 DEF ExecAnswers
    <3>2. <<Head(todo), Shown(Head(todo))>> \in Containers \X SUBSET (Programs \cup Others)
      BY <2>1, <2>2
    <3>3. QED
      BY <3>1, <3>2
  <2>4. QED
    BY <1>4, <1>a, <2>1, <2>3 DEF ExecAnswers
<1>5. CASE Wait
  BY <1>5, <1>a DEF Wait
<1>6. CASE GiveUp
  BY <1>6, <1>a DEF GiveUp
<1>7. CASE RollbackSkipped
  BY <1>7, <1>a DEF RollbackSkipped
<1>8. CASE Rollback
  <2>1. \E i \in installed : \A j \in installed : i <= j
    BY LeastNumber, ImageAssumption
  <2>2. default' \in installed
    BY <1>8, <2>1 DEF Rollback
  <2>3. QED
    BY <1>8, <1>a, <2>2 DEF Rollback
<1>9. CASE ContainerChanges
  BY <1>9, <1>a, TableAssumption DEF ContainerChanges
<1>10. CASE ProgramChanges
  BY <1>10, <1>a DEF ProgramChanges, Programs
<1>11. CASE UNCHANGED vars
  BY <1>11, <1>a DEF vars
<1>12. QED
  BY <1>1, <1>2, <1>3, <1>4, <1>5, <1>6, <1>7, <1>8, <1>9, <1>10, <1>11 DEF Next, Daemon

-----------------------------------------------------------------------------
(* Theorems.                                                                *)

(* Type correctness: whoever answers a docker exec is a container, and the  *)
(* boot loader's default is always one of the images installed.             *)
THEOREM WatchTyped == Spec => []TypeOK
<1>1. Init => TInv
  <2> SUFFICES ASSUME Init PROVE TInv
    OBVIOUS
  <2>1. timeCnt \in 0..TimeCnt /\ minutes \in 0..TimeCnt
    BY TimeAssumption DEF Init
  <2>2. alive \in [Listed -> SUBSET (Programs \cup Others)]
    BY TableAssumption DEF Init, Programs
  <2>3. todo \in Seq(Containers \cup Packages)
    BY DEF Init
  <2>4. QED
    BY <2>1, <2>2, <2>3 DEF Init, TInv, TypeOK
<1>2. DInv /\ TInv /\ [Next]_vars => TInv'
  BY TypeStep
<1>3. TInv => TypeOK
  BY DEF TInv
<1>4. QED
  BY <1>1, <1>2, <1>3, DiagnoseInd, PTL DEF Spec

(* "The diagnostic results ... is OK" is only logged when every container   *)
(* of the check answered a docker exec of that check, although a docker     *)
(* inspect that fails is passed over.                                       *)
THEOREM PassedAnswered == Spec => []PassedMeansAnswered
<1>1. DInv => PassedMeansAnswered
  BY DEF DInv, TargetInv, Handled, PassedMeansAnswered
<1>2. QED
  BY <1>1, DiagnoseInd, PTL

(* And that docker exec showed each program that procs_table asks for, or a *)
(* line of something else that has its name in it.                          *)
THEOREM PassedWhole == Spec => []PassedMeansWhole
<1>1. DInv => PassedMeansWhole
  BY DEF DInv, TargetInv, Handled, PassedMeansWhole
<1>2. QED
  BY <1>1, DiagnoseInd, PTL

(* A rollback rests on a container seen in ill health, a forced one on that *)
(* and TimeCnt minutes; a docker that does not answer is never the reason.  *)
THEOREM RollbackCaused == Spec => []RollbackHasCause
<1>1. DInv => RollbackHasCause
  BY TimeAssumption DEF DInv, BudgetInv, CauseInv, RollbackHasCause
<1>2. QED
  BY <1>1, DiagnoseInd, PTL

(* Every step of the watch in detail is a step of the watch that            *)
(* UpgradeDaemon knows, or none: it counts its failed checks down, returns  *)
(* into stop(), or, if it had instructions, raises.                         *)
THEOREM WatchRefines == Spec => Watch!WatchSpec
<1> USE DEF Ended
<1>1. Init => Watch!WatchInit
  BY DEF Init, Watch!WatchInit
<1>2. DInv /\ [Next]_vars => [Watch!WatchNext]_Watch!watchVars
  <2> SUFFICES ASSUME DInv, [Next]_vars
               PROVE  Watch!WatchNext \/ UNCHANGED Watch!watchVars
    OBVIOUS
  <2> USE TimeAssumption
      DEF DInv, BudgetInv, world, boot, history, Watch!WatchNext, Watch!CheckFailed,
          Watch!WatchStops, Watch!WatchRaises, Watch!watchVars
  <2>1. CASE BeginCheck
    BY <2>1 DEF BeginCheck
  <2>2. CASE Inspect
    BY <2>2 DEF Inspect
  <2>3. CASE ExecFails
    BY <2>3 DEF ExecFails
  <2>4. CASE ExecAnswers
    BY <2>4 DEF ExecAnswers
  <2>5. CASE Wait
    BY <2>5 DEF Wait
  <2>6. CASE GiveUp
    BY <2>6 DEF GiveUp
  <2>7. CASE RollbackSkipped
    BY <2>7 DEF RollbackSkipped
  <2>8. CASE Rollback
    BY <2>8 DEF Rollback
  <2>9. CASE ContainerChanges
    BY <2>9 DEF ContainerChanges
  <2>10. CASE ProgramChanges
    BY <2>10 DEF ProgramChanges
  <2>11. CASE UNCHANGED vars
    BY <2>11 DEF vars
  <2>12. QED
    BY <2>1, <2>2, <2>3, <2>4, <2>5, <2>6, <2>7, <2>8, <2>9, <2>10, <2>11
       DEF Next, Daemon
<1>3. QED
  BY <1>1, <1>2, DiagnoseInd, PTL DEF Spec, Watch!WatchSpec

=============================================================================
