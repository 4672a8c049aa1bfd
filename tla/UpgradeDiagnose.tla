--------------------------- MODULE UpgradeDiagnose ---------------------------
(***************************************************************************)
(* The watch of one daemon of python/upgradeDaemon.py: _run, handle_check, *)
(* handle_force_rollback and class upgrade_diagnose.  Once a minute the    *)
(* daemon asks docker about the upgraded containers; containers and        *)
(* programs come and go between any two of its calls, and docker itself    *)
(* may fail to answer.  Each call of docker is one step.                   *)
(***************************************************************************)
EXTENDS Naturals, Sequences, FiniteSets

CONSTANTS
    Order,      (* container_names, the containers a system check visits     *)
    Foreign,    (* containers procs_table does not list                      *)
    Packages,   (* names of deb packages; no container is called so          *)
    Required,   (* procs_table                                               *)
    Others,     (* ps lines of anything else: scripts, their arguments, ...  *)
    Matches,    (* <<p, q>>: the name p is part of the line q, or of q's     *)
    Images,     (* system images, numbered in the order of their names       *)
    TimeCnt     (* time_cnt of a fresh Daemon: 30                            *)

Listed == {Order[i] : i \in 1..Len(Order)}
Containers == Listed \cup Foreign
Programs == UNION {Required[c] : c \in Listed}
NoImage == 0

ASSUME TimeAssumption == TimeCnt \in Nat \ {0}

ASSUME TableAssumption ==
    /\ Order \in Seq(Listed) /\ Order # <<>>
    /\ Packages \cap Containers = {}
    /\ Required \in [Listed -> SUBSET Programs]
    /\ \A p \in Programs : <<p, p>> \in Matches

ASSUME ImageAssumption == IsFiniteSet(Images) /\ Images \subseteq Nat \ {NoImage}

VARIABLES
    pc,         (* where _run stands                                         *)
    timeCnt,    (* self.time_cnt                                             *)
    orders,     (* what parse_info took from the diagnose file               *)
    todo,       (* containers the present check has still to visit           *)
    forced,     (* the rollback under way is handle_force_rollback's         *)
    status,     (* docker's state of each container                          *)
    alive,      (* what ps shows in each: programs by their names, or Others *)
    installed,  (* the bootloader's images                                   *)
    default,    (* the image it boots next                                   *)
    minutes,    (* history: 60 s sleeps                                      *)
    culprit,    (* history: the last check found a container in ill health   *)
    listings    (* history: what docker exec showed in this check, and of    *)
                (* which container                                           *)

world == <<status, alive>>
boot == <<installed, default>>
history == <<minutes, culprit, listings>>
vars == <<pc, timeCnt, orders, todo, forced, status, alive, installed, default,
          minutes, culprit, listings>>

Ended == pc \in {"sread", "raised"}

(* The diagnose file as parse_info leaves it; absent fields are empty.      *)
Orders ==
    [type : {"system"}, pre : Images \cup {NoImage}]
    \cup [type : {"container"}, name : Containers, backup : BOOLEAN]
    \cup [type : {"deb"}, package : Packages, owner : Containers]
    \cup [type : {"none"}]

(* handle_check passes the package's name where deb_diagnose expects its    *)
(* owner's.                                                                 *)
Targets ==
    CASE orders.type = "system" -> Order
      [] orders.type = "container" -> <<orders.name>>
      [] orders.type = "deb" -> <<orders.package>>

Shown(c) == IF c \in Listed THEN alive[c] ELSE {}

Missing(c) == IF c \in Listed THEN Required[c] \ alive[c] ELSE {}

(* Mutant: found is not reset to False before the next program is looked    *)
(* for, so one program that runs is enough.                                 *)
UnmatchedNoReset(c) ==
    IF c \in Listed /\ \A p \in Required[c], q \in alive[c] : <<p, q>> \notin Matches
    THEN Required[c]
    ELSE {}

(* "if proc in line": a program counts as found when its name is part of    *)
(* the line of anything that runs.                                          *)
Unmatched(c) ==
    IF c \in Listed
    THEN {p \in Required[c] : \A q \in alive[c] : <<p, q>> \notin Matches}
    ELSE {}

-----------------------------------------------------------------------------
(* _run.                                                                    *)

(* Mutant: the budget is not looked at.                                     *)
BeginCheckUnbounded ==
    /\ pc = "loop"
    /\ orders.type # "none"
    /\ pc' = "inspect"
    /\ todo' = Targets
    /\ listings' = {} /\ culprit' = FALSE
    /\ UNCHANGED <<timeCnt, orders, forced, world, boot, minutes>>

BeginCheck ==
    /\ pc = "loop"
    /\ timeCnt > 0
    /\ IF orders.type = "none"
       THEN pc' = "sread" /\ UNCHANGED todo
       ELSE pc' = "inspect" /\ todo' = Targets
    /\ listings' = {}
    /\ culprit' = FALSE
    /\ UNCHANGED <<timeCnt, orders, forced, world, boot, minutes>>

(* Mutant: a docker inspect that fails counts as a container that is down.  *)
InspectStrict ==
    /\ pc = "inspect"
    /\ \/ pc' = "exec" /\ status[Head(todo)] = "running" /\ UNCHANGED culprit
       \/ pc' = "rollback" /\ culprit' = (status[Head(todo)] = "down")
    /\ UNCHANGED <<timeCnt, orders, todo, forced, world, boot, minutes, listings>>

(* check_container_status.  A docker inspect that fails, for want of the    *)
(* container or of docker, counts as a container that runs.                 *)
Inspect ==
    /\ pc = "inspect"
    /\ \/ /\ status[Head(todo)] = "down"
          /\ pc' = "rollback"
          /\ culprit' = TRUE
       \/ /\ pc' = "exec"
          /\ UNCHANGED culprit
    /\ UNCHANGED <<timeCnt, orders, todo, forced, world, boot, minutes, listings>>

(* Mutant: the failure is caught and passed over, as that of inspect is.    *)
ExecFailurePasses ==
    /\ pc = "exec"
    /\ todo' = Tail(todo)
    /\ pc' = IF Tail(todo) = <<>> THEN "sread" ELSE "inspect"
    /\ UNCHANGED <<timeCnt, orders, forced, world, boot, history>>

(* check_processes_status.  A docker exec that fails raises                 *)
(* CalledProcessError, which nobody catches.                                *)
ExecFails ==
    /\ pc = "exec"
    /\ pc' = "raised"
    /\ UNCHANGED <<timeCnt, orders, todo, forced, world, boot, history>>

ExecAnswers ==
    /\ pc = "exec"
    /\ LET c == Head(todo)
       IN  /\ status[c] = "running"
           /\ listings' = listings \cup {<<c, Shown(c)>>}
           /\ \/ /\ Unmatched(c) # {}
                 /\ pc' = "rollback"
                 /\ culprit' = (Missing(c) # {})
                 /\ UNCHANGED todo
              \/ /\ Unmatched(c) = {}
                 /\ todo' = Tail(todo)
                 /\ pc' = IF Tail(todo) = <<>> THEN "sread" ELSE "inspect"
                 /\ UNCHANGED culprit
    /\ UNCHANGED <<timeCnt, orders, forced, world, boot, minutes>>

(* Mutant: time_cnt is not decremented.                                     *)
WaitUncounted ==
    /\ pc = "tick"
    /\ pc' = "loop"
    /\ UNCHANGED <<timeCnt, orders, todo, forced, world, boot, history>>

Wait ==
    /\ pc = "tick"
    /\ timeCnt' = timeCnt - 1
    /\ minutes' = minutes + 1
    /\ pc' = "loop"
    /\ UNCHANGED <<orders, todo, forced, world, boot, culprit, listings>>

GiveUp ==
    /\ pc = "loop"
    /\ timeCnt = 0
    /\ forced' = TRUE
    /\ pc' = "rollback"
    /\ UNCHANGED <<timeCnt, orders, todo, world, boot, history>>

(* Without a version or a backup to go back to, a rollback returns at once. *)
NothingToRestore ==
    \/ orders.type = "system" /\ orders.pre = NoImage
    \/ orders.type = "container" /\ ~ orders.backup

RollbackSkipped ==
    /\ pc = "rollback"
    /\ NothingToRestore
    /\ pc' = IF forced THEN "sread" ELSE "tick"
    /\ UNCHANGED <<timeCnt, orders, todo, forced, world, boot, history>>

(* run_command declares two parameters and every call passes one: the first *)
(* call raises TypeError.  Before it, rollback_system has made the first    *)
(* installed image in the order of names the default.                       *)
Rollback ==
    /\ pc = "rollback"
    /\ ~ NothingToRestore
    /\ IF orders.type = "system"
       THEN default' = CHOOSE i \in installed : \A j \in installed : i <= j
       ELSE UNCHANGED default
    /\ pc' = "raised"
    /\ UNCHANGED <<timeCnt, orders, todo, forced, world, installed, history>>

-----------------------------------------------------------------------------
(* The environment, until the watch ends.                                   *)

ContainerChanges ==
    /\ ~ Ended
    /\ \E c \in Containers, s \in {"running", "down", "absent"} :
          status' = [status EXCEPT ![c] = s]
    /\ UNCHANGED <<pc, timeCnt, orders, todo, forced, alive, boot, history>>

ProgramChanges ==
    /\ ~ Ended
    /\ \E c \in Listed : \E p \in Required[c] \cup Others :
          alive' = [alive EXCEPT ![c] = IF p \in @ THEN @ \ {p} ELSE @ \cup {p}]
    /\ UNCHANGED <<pc, timeCnt, orders, todo, forced, status, boot, history>>

Init ==
    /\ pc = "loop"
    /\ timeCnt = TimeCnt
    /\ orders \in Orders
    /\ todo = <<>>
    /\ forced = FALSE
    /\ status = [c \in Containers \cup Packages |->
                    IF c \in Packages THEN "absent" ELSE "running"]
    /\ alive = Required
    /\ installed \in (SUBSET Images) \ {{}}
    /\ default \in installed
    /\ (orders.type = "system" => orders.pre \in installed \cup {NoImage})
    /\ minutes = 0
    /\ culprit = FALSE
    /\ listings = {}

Daemon ==
    \/ BeginCheck \/ Inspect \/ ExecFails \/ ExecAnswers \/ Wait
    \/ GiveUp \/ RollbackSkipped \/ Rollback

Next == Daemon \/ ContainerChanges \/ ProgramChanges

Spec == Init /\ [][Next]_vars

(* The daemon runs, and docker answers or fails: no call of it hangs.       *)
FairSpec == Spec /\ WF_vars(Daemon)

-----------------------------------------------------------------------------
(* Properties.                                                              *)

TypeOK ==
    /\ pc \in {"loop", "inspect", "exec", "rollback", "tick", "sread", "raised"}
    /\ timeCnt \in 0..TimeCnt
    /\ orders \in Orders
    /\ todo \in Seq(Containers \cup Packages)
    /\ forced \in BOOLEAN
    /\ status \in [Containers \cup Packages -> {"running", "down", "absent"}]
    /\ alive \in [Listed -> SUBSET (Programs \cup Others)]
    /\ installed \subseteq Images
    /\ default \in installed
    /\ minutes \in 0..TimeCnt
    /\ culprit \in BOOLEAN
    /\ listings \subseteq Containers \X SUBSET (Programs \cup Others)

(* The watch ended because a check passed.                                  *)
Passed == pc = "sread" /\ ~ forced /\ orders.type # "none"

(* "The diagnostic results ... is OK": although a failed docker inspect     *)
(* counts as good, a check passes only if every container it was to visit   *)
(* ran, and answered, during that very check.                               *)
PassedMeansAnswered ==
    Passed => {Targets[i] : i \in 1..Len(Targets)} \subseteq {l[1] : l \in listings}

(* The program p is among the lines, or another line has its name in it.    *)
ShownOrMistaken(p, lines) ==
    p \in lines \/ \E q \in lines \ {p} : <<p, q>> \in Matches

(* And no program that procs_table asks for was missing then, except where  *)
(* a line of something else, up at that very moment, was taken for it:      *)
(* another program of the table or a script that has the name in its own.   *)
PassedMeansWhole ==
    Passed => \A i \in 1..Len(Targets) : \E l \in listings :
        /\ l[1] = Targets[i]
        /\ l[1] \in Listed => \A p \in Required[l[1]] : ShownOrMistaken(p, l[2])

(* No healthy upgrade is rolled back: a rollback follows the observation of *)
(* a container that was down or short of a program, or TimeCnt such         *)
(* observations a minute apart.  A docker that fails to answer is no cause. *)
RollbackHasCause ==
    pc = "rollback" => culprit /\ (forced => minutes = TimeCnt)

(* deb_diagnose says its container is the "owner_of_deb": a check after a   *)
(* deb upgrade looks at the container that owns the package.                *)
DebOwnerChecked ==
    pc = "inspect" /\ orders.type = "deb" => Head(todo) = orders.owner

(* A rollback that was announced ("will rollback to the previous            *)
(* container") is carried out, and the daemon goes on to stop().            *)
RollbackReturns == pc = "rollback" ~> pc \in {"tick", "sread"}

(* A watch is a watch as UpgradeDaemon understands it: it returns into      *)
(* stop() or raises, the latter only with instructions, and, the scheduler  *)
(* and docker permitting, it does not go on for ever.                       *)
Watch == INSTANCE UpgradeWatch WITH
            Budget <- TimeCnt,
            phase <- IF Ended THEN pc ELSE "watch",
            checksLeft <- timeCnt,
            hasOrders <- orders.type # "none"

WatchImplemented == Watch!FairWatchSpec

=============================================================================
