------------------------ MODULE UpgradeDaemonProofs ------------------------
(***************************************************************************)
(* Theorems about UpgradeDaemon for every finite set of processes: the     *)
(* type invariant, PidfileNotStale and NoDoubleWatch under any discipline, *)
(* that every process makes ever fewer system calls (EachCallCounts), and  *)
(* OneWatcher, WatcherListed, NotRunningIsTrue, OnlyOperatorStops and      *)
(* RestartFailsOnlyIf when commands are issued one after the other.        *)
(***************************************************************************)
EXTENDS UpgradeDaemon, FiniteSetTheorems, TLAPS

-----------------------------------------------------------------------------
(* The inductive invariant behind PidfileNotStale.                          *)

(* A daemon past WritePidfile: it never writes to the PID file again.       *)
Settled(d) == d \in detached /\ pc[d] \notin StartingLabels

PhaseInv ==
    \A d \in Procs :
        /\ pc[d] \in StartingLabels \cup DaemonLabels => d \in detached
        /\ pc[d] \in {"idle"} \cup CommandLabels => d \notin detached
        /\ d \in detached /\ pc[d] \in StopLabels => ret[d] # "start"
        /\ ret[d] = "watch" => d \in detached

(* Ids get into the PID file, and from there into stop(), only once their   *)
(* daemon is past its own write, and are taken out before the kill.         *)
NamesInv ==
    /\ \A d \in Procs : pidfile = d => Settled(d)
    /\ \A c \in Procs : pc[c] \in StopLabels \ {"sread"} => seen[c] \in Procs
    /\ \A c \in Procs : seen[c] \in Procs => Settled(seen[c])
    /\ \A c \in Procs : pc[c] = "skill" => pidfile # seen[c]

IInv == TypeOK /\ PhaseInv /\ NamesInv /\ PidfileNotStale

(* The inductive invariant behind OneWatcher, on top of IInv.               *)

Live(d) == Alive(d) /\ Settled(d)

Killing(c, d) == Foreground(c) /\ pc[c] = "skill" /\ seen[c] = d

(* One command at a time, and one daemon starting at a time.                *)
SerialInv ==
    \A c, d \in Procs :
        /\ Foreground(c) /\ Foreground(d) => c = d
        /\ ~ (Foreground(c) /\ pc[d] \in StartingLabels)
        /\ pc[c] \in StartingLabels /\ pc[d] \in StartingLabels => c = d

(* A live daemon is named by the PID file, or is about to be killed, by     *)
(* itself or by a command.                                                  *)
ListedInv ==
    \A d \in Procs : Live(d) =>
        \/ pidfile = d
        \/ pc[d] = "skill"
        \/ \E c \in Procs : Killing(c, d)

(* What the PID file can hold during each part of start() and stop().       *)
FileInv ==
    \A c \in Procs :
        /\ pc[c] \in {"fork", "open"} => pidfile = NoFile
        /\ pc[c] = "write" => pidfile = Blank /\ c \in linked
        /\ c \in detached => pc[c] \notin {"fexists", "fremove"}
        /\ c \in detached /\ pc[c] \in StopLabels \ {"sread"} => seen[c] = c
        /\ Foreground(c) /\ pc[c] \in {"sexists", "sremove"}
              => pidfile \in {NoFile, seen[c]}
        /\ Foreground(c) /\ pc[c] \in {"skill", "fexists", "fremove"}
              => pidfile = NoFile

SInv == SerialInv /\ ListedInv /\ FileInv

-----------------------------------------------------------------------------
(* Any number of commands at a time, any crash.                             *)

(* Every variable keeps its type, whatever start(), stop(), restart() and   *)
(* the daemons do to the two files and to each other.                       *)
LEMMA Typing == Spec => []TypeOK
<1>1. Init => TypeOK
  BY EnvironmentAssumption DEF Init, TypeOK, Labels
<1>2. TypeOK /\ [Next]_vars => TypeOK'
  <2> SUFFICES ASSUME TypeOK, [Next]_vars PROVE TypeOK'
    OBVIOUS
  <2> USE DEF TypeOK, Labels, CommandLabels, StartingLabels, StopLabels,
              DaemonLabels, EndLabels, Goto, files, upgrade
  <2>1. ASSUME NEW c \in Procs, LaunchStart(c) PROVE TypeOK'
    BY <2>1 DEF LaunchStart
  <2>2. ASSUME NEW c \in Procs, LaunchStop(c) PROVE TypeOK'
    BY <2>2 DEF LaunchStop
  <2>3. ASSUME NEW c \in Procs, LaunchRestart(c) PROVE TypeOK'
    BY <2>3 DEF LaunchRestart
  <2>4. ASSUME NEW c \in Procs, CheckPidfile(c) PROVE TypeOK'
    BY <2>4 DEF CheckPidfile, ExitLabel
  <2>5. ASSUME NEW c \in Procs, Fork(c) PROVE TypeOK'
    BY <2>5 DEF Fork
  <2>6. ASSUME NEW c \in Procs, OpenPidfile(c) PROVE TypeOK'
    BY <2>6 DEF OpenPidfile
  <2>7. ASSUME NEW c \in Procs, WritePidfile(c) PROVE TypeOK'
    BY <2>7 DEF WritePidfile
  <2>8. ASSUME NEW c \in Procs, ParseInfo(c) PROVE TypeOK'
    BY <2>8 DEF ParseInfo, ExitLabel
  <2>9. ASSUME NEW c \in Procs, ConsumeInfo(c) PROVE TypeOK'
    BY <2>9 DEF ConsumeInfo, ExitLabel
  <2>10. ASSUME NEW c \in Procs, EndWatch(c) PROVE TypeOK'
    BY <2>10 DEF EndWatch, ExitLabel
  <2>11. ASSUME NEW c \in Procs, DelPid(c) PROVE TypeOK'
    BY <2>11 DEF DelPid, Unlink
  <2>12. ASSUME NEW c \in Procs, StopRead(c) PROVE TypeOK'
    BY <2>12 DEF StopRead, ExitLabel, AfterStop
  <2>13. ASSUME NEW c \in Procs, StopExists(c) PROVE TypeOK'
    BY <2>13 DEF StopExists
  <2>14. ASSUME NEW c \in Procs, StopRemove(c) PROVE TypeOK'
    BY <2>14 DEF StopRemove, ExitLabel, Unlink
  <2>15. ASSUME NEW c \in Procs, StopKill(c) PROVE TypeOK'
    BY <2>15 DEF StopKill
  <2>16. ASSUME NEW c \in Procs, StopFinalExists(c) PROVE TypeOK'
    BY <2>16 DEF StopFinalExists, ExitLabel, AfterStop
  <2>17. ASSUME NEW c \in Procs, StopFinalRemove(c) PROVE TypeOK'
    BY <2>17 DEF StopFinalRemove, ExitLabel, AfterStop, Unlink
  <2>18. ASSUME NEW c \in Procs, Crash(c) PROVE TypeOK'
    BY <2>18 DEF Crash
  <2>19. CASE InstallUpgrade
    BY <2>19, EnvironmentAssumption DEF InstallUpgrade
  <2>20. CASE UNCHANGED vars
    BY <2>20 DEF vars
  <2>21. QED
    BY <2>1, <2>2, <2>3, <2>4, <2>5, <2>6, <2>7, <2>8, <2>9, <2>10, <2>11, <2>12, <2>13, <2>14, <2>15, <2>16, <2>17, <2>18, <2>19, <2>20
       DEF Next, Start, Run, Stop
<1>3. QED
  BY <1>1, <1>2, PTL DEF Spec

(* No system call of start(), stop(), delpid or parse_info breaks IInv: a   *)
(* process id reaches the PID file only by its owner's one write, is taken  *)
(* out of it before the kill, and whoever holds it read it after the write. *)
LEMMA IndInv == Spec => []IInv
<1>1. Init => IInv
  BY FileAssumption, EnvironmentAssumption
     DEF Init, IInv, TypeOK, PhaseInv, NamesInv, PidfileNotStale, Settled,
         Labels, CommandLabels, StartingLabels, StopLabels, DaemonLabels, EndLabels
<1>2. IInv /\ TypeOK' /\ [Next]_vars => IInv'
  <2> SUFFICES ASSUME IInv, TypeOK', [Next]_vars
               PROVE  PhaseInv' /\ NamesInv' /\ PidfileNotStale'
    BY DEF IInv
  <2> USE FileAssumption
      DEF IInv, TypeOK, PhaseInv, NamesInv, PidfileNotStale, Settled, Alive,
          Labels, CommandLabels, StartingLabels, StopLabels, DaemonLabels,
          EndLabels, Goto, files, upgrade
  <2>1. ASSUME NEW c \in Procs, LaunchStart(c)
        PROVE  PhaseInv' /\ NamesInv' /\ PidfileNotStale'
    BY <2>1 DEF LaunchStart
  <2>2. ASSUME NEW c \in Procs, LaunchStop(c)
        PROVE  PhaseInv' /\ NamesInv' /\ PidfileNotStale'
    BY <2>2 DEF LaunchStop
  <2>3. ASSUME NEW c \in Procs, LaunchRestart(c)
        PROVE  PhaseInv' /\ NamesInv' /\ PidfileNotStale'
    BY <2>3 DEF LaunchRestart
  <2>4. ASSUME NEW c \in Procs, CheckPidfile(c)
        PROVE  PhaseInv' /\ NamesInv' /\ PidfileNotStale'
    BY <2>4 DEF CheckPidfile, ExitLabel
  <2>5. ASSUME NEW c \in Procs, Fork(c)
        PROVE  PhaseInv' /\ NamesInv' /\ PidfileNotStale'
    BY <2>5 DEF Fork
  <2>6. ASSUME NEW c \in Procs, OpenPidfile(c)
        PROVE  PhaseInv' /\ NamesInv' /\ PidfileNotStale'
    BY <2>6 DEF OpenPidfile
  <2>7. ASSUME NEW c \in Procs, WritePidfile(c)
        PROVE  PhaseInv' /\ NamesInv' /\ PidfileNotStale'
    BY <2>7 DEF WritePidfile
  <2>8. ASSUME NEW c \in Procs, ParseInfo(c)
        PROVE  PhaseInv' /\ NamesInv' /\ PidfileNotStale'
    BY <2>8 DEF ParseInfo, ExitLabel
  <2>9. ASSUME NEW c \in Procs, ConsumeInfo(c)
        PROVE  PhaseInv' /\ NamesInv' /\ PidfileNotStale'
    BY <2>9 DEF ConsumeInfo, ExitLabel
  <2>10. ASSUME NEW c \in Procs, EndWatch(c)
        PROVE  PhaseInv' /\ NamesInv' /\ PidfileNotStale'
    BY <2>10 DEF EndWatch, ExitLabel
  <2>11. ASSUME NEW c \in Procs, DelPid(c)
        PROVE  PhaseInv' /\ NamesInv' /\ PidfileNotStale'
    BY <2>11 DEF DelPid, Unlink
  <2>12. ASSUME NEW c \in Procs, StopRead(c)
        PROVE  PhaseInv' /\ NamesInv' /\ PidfileNotStale'
    BY <2>12 DEF StopRead, ExitLabel, AfterStop
  <2>13. ASSUME NEW c \in Procs, StopExists(c)
        PROVE  PhaseInv' /\ NamesInv' /\ PidfileNotStale'
    BY <2>13 DEF StopExists
  <2>14. ASSUME NEW c \in Procs, StopRemove(c)
        PROVE  PhaseInv' /\ NamesInv' /\ PidfileNotStale'
    BY <2>14 DEF StopRemove, ExitLabel, Unlink
  <2>15. ASSUME NEW c \in Procs, StopKill(c)
        PROVE  PhaseInv' /\ NamesInv' /\ PidfileNotStale'
    BY <2>15 DEF StopKill
  <2>16. ASSUME NEW c \in Procs, StopFinalExists(c)
        PROVE  PhaseInv' /\ NamesInv' /\ PidfileNotStale'
    BY <2>16 DEF StopFinalExists, ExitLabel, AfterStop
  <2>17. ASSUME NEW c \in Procs, StopFinalRemove(c)
        PROVE  PhaseInv' /\ NamesInv' /\ PidfileNotStale'
    BY <2>17 DEF StopFinalRemove, ExitLabel, AfterStop, Unlink
  <2>18. ASSUME NEW c \in Procs, Crash(c)
        PROVE  PhaseInv' /\ NamesInv' /\ PidfileNotStale'
    <3>1. /\ pc' = [pc EXCEPT ![c] = "crashed"] \/ pc' = [pc EXCEPT ![c] = "cut"]
          /\ c \in detached => pc' = [pc EXCEPT ![c] = "crashed"]
          /\ UNCHANGED <<seen, ret, detached, files, upgrade>>
      BY <2>18 DEF Crash, Foreground
    <3>2. PhaseInv'
      BY <3>1
    <3>3. NamesInv'
      BY <3>1
    <3>4. PidfileNotStale'
      BY <3>1
    <3>5. QED
      BY <3>2, <3>3, <3>4
  <2>19. CASE InstallUpgrade
    BY <2>19 DEF InstallUpgrade
  <2>20. CASE UNCHANGED vars
    BY <2>20 DEF vars
  <2>21. QED
    BY <2>1, <2>2, <2>3, <2>4, <2>5, <2>6, <2>7, <2>8, <2>9, <2>10, <2>11, <2>12, <2>13, <2>14, <2>15, <2>16, <2>17, <2>18, <2>19, <2>20
       DEF Next, Start, Run, Stop
<1>3. QED
  BY <1>1, <1>2, Typing, PTL DEF Spec, IInv

(* The PID file never names a daemon that has gone, unless SIGKILL kept it  *)
(* from running delpid: the conjunct of IInv that the others support.       *)
THEOREM PidfileCorrect == Spec => []PidfileNotStale
<1>1. IInv => PidfileNotStale
  BY DEF IInv
<1>2. QED
  BY <1>1, IndInv, PTL

(* However many daemons race for the diagnose file, parse_info's os.remove  *)
(* lets at most one of them have each file the upgrade tool wrote.          *)
THEOREM InstructionsOnce == Spec => []NoDoubleWatch
<1>1. Init => NoDoubleWatch
  BY FS_EmptySet, EnvironmentAssumption DEF Init, NoDoubleWatch
<1>2. TypeOK /\ NoDoubleWatch /\ [Next]_vars => NoDoubleWatch'
  <2> SUFFICES ASSUME TypeOK, NoDoubleWatch, [Next]_vars PROVE NoDoubleWatch'
    OBVIOUS
  <2>1. IsFiniteSet(armed) /\ Cardinality(armed) \in Nat /\ installs \in Nat
    BY ProcsAssumption, EnvironmentAssumption, FS_Subset, FS_CardinalityType DEF TypeOK
  <2>2. CASE UNCHANGED upgrade
    BY <2>2 DEF upgrade, NoDoubleWatch
  <2>3. ASSUME NEW c \in Procs, ConsumeInfo(c), diag # "none" PROVE NoDoubleWatch'
    <3>1. armed' = armed \cup {c} /\ diag' = "none" /\ installs' = installs
      BY <2>3 DEF ConsumeInfo
    <3>2. Cardinality(armed') \in Nat /\ Cardinality(armed') <= Cardinality(armed) + 1
      <4>1. Cardinality(armed \cup {c})
              = IF c \in armed THEN Cardinality(armed) ELSE Cardinality(armed) + 1
        BY <2>1, FS_AddElement, Zenon
      <4>2. QED
        BY <2>1, <3>1, <4>1
    <3>3. QED
      BY <2>1, <2>3, <3>1, <3>2 DEF NoDoubleWatch
  <2>4. CASE InstallUpgrade
    <3>1. armed' = armed /\ installs' = installs + 1 /\ diag' # "none"
      BY <2>4 DEF InstallUpgrade
    <3>2. QED
      BY <2>1, <3>1 DEF NoDoubleWatch
  <2>5. \/ UNCHANGED upgrade
        \/ \E c \in Procs : ConsumeInfo(c) /\ diag # "none"
        \/ InstallUpgrade
    BY DEF Next, Start, Run, Stop, LaunchStart, LaunchStop, LaunchRestart,
           CheckPidfile, Fork, OpenPidfile, WritePidfile, ParseInfo, ConsumeInfo,
           EndWatch, DelPid, StopRead, StopExists, StopRemove, StopKill,
           StopFinalExists, StopFinalRemove, Crash, upgrade, vars
  <2>6. QED
    BY <2>2, <2>3, <2>4, <2>5
<1>3. QED
  BY <1>1, <1>2, Typing, PTL DEF Spec

-----------------------------------------------------------------------------
(* Every process comes to its end.                                          *)

Back(place) == IF place = "start" THEN 25 ELSE IF place = "watch" THEN 11 ELSE 1

LEMMA CallsIs ==
    ASSUME NEW place \in {"exit", "start", "watch"}, NEW round \in {0, 3}
    PROVE  /\ Calls("check", place, round) = 25 /\ Calls("fork", place, round) = 24
           /\ Calls("open", place, round) = 23 /\ Calls("write", place, round) = 22
           /\ Calls("parse", place, round) = 21 /\ Calls("consume", place, round) = 12
           /\ Calls("watch", place, round) = 11 /\ Calls("delpid", place, round) = 1
           /\ Calls("sread", place, round) = 9 + Back(place)
           /\ Calls("sexists", place, round) = 5 + round + Back(place)
           /\ Calls("sremove", place, round) = 4 + round + Back(place)
           /\ Calls("skill", place, round) = 3 + round + Back(place)
           /\ Calls("fexists", place, round) = 2 + Back(place)
           /\ Calls("fremove", place, round) = 1 + Back(place)
           /\ \A label \in EndLabels : Calls(label, place, round) = 0
  BY DEF Calls, Back, DaemonLabels, StartingLabels, CommandLabels, StopLabels, EndLabels

(* Who has gone stays gone: nothing but a command that is issued changes    *)
(* the label of a process that is not alive.                                *)
LEMMA StaysGone ==
    ASSUME TypeOK, [Next]_vars, NEW d \in Procs, ~ Alive(d), pc[d] # "idle"
    PROVE  ~ Alive(d)' /\ pc'[d] = pc[d]
<1>1. pc[d] \in EndLabels
  BY DEF Alive
<1>2. pc'[d] = pc[d]
  BY <1>1
     DEF Next, Start, Run, Stop, LaunchStart, LaunchStop, LaunchRestart,
         CheckPidfile, Fork, OpenPidfile, WritePidfile, ParseInfo, ConsumeInfo,
         EndWatch, DelPid, StopRead, StopExists, StopRemove, StopKill,
         StopFinalExists, StopFinalRemove, Crash, InstallUpgrade, Goto,
         Alive, EndLabels, TypeOK, vars
<1>3. QED
  BY <1>1, <1>2 DEF Alive

(* Another round of stop()'s loop can only become needless.                 *)
LEMMA RoundKept ==
    ASSUME IInv, [Next]_vars, NEW d \in Procs, seen'[d] = seen[d]
    PROVE  Round(d)' <= Round(d)
<1>1. CASE seen[d] \in Procs /\ ~ Alive(seen[d])
  <2>1. pc[seen[d]] # "idle"
    BY <1>1 DEF IInv, NamesInv, PhaseInv, Settled
  <2>2. ~ Alive(seen[d])' /\ seen'[d] = seen[d]
    <3>1. ASSUME NEW e \in Procs, e = seen[d] PROVE ~ Alive(e)'
      BY <1>1, <2>1, <3>1, StaysGone DEF IInv
    <3>2. QED
      BY <1>1, <3>1 DEF Alive
  <2>3. QED
    BY <1>1, <2>2 DEF Round
<1>2. CASE ~ (seen[d] \in Procs /\ ~ Alive(seen[d]))
  BY <1>2 DEF Round
<1>3. QED
  BY <1>1, <1>2

(* Its own next system call takes a process further.                        *)
LEMMA OwnCall ==
    ASSUME IInv, IInv', [Next]_vars, NEW c \in Procs,
           Start(c) \/ Run(c) \/ Stop(c) \/ Crash(c)
    PROVE  CallsLeft(c)' < CallsLeft(c)
<1> DEFINE place == ret[c]
           placeNext == ret'[c]
<1>1. /\ place \in {"exit", "start", "watch"} /\ placeNext \in {"exit", "start", "watch"}
      /\ Round(c) \in {0, 3} /\ Round(c)' \in {0, 3}
  BY DEF IInv, TypeOK, Round
<1>2. /\ Back(place) \in 1..25 /\ Back(placeNext) \in 1..25
      /\ place = "exit" => Back(place) = 1
      /\ place = "watch" => Back(place) = 11
      /\ place = "start" => Back(place) = 25
      /\ placeNext = "exit" => Back(placeNext) = 1
      /\ placeNext = "watch" => Back(placeNext) = 11
  BY <1>1 DEF Back
<1>3. /\ CallsLeft(c) = Calls(pc[c], place, Round(c))
      /\ CallsLeft(c)' = Calls(pc'[c], placeNext, Round(c)')
  BY DEF CallsLeft
<1> HIDE DEF place, placeNext
<1>4. /\ pc[c] = "check" => CallsLeft(c) = 25
      /\ pc[c] = "fork" => CallsLeft(c) = 24
      /\ pc[c] = "open" => CallsLeft(c) = 23
      /\ pc[c] = "write" => CallsLeft(c) = 22
      /\ pc[c] = "parse" => CallsLeft(c) = 21
      /\ pc[c] = "consume" => CallsLeft(c) = 12
      /\ pc[c] = "watch" => CallsLeft(c) = 11
      /\ pc[c] = "delpid" => CallsLeft(c) = 1
      /\ pc[c] = "sread" => CallsLeft(c) = 9 + Back(place)
      /\ pc[c] = "sexists" => CallsLeft(c) = 5 + Round(c) + Back(place)
      /\ pc[c] = "sremove" => CallsLeft(c) = 4 + Round(c) + Back(place)
      /\ pc[c] = "skill" => CallsLeft(c) = 3 + Round(c) + Back(place)
      /\ pc[c] = "fexists" => CallsLeft(c) = 2 + Back(place)
      /\ pc[c] = "fremove" => CallsLeft(c) = 1 + Back(place)
  <2> DEFINE round == Round(c)
  <2>1. CallsLeft(c) = Calls(pc[c], place, round) /\ round \in {0, 3}
    BY <1>1, <1>3
  <2> HIDE DEF round
  <2>2. /\ Calls("check", place, round) = 25
        /\ Calls("fork", place, round) = 24
        /\ Calls("open", place, round) = 23
        /\ Calls("write", place, round) = 22
        /\ Calls("parse", place, round) = 21
        /\ Calls("consume", place, round) = 12
        /\ Calls("watch", place, round) = 11
        /\ Calls("delpid", place, round) = 1
        /\ Calls("sread", place, round) = 9 + Back(place)
        /\ Calls("sexists", place, round) = 5 + round + Back(place)
        /\ Calls("sremove", place, round) = 4 + round + Back(place)
        /\ Calls("skill", place, round) = 3 + round + Back(place)
        /\ Calls("fexists", place, round) = 2 + Back(place)
        /\ Calls("fremove", place, round) = 1 + Back(place)
    BY <1>1, <2>1, CallsIs
  <2>3. QED
    BY <2>1, <2>2 DEF round
<1>5. /\ pc'[c] = "check" => CallsLeft(c)' = 25
      /\ pc'[c] = "fork" => CallsLeft(c)' = 24
      /\ pc'[c] = "open" => CallsLeft(c)' = 23
      /\ pc'[c] = "write" => CallsLeft(c)' = 22
      /\ pc'[c] = "parse" => CallsLeft(c)' = 21
      /\ pc'[c] = "consume" => CallsLeft(c)' = 12
      /\ pc'[c] = "watch" => CallsLeft(c)' = 11
      /\ pc'[c] = "delpid" => CallsLeft(c)' = 1
      /\ pc'[c] = "sread" => CallsLeft(c)' = 9 + Back(placeNext)
      /\ pc'[c] = "sexists" => CallsLeft(c)' = 5 + Round(c)' + Back(placeNext)
      /\ pc'[c] = "sremove" => CallsLeft(c)' = 4 + Round(c)' + Back(placeNext)
      /\ pc'[c] = "skill" => CallsLeft(c)' = 3 + Round(c)' + Back(placeNext)
      /\ pc'[c] = "fexists" => CallsLeft(c)' = 2 + Back(placeNext)
      /\ pc'[c] = "fremove" => CallsLeft(c)' = 1 + Back(placeNext)
      /\ pc'[c] \in EndLabels => CallsLeft(c)' = 0
  <2> DEFINE round == Round(c)'
  <2>1. CallsLeft(c)' = Calls(pc'[c], placeNext, round) /\ round \in {0, 3}
    BY <1>1, <1>3
  <2> HIDE DEF round
  <2>2. /\ Calls("check", placeNext, round) = 25
        /\ Calls("fork", placeNext, round) = 24
        /\ Calls("open", placeNext, round) = 23
        /\ Calls("write", placeNext, round) = 22
        /\ Calls("parse", placeNext, round) = 21
        /\ Calls("consume", placeNext, round) = 12
        /\ Calls("watch", placeNext, round) = 11
        /\ Calls("delpid", placeNext, round) = 1
        /\ Calls("sread", placeNext, round) = 9 + Back(placeNext)
        /\ Calls("sexists", placeNext, round) = 5 + round + Back(placeNext)
        /\ Calls("sremove", placeNext, round) = 4 + round + Back(placeNext)
        /\ Calls("skill", placeNext, round) = 3 + round + Back(placeNext)
        /\ Calls("fexists", placeNext, round) = 2 + Back(placeNext)
        /\ Calls("fremove", placeNext, round) = 1 + Back(placeNext)
        /\ \A label \in EndLabels : Calls(label, placeNext, round) = 0
    BY <1>1, <2>1, CallsIs
  <2>3. QED
    BY <2>1, <2>2 DEF round
<1>6. ExitLabel(c) \in {"delpid", "exited"}
  BY DEF ExitLabel
<1>7. seen'[c] = seen[c] => Round(c)' <= Round(c)
  BY RoundKept
<1>8. c \in detached /\ pc[c] \in StopLabels => place # "start"
  BY DEF IInv, PhaseInv, place
<1> USE DEF Goto, EndLabels, IInv, TypeOK, place, placeNext
<1>9. CASE Start(c)
  <2>1. CASE CheckPidfile(c)
    BY <1>4, <1>5, <1>6, <2>1 DEF CheckPidfile
  <2>2. CASE Fork(c)
    BY <1>4, <1>5, <2>2 DEF Fork
  <2>3. CASE OpenPidfile(c)
    BY <1>4, <1>5, <2>3 DEF OpenPidfile
  <2>4. CASE WritePidfile(c)
    BY <1>4, <1>5, <2>4 DEF WritePidfile
  <2>5. QED
    BY <1>9, <2>1, <2>2, <2>3, <2>4 DEF Start
<1>10. CASE Run(c)
  <2>1. CASE ParseInfo(c)
    BY <1>2, <1>4, <1>5, <1>6, <2>1 DEF ParseInfo
  <2>2. CASE ConsumeInfo(c)
    BY <1>4, <1>5, <1>6, <2>2 DEF ConsumeInfo
  <2>3. CASE EndWatch(c)
    BY <1>2, <1>4, <1>5, <1>6, <2>3 DEF EndWatch
  <2>4. CASE DelPid(c)
    BY <1>4, <1>5, <2>4 DEF DelPid
  <2>5. QED
    BY <1>10, <2>1, <2>2, <2>3, <2>4 DEF Run
<1>11. /\ AfterStop(c) \in {"check", "watch", "delpid", "exited"}
       /\ AfterStop(c) = "check" => place = "start"
       /\ AfterStop(c) = "watch" => place = "watch"
  BY <1>6 DEF AfterStop
<1>12. CASE Stop(c)
  <2>1. placeNext = place /\ Back(placeNext) = Back(place)
    BY <1>12 DEF Stop, StopRead, StopExists, StopRemove, StopKill, StopFinalExists,
                 StopFinalRemove
  <2>2. pc'[c] = AfterStop(c) => CallsLeft(c)' \in Nat /\ CallsLeft(c)' <= Back(place)
    <3>1. CASE pc'[c] \in {"delpid", "exited"}
      BY <1>2, <1>5, <3>1
    <3>2. CASE pc'[c] = AfterStop(c) /\ pc'[c] \in {"check", "watch"}
      BY <1>2, <1>5, <1>11, <3>2
    <3>3. QED
      BY <1>11, <3>1, <3>2
  <2>3. pc'[c] = ExitLabel(c) => CallsLeft(c)' \in {0, 1}
    BY <1>5, <1>6
  <2> HIDE DEF place, placeNext
  <2>4. CASE StopRead(c)
    <3>1. /\ pc[c] = "sread"
          /\ pc'[c] = AfterStop(c) \/ pc'[c] = ExitLabel(c) \/ pc'[c] = "sexists"
      BY <2>4 DEF StopRead
    <3>2. CASE pc'[c] = AfterStop(c)
      BY <1>2, <1>4, <2>2, <3>1, <3>2
    <3>3. CASE pc'[c] = ExitLabel(c)
      BY <1>2, <1>4, <2>3, <3>1, <3>3
    <3>4. CASE pc'[c] = "sexists"
      BY <1>1, <1>2, <1>4, <1>5, <2>1, <3>1, <3>4
    <3>5. QED
      BY <3>1, <3>2, <3>3, <3>4
  <2>5. CASE StopExists(c)
    <3>1. /\ pc[c] = "sexists" /\ seen'[c] = seen[c]
          /\ pc'[c] = "sremove" \/ pc'[c] = "skill"
      BY <2>5 DEF StopExists
    <3>2. QED
      BY <1>1, <1>2, <1>4, <1>5, <1>7, <2>1, <3>1
  <2>6. CASE StopRemove(c)
    <3>1. /\ pc[c] = "sremove" /\ seen'[c] = seen[c]
          /\ pc'[c] = "skill" \/ pc'[c] = ExitLabel(c)
      BY <2>6 DEF StopRemove
    <3>2. CASE pc'[c] = "skill"
      BY <1>1, <1>2, <1>4, <1>5, <1>7, <2>1, <3>1, <3>2
    <3>3. CASE pc'[c] = ExitLabel(c)
      BY <1>1, <1>2, <1>4, <2>3, <3>1, <3>3
    <3>4. QED
      BY <3>1, <3>2, <3>3
  <2>7. CASE StopKill(c)
    <3>1. pc[c] = "skill" /\ seen'[c] = seen[c]
      BY <2>7 DEF StopKill
    <3>2. CASE ~ Alive(seen[c])
      <4>1. pc'[c] = "fexists"
        BY <2>7, <3>2 DEF StopKill
      <4>2. QED
        BY <1>1, <1>2, <1>4, <1>5, <2>1, <3>1, <4>1
    <3>3. CASE Alive(seen[c]) /\ pc'[c] = "killed"
      BY <1>1, <1>2, <1>4, <1>5, <3>1, <3>3
    <3>4. CASE Alive(seen[c]) /\ pc'[c] # "killed"
      <4>1. seen[c] \in Procs /\ Round(c) = 3
        BY <3>1, <3>4 DEF NamesInv, StopLabels, Round
      <4>2. ASSUME NEW d, d = seen[c] PROVE pc'[c] = "sexists" /\ pc'[d] = "killed"
        BY <2>7, <3>4, <4>1, <4>2 DEF StopKill
      <4>3. Round(c)' = 0
        <5>1. ASSUME NEW d, d = seen[c] PROVE ~ Alive(d)'
          BY <4>2, <5>1 DEF Alive
        <5>2. QED
          BY <3>1, <5>1 DEF Round, Alive
      <4>4. QED
        BY <1>2, <1>4, <1>5, <2>1, <3>1, <4>1, <4>2, <4>3
    <3>5. QED
      BY <3>2, <3>3, <3>4
  <2>8. CASE StopFinalExists(c)
    <3>1. pc[c] = "fexists" /\ (pc'[c] = "fremove" \/ pc'[c] = AfterStop(c))
      BY <2>8 DEF StopFinalExists
    <3>2. CASE pc'[c] = AfterStop(c)
      BY <1>2, <1>4, <2>2, <3>1, <3>2
    <3>3. CASE pc'[c] = "fremove"
      BY <1>2, <1>4, <1>5, <2>1, <3>1, <3>3
    <3>4. QED
      BY <3>1, <3>2, <3>3
  <2>9. CASE StopFinalRemove(c)
    <3>1. pc[c] = "fremove" /\ (pc'[c] = ExitLabel(c) \/ pc'[c] = AfterStop(c))
      BY <2>9 DEF StopFinalRemove
    <3>2. CASE pc'[c] = AfterStop(c)
      BY <1>2, <1>4, <2>2, <3>1, <3>2
    <3>3. CASE pc'[c] = ExitLabel(c)
      BY <1>2, <1>4, <2>3, <3>1, <3>3
    <3>4. QED
      BY <3>1, <3>2, <3>3
  <2>10. QED
    BY <1>12, <2>4, <2>5, <2>6, <2>7, <2>8, <2>9 DEF Stop
<1>13. CASE Crash(c)
  BY <1>1, <1>2, <1>4, <1>5, <1>13
     DEF Crash, Alive, Labels, CommandLabels, StartingLabels, StopLabels, DaemonLabels
<1>14. QED
  BY <1>9, <1>10, <1>12, <1>13

(* The number of calls is a number, zero only at the end, and grows with    *)
(* the rounds of the loop.                                                  *)
LEMMA CallsBound ==
    ASSUME NEW label \in Labels, NEW place \in {"exit", "start", "watch"},
           NEW r \in {0, 3}, NEW s \in {0, 3}, s <= r, label # "idle"
    PROVE  /\ Calls(label, place, r) \in Nat
           /\ label \notin EndLabels => Calls(label, place, r) > 0
           /\ Calls(label, place, s) <= Calls(label, place, r)
<1>1. Back(place) \in Nat
  BY DEF Back
<1>2. CASE label \in EndLabels
  BY <1>2, CallsIs
<1>3. CASE label \in CommandLabels \cup StartingLabels \cup DaemonLabels
  BY <1>3, CallsIs DEF CommandLabels, StartingLabels, DaemonLabels, EndLabels
<1>4. CASE label \in StopLabels
  <2>1. CASE label \in {"sread", "fexists", "fremove"}
    BY <1>1, <2>1, CallsIs DEF EndLabels
  <2>2. CASE label \in {"sexists", "sremove", "skill"}
    BY <1>1, <2>2, CallsIs DEF EndLabels
  <2>3. QED
    BY <1>4, <2>1, <2>2 DEF StopLabels
<1>5. QED
  BY <1>2, <1>3, <1>4 DEF Labels

(* What another process does leaves a process where it is, or kills it.     *)
LEMMA OthersCall ==
    ASSUME IInv, IInv', [Next]_vars, NEW c \in Procs, pc[c] # "idle",
           ~ (Start(c) \/ Run(c) \/ Stop(c) \/ Crash(c))
    PROVE  \/ CallsLeft(c)' < CallsLeft(c)
           \/ pc'[c] = pc[c] /\ CallsLeft(c)' <= CallsLeft(c)
<1>1. /\ pc[c] \in Labels /\ pc'[c] \in Labels /\ ret[c] \in {"exit", "start", "watch"}
      /\ Round(c) \in {0, 3} /\ Round(c)' \in {0, 3}
  BY DEF IInv, TypeOK, Round
<1> DEFINE Left == /\ seen'[c] = seen[c] /\ ret'[c] = ret[c]
                   /\ \/ pc'[c] = pc[c]
                      \/ Alive(c) /\ pc'[c] = "killed"
<1>2. Left
  <2> USE DEF IInv, TypeOK, Goto
  <2>1. CASE InstallUpgrade \/ UNCHANGED vars
    <3>1. pc' = pc /\ seen' = seen /\ ret' = ret
      BY <2>1 DEF InstallUpgrade, vars
    <3>2. QED
      BY <3>1
  <2>2. ASSUME NEW d \in Procs, d # c, Start(d) \/ Run(d) \/ Crash(d) PROVE Left
    BY <2>2 DEF Start, CheckPidfile, Fork, OpenPidfile, WritePidfile, Run, ParseInfo,
                ConsumeInfo, EndWatch, DelPid, Crash
  <2>3. ASSUME NEW d \in Procs, d # c, Stop(d) PROVE Left
    BY <2>3 DEF Stop, StopRead, StopExists, StopRemove, StopKill, StopFinalExists,
                StopFinalRemove
  <2>4. ASSUME NEW d \in Procs, LaunchStart(d) \/ LaunchStop(d) \/ LaunchRestart(d)
        PROVE  Left
    BY <2>4 DEF LaunchStart, LaunchStop, LaunchRestart
  <2>5. QED
    BY <2>1, <2>2, <2>3, <2>4 DEF Next
<1>3. Round(c)' <= Round(c)
  BY <1>2, RoundKept
<1>4. CASE pc'[c] = pc[c]
  BY <1>1, <1>2, <1>3, <1>4, CallsBound DEF CallsLeft
<1>5. CASE Alive(c) /\ pc'[c] = "killed"
  <2>1. CallsLeft(c)' = 0
    BY <1>1, <1>2, <1>5, CallsIs DEF CallsLeft, EndLabels
  <2>2. CallsLeft(c) > 0
    BY <1>1, <1>5, CallsBound DEF CallsLeft, Alive
  <2>3. QED
    BY <2>1, <2>2
<1>6. QED
  BY <1>2, <1>4, <1>5

(* The safety half of EveryProcessEnds, whatever is issued, whoever is      *)
(* killed and however many processes there are: a measure that every call   *)
(* of start(), stop(), parse_info, _run and delpid makes smaller.           *)
THEOREM EveryCallCounts == Spec => EachCallCounts
<1>1. IInv /\ IInv' /\ [Next]_vars =>
        [\A c \in Procs : pc[c] # "idle" =>
            \/ CallsLeft(c)' < CallsLeft(c)
            \/ pc'[c] = pc[c] /\ CallsLeft(c)' <= CallsLeft(c)]_vars
  BY OwnCall, OthersCall
<1>2. QED
  BY <1>1, IndInv, PTL DEF Spec, EachCallCounts

-----------------------------------------------------------------------------
(* One command after the other.                                             *)

(* One at a time stays one at a time, whatever is killed.                   *)
LEMMA SerialKept ==
    ASSUME Discipline = "settled", IInv, SerialInv, [Next]_vars
    PROVE  SerialInv'
<1> USE FileAssumption
    DEF IInv, TypeOK, PhaseInv, Alive, Foreground, SerialInv,
        Labels, CommandLabels, StartingLabels, StopLabels, DaemonLabels,
        EndLabels, Goto, files, upgrade
<1>1. ASSUME NEW c \in Procs, LaunchStart(c) PROVE SerialInv'
  BY <1>1 DEF LaunchStart, MayLaunch
<1>2. ASSUME NEW c \in Procs, LaunchStop(c) PROVE SerialInv'
  BY <1>2 DEF LaunchStop, MayLaunch
<1>3. ASSUME NEW c \in Procs, LaunchRestart(c) PROVE SerialInv'
  BY <1>3 DEF LaunchRestart, MayLaunch
<1>4. ASSUME NEW c \in Procs, CheckPidfile(c) PROVE SerialInv'
  BY <1>4 DEF CheckPidfile, ExitLabel
<1>5. ASSUME NEW c \in Procs, Fork(c) PROVE SerialInv'
  BY <1>5 DEF Fork
<1>6. ASSUME NEW c \in Procs, OpenPidfile(c) PROVE SerialInv'
  BY <1>6 DEF OpenPidfile
<1>7. ASSUME NEW c \in Procs, WritePidfile(c) PROVE SerialInv'
  BY <1>7 DEF WritePidfile
<1>8. ASSUME NEW c \in Procs, ParseInfo(c) PROVE SerialInv'
  BY <1>8 DEF ParseInfo, ExitLabel
<1>9. ASSUME NEW c \in Procs, ConsumeInfo(c) PROVE SerialInv'
  BY <1>9 DEF ConsumeInfo, ExitLabel
<1>10. ASSUME NEW c \in Procs, EndWatch(c) PROVE SerialInv'
  BY <1>10 DEF EndWatch, ExitLabel
<1>11. ASSUME NEW c \in Procs, DelPid(c) PROVE SerialInv'
  BY <1>11 DEF DelPid, Unlink
<1>12. ASSUME NEW c \in Procs, StopRead(c) PROVE SerialInv'
  BY <1>12 DEF StopRead, ExitLabel, AfterStop
<1>13. ASSUME NEW c \in Procs, StopExists(c) PROVE SerialInv'
  BY <1>13 DEF StopExists
<1>14. ASSUME NEW c \in Procs, StopRemove(c) PROVE SerialInv'
  BY <1>14 DEF StopRemove, ExitLabel, Unlink
<1>15. ASSUME NEW c \in Procs, StopKill(c) PROVE SerialInv'
  BY <1>15 DEF StopKill
<1>16. ASSUME NEW c \in Procs, StopFinalExists(c) PROVE SerialInv'
  BY <1>16 DEF StopFinalExists, ExitLabel, AfterStop
<1>17. ASSUME NEW c \in Procs, StopFinalRemove(c) PROVE SerialInv'
  BY <1>17 DEF StopFinalRemove, ExitLabel, AfterStop, Unlink
<1>18. ASSUME NEW c \in Procs, Crash(c) PROVE SerialInv'
  BY <1>18 DEF Crash
<1>19. CASE InstallUpgrade
  BY <1>19 DEF InstallUpgrade
<1>20. CASE UNCHANGED vars
  BY <1>20 DEF vars
<1>21. QED
  BY <1>1, <1>2, <1>3, <1>4, <1>5, <1>6, <1>7, <1>8, <1>9, <1>10, <1>11, <1>12, <1>13, <1>14, <1>15, <1>16, <1>17, <1>18, <1>19, <1>20
     DEF Next, Start, Run, Stop

(* No step breaks the rest of SInv, unless it loses a daemon: start() forks *)
(* only where no daemon lives, and stop() returns only when the daemon it   *)
(* read of is dead.                                                         *)
LEMMA SerialStep ==
    ASSUME Discipline = "settled", IInv, IInv', SInv, [Next]_vars, NoneLost'
    PROVE  ListedInv' /\ FileInv'
<1> USE FileAssumption
    DEF IInv, TypeOK, PhaseInv, NamesInv, Settled, Alive, Foreground, Live, Killing,
        SInv, SerialInv, ListedInv, FileInv,
        Labels, CommandLabels, StartingLabels, StopLabels, DaemonLabels,
        EndLabels, Goto, files, upgrade
<1>1. ASSUME NEW c \in Procs, LaunchStart(c) PROVE ListedInv' /\ FileInv'
  <2>1. ListedInv'
    BY <1>1 DEF LaunchStart, MayLaunch
  <2>2. FileInv'
    BY <1>1 DEF LaunchStart, MayLaunch
  <2>3. QED
    BY <2>1, <2>2
<1>2. ASSUME NEW c \in Procs, LaunchStop(c) PROVE ListedInv' /\ FileInv'
  <2>1. ListedInv'
    BY <1>2 DEF LaunchStop, MayLaunch
  <2>2. FileInv'
    BY <1>2 DEF LaunchStop, MayLaunch
  <2>3. QED
    BY <2>1, <2>2
<1>3. ASSUME NEW c \in Procs, LaunchRestart(c) PROVE ListedInv' /\ FileInv'
  <2>1. ListedInv'
    BY <1>3 DEF LaunchRestart, MayLaunch
  <2>2. FileInv'
    BY <1>3 DEF LaunchRestart, MayLaunch
  <2>3. QED
    BY <2>1, <2>2
<1>4. ASSUME NEW c \in Procs, CheckPidfile(c) PROVE ListedInv' /\ FileInv'
  <2>1. ListedInv'
    BY <1>4 DEF CheckPidfile, ExitLabel
  <2>2. FileInv'
    BY <1>4 DEF CheckPidfile, ExitLabel
  <2>3. QED
    BY <2>1, <2>2
<1>5. ASSUME NEW c \in Procs, Fork(c) PROVE ListedInv' /\ FileInv'
  <2>1. ListedInv'
    BY <1>5 DEF Fork
  <2>2. FileInv'
    BY <1>5 DEF Fork
  <2>3. QED
    BY <2>1, <2>2
<1>6. ASSUME NEW c \in Procs, OpenPidfile(c) PROVE ListedInv' /\ FileInv'
  <2>1. ListedInv'
    BY <1>6 DEF OpenPidfile
  <2>2. FileInv'
    BY <1>6 DEF OpenPidfile
  <2>3. QED
    BY <2>1, <2>2
<1>7. ASSUME NEW c \in Procs, WritePidfile(c) PROVE ListedInv' /\ FileInv'
  <2>1. ListedInv'
    BY <1>7 DEF WritePidfile
  <2>2. FileInv'
    BY <1>7 DEF WritePidfile
  <2>3. QED
    BY <2>1, <2>2
<1>8. ASSUME NEW c \in Procs, ParseInfo(c) PROVE ListedInv' /\ FileInv'
  <2>1. ListedInv'
    BY <1>8 DEF ParseInfo, ExitLabel
  <2>2. FileInv'
    BY <1>8 DEF ParseInfo, ExitLabel
  <2>3. QED
    BY <2>1, <2>2
<1>9. ASSUME NEW c \in Procs, ConsumeInfo(c) PROVE ListedInv' /\ FileInv'
  <2>1. ListedInv'
    BY <1>9 DEF ConsumeInfo, ExitLabel
  <2>2. FileInv'
    BY <1>9 DEF ConsumeInfo, ExitLabel
  <2>3. QED
    BY <2>1, <2>2
<1>10. ASSUME NEW c \in Procs, EndWatch(c) PROVE ListedInv' /\ FileInv'
  <2>1. ListedInv'
    BY <1>10 DEF EndWatch, ExitLabel
  <2>2. FileInv'
    BY <1>10 DEF EndWatch, ExitLabel
  <2>3. QED
    BY <2>1, <2>2
<1>11. ASSUME NEW c \in Procs, DelPid(c) PROVE ListedInv' /\ FileInv'
  <2>1. ListedInv'
    BY <1>11 DEF DelPid, Unlink
  <2>2. FileInv'
    BY <1>11 DEF DelPid, Unlink
  <2>3. QED
    BY <2>1, <2>2
<1>12. ASSUME NEW c \in Procs, StopRead(c) PROVE ListedInv' /\ FileInv'
  <2>1. ListedInv'
    BY <1>12 DEF StopRead, ExitLabel, AfterStop
  <2>2. FileInv'
    BY <1>12 DEF StopRead, ExitLabel, AfterStop
  <2>3. QED
    BY <2>1, <2>2
<1>13. ASSUME NEW c \in Procs, StopExists(c) PROVE ListedInv' /\ FileInv'
  <2>1. ListedInv'
    BY <1>13 DEF StopExists
  <2>2. FileInv'
    BY <1>13 DEF StopExists
  <2>3. QED
    BY <2>1, <2>2
<1>14. ASSUME NEW c \in Procs, StopRemove(c) PROVE ListedInv' /\ FileInv'
  <2>1. ListedInv'
    BY <1>14 DEF StopRemove, ExitLabel, Unlink
  <2>2. FileInv'
    BY <1>14 DEF StopRemove, ExitLabel, Unlink
  <2>3. QED
    BY <2>1, <2>2
<1>15. ASSUME NEW c \in Procs, StopKill(c) PROVE ListedInv' /\ FileInv'
  <2>1. ListedInv'
    BY <1>15 DEF StopKill
  <2>2. FileInv'
    BY <1>15 DEF StopKill
  <2>3. QED
    BY <2>1, <2>2
<1>16. ASSUME NEW c \in Procs, StopFinalExists(c) PROVE ListedInv' /\ FileInv'
  <2>1. ListedInv'
    BY <1>16 DEF StopFinalExists, ExitLabel, AfterStop
  <2>2. FileInv'
    BY <1>16 DEF StopFinalExists, ExitLabel, AfterStop
  <2>3. QED
    BY <2>1, <2>2
<1>17. ASSUME NEW c \in Procs, StopFinalRemove(c) PROVE ListedInv' /\ FileInv'
  <2>1. ListedInv'
    BY <1>17 DEF StopFinalRemove, ExitLabel, AfterStop, Unlink
  <2>2. FileInv'
    BY <1>17 DEF StopFinalRemove, ExitLabel, AfterStop, Unlink
  <2>3. QED
    BY <2>1, <2>2
<1>18. ASSUME NEW c \in Procs, Crash(c) PROVE ListedInv' /\ FileInv'
  <2>1. UNCHANGED <<seen, detached, pidfile, linked>>
    BY <1>18 DEF Crash
  <2>2. /\ pc' = [pc EXCEPT ![c] = "crashed"]
        /\ ~ (Foreground(c) /\ pc[c] = "skill" /\ Alive(seen[c]))
    <3>1. pc' # [pc EXCEPT ![c] = "cut"]
      BY DEF NoneLost
    <3>2. QED
      BY <1>18, <3>1, Zenon DEF Crash
  <2>3. ASSUME NEW d \in Procs, Live(d)'
        PROVE  pidfile' = d \/ pc'[d] = "skill" \/ \E k \in Procs : Killing(k, d)'
    <3>1. d # c /\ Live(d) /\ pc'[d] = pc[d]
      BY <2>1, <2>2, <2>3
    <3>2. ASSUME NEW k \in Procs, Killing(k, d) PROVE Killing(k, d)'
      <4>1. k # c
        BY <2>2, <3>1, <3>2
      <4>2. QED
        BY <2>1, <2>2, <3>2, <4>1
    <3>3. pidfile = d \/ pc[d] = "skill" \/ \E k \in Procs : Killing(k, d)
      BY <3>1
    <3>4. QED
      BY <2>1, <3>1, <3>2, <3>3
  <2>4. FileInv'
    BY <2>1, <2>2
  <2>5. QED
    BY <2>3, <2>4
<1>19. CASE InstallUpgrade
  BY <1>19 DEF InstallUpgrade
<1>20. CASE UNCHANGED vars
  BY <1>20 DEF vars
<1>21. QED
  BY <1>1, <1>2, <1>3, <1>4, <1>5, <1>6, <1>7, <1>8, <1>9, <1>10, <1>11, <1>12, <1>13, <1>14, <1>15, <1>16, <1>17, <1>18, <1>19, <1>20
     DEF Next, Start, Run, Stop

(* A daemon that is lost stays lost.                                        *)
LEMMA LostForGood ==
    ASSUME TypeOK, [Next]_vars, NoneLost'
    PROVE  NoneLost
<1>1. SUFFICES ASSUME NEW d \in Procs, pc[d] = "cut" PROVE pc'[d] = "cut"
  BY DEF NoneLost
<1>2. QED
  BY <1>1
     DEF Next, Start, Run, Stop, LaunchStart, LaunchStop, LaunchRestart,
         CheckPidfile, Fork, OpenPidfile, WritePidfile, ParseInfo, ConsumeInfo,
         EndWatch, DelPid, StopRead, StopExists, StopRemove, StopKill,
         StopFinalExists, StopFinalRemove, Crash, InstallUpgrade, Goto,
         Alive, EndLabels, TypeOK, vars

(* Under that discipline SerialInv holds of every reachable state, and SInv *)
(* of every one in which no daemon is lost.                                 *)
LEMMA SerialInd ==
    ASSUME Discipline = "settled"
    PROVE  Spec => [](SerialInv /\ (NoneLost => SInv))
<1> DEFINE Sound == SerialInv /\ (NoneLost => SInv)
<1>1. Init => Sound
  BY DEF Init, SInv, SerialInv, ListedInv, FileInv, Alive, Foreground, Live, Settled,
         Killing, StartingLabels, StopLabels
<1>2. IInv /\ IInv' /\ Sound /\ [Next]_vars => Sound'
  <2> SUFFICES ASSUME IInv, IInv', Sound, [Next]_vars PROVE Sound'
    OBVIOUS
  <2>1. SerialInv'
    BY SerialKept
  <2>2. ASSUME NoneLost' PROVE SInv'
    <3>1. SInv
      BY <2>2, LostForGood DEF IInv
    <3>2. QED
      BY <2>1, <2>2, <3>1, SerialStep DEF SInv
  <2>3. QED
    BY <2>1, <2>2
<1>3. QED
  BY <1>1, <1>2, IndInv, PTL DEF Spec

(* start()'s check of the PID file does what its comment says it is for: at *)
(* most one daemon reads instructions or watches.                           *)
THEOREM OneDaemon ==
    ASSUME Discipline = "settled"
    PROVE  Spec => []OneWatcher
<1>1. IInv /\ (NoneLost => SInv) => OneWatcher
  <2> SUFFICES ASSUME IInv, SInv,
                      NEW c \in Procs, NEW d \in Procs, Watching(c), Watching(d)
               PROVE  c = d
    BY DEF OneWatcher
  <2>1. ASSUME NEW w \in Procs, Watching(w)
        PROVE  pidfile = w \/ \E k \in Procs : Killing(k, w)
    BY <2>1 DEF IInv, PhaseInv, SInv, ListedInv, Live, Settled, Watching, Alive,
                DaemonLabels, StartingLabels, EndLabels
  <2>2. ASSUME NEW k \in Procs, Foreground(k), pc[k] = "skill" PROVE pidfile = NoFile
    BY <2>2 DEF SInv, FileInv
  <2>3. QED
    BY <2>1, <2>2, FileAssumption DEF Killing, SInv, SerialInv
<1>2. QED
  BY <1>1, IndInv, SerialInd, PTL

(* The watching daemon is named by the PID file, or the stop command that   *)
(* has just taken its name from there is about to kill it.                  *)
THEOREM WatcherFound ==
    ASSUME Discipline = "settled"
    PROVE  Spec => []WatcherListed
<1>1. IInv /\ (NoneLost => SInv) => WatcherListed
  BY DEF IInv, PhaseInv, SInv, ListedInv, Live, Settled, Killing, Watching, Alive,
         WatcherListed, DaemonLabels, StartingLabels, EndLabels
<1>2. QED
  BY <1>1, IndInv, SerialInd, PTL

(* "Daemon not running!" is true when stop() prints it.                     *)
THEOREM NotRunning ==
    ASSUME Discipline = "settled"
    PROVE  Spec => []NotRunningIsTrue
<1>1. IInv /\ (NoneLost => SInv) => NotRunningIsTrue
  <2> SUFFICES ASSUME IInv, SInv, NEW c \in Procs, NEW d \in Procs,
                      Foreground(c), pc[c] = "sread", pidfile = NoFile, Watching(d)
               PROVE  FALSE
    BY DEF NotRunningIsTrue
  <2>1. \E k \in Procs : Killing(k, d)
    BY FileAssumption
       DEF IInv, PhaseInv, SInv, ListedInv, Live, Settled, Watching, Alive,
           DaemonLabels, StartingLabels, EndLabels
  <2>2. QED
    BY <2>1 DEF Killing, SInv, SerialInv
<1>2. QED
  BY <1>1, IndInv, SerialInd, PTL

(* What a restart can find in the PID file: nothing once its stop() has     *)
(* looked, and an empty file only where its writer was killed.              *)
RestartInv ==
    /\ pidfile # Garbled
    /\ pidfile = Blank => \E d \in linked : pc[d] \in {"write", "crashed"}
    /\ \A c \in Procs :
          /\ pc[c] = "idle" => ret[c] = "exit"
          /\ pc[c] = "write" /\ c \in linked => pidfile = Blank
          /\ pc[c] = "check" /\ ret[c] = "start" => pidfile = NoFile
          /\ Foreground(c) /\ pc[c] \in {"skill", "fexists"} => pidfile = NoFile
          /\ Foreground(c) => pc[c] # "fremove"

(* stop() returns into start() only where the PID file is gone, and while a *)
(* command is under way no daemon is starting that would create it.         *)
LEMMA RestartStep ==
    ASSUME Discipline = "settled", IInv, SerialInv, RestartInv, [Next]_vars
    PROVE  RestartInv'
<1> USE FileAssumption
    DEF IInv, TypeOK, PhaseInv, Alive, Foreground, SerialInv, RestartInv,
        Labels, CommandLabels, StartingLabels, StopLabels, DaemonLabels,
        EndLabels, Goto, files, upgrade
<1>1. ASSUME NEW c \in Procs, LaunchStart(c) \/ LaunchStop(c) \/ LaunchRestart(c)
      PROVE  RestartInv'
  BY <1>1 DEF LaunchStart, LaunchStop, LaunchRestart
<1>2. ASSUME NEW c \in Procs, CheckPidfile(c) PROVE RestartInv'
  BY <1>2 DEF CheckPidfile, ExitLabel
<1>3. ASSUME NEW c \in Procs, Fork(c) PROVE RestartInv'
  BY <1>3 DEF Fork
<1>4. ASSUME NEW c \in Procs, OpenPidfile(c) \/ WritePidfile(c)
      PROVE  RestartInv'
  BY <1>4 DEF OpenPidfile, WritePidfile
<1>5. ASSUME NEW c \in Procs, Run(c) PROVE RestartInv'
  <2>1. CASE ParseInfo(c)
    BY <2>1 DEF ParseInfo, ExitLabel
  <2>2. CASE ConsumeInfo(c)
    BY <2>2 DEF ConsumeInfo, ExitLabel
  <2>3. CASE EndWatch(c)
    BY <2>3 DEF EndWatch, ExitLabel
  <2>4. CASE DelPid(c)
    BY <2>4 DEF DelPid, Unlink
  <2>5. QED
    BY <1>5, <2>1, <2>2, <2>3, <2>4 DEF Run
<1>6. ASSUME NEW c \in Procs, Stop(c) PROVE RestartInv'
  <2>1. CASE StopRead(c)
    BY <2>1 DEF StopRead, ExitLabel, AfterStop
  <2>2. CASE StopExists(c)
    BY <2>2 DEF StopExists
  <2>3. CASE StopRemove(c)
    BY <2>3 DEF StopRemove, ExitLabel, Unlink
  <2>4. CASE StopKill(c)
    <3>1. Settled(seen[c])
      BY <2>4 DEF StopKill, NamesInv, Settled
    <3>2. \A d \in Procs : pc[d] \in {"write", "crashed"} => pc'[d] = pc[d]
      BY <2>4, <3>1 DEF StopKill, Settled
    <3>3. UNCHANGED <<pidfile, linked, detached, ret>>
      BY <2>4 DEF StopKill
    <3>4. \A d \in Procs : pc'[d] \in {"idle", "write", "check"} => pc'[d] = pc[d]
      BY <2>4 DEF StopKill
    <3>5. ASSUME NEW d \in Procs, Foreground(d)'
          PROVE  pc'[d] # "fremove" /\ (pc'[d] \in {"skill", "fexists"} => pidfile = NoFile)
      BY <2>4, <3>3, <3>5 DEF StopKill
    <3>6. QED
      BY <3>2, <3>3, <3>4, <3>5
  <2>5. CASE StopFinalExists(c)
    BY <2>5 DEF StopFinalExists, ExitLabel, AfterStop
  <2>6. CASE StopFinalRemove(c)
    BY <2>6 DEF StopFinalRemove, ExitLabel, AfterStop, Unlink
  <2>7. QED
    BY <1>6, <2>1, <2>2, <2>3, <2>4, <2>5, <2>6 DEF Stop
<1>7. ASSUME NEW c \in Procs, Crash(c) PROVE RestartInv'
  BY <1>7 DEF Crash
<1>8. CASE InstallUpgrade \/ UNCHANGED vars
  BY <1>8 DEF InstallUpgrade, vars
<1>9. QED
  BY <1>1, <1>2, <1>3, <1>4, <1>5, <1>6, <1>7, <1>8 DEF Next, Start

(* restart is the remedy where a daemon was killed with SIGKILL, but for    *)
(* the daemon killed before it had written its id.                          *)
THEOREM RestartWorks ==
    ASSUME Discipline = "settled"
    PROVE  Spec => RestartFailsOnlyIf
<1> DEFINE Hindered ==
        \A c \in Procs :
          ret[c] = "start" /\ Foreground(c) /\ pc'[c] \in {"refused", "exited", "killed"} =>
              \/ pc[c] = "fork"
              \/ pc[c] = "sread" /\ HalfWritten
              \/ /\ pc[c] = "sremove" /\ pidfile = NoFile
                 /\ NoneLost => ~ Watching(seen[c])
<1>1. Init => RestartInv
  BY FileAssumption DEF Init, RestartInv, Foreground, Alive
<1>2. IInv /\ SerialInv /\ RestartInv /\ [Next]_vars => RestartInv'
  BY RestartStep
<1>3. IInv /\ SerialInv /\ (NoneLost => SInv) /\ RestartInv /\ [Next]_vars
         => [Hindered]_vars
  <2> SUFFICES ASSUME IInv, SerialInv, NoneLost => SInv, RestartInv, Next,
                      NEW c \in Procs, ret[c] = "start", Foreground(c),
                      pc'[c] \in {"refused", "exited", "killed"}, pc[c] # "fork"
               PROVE  \/ pc[c] = "sread" /\ HalfWritten
                      \/ /\ pc[c] = "sremove" /\ pidfile = NoFile
                         /\ NoneLost => ~ Watching(seen[c])
    BY Zenon
  <2>1. \/ pc[c] = "check" /\ pidfile # NoFile
        \/ pc[c] = "sread" /\ pidfile \in {Blank, Garbled}
        \/ pc[c] \in {"sremove", "fremove"} /\ pidfile = NoFile
    <3> USE DEF Goto, IInv, TypeOK, Foreground, Alive, EndLabels
    <3>1. CASE CheckPidfile(c)
      BY <3>1, FileAssumption DEF CheckPidfile
    <3>2. CASE Stop(c)
      <4>1. CASE StopRead(c)
        BY <4>1 DEF StopRead, AfterStop
      <4>2. CASE StopExists(c) \/ StopFinalExists(c)
        BY <4>2 DEF StopExists, StopFinalExists, AfterStop
      <4>3. CASE StopRemove(c) \/ StopFinalRemove(c)
        BY <4>3 DEF StopRemove, StopFinalRemove, AfterStop
      <4>4. CASE StopKill(c)
        <5>1. seen[c] # c
          BY <4>4 DEF StopKill, NamesInv, Settled
        <5>2. QED
          BY <4>4, <5>1 DEF StopKill
      <4>5. QED
        BY <3>2, <4>1, <4>2, <4>3, <4>4 DEF Stop
    <3>3. CASE \E k \in Procs \ {c} : StopKill(k)
      <4>1. PICK k \in Procs \ {c} : StopKill(k)
        BY <3>3
      <4>2. seen[k] # c
        BY <4>1 DEF StopKill, NamesInv, Settled
      <4>3. QED
        BY <4>1, <4>2 DEF StopKill
    <3>4. ASSUME NEW k \in Procs, ~ Stop(k), ~ CheckPidfile(c) PROVE
            ~ (Start(k) \/ Run(k) \/ Crash(k) \/ LaunchStart(k) \/ LaunchStop(k) \/ LaunchRestart(k))
      BY <3>4 DEF Start, CheckPidfile, Fork, OpenPidfile, WritePidfile, Run, ParseInfo,
             ConsumeInfo, EndWatch, DelPid, Crash, LaunchStart, LaunchStop, LaunchRestart,
             PhaseInv, StartingLabels, DaemonLabels
    <3>5. ASSUME NEW k \in Procs, k # c, Stop(k), ~ StopKill(k) PROVE FALSE
      BY <3>5 DEF Stop, StopRead, StopExists, StopRemove, StopFinalExists, StopFinalRemove
    <3>6. ~ InstallUpgrade
      BY DEF InstallUpgrade
    <3>7. QED
      BY <3>1, <3>2, <3>3, <3>4, <3>5, <3>6 DEF Next
  <2>2. CASE pc[c] = "sread" /\ pidfile \in {Blank, Garbled}
    <3>1. PICK d \in linked : pc[d] \in {"write", "crashed"}
      BY <2>1, <2>2, FileAssumption DEF RestartInv
    <3>2. pc[d] # "write"
      BY <3>1 DEF SerialInv, StartingLabels, IInv, TypeOK
    <3>3. QED
      BY <2>2, <3>1, <3>2 DEF HalfWritten, RestartInv
  <2>3. CASE pc[c] = "sremove" /\ pidfile = NoFile
    <3>1. ASSUME NoneLost, Watching(seen[c]) PROVE FALSE
      <4>1. seen[c] \in Procs /\ Live(seen[c])
        BY <2>3, <3>1 DEF IInv, NamesInv, StopLabels, Live, Settled, Watching, Alive,
                          EndLabels, StartingLabels
      <4>2. PICK k \in Procs : Killing(k, seen[c])
        BY <2>3, <3>1, <4>1, FileAssumption DEF SInv, ListedInv, Watching
      <4>3. QED
        BY <2>3, <4>2 DEF Killing, SerialInv
    <3>2. QED
      BY <2>3, <3>1
  <2>4. QED
    BY <2>1, <2>2, <2>3 DEF RestartInv
<1>4. QED
  BY <1>1, <1>2, <1>3, IndInv, SerialInd, PTL DEF Spec, RestartFailsOnlyIf

(* Only a stop or restart command kills a watching daemon: a daemon that    *)
(* winds up through stop() reads its own id from the PID file.              *)
THEOREM OperatorStops ==
    ASSUME Discipline = "settled"
    PROVE  Spec => OnlyOperatorStops
<1> DEFINE KilledByOperator ==
        \A d \in Procs : NoneLost /\ Watching(d) /\ pc'[d] = "killed" =>
            \E c \in Procs : Foreground(c) /\ pc[c] = "skill" /\ seen[c] = d
<1>1. IInv /\ (NoneLost => SInv) /\ [Next]_vars => [KilledByOperator]_vars
  <2> SUFFICES ASSUME IInv, SInv, Next, NEW d \in Procs, Watching(d), pc'[d] = "killed"
               PROVE  \E c \in Procs : Foreground(c) /\ pc[c] = "skill" /\ seen[c] = d
    OBVIOUS
  <2>1. PICK c \in Procs : StopKill(c) /\ seen[c] = d
    BY DEF Next, Start, Run, Stop, LaunchStart, LaunchStop, LaunchRestart,
           CheckPidfile, Fork, OpenPidfile, WritePidfile, ParseInfo, ConsumeInfo,
           EndWatch, DelPid, StopRead, StopExists, StopRemove, StopKill,
           StopFinalExists, StopFinalRemove, Crash, InstallUpgrade, Goto, ExitLabel,
           AfterStop, Watching, IInv, TypeOK
  <2>2. c \notin detached
    BY <2>1 DEF StopKill, Watching, SInv, FileInv, StopLabels
  <2>3. QED
    BY <2>1, <2>2 DEF StopKill, Foreground, Alive, EndLabels
<1>2. QED
  BY <1>1, IndInv, SerialInd, PTL DEF Spec, OnlyOperatorStops

=============================================================================
