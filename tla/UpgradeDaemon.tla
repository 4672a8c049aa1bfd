--------------------------- MODULE UpgradeDaemon ---------------------------
(***************************************************************************)
(* The life cycle of the upgrade daemon of python/upgradeDaemon.py: the    *)
(* commands start, stop and restart, issued by several processes, and the  *)
(* daemons they leave behind, all of which share one PID file and one      *)
(* diagnose file.  What a daemon does between reading its instructions and *)
(* its end is the subject of module UpgradeDiagnose; here it is one label, *)
(* "watch", left by one action.                                            *)
(*                                                                         *)
(* A member of Procs is one invocation of the script.  The double fork     *)
(* gives the daemon a fresh process id; since only daemons write their id  *)
(* to the PID file, the invocation and its daemon are one member here.     *)
(* Every label is one system call on a shared file or process, so all      *)
(* interleavings of the calls are behaviours of the model.                 *)
(***************************************************************************)
EXTENDS Naturals, FiniteSets

CONSTANTS
    Procs,        (* invocations of the script, each with a process id        *)
    NoFile,       (* the PID file is absent                                   *)
    Blank,        (* the PID file is there and empty: int('') raises          *)
    Garbled,      (* bytes of two writers are mixed: int() raises             *)
    Discipline,   (* when a command may be issued, see MayLaunch              *)
    Faults,       (* who may be killed with SIGKILL: "daemon", "command"      *)
    MaxInstalls   (* bound: how often the upgrade tool writes its file        *)

ASSUME FileAssumption ==
    /\ NoFile \notin Procs /\ Blank \notin Procs /\ Garbled \notin Procs
    /\ NoFile # Blank /\ NoFile # Garbled /\ Blank # Garbled

ASSUME EnvironmentAssumption ==
    /\ Discipline \in {"any", "shell", "settled"}
    /\ Faults \subseteq {"daemon", "command"}
    /\ MaxInstalls \in Nat

ASSUME ProcsAssumption == IsFiniteSet(Procs)

VARIABLES
    pc,         (* the next system call of each process                       *)
    seen,       (* the local variable pid of stop()                           *)
    ret,        (* where stop() returns to                                    *)
    detached,   (* processes past _daemonize's forks: their exit runs delpid  *)
    pidfile,    (* /tmp/upgradeDaemon.pid                                     *)
    linked,     (* openers whose open file is still the one at that path      *)
    diag,       (* /home/admin/upgradeDiagnose.txt                            *)
    armed,      (* history: daemons that took instructions from that file     *)
    installs    (* history: how often that file was written                   *)

files == <<pidfile, linked>>
upgrade == <<diag, armed, installs>>
vars == <<pc, seen, ret, detached, pidfile, linked, diag, armed, installs>>

CommandLabels == {"check", "fork"}
StartingLabels == {"open", "write"}
StopLabels == {"sread", "sexists", "sremove", "skill", "fexists", "fremove"}
DaemonLabels == {"parse", "consume", "watch", "delpid"}
EndLabels == {"exited", "refused", "killed", "crashed", "cut"}
Labels == {"idle"} \cup CommandLabels \cup StartingLabels \cup StopLabels
            \cup DaemonLabels \cup EndLabels

Alive(c) == pc[c] \notin {"idle"} \cup EndLabels

(* The shell has its prompt back once the foreground process is gone,       *)
(* which is before the daemon has written its PID file.                     *)
Foreground(c) == Alive(c) /\ c \notin detached

Goto(c, label) == pc' = [pc EXCEPT ![c] = label]

(* sys.exit and an uncaught exception alike run the atexit handler, which   *)
(* only _daemonize registers.                                               *)
ExitLabel(c) == IF c \in detached THEN "delpid" ELSE "exited"

AfterStop(c) ==
    IF ret[c] = "start" THEN "check"
    ELSE IF ret[c] = "watch" THEN "watch"
    ELSE ExitLabel(c)

Unlink == pidfile' = NoFile /\ linked' = {}

-----------------------------------------------------------------------------
(* The operator's commands.  "any": at any time, from any number of shells. *)
(* "shell": from one shell, the next when the prompt is back.  "settled":   *)
(* moreover not before a daemon just started has written its PID file.      *)

MayLaunch ==
    /\ Discipline # "any" => \A d \in Procs : ~ Foreground(d)
    /\ Discipline = "settled" => \A d \in Procs : pc[d] \notin StartingLabels

LaunchStart(c) ==
    /\ pc[c] = "idle"
    /\ MayLaunch
    /\ Goto(c, "check")
    /\ UNCHANGED <<seen, ret, detached, files, upgrade>>

LaunchStop(c) ==
    /\ pc[c] = "idle"
    /\ MayLaunch
    /\ Goto(c, "sread")
    /\ UNCHANGED <<seen, ret, detached, files, upgrade>>

LaunchRestart(c) ==
    /\ pc[c] = "idle"
    /\ MayLaunch
    /\ Goto(c, "sread")
    /\ ret' = [ret EXCEPT ![c] = "start"]
    /\ UNCHANGED <<seen, detached, files, upgrade>>

-----------------------------------------------------------------------------
(* start() and _daemonize().                                                *)

(* Mutant: an id in the PID file is not refused.                            *)
CheckPidfileTrusting(c) ==
    /\ pc[c] = "check"
    /\ Goto(c, "fork")
    /\ UNCHANGED <<seen, ret, detached, files, upgrade>>

CheckPidfile(c) ==
    /\ pc[c] = "check"
    /\ \/ pidfile = NoFile /\ Goto(c, "fork")
       \/ pidfile \in {Blank, Garbled} /\ Goto(c, ExitLabel(c))
       \/ pidfile \in Procs /\ Goto(c, "refused")
    /\ UNCHANGED <<seen, ret, detached, files, upgrade>>

Fork(c) ==
    /\ pc[c] = "fork"
    /\ \/ /\ Goto(c, "open")
          /\ detached' = detached \cup {c}
       \/ /\ Goto(c, "exited")
          /\ UNCHANGED detached
    /\ UNCHANGED <<seen, ret, files, upgrade>>

OpenPidfile(c) ==
    /\ pc[c] = "open"
    /\ Goto(c, "write")
    /\ pidfile' = Blank
    /\ linked' = linked \cup {c}
    /\ UNCHANGED <<seen, ret, detached, upgrade>>

(* Mutant: the file is never closed, so the bytes stay in its buffer.       *)
WritePidfileBuffered(c) ==
    /\ pc[c] = "write"
    /\ Goto(c, "parse")
    /\ linked' = linked \ {c}
    /\ UNCHANGED <<seen, ret, detached, pidfile, upgrade>>

(* The bytes reach the file when it is closed.  They are lost if the file   *)
(* was removed meanwhile, and overwrite the head of what another process    *)
(* wrote to the same file after this one had emptied it.                    *)
WritePidfile(c) ==
    /\ pc[c] = "write"
    /\ Goto(c, "parse")
    /\ linked' = linked \ {c}
    /\ \/ c \notin linked /\ UNCHANGED pidfile
       \/ c \in linked /\ pidfile' = c
       \/ c \in linked /\ pidfile # Blank /\ pidfile' = Garbled
    /\ UNCHANGED <<seen, ret, detached, upgrade>>

-----------------------------------------------------------------------------
(* parse_info(), _run() and delpid().                                       *)

(* Without a diagnose file the daemon stops whatever the PID file names; a  *)
(* line without a colon raises before the file is removed.                  *)
ParseInfo(c) ==
    /\ pc[c] = "parse"
    /\ \/ diag = "none" /\ Goto(c, "sread") /\ ret' = [ret EXCEPT ![c] = "watch"]
       \/ diag = "good" /\ Goto(c, "consume") /\ UNCHANGED ret
       \/ diag = "bad" /\ Goto(c, ExitLabel(c)) /\ UNCHANGED ret
    /\ UNCHANGED <<seen, detached, files, upgrade>>

(* Mutant: that the file is gone already is passed over.                    *)
ConsumeInfoTolerant(c) ==
    /\ pc[c] = "consume"
    /\ diag' = "none"
    /\ armed' = armed \cup {c}
    /\ Goto(c, "watch")
    /\ UNCHANGED <<seen, ret, detached, files, installs>>

(* os.remove raises when another daemon has removed the file since.         *)
ConsumeInfo(c) ==
    /\ pc[c] = "consume"
    /\ \/ /\ diag # "none"
          /\ diag' = "none"
          /\ armed' = armed \cup {c}
          /\ Goto(c, "watch")
       \/ /\ diag = "none"
          /\ Goto(c, ExitLabel(c))
          /\ UNCHANGED <<diag, armed>>
    /\ UNCHANGED <<seen, ret, detached, files, installs>>

(* _run ends in stop().  A daemon without instructions has an empty         *)
(* upgradeType, for which handle_check returns True at once; a check or a   *)
(* rollback of one with instructions may raise.                             *)
EndWatch(c) ==
    /\ pc[c] = "watch"
    /\ \/ Goto(c, "sread") /\ ret' = [ret EXCEPT ![c] = "exit"]
       \/ c \in armed /\ Goto(c, ExitLabel(c)) /\ UNCHANGED ret
    /\ UNCHANGED <<seen, detached, files, upgrade>>

DelPid(c) ==
    /\ pc[c] = "delpid"
    /\ Goto(c, "exited")
    /\ Unlink
    /\ UNCHANGED <<seen, ret, detached, upgrade>>

-----------------------------------------------------------------------------
(* stop(), called by a stop or restart command or by a daemon.              *)

(* Mutant: what the file holds is taken for an id unseen.                   *)
StopReadUnparsed(c) ==
    /\ pc[c] = "sread"
    /\ IF pidfile = NoFile
       THEN Goto(c, AfterStop(c)) /\ UNCHANGED seen
       ELSE Goto(c, "sexists") /\ seen' = [seen EXCEPT ![c] = pidfile]
    /\ UNCHANGED <<ret, detached, files, upgrade>>

(* Mutant: a daemon that has died is not running, and that is all.          *)
StopReadAlive(c) ==
    /\ pc[c] = "sread"
    /\ \/ pidfile = NoFile /\ Goto(c, AfterStop(c)) /\ UNCHANGED seen
       \/ pidfile \in {Blank, Garbled} /\ Goto(c, ExitLabel(c)) /\ UNCHANGED seen
       \/ /\ pidfile \in Procs
          /\ Goto(c, IF Alive(pidfile) THEN "sexists" ELSE AfterStop(c))
          /\ seen' = [seen EXCEPT ![c] = pidfile]
    /\ UNCHANGED <<ret, detached, files, upgrade>>

StopRead(c) ==
    /\ pc[c] = "sread"
    /\ \/ pidfile = NoFile /\ Goto(c, AfterStop(c)) /\ UNCHANGED seen
       \/ pidfile \in {Blank, Garbled} /\ Goto(c, ExitLabel(c)) /\ UNCHANGED seen
       \/ /\ pidfile \in Procs
          /\ Goto(c, "sexists")
          /\ seen' = [seen EXCEPT ![c] = pidfile]
    /\ UNCHANGED <<ret, detached, files, upgrade>>

(* Mutant: the PID file is left for the daemon's own exit to remove.        *)
StopExistsSkips(c) ==
    /\ pc[c] = "sexists"
    /\ Goto(c, "skill")
    /\ UNCHANGED <<seen, ret, detached, files, upgrade>>

StopExists(c) ==
    /\ pc[c] = "sexists"
    /\ Goto(c, IF pidfile # NoFile THEN "sremove" ELSE "skill")
    /\ UNCHANGED <<seen, ret, detached, files, upgrade>>

(* Mutant: with the PID file gone the daemon is taken to be gone.           *)
StopRemoveOnly(c) ==
    /\ pc[c] = "sremove"
    /\ Goto(c, AfterStop(c))
    /\ Unlink
    /\ UNCHANGED <<seen, ret, detached, upgrade>>

(* os.remove of a file that has gone since raises an OSError other than     *)
(* 'No such process', hence sys.exit(1).                                    *)
StopRemove(c) ==
    /\ pc[c] = "sremove"
    /\ Goto(c, IF pidfile # NoFile THEN "skill" ELSE ExitLabel(c))
    /\ Unlink
    /\ UNCHANGED <<seen, ret, detached, upgrade>>

(* Mutant: the loop goes on when there is no such process.                  *)
StopKillForever(c) ==
    /\ pc[c] = "skill"
    /\ LET d == seen[c]
       IN  pc' = [pc EXCEPT ![d] = IF Alive(d) THEN "killed" ELSE @, ![c] = "sexists"]
    /\ UNCHANGED <<seen, ret, detached, files, upgrade>>

(* SIGTERM kills without running atexit handlers; the loop comes round      *)
(* until the kill fails with 'No such process'.                             *)
StopKill(c) ==
    /\ pc[c] = "skill"
    /\ LET d == seen[c]
       IN  \/ /\ Alive(d)
              /\ pc' = [pc EXCEPT ![c] = "sexists", ![d] = "killed"]
           \/ /\ ~ Alive(d)
              /\ Goto(c, "fexists")
    /\ UNCHANGED <<seen, ret, detached, files, upgrade>>

StopFinalExists(c) ==
    /\ pc[c] = "fexists"
    /\ Goto(c, IF pidfile # NoFile THEN "fremove" ELSE AfterStop(c))
    /\ UNCHANGED <<seen, ret, detached, files, upgrade>>

(* This os.remove stands in the except clause: its OSError is not caught.   *)
StopFinalRemove(c) ==
    /\ pc[c] = "fremove"
    /\ Goto(c, IF pidfile # NoFile THEN AfterStop(c) ELSE ExitLabel(c))
    /\ Unlink
    /\ UNCHANGED <<seen, ret, detached, upgrade>>

-----------------------------------------------------------------------------
(* The environment.                                                         *)

(* SIGKILL.  "cut" tells apart, for the properties, a stop or restart that  *)
(* had taken the name of a daemon from the PID file and not yet killed it.  *)
Crash(c) ==
    /\ Alive(c)
    /\ (IF c \in detached THEN "daemon" ELSE "command") \in Faults
    /\ Goto(c, IF Foreground(c) /\ pc[c] = "skill" /\ Alive(seen[c]) THEN "cut" ELSE "crashed")
    /\ UNCHANGED <<seen, ret, detached, files, upgrade>>

InstallUpgrade ==
    /\ installs < MaxInstalls
    /\ installs' = installs + 1
    /\ diag' \in {"good", "bad"}
    /\ UNCHANGED <<pc, seen, ret, detached, files, armed>>

Init ==
    /\ pc = [c \in Procs |-> "idle"]
    /\ seen = [c \in Procs |-> NoFile]
    /\ ret = [c \in Procs |-> "exit"]
    /\ detached = {}
    /\ pidfile = NoFile
    /\ linked = {}
    /\ diag = "none"
    /\ armed = {}
    /\ installs = 0

Start(c) == CheckPidfile(c) \/ Fork(c) \/ OpenPidfile(c) \/ WritePidfile(c)

Stop(c) ==
    \/ StopRead(c) \/ StopExists(c) \/ StopRemove(c)
    \/ StopKill(c) \/ StopFinalExists(c) \/ StopFinalRemove(c)

Run(c) == ParseInfo(c) \/ ConsumeInfo(c) \/ EndWatch(c) \/ DelPid(c)

Next ==
    \/ \E c \in Procs :
          \/ LaunchStart(c) \/ LaunchStop(c) \/ LaunchRestart(c)
          \/ Start(c) \/ Run(c) \/ Stop(c) \/ Crash(c)
    \/ InstallUpgrade

Spec == Init /\ [][Next]_vars

(* The scheduler runs every process that can take a step.  Nothing makes an *)
(* operator issue a command or an upgrade take place.                       *)
FairSpec == Spec /\ \A c \in Procs : WF_vars(Start(c) \/ Run(c) \/ Stop(c))

-----------------------------------------------------------------------------
(* Properties.                                                              *)

TypeOK ==
    /\ pc \in [Procs -> Labels]
    /\ seen \in [Procs -> Procs \cup {NoFile}]
    /\ ret \in [Procs -> {"exit", "start", "watch"}]
    /\ detached \subseteq Procs
    /\ pidfile \in Procs \cup {NoFile, Blank, Garbled}
    /\ linked \subseteq Procs
    /\ diag \in {"none", "good", "bad"}
    /\ armed \subseteq Procs
    /\ installs \in 0..MaxInstalls

(* However the commands interleave, the PID file never names a daemon that  *)
(* has gone, unless that daemon was killed with SIGKILL: stop() removes the *)
(* file before the kill and delpid removes it at exit, and no late write    *)
(* brings the name of a dead daemon back.                                   *)
PidfileNotStale ==
    \A d \in Procs : pidfile = d => Alive(d) \/ pc[d] = "crashed"

(* However many daemons are started, each file the upgrade tool wrote arms  *)
(* at most one of them: parse_info goes on only if its own os.remove took   *)
(* the file away.                                                           *)
NoDoubleWatch ==
    Cardinality(armed) + (IF diag = "none" THEN 0 ELSE 1) <= installs

(* A process issued or left behind by a command comes to an end: no wait in *)
(* start() or stop() is for something that never happens, even when several *)
(* processes stop each other.  (That a watch ends is shown for module       *)
(* UpgradeDiagnose.)                                                        *)
EveryProcessEnds == \A c \in Procs : Alive(c) ~> ~ Alive(c)

(* At most so many system calls are still to make at a label: within stop() *)
(* those up to its return, those of another round of its loop, and those of *)
(* the place it returns to.                                                 *)
Calls(label, place, round) ==
    LET elsewhere == [check |-> 25, fork |-> 24, open |-> 23, write |-> 22, parse |-> 21,
                      consume |-> 12, watch |-> 11, delpid |-> 1]
        inStop == [sread |-> 9, sexists |-> 5, sremove |-> 4, skill |-> 3,
                   fexists |-> 2, fremove |-> 1]
        returned == [start |-> 25, watch |-> 11, exit |-> 1]
    IN  IF label \in DaemonLabels \cup StartingLabels \cup CommandLabels THEN elsewhere[label]
        ELSE IF label \in {"sexists", "sremove", "skill"}
             THEN inStop[label] + round + returned[place]
        ELSE IF label \in StopLabels THEN inStop[label] + returned[place]
        ELSE 0

(* stop() goes round its loop once more after a kill that succeeds.         *)
Round(c) == IF seen[c] \in Procs /\ Alive(seen[c]) THEN 3 ELSE 0

CallsLeft(c) == Calls(pc[c], ret[c], Round(c))

(* Why a process comes to its end: each system call it makes leaves it with *)
(* fewer to make, and nothing that other processes do gives it more.  In    *)
(* particular no two processes can keep each other's stop() going.          *)
EachCallCounts ==
    [][\A c \in Procs : pc[c] # "idle" =>
          \/ CallsLeft(c)' < CallsLeft(c)
          \/ pc'[c] = pc[c] /\ CallsLeft(c)' <= CallsLeft(c)]_vars

Watching(d) == pc[d] \in {"parse", "consume", "watch"}

(* A daemon is lost to the operator in one way only: the command that was   *)
(* to kill it is killed itself when the PID file is already gone.           *)
NoneLost == \A c \in Procs : pc[c] # "cut"

(* start() refuses when the PID file exists "to detect the presence of a    *)
(* process": at most one daemon reads instructions or watches, whichever    *)
(* processes are killed with SIGKILL, as long as none is lost.              *)
OneWatcher ==
    NoneLost => \A c, d \in Procs : Watching(c) /\ Watching(d) => c = d

(* A daemon that watches can be found and stopped: the PID file names it,   *)
(* or a stop command that read its name is about to kill it.                *)
WatcherListed ==
    NoneLost => \A d \in Procs : Watching(d) =>
        \/ pidfile = d
        \/ \E c \in Procs : Foreground(c) /\ pc[c] = "skill" /\ seen[c] = d

(* When a stop command finds no PID file and reports "Daemon not running!", *)
(* no daemon watches.                                                       *)
NotRunningIsTrue ==
    \A c \in Procs : NoneLost /\ Foreground(c) /\ pc[c] = "sread" /\ pidfile = NoFile =>
        \A d \in Procs : ~ Watching(d)

(* A daemon was killed with SIGKILL between the open and the write of its   *)
(* PID file, which is still there and empty.                                *)
HalfWritten == pidfile = Blank /\ \E d \in linked : pc[d] = "crashed"

(* A PID file that a daemon killed with SIGKILL has left behind stands in   *)
(* the way of start, which refuses although nothing runs.  restart gets     *)
(* past it: the command gives up in three cases only.  The fork fails; the  *)
(* PID file was left empty, for then int('') raises a ValueError, in this   *)
(* restart and in every later one; or the daemon it was to stop winds up    *)
(* and removes the file first (some daemon does, where one is lost).        *)
RestartFailsOnlyIf ==
    [][\A c \in Procs :
          ret[c] = "start" /\ Foreground(c) /\ pc'[c] \in {"refused", "exited", "killed"} =>
              \/ pc[c] = "fork"
              \/ pc[c] = "sread" /\ HalfWritten
              \/ /\ pc[c] = "sremove" /\ pidfile = NoFile
                 /\ NoneLost => ~ Watching(seen[c])]_vars

(* A watching daemon is only ever killed by an operator's stop or restart,  *)
(* never by another daemon that winds up and trusts the shared PID file.    *)
OnlyOperatorStops ==
    [][\A d \in Procs : NoneLost /\ Watching(d) /\ pc'[d] = "killed" =>
          \E c \in Procs : Foreground(c) /\ pc[c] = "skill" /\ seen[c] = d]_vars

=============================================================================
