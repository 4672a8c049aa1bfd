------------------------------ MODULE KernelLog ------------------------------
(***************************************************************************)
(* cLanguage/printArpKernelLog.c: once a second the kernel's ring buffer   *)
(* is taken down with dmesg, compared with the copy of an earlier round,   *)
(* and where they differ the difference is printed and the copy renewed.   *)
(* A line is named by its number; no two carry the same time stamp.        *)
(***************************************************************************)
EXTENDS Integers

CONSTANTS
    Ring,       (* lines the kernel keeps                                    *)
    MaxLines,   (* bound: lines the kernel ever logs                         *)
    MaxFails    (* bound: how often dmesg fails                              *)

ASSUME KernelLogAssumption == Ring \in Nat \ {0} /\ MaxLines \in Nat /\ MaxFails \in Nat

VARIABLES
    follow,     (* "idle", "dmesg" (asleep, then dmesg) or "compare"         *)
    logged,     (* lines logged so far: 1..logged                            *)
    first,      (* no round has made file_old yet                            *)
    fileNew,    (* lines in file_new                                         *)
    fileOld,    (* lines in file_old                                         *)
    shown,      (* lines diff has printed as being in file_new alone         *)
    initial,    (* history: the first file_old, never printed                *)
    taken,      (* history: lines dmesg has ever written                     *)
    fails       (* how often dmesg has failed                                *)

kernelVars == <<follow, logged, first, fileNew, fileOld, shown, initial, taken, fails>>

InRing == {l \in 1..logged : l > logged - Ring}

KernelInit ==
    /\ follow = "idle"
    /\ logged = 0
    /\ first = TRUE
    /\ fileNew = {} /\ fileOld = {}
    /\ shown = {} /\ initial = {} /\ taken = {}
    /\ fails = 0

StartFollowing ==
    /\ follow = "idle"
    /\ follow' = "dmesg"
    /\ UNCHANGED <<logged, first, fileNew, fileOld, shown, initial, taken, fails>>

(* The kernel logs a line, in the place of its oldest if there is no other. *)
LogLine ==
    /\ follow # "idle"
    /\ logged < MaxLines
    /\ logged' = logged + 1
    /\ UNCHANGED <<follow, first, fileNew, fileOld, shown, initial, taken, fails>>

(* After dmesg > file_new: the first round copies it and sleeps again.      *)
Snapshot(lines) ==
    /\ follow = "dmesg"
    /\ fileNew' = lines
    /\ taken' = taken \cup lines
    /\ first' = FALSE
    /\ IF first THEN fileOld' = lines /\ initial' = lines /\ UNCHANGED follow
                ELSE follow' = "compare" /\ UNCHANGED <<fileOld, initial>>
    /\ UNCHANGED <<logged, shown>>

Dmesg == Snapshot(InRing) /\ UNCHANGED fails

(* dmesg fails, and the shell has emptied file_new.                         *)
DmesgFails ==
    /\ fails < MaxFails
    /\ Snapshot({})
    /\ fails' = fails + 1

(* Mutant: the copy is made by another dmesg, not from file_new.            *)
CompareTwice ==
    /\ follow = "compare"
    /\ follow' = "dmesg"
    /\ shown' = shown \cup (fileNew \ fileOld)
    /\ fileOld' = IF fileNew = fileOld THEN fileOld ELSE InRing
    /\ UNCHANGED <<logged, first, fileNew, initial, taken, fails>>

(* Mutant: what compareFile returns is taken the other way round.           *)
CompareInverted ==
    /\ follow = "compare"
    /\ follow' = "dmesg"
    /\ IF fileNew # fileOld
          THEN UNCHANGED <<shown, fileOld>>
          ELSE shown' = shown \cup (fileNew \ fileOld) /\ fileOld' = fileNew
    /\ UNCHANGED <<logged, first, fileNew, initial, taken, fails>>

(* compareFile, diff and cp.                                                *)
Compare ==
    /\ follow = "compare"
    /\ follow' = "dmesg"
    /\ IF fileNew = fileOld
          THEN UNCHANGED <<shown, fileOld>>
          ELSE shown' = shown \cup (fileNew \ fileOld) /\ fileOld' = fileNew
    /\ UNCHANGED <<logged, first, fileNew, initial, taken, fails>>

KernelNext == StartFollowing \/ LogLine \/ Dmesg \/ DmesgFails \/ Compare

KernelSpec == KernelInit /\ [][KernelNext]_kernelVars

(* The loop goes on, and dmesg does not fail for ever.                      *)
KernelFairness == WF_kernelVars(Dmesg) /\ WF_kernelVars(Compare)

-----------------------------------------------------------------------------
(* Properties.                                                              *)

(* Between rounds every line dmesg ever wrote has been printed, or was in   *)
(* the very first copy: whatever is logged between dmesg, diff and cp, and  *)
(* whichever dmesg failed and left an empty file.                           *)
NoLineLost ==
    follow = "dmesg" => taken \subseteq shown \cup initial

(* A line the kernel holds is printed, or was in the first copy, unless the *)
(* kernel drops it before a dmesg has written it.                           *)
LinesReachReader ==
    \A l \in 1..MaxLines :
        (follow # "idle" /\ l \in InRing)
            ~> (l \in shown \cup initial \/ l \notin InRing \cup taken)

=============================================================================
