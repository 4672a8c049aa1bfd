---------------------------- MODULE UpgradeWatch ----------------------------
(***************************************************************************)
(* What UpgradeDaemon takes for granted of a daemon between reading its    *)
(* instructions and its end: it checks at most Budget times, and it ends,  *)
(* by returning into stop() or, if it had instructions, by an exception.   *)
(* UpgradeDiagnose, the watch in detail, is shown to implement this.       *)
(***************************************************************************)
EXTENDS Naturals

CONSTANT Budget     (* time_cnt: how many checks are made before giving up  *)

VARIABLES
    phase,      (* "watch": in _run; "sread": in stop(); "raised"            *)
    checksLeft,
    hasOrders   (* a diagnose file was read: member of UpgradeDaemon's armed *)

watchVars == <<phase, checksLeft, hasOrders>>

WatchInit ==
    /\ phase = "watch"
    /\ checksLeft = Budget
    /\ hasOrders \in BOOLEAN

CheckFailed ==
    /\ phase = "watch"
    /\ hasOrders
    /\ checksLeft > 0
    /\ checksLeft' = checksLeft - 1
    /\ UNCHANGED <<phase, hasOrders>>

WatchStops ==
    /\ phase = "watch"
    /\ phase' = "sread"
    /\ UNCHANGED <<checksLeft, hasOrders>>

WatchRaises ==
    /\ phase = "watch"
    /\ hasOrders
    /\ phase' = "raised"
    /\ UNCHANGED <<checksLeft, hasOrders>>

WatchNext == CheckFailed \/ WatchStops \/ WatchRaises

WatchSpec == WatchInit /\ [][WatchNext]_watchVars
FairWatchSpec == WatchSpec /\ WF_watchVars(WatchNext)

=============================================================================
