------------------------------ MODULE MCTools ------------------------------
(* Instances for TLC of the programs that run to their end by themselves:   *)
(* from a state where none has been started, any one of them is, and the    *)
(* others stay as they are.                                                 *)
EXTENDS DownloadFile, FtpDownload, FtpUpload, KernelLog, SendArp, SystemTime

allVars == <<downloadVars, getVars, putVars, kernelVars, arpVars, timeVars>>

(* Each byte of a text is its own letter or a NUL.                          *)
SomeTexts ==
    UNION {{t \in [1..n -> {"a", "b", "c", NUL}] :
               \A i \in 1..n : t[i] \in {<<"a", "b", "c">>[i], NUL}} : n \in 0..3}

SomeRemotes == {Absent, <<>>, <<"a">>, <<"z">>, <<"a", "b">>}

Resting ==
    [download |-> stage = "idle", get |-> getStep = "idle", put |-> putStep = "idle",
     kernel |-> follow = "idle", arp |-> sender = "idle", time |-> date = Nothing]

Alone(tool) == \A t \in DOMAIN Resting \ {tool} : Resting[t]

Init ==
    DownloadInit /\ GetInit /\ PutInit /\ KernelInit /\ ArpInit /\ TimeInit

Next ==
    \/ /\ Alone("download") /\ DownloadNext
       /\ UNCHANGED <<getVars, putVars, kernelVars, arpVars, timeVars>>
    \/ /\ Alone("get") /\ GetNext
       /\ UNCHANGED <<downloadVars, putVars, kernelVars, arpVars, timeVars>>
    \/ /\ Alone("put") /\ PutNext
       /\ UNCHANGED <<downloadVars, getVars, kernelVars, arpVars, timeVars>>
    \/ /\ Alone("kernel") /\ KernelNext
       /\ UNCHANGED <<downloadVars, getVars, putVars, arpVars, timeVars>>
    \/ /\ Alone("arp") /\ ArpNext
       /\ UNCHANGED <<downloadVars, getVars, putVars, kernelVars, timeVars>>
    \/ /\ Alone("time") /\ TimeNext
       /\ UNCHANGED <<downloadVars, getVars, putVars, kernelVars, arpVars>>

Spec == Init /\ [][Next]_allVars

(* The fairness of each program, which does not ask for its start.          *)
FairSpec == Spec /\ KernelFairness /\ ArpFairness

=============================================================================
