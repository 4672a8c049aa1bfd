------------------------------- MODULE SendArp -------------------------------
(***************************************************************************)
(* cLanguage/send_arp.c: the main thread starts the receiving thread,      *)
(* sends the request at once and then spins for ever; the receiving thread *)
(* opens a socket for ARP frames and ends the process at the first frame   *)
(* that arrives there, whatever it is.  An error of recvfrom ends it too:  *)
(* the length is kept in an unsigned socklen_t, so -1 is not <= 0.  (Only  *)
(* a length of 0 would end the thread alone, and an ARP frame has one of   *)
(* at least its header.)  Nothing makes the main thread wait for the       *)
(* socket.                                                                 *)
(***************************************************************************)
EXTENDS Naturals, Sequences

CONSTANT MaxOthers      (* bound: ARP frames of other hosts                  *)

ASSUME SendArpAssumption == MaxOthers \in Nat

VARIABLES
    sender,     (* the main thread: "idle", "create", "request", "spin", or  *)
                (* "exited", the whole process                               *)
    receiver,   (* the thread: "none", "socket", "recv", or "broken" when    *)
                (* there is no socket to receive from                        *)
    frames,     (* ARP frames that wait at its socket                        *)
    asked,      (* the request is on the wire                                *)
    answered,   (* the reply to it has come                                  *)
    early,      (* history: it came while the thread had no socket           *)
    others      (* frames of other hosts so far                              *)

arpVars == <<sender, receiver, frames, asked, answered, early, others>>

Running == sender \notin {"idle", "exited"}

ArpInit ==
    /\ sender = "idle" /\ receiver = "none"
    /\ frames = <<>>
    /\ asked = FALSE /\ answered = FALSE /\ early = FALSE
    /\ others = 0

StartArp ==
    /\ sender = "idle"
    /\ sender' = "create"
    /\ UNCHANGED <<receiver, frames, asked, answered, early, others>>

(* arp_scaner_init up to pthread_create, whose failure is not looked at.    *)
CreateThread ==
    /\ sender = "create"
    /\ sender' = "request"
    /\ receiver' \in {"socket", "none"}
    /\ UNCHANGED <<frames, asked, answered, early, others>>

(* send_arp, which may fail unnoticed, and main's empty loop.               *)
SendRequest ==
    /\ sender = "request"
    /\ sender' = "spin"
    /\ asked' \in BOOLEAN
    /\ UNCHANGED <<receiver, frames, answered, early, others>>

(* The thread's socket; that it failed is not looked at.                    *)
OpenSocket ==
    /\ Running
    /\ receiver = "socket"
    /\ receiver' \in {"recv", "broken"}
    /\ UNCHANGED <<sender, frames, asked, answered, early, others>>

(* Mutant: the frame is printed and the thread goes on to the next.         *)
ReceiveAndGoOn ==
    /\ Running
    /\ receiver = "recv"
    /\ frames # <<>>
    /\ frames' = Tail(frames)
    /\ UNCHANGED <<sender, receiver, asked, answered, early, others>>

ReceiveFrame ==
    /\ Running
    /\ receiver = "recv"
    /\ frames # <<>>
    /\ frames' = Tail(frames)
    /\ sender' = "exited"
    /\ UNCHANGED <<receiver, asked, answered, early, others>>

(* Mutant: with a signed length the error is seen, and the thread is left.  *)
ErrorEndsThread ==
    /\ Running
    /\ receiver \in {"recv", "broken"}
    /\ receiver' = "over"
    /\ UNCHANGED <<sender, frames, asked, answered, early, others>>

(* recvfrom returns -1, which passes for a length: zeros are printed, and   *)
(* the process ends as after a frame.                                       *)
ReceiveFails ==
    /\ Running
    /\ receiver \in {"recv", "broken"}
    /\ sender' = "exited"
    /\ UNCHANGED <<receiver, frames, asked, answered, early, others>>

(* A frame comes in; a socket that is not open yet does not keep it.        *)
Deliver(frame) ==
    frames' = IF receiver = "recv" THEN Append(frames, frame) ELSE frames

TargetReplies ==
    /\ Running
    /\ asked /\ ~answered
    /\ answered' = TRUE
    /\ early' = (receiver # "recv")
    /\ Deliver("reply")
    /\ UNCHANGED <<sender, receiver, asked, others>>

OtherFrame ==
    /\ Running
    /\ others < MaxOthers
    /\ others' = others + 1
    /\ Deliver("other")
    /\ UNCHANGED <<sender, receiver, asked, answered, early>>

ArpNext ==
    \/ StartArp \/ CreateThread \/ SendRequest
    \/ OpenSocket \/ ReceiveFrame \/ ReceiveFails
    \/ TargetReplies \/ OtherFrame

ArpSpec == ArpInit /\ [][ArpNext]_arpVars

(* Both threads are scheduled, and recvfrom returns when a frame waits or   *)
(* there is no socket.                                                      *)
ArpFairness ==
    /\ WF_arpVars(CreateThread) /\ WF_arpVars(SendRequest)
    /\ WF_arpVars(OpenSocket) /\ WF_arpVars(ReceiveFrame)
    /\ WF_arpVars(receiver = "broken" /\ ReceiveFails)

-----------------------------------------------------------------------------
(* Properties.                                                              *)

(* A reply that finds the receiving thread at its socket is never left to   *)
(* nobody: a frame waits there for a thread that will take it, or the       *)
(* program has ended.  No failure of recvfrom can leave it behind.          *)
ReplyWaits ==
    answered /\ ~early =>
        \/ sender = "exited"
        \/ receiver = "recv" /\ frames # <<>>

(* A reply ends the program unless it came before the receiving thread had  *)
(* its socket, and so does the lack of a socket; a reply that was early     *)
(* leaves the program to wait for some other frame.                         *)
ReplyEndsIt ==
    ((answered /\ ~early) \/ receiver = "broken") ~> sender = "exited"

=============================================================================
