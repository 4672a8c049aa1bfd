-------------------------- MODULE FtpSessionProofs --------------------------
(***************************************************************************)
(* Theorems about FtpSession for any set of operations and any number of   *)
(* calls: its types, that descriptors are lost by failed operations only,  *)
(* and that with a prompt server an operation judges its command by its    *)
(* reply.                                                                  *)
(***************************************************************************)
EXTENDS FtpSession, TLAPS

-----------------------------------------------------------------------------
(* The inductive invariant.                                                 *)

OneCommand == Simple \cup {"USER", "PASS"}

(* Types, and what is counted.                                              *)
BaseInv ==
    /\ pc \in Places
    /\ op \in Operations \cup {"none"}
    /\ sock \in {"fresh", "connected", "closed"}
    /\ speed \in Speeds
    /\ peer \in {"open", "closed", "reset"}
    /\ sent \in Nat
    /\ leaked \in Nat
    /\ failures \in Nat
    /\ calls \in 0..MaxCalls
    /\ leaked <= 2 * failures
    /\ failures + (IF pc = "idle" THEN 0 ELSE 1) <= calls

FlagInv ==
    /\ loginFlag \in BOOLEAN
    /\ dataOpen \in BOOLEAN
    /\ chatter \in BOOLEAN
    /\ authed \in BOOLEAN
    /\ astray \in BOOLEAN
    /\ result \in BOOLEAN

(* Which commands an operation has still to deal with at each of its steps. *)
PlaceInv ==
    /\ pc = "connect" => op = "login" /\ script = <<"HELLO">>
    /\ pc = "open" =>
          \/ op = "dir" /\ script = <<"PASV", "LIST">>
          \/ op = "get" /\ script = <<"PASV", "REST", "RETR">>
          \/ op = "put" /\ script = <<"PASV", "STOR", "DONE">>
    /\ pc \in {"send", "reply", "eval"} =>
          \/ op \in OneCommand /\ script = <<op>>
          \/ op = "rename" /\ script = <<"RNFR", "RNTO">>
          \/ op = "rename" /\ script = <<"RNTO">>
          \/ op = "size" /\ script = <<"SIZE">>
          \/ op = "dir" /\ script = <<"PASV", "LIST">>
          \/ op = "dir" /\ script = <<"LIST">>
          \/ op = "get" /\ script = <<"SIZE", "PASV", "REST", "RETR">>
          \/ op = "get" /\ script = <<"PASV", "REST", "RETR">>
          \/ op = "get" /\ script = <<"REST", "RETR">> /\ pc = "send"
          \/ op = "get" /\ script = <<"RETR">> /\ pc = "send"
          \/ op = "put" /\ script = <<"SIZE", "PASV", "STOR", "DONE">>
          \/ op = "put" /\ script = <<"PASV", "STOR", "DONE">>
          \/ op = "put" /\ script = <<"STOR", "DONE">>
          \/ op = "put" /\ script = <<"DONE">> /\ pc # "send"
          \/ op = "login" /\ script = <<"HELLO">> /\ pc # "send"
    /\ pc = "data" =>
          \/ op = "get" /\ script = <<>>
          \/ op = "put" /\ script = <<"DONE">>

(* A data socket is open from its creation in Dir, Put or downLoad until    *)
(* one of them closes or loses it.                                          *)
DataInv ==
    dataOpen = TRUE =>
        \/ pc \in {"data", "looping", "killed"}
        \/ /\ pc \in {"send", "reply", "eval"}
           /\ op \in {"dir", "get", "put"}
           /\ Command \notin {"SIZE", "DONE"}

(* A call sends four commands at most.                                      *)
Unsent ==
    IF pc \in {"connect", "open", "send", "data"} THEN Len(script)
    ELSE IF pc \in {"reply", "eval"} THEN Len(script) - 1
    ELSE 0

RoomInv ==
    /\ sent + Unsent <= 2 + 4 * calls
    /\ sock = "fresh" => sent = 0

(* What is on the wire, and numbers of commands.                            *)
QueueNames == Simple \cup {"HELLO", "USER", "PASS", "RNFR", "RNTO", "SIZE", "PASV", "LIST",
                           "REST", "RETR", "STOR", "QUIT", "SENDING", "STORING"}

Queues(k) == Seq([cmd : QueueNames, n : 0..k])
Inboxes(k) == Seq([kind : ReplyKinds, n : 0..k])

WireInv ==
    /\ queue \in Queues(sent)
    /\ inbox \in Inboxes(sent)
    /\ text \in Inboxes(sent)
    /\ passive \in 0..sent
    /\ obeyed \in 0..sent

(* What is under way between client and server belongs to the last command: *)
(* the replies in s carry its number k, and the queue q holds one item at   *)
(* most, that command or the transfer it began.                             *)
Own(s, k) == \A i \in 1..Len(s) : s[i].n = k
Outstanding(q, names, k) == q = <<>> \/ \E c \in names : q = <<[cmd |-> c, n |-> k]>>

(* Names under which a command may be in the server's queue while its reply *)
(* is awaited, and when a prompt server has been quiet for a second.        *)
Expected(c) ==
    IF c = "DONE" THEN {"STORING"}
    ELSE IF c = "STOR" THEN {"STOR", "STORING"}
    ELSE IF c = "LIST" THEN {"LIST", "SENDING"}
    ELSE {c}

Lasting(c) ==
    IF c = "STOR" THEN {"STORING"}
    ELSE IF c = "LIST" THEN {"SENDING"}
    ELSE {}

(* A reply is owed: the server still has the command.  None is owed to a    *)
(* login on an old connection, at the end of a Put whose STOR was refused,  *)
(* or by a server that has hung up.                                         *)
Owing == Command # "DONE" /\ op # "login" /\ peer = "open"

Paired ==
    /\ pc \in {"idle", "connect", "open", "send"} => queue = <<>> /\ inbox = <<>>
    /\ pc = "send" => Command # "RETR"
    /\ pc = "data" => op = "put" /\ Outstanding(queue, {"STORING"}, sent) /\ Own(inbox, sent)
    /\ pc = "reply" =>
          /\ Own(text, sent) /\ Own(inbox, sent)
          /\ Outstanding(queue, Expected(Command), sent)
          /\ Owing => \/ text # <<>>
                      \/ inbox # <<>>
                      \/ queue = <<[cmd |-> Command, n |-> sent]>>
          /\ Command = "DONE" => dataOpen = FALSE
    /\ pc = "eval" =>
          /\ Own(text, sent) /\ Own(inbox, sent)
          /\ Outstanding(queue, Lasting(Command), sent)
          /\ Command \notin {"LIST", "STOR"} => inbox = <<>>
          /\ Owing => text # <<>>

PairInv == speed = "prompt" /\ astray = FALSE => Paired

SessionInv == BaseInv /\ FlagInv /\ PlaceInv /\ DataInv /\ RoomInv /\ WireInv /\ PairInv

-----------------------------------------------------------------------------
(* No step breaks it.                                                       *)

LEMMA BaseStep == ASSUME BaseInv, [Next]_vars PROVE BaseInv'
<1> USE SessionAssumption DEF BaseInv, Places, Operations, data, server, Return, Continue, Lose
<1>0. Sockets \in {0, 1} /\ Files \in {0, 1}
  BY DEF Sockets, Files
<1>1. CASE Call
  BY <1>1 DEF Call
<1>2. CASE ConnectServer
  BY <1>2 DEF ConnectServer
<1>3. CASE OpenData
  BY <1>0, <1>3 DEF OpenData
<1>4. CASE SendFails
  BY <1>0, <1>4 DEF SendFails
<1>5. CASE SendKills
  BY <1>5 DEF SendKills
<1>6. CASE Send
  BY <1>6 DEF Send, SendCommand
<1>7. CASE Receive
  BY <1>7 DEF Receive
<1>8. CASE Silence
  BY <1>8 DEF Silence
<1>9. CASE EvalLast
  BY <1>9 DEF EvalLast
<1>10. CASE EvalRename
  BY <1>10 DEF EvalRename
<1>11. CASE EvalLength
  BY <1>11 DEF EvalLength
<1>12. CASE EvalPort
  BY <1>0, <1>12 DEF EvalPort
<1>13. CASE EvalList
  BY <1>13 DEF EvalList
<1>14. CASE EvalStore
  BY <1>14 DEF EvalStore
<1>15. CASE Download
  BY <1>0, <1>15 DEF Download
<1>16. CASE Upload
  BY <1>0, <1>16 DEF Upload
<1>17. CASE Answer
  BY <1>17 DEF Answer
<1>18. CASE HangUp
  BY <1>18 DEF HangUp
<1>d. CASE Destroy
  BY <1>d DEF Destroy
<1>e. CASE LoopEnds
  BY <1>0, <1>e DEF LoopEnds
<1>f. CASE Chatter
  BY <1>f DEF Chatter
<1>19. CASE UNCHANGED vars
  BY <1>19 DEF vars
<1>20. QED
  BY <1>1, <1>2, <1>3, <1>4, <1>5, <1>6, <1>7, <1>8, <1>9, <1>10, <1>11, <1>12, <1>13, <1>14, <1>15, <1>16, <1>17, <1>18, <1>d, <1>e, <1>f, <1>19
     DEF Next, Client

LEMMA FlagStep == ASSUME FlagInv, [Next]_vars PROVE FlagInv'
<1> USE DEF FlagInv, data, server, Return, Continue, Lose
<1>1. CASE Call
  BY <1>1, Zenon DEF Call
<1>2. CASE ConnectServer
  BY <1>2, Zenon DEF ConnectServer
<1>3. CASE OpenData
  BY <1>3, Zenon DEF OpenData
<1>4. CASE SendFails
  BY <1>4, Zenon DEF SendFails
<1>5. CASE SendKills
  BY <1>5, Zenon DEF SendKills
<1>6. CASE Send
  BY <1>6, Zenon DEF Send, SendCommand
<1>7. CASE Receive
  BY <1>7, Zenon DEF Receive
<1>8. CASE Silence
  BY <1>8, Zenon DEF Silence
<1>9. CASE EvalLast
  <2>1. CASE Command = "SIZE"
    BY <1>9, <2>1, Zenon DEF EvalLast, Found
  <2>2. CASE Command = "DONE"
    BY <1>9, <2>2, Zenon DEF EvalLast
  <2>3. CASE Command \notin {"SIZE", "DONE"}
    BY <1>9, <2>3, Zenon DEF EvalLast
  <2>4. QED
    BY <2>1, <2>2, <2>3
<1>10. CASE EvalRename
  BY <1>10, Zenon DEF EvalRename
<1>11. CASE EvalLength
  BY <1>11, Zenon DEF EvalLength
<1>12. CASE EvalPort
  BY <1>12, Zenon DEF EvalPort
<1>13. CASE EvalList
  BY <1>13, Zenon DEF EvalList
<1>14. CASE EvalStore
  BY <1>14, Zenon DEF EvalStore
<1>15. CASE Download
  BY <1>15, Zenon DEF Download
<1>16. CASE Upload
  BY <1>16, Zenon DEF Upload
<1>17. CASE Answer
  BY <1>17, Zenon DEF Answer
<1>18. CASE HangUp
  BY <1>18, Zenon DEF HangUp
<1>d. CASE Destroy
  BY <1>d, Zenon DEF Destroy
<1>e. CASE LoopEnds
  BY <1>e, Zenon DEF LoopEnds
<1>f. CASE Chatter
  BY <1>f, Zenon DEF Chatter
<1>19. CASE UNCHANGED vars
  BY <1>19, Zenon DEF vars
<1>20. QED
  BY <1>1, <1>2, <1>3, <1>4, <1>5, <1>6, <1>7, <1>8, <1>9, <1>10, <1>11, <1>12, <1>13, <1>14, <1>15, <1>16, <1>17, <1>18, <1>d, <1>e, <1>f, <1>19
     DEF Next, Client

(* What follows a command depends on the operation alone.                   *)
LEMMA NextCommands ==
    ASSUME BaseInv, PlaceInv, pc \in {"send", "reply", "eval"}
    PROVE  /\ Len(script) \in 1..4
           /\ Len(Tail(script)) = Len(script) - 1
           /\ Command \in (QueueNames \ {"SENDING", "STORING"}) \cup {"DONE"}
           /\ Command = "RNFR" => op = "rename" /\ Tail(script) = <<"RNTO">>
           /\ Command = "SIZE" =>
                 \/ op = "size" /\ Len(script) = 1
                 \/ op = "get" /\ Tail(script) = <<"PASV", "REST", "RETR">>
                 \/ op = "put" /\ Tail(script) = <<"PASV", "STOR", "DONE">>
           /\ Command = "PASV" =>
                 \/ Len(script) = 1
                 \/ op = "dir" /\ Tail(script) = <<"LIST">>
                 \/ op = "get" /\ Tail(script) = <<"REST", "RETR">>
                 \/ op = "put" /\ Tail(script) = <<"STOR", "DONE">>
           /\ Command = "STOR" => op = "put" /\ Tail(script) = <<"DONE">>
           /\ Command = "REST" => op = "get" /\ Tail(script) = <<"RETR">> /\ pc = "send"
           /\ Command = "RETR" => op = "get" /\ Tail(script) = <<>> /\ pc = "send"
           /\ Command = "DONE" => op = "put" /\ script = <<"DONE">> /\ pc # "send"
           /\ Command = "HELLO" => op = "login" /\ pc # "send"
           /\ op = "login" => Command = "HELLO"
<1> USE SessionAssumption DEF Command
<1>1. CASE op \in OneCommand /\ script = <<op>>
  BY <1>1 DEF OneCommand, QueueNames
<1>2. CASE op = "login" /\ script = <<"HELLO">> /\ pc # "send"
  BY <1>2 DEF QueueNames
<1>3. CASE op = "rename" /\ script = <<"RNFR", "RNTO">>
  BY <1>3 DEF QueueNames
<1>r. CASE op = "rename" /\ script = <<"RNTO">>
  BY <1>r DEF QueueNames
<1>4. CASE op = "size" /\ script = <<"SIZE">>
  BY <1>4 DEF QueueNames
<1>5. CASE op = "dir" /\ script = <<"PASV", "LIST">>
  BY <1>5 DEF QueueNames
<1>l. CASE op = "dir" /\ script = <<"LIST">>
  BY <1>l DEF QueueNames
<1>6. CASE op = "get" /\ script = <<"SIZE", "PASV", "REST", "RETR">>
  BY <1>6 DEF QueueNames
<1>7. CASE op = "get" /\ script = <<"PASV", "REST", "RETR">>
  BY <1>7 DEF QueueNames
<1>8. CASE op = "get" /\ script = <<"REST", "RETR">> /\ pc = "send"
  BY <1>8 DEF QueueNames
<1>9. CASE op = "get" /\ script = <<"RETR">> /\ pc = "send"
  BY <1>9 DEF QueueNames
<1>10. CASE op = "put" /\ script = <<"SIZE", "PASV", "STOR", "DONE">>
  BY <1>10 DEF QueueNames
<1>11. CASE op = "put" /\ script = <<"PASV", "STOR", "DONE">>
  BY <1>11 DEF QueueNames
<1>12. CASE op = "put" /\ script = <<"STOR", "DONE">>
  BY <1>12 DEF QueueNames
<1>13. CASE op = "put" /\ script = <<"DONE">> /\ pc # "send"
  BY <1>13 DEF QueueNames
<1>14. QED
  BY <1>1, <1>2, <1>3, <1>r, <1>4, <1>5, <1>l, <1>6, <1>7, <1>8, <1>9, <1>10, <1>11, <1>12, <1>13
     DEF PlaceInv

LEMMA PlaceStep == ASSUME BaseInv, PlaceInv, [Next]_vars PROVE PlaceInv'
<1> USE SessionAssumption
    DEF BaseInv, PlaceInv, OneCommand, Operations, data, server, Return, Continue,
        Lose
<1>1. CASE Call
  <2>1. PICK o \in Operations : op' = o /\ script' = Script(o)
    BY <1>1 DEF Call
  <2>2. pc' = IF o = "login" THEN "connect" ELSE IF o = "dir" THEN "open" ELSE "send"
    BY <1>1, <2>1 DEF Call
  <2>3. CASE o \in OneCommand
    BY <2>1, <2>2, <2>3, Zenon DEF Script
  <2>4. QED
    BY <2>1, <2>2, <2>3 DEF Script
<1>2. CASE ConnectServer
  BY <1>2 DEF ConnectServer
<1>3. CASE OpenData
  BY <1>3 DEF OpenData
<1>4. CASE SendFails
  <2>1. CASE pc' = "idle"
    BY <2>1
  <2>2. CASE pc' # "idle"
    <3>1. /\ pc = "send" /\ op = "put" /\ Command = "SIZE" /\ pc' = "open"
          /\ op' = op /\ script' = Tail(script)
      BY <1>4, <2>2 DEF SendFails
    <3>2. Tail(script) = <<"PASV", "STOR", "DONE">>
      BY <3>1, NextCommands
    <3>3. QED
      BY <3>1, <3>2
  <2>3. QED
    BY <2>1, <2>2
<1>5. CASE SendKills
  BY <1>5 DEF SendKills
<1>6. CASE Send
  <2>1. CASE Command = "REST"
    BY <1>6, <2>1, NextCommands DEF Send, SendCommand
  <2>2. CASE Command = "RETR"
    BY <1>6, <2>2, NextCommands DEF Send, SendCommand
  <2>3. CASE Command \notin {"REST", "RETR"}
    <3>1. pc = "send" /\ pc' = "reply" /\ script' = script /\ op' = op
      BY <1>6, <2>3 DEF Send, SendCommand
    <3>2. script # <<"REST", "RETR">> /\ script # <<"RETR">>
      BY <2>3 DEF Command
    <3>3. QED
      BY <3>1, <3>2
  <2>4. QED
    BY <2>1, <2>2, <2>3
<1>7. CASE Receive
  BY <1>7 DEF Receive
<1>8. CASE Silence
  BY <1>8 DEF Silence
<1>9. CASE EvalLast
  BY <1>9 DEF EvalLast
<1>10. CASE EvalRename
  BY <1>10, NextCommands DEF EvalRename
<1>11. CASE EvalLength
  BY <1>11, NextCommands DEF EvalLength
<1>12. CASE EvalPort
  BY <1>12, NextCommands DEF EvalPort
<1>13. CASE EvalList
  BY <1>13 DEF EvalList
<1>14. CASE EvalStore
  BY <1>14, NextCommands DEF EvalStore
<1>15. CASE Download
  BY <1>15 DEF Download
<1>16. CASE Upload
  BY <1>16 DEF Upload
<1>17. CASE Answer
  BY <1>17 DEF Answer
<1>18. CASE HangUp
  BY <1>18 DEF HangUp
<1>d. CASE Destroy
  BY <1>d DEF Destroy
<1>e. CASE LoopEnds
  BY <1>e DEF LoopEnds
<1>f. CASE Chatter
  BY <1>f DEF Chatter
<1>19. CASE UNCHANGED vars
  BY <1>19 DEF vars
<1>20. QED
  BY <1>1, <1>2, <1>3, <1>4, <1>5, <1>6, <1>7, <1>8, <1>9, <1>10, <1>11, <1>12, <1>13, <1>14, <1>15, <1>16, <1>17, <1>18, <1>d, <1>e, <1>f, <1>19
     DEF Next, Client

LEMMA RoomMore ==
    ASSUME NEW s \in Nat, NEW c \in Nat, NEW u \in 1..4, s <= 2 + 4 * c
    PROVE  s + u <= 2 + 4 * (c + 1)
OBVIOUS

LEMMA RoomMoved ==
    ASSUME NEW s \in Nat, NEW c \in Nat, NEW l \in 1..4, s + l <= 2 + 4 * c
    PROVE  (s + 1) + (l - 1) <= 2 + 4 * c
OBVIOUS

(* What opens a data socket closes it, or counts it as lost.                *)
LEMMA DataStep == ASSUME BaseInv, PlaceInv, DataInv, [Next]_vars PROVE DataInv'
<1> USE DEF DataInv, data, server, Return, Continue, Lose
<1>1. CASE Call
  BY <1>1 DEF Call
<1>2. CASE ConnectServer
  BY <1>2 DEF ConnectServer
<1>3. CASE OpenData
  <2>1. CASE pc' = "send"
    BY <1>3, <2>1 DEF OpenData, PlaceInv, Command
  <2>2. CASE pc' # "send"
    BY <1>3, <2>2 DEF OpenData
  <2>3. QED
    BY <2>1, <2>2
<1>4. CASE SendFails
  BY <1>4 DEF SendFails
<1>5. CASE SendKills
  BY <1>5 DEF SendKills
<1>6. CASE Send
  <2>1. CASE Command = "REST"
    <3>1. pc = "send" /\ pc' = "send" /\ op' = op /\ script' = Tail(script)
      BY <1>6, <2>1 DEF Send, SendCommand
    <3>2. script = <<"REST", "RETR">>
      BY <3>1, <2>1, SessionAssumption DEF PlaceInv, OneCommand, Command
    <3>3. Command' = "RETR"
      BY <3>1, <3>2 DEF Command
    <3>4. QED
      BY <1>6, <2>1, <3>1, <3>3 DEF Send, SendCommand
  <2>2. CASE Command = "RETR"
    BY <1>6, <2>2 DEF Send, SendCommand
  <2>3. CASE Command \notin {"REST", "RETR"}
    BY <1>6, <2>3 DEF Send, SendCommand, Command
  <2>4. QED
    BY <2>1, <2>2, <2>3
<1>7. CASE Receive
  BY <1>7 DEF Receive, Command
<1>8. CASE Silence
  BY <1>8 DEF Silence, Command
<1>9. CASE EvalLast
  <2>1. dataOpen = TRUE => FALSE
    <3>1. pc = "eval" /\ Len(script) = 1 /\ Command # "LIST"
      BY <1>9 DEF EvalLast
    <3>2. op \in {"dir", "get", "put"} => Command = "DONE"
      BY <3>1, SessionAssumption DEF PlaceInv, OneCommand, Command
    <3>3. QED
      BY <3>1, <3>2
  <2>2. QED
    BY <1>9, <2>1 DEF EvalLast
<1>10. CASE EvalRename
  <2>1. op = "rename"
    BY <1>10, NextCommands DEF EvalRename
  <2>2. QED
    BY <1>10, <2>1 DEF EvalRename
<1>11. CASE EvalLength
  BY <1>11 DEF EvalLength
<1>12. CASE EvalPort
  <2>1. \/ Tail(script) = <<"LIST">>
        \/ Tail(script) = <<"REST", "RETR">>
        \/ Tail(script) = <<"STOR", "DONE">>
    <3>1. pc \in {"send", "reply", "eval"} /\ Command = "PASV" /\ Len(script) > 1
      BY <1>12 DEF EvalPort
    <3>2. Len(script) # 1
      BY <3>1
    <3>3. QED
      BY <3>1, <3>2, NextCommands, Zenon
  <2>2. Command' \in {"LIST", "REST", "STOR"}
    <3>1. script' = Tail(script)
      BY <1>12 DEF EvalPort
    <3>2. QED
      BY <2>1, <3>1, Head(<<"LIST">>) = "LIST", Head(<<"REST", "RETR">>) = "REST",
         Head(<<"STOR", "DONE">>) = "STOR" DEF Command
  <2>3. dataOpen' = FALSE \/ (pc' = "send" /\ dataOpen' = dataOpen)
    BY <1>12, Zenon DEF EvalPort
  <2>4. op' = op /\ pc = "eval"
    BY <1>12 DEF EvalPort
  <2>5. QED
    BY <2>2, <2>3, <2>4
<1>13. CASE EvalList
  BY <1>13 DEF EvalList
<1>14. CASE EvalStore
  BY <1>14 DEF EvalStore
<1>15. CASE Download
  BY <1>15 DEF Download
<1>16. CASE Upload
  BY <1>16 DEF Upload
<1>17. CASE Answer
  BY <1>17 DEF Answer, Command
<1>18. CASE HangUp
  BY <1>18 DEF HangUp, Command
<1>d. CASE Destroy
  BY <1>d DEF Destroy
<1>e. CASE LoopEnds
  BY <1>e DEF LoopEnds
<1>f. CASE Chatter
  BY <1>f DEF Chatter, Command
<1>19. CASE UNCHANGED vars
  BY <1>19 DEF vars, Command
<1>20. QED
  BY <1>1, <1>2, <1>3, <1>4, <1>5, <1>6, <1>7, <1>8, <1>9, <1>10, <1>11, <1>12, <1>13, <1>14, <1>15, <1>16, <1>17, <1>18, <1>d, <1>e, <1>f, <1>19
     DEF Next, Client

LEMMA RoomStep == ASSUME BaseInv, PlaceInv, RoomInv, [Next]_vars PROVE RoomInv'
<1> USE SessionAssumption DEF BaseInv, RoomInv, Unsent, Operations, data, server, Return, Continue, Lose
<1>0. sent \in Nat /\ calls \in Nat
  BY DEF BaseInv
<1>1. CASE Call
  <2>1. PICK o \in Operations : op' = o /\ script' = Script(o)
    BY <1>1 DEF Call
  <2>2. Len(Script(o)) \in 1..4
    <3>1. CASE o \in OneCommand
      <4>1. Script(o) = <<o>>
        BY <3>1, Zenon, SessionAssumption DEF Script, OneCommand
      <4>2. QED
        BY <4>1
    <3>2. CASE o \notin OneCommand
      BY <3>2 DEF Script, OneCommand
    <3>3. QED
      BY <3>1, <3>2
  <2>3. pc' = IF o = "login" THEN "connect" ELSE IF o = "dir" THEN "open" ELSE "send"
    BY <1>1, <2>1 DEF Call
  <2>4. Unsent' \in 1..4 /\ Unsent = 0
    BY <1>1, <2>1, <2>2, <2>3 DEF Call
  <2>5. sent' = sent /\ calls' = calls + 1 /\ sock' = sock
    BY <1>1 DEF Call
  <2>6. sent <= 2 + 4 * calls
    BY <1>0, <2>4
  <2>7. sent + Unsent' <= 2 + 4 * (calls + 1)
    BY <1>0, <2>4, <2>6, RoomMore
  <2>8. QED
    BY <2>5, <2>7
<1>2. CASE ConnectServer
  BY <1>2 DEF ConnectServer
<1>3. CASE OpenData
  BY <1>3 DEF OpenData
<1>4. CASE SendFails
  <2>1. pc = "send" /\ UNCHANGED <<sent, calls, sock>>
    BY <1>4 DEF SendFails
  <2>2. \/ pc' = "idle"
        \/ pc' = "open" /\ script' = Tail(script)
    BY <1>4 DEF SendFails
  <2>3. Len(script) \in 1..4 /\ Len(Tail(script)) = Len(script) - 1
    BY <2>1, NextCommands
  <2>4. Unsent = Len(script) /\ Unsent' \in 0..Unsent
    BY <2>1, <2>2, <2>3
  <2>5. QED
    BY <1>0, <2>1, <2>4
<1>5. CASE SendKills
  BY <1>5 DEF SendKills
<1>6. CASE Send
  <2>1. /\ sent' = sent + 1 /\ calls' = calls
        /\ sock = "connected" /\ sock' = sock
        /\ pc = "send" /\ Len(script) \in 1..4
    BY <1>6, NextCommands DEF Send, SendCommand
  <2>2. \/ pc' \in {"data", "send"} /\ Len(script') = Len(script) - 1
        \/ pc' = "reply" /\ script' = script
    BY <1>6, NextCommands DEF Send, SendCommand
  <2>3. Unsent = Len(script) /\ Unsent' = Len(script) - 1
    BY <2>1, <2>2
  <2>4. (sent + 1) + (Len(script) - 1) <= 2 + 4 * calls
    BY <1>0, <2>1, <2>3, RoomMoved
  <2>5. QED
    BY <2>1, <2>3, <2>4
<1>7. CASE Receive
  BY <1>7 DEF Receive
<1>8. CASE Silence
  BY <1>8 DEF Silence
<1>9. CASE EvalLast
  BY <1>9 DEF EvalLast
<1>10. CASE EvalRename
  BY <1>10, NextCommands DEF EvalRename
<1>11. CASE EvalLength
  BY <1>11, NextCommands DEF EvalLength
<1>12. CASE EvalPort
  <2>1. Len(script) \in 1..4 /\ Len(script') = Len(script) - 1
    BY <1>12, NextCommands DEF EvalPort
  <2>2. pc = "eval" /\ pc' \in {"idle", "send"}
    BY <1>12 DEF EvalPort
  <2>3. sent' = sent /\ calls' = calls /\ sock' = sock
    BY <1>12 DEF EvalPort
  <2>4. QED
    BY <2>1, <2>2, <2>3
<1>13. CASE EvalList
  BY <1>13, NextCommands DEF EvalList
<1>14. CASE EvalStore
  BY <1>14, NextCommands DEF EvalStore
<1>15. CASE Download
  BY <1>15 DEF Download
<1>16. CASE Upload
  BY <1>16 DEF Upload
<1>17. CASE Answer
  BY <1>17 DEF Answer
<1>18. CASE HangUp
  BY <1>18 DEF HangUp
<1>d. CASE Destroy
  BY <1>d DEF Destroy
<1>e. CASE LoopEnds
  BY <1>e DEF LoopEnds
<1>f. CASE Chatter
  BY <1>f DEF Chatter
<1>19. CASE UNCHANGED vars
  BY <1>19 DEF vars
<1>20. QED
  BY <1>1, <1>2, <1>3, <1>4, <1>5, <1>6, <1>7, <1>8, <1>9, <1>10, <1>11, <1>12, <1>13, <1>14, <1>15, <1>16, <1>17, <1>18, <1>d, <1>e, <1>f, <1>19
     DEF Next, Client

(* Operations on what is on the wire.                                       *)
LEMMA WireGrows ==
    ASSUME NEW k \in Nat
    PROVE  Queues(k) \subseteq Queues(k + 1) /\ Inboxes(k) \subseteq Inboxes(k + 1)
<1>1. ASSUME NEW S, NEW T, S \subseteq T, NEW q \in Seq(S) PROVE q \in Seq(T)
  BY <1>1
<1>2. /\ [cmd : QueueNames, n : 0..k] \subseteq [cmd : QueueNames, n : 0..(k + 1)]
      /\ [kind : ReplyKinds, n : 0..k] \subseteq [kind : ReplyKinds, n : 0..(k + 1)]
  OBVIOUS
<1>3. QED
  BY <1>1, <1>2 DEF Queues, Inboxes

LEMMA SeqOps ==
    ASSUME NEW S, NEW q \in Seq(S), NEW r \in Seq(S), NEW e \in S
    PROVE  /\ <<>> \in Seq(S) /\ <<e>> \in Seq(S) /\ Append(q, e) \in Seq(S)
           /\ q \o r \in Seq(S) /\ <<e>> \o q \in Seq(S)
OBVIOUS

LEMMA SeqNext ==
    ASSUME NEW S, NEW q \in Seq(S), q # <<>>
    PROVE  Head(q) \in S /\ Tail(q) \in Seq(S)
OBVIOUS

LEMMA QueueAdd ==
    ASSUME NEW k \in Nat, NEW q \in Queues(k), NEW c \in QueueNames, NEW n \in 0..k
    PROVE  /\ Append(q, [cmd |-> c, n |-> n]) \in Queues(k)
           /\ <<[cmd |-> c, n |-> n]>> \in Queues(k)
           /\ <<[cmd |-> c, n |-> n]>> \o q \in Queues(k)
<1>1. [cmd |-> c, n |-> n] \in [cmd : QueueNames, n : 0..k]
  OBVIOUS
<1>2. QED
  BY <1>1, SeqOps DEF Queues

LEMMA QueueNext ==
    ASSUME NEW k \in Nat, NEW q \in Queues(k)
    PROVE  /\ <<>> \in Queues(k)
           /\ q # <<>> => /\ Tail(q) \in Queues(k)
                         /\ Head(q).cmd \in QueueNames
                         /\ Head(q).n \in 0..k
<1>1. q # <<>> => Head(q) \in [cmd : QueueNames, n : 0..k] /\ Tail(q) \in Queues(k)
  BY SeqNext DEF Queues
<1>2. <<>> \in Queues(k)
  BY DEF Queues
<1>3. QED
  BY <1>1, <1>2

LEMMA InboxAdd ==
    ASSUME NEW k \in Nat, NEW i \in Inboxes(k), NEW r \in ReplyKinds, NEW n \in 0..k
    PROVE  Append(i, [kind |-> r, n |-> n]) \in Inboxes(k)
<1>1. [kind |-> r, n |-> n] \in [kind : ReplyKinds, n : 0..k]
  OBVIOUS
<1>2. QED
  BY <1>1, SeqOps DEF Inboxes

LEMMA InboxJoin ==
    ASSUME NEW k \in Nat, NEW i \in Inboxes(k), NEW t \in Inboxes(k)
    PROVE  <<>> \in Inboxes(k) /\ t \o i \in Inboxes(k)
BY SeqOps DEF Inboxes

LEMMA WireStep == ASSUME BaseInv, PlaceInv, RoomInv, WireInv, [Next]_vars PROVE WireInv'
<1> USE SessionAssumption DEF BaseInv, RoomInv, WireInv, Operations, data, server, Return, Continue, Lose
<1>1. CASE Call
  BY <1>1 DEF Call
<1>2. CASE ConnectServer
  <2>1. queue' \in {queue, <<[cmd |-> "HELLO", n |-> 0]>>} /\ text' = <<>>
    BY <1>2 DEF ConnectServer
  <2>2. UNCHANGED <<sent, inbox, passive, obeyed>>
    BY <1>2 DEF ConnectServer
  <2>3. "HELLO" \in QueueNames /\ 0 \in 0..sent
    BY DEF QueueNames
  <2>4. <<[cmd |-> "HELLO", n |-> 0]>> \in Queues(sent) /\ <<>> \in Inboxes(sent)
    BY <2>3, QueueAdd, InboxJoin
  <2>5. QED
    BY <2>1, <2>2, <2>4
<1>3. CASE OpenData
  BY <1>3 DEF OpenData
<1>4. CASE SendFails
  BY <1>4 DEF SendFails
<1>5. CASE SendKills
  BY <1>5 DEF SendKills
<1>6. CASE Send
  <2>1. sent' = sent + 1 /\ text' = <<>> /\ UNCHANGED <<inbox, passive, obeyed>>
    BY <1>6 DEF Send, SendCommand
  <2>2. queue \in Queues(sent + 1) /\ inbox \in Inboxes(sent + 1)
    BY WireGrows
  <2>3. Command \in QueueNames /\ sent + 1 \in 0..(sent + 1)
    BY <1>6, NextCommands DEF Send, SendCommand
  <2>4. queue' = Append(queue, [cmd |-> Command, n |-> sent + 1]) \/ queue' = queue
    BY <1>6, <2>1 DEF Send, SendCommand
  <2>5. sent + 1 \in Nat
    OBVIOUS
  <2>6. Append(queue, [cmd |-> Command, n |-> sent + 1]) \in Queues(sent + 1)
    BY <2>2, <2>3, <2>5, QueueAdd
  <2>7. <<>> \in Inboxes(sent + 1)
    BY <2>2, <2>5, InboxJoin
  <2>8. passive \in 0..(sent + 1) /\ obeyed \in 0..(sent + 1)
    OBVIOUS
  <2>9. queue' \in Queues(sent + 1)
    BY <2>2, <2>4, <2>6
  <2>10. QED
    BY <2>1, <2>2, <2>7, <2>8, <2>9
<1>7. CASE Receive
  BY <1>7, InboxJoin DEF Receive
<1>8. CASE Silence
  BY <1>8 DEF Silence
<1>9. CASE EvalLast
  BY <1>9 DEF EvalLast
<1>10. CASE EvalRename
  BY <1>10 DEF EvalRename
<1>11. CASE EvalLength
  BY <1>11 DEF EvalLength
<1>12. CASE EvalPort
  BY <1>12 DEF EvalPort
<1>13. CASE EvalList
  BY <1>13 DEF EvalList
<1>14. CASE EvalStore
  BY <1>14 DEF EvalStore
<1>15. CASE Download
  BY <1>15 DEF Download
<1>16. CASE Upload
  BY <1>16, InboxJoin DEF Upload
<1>17. CASE Answer
  <2> DEFINE item == Head(queue)
  <2>1. queue # <<>> /\ UNCHANGED <<sent, text>>
    BY <1>17 DEF Answer
  <2>2. item.cmd \in QueueNames /\ item.n \in 0..sent /\ Tail(queue) \in Queues(sent)
    BY <2>1, QueueNext
  <2>3. PICK ok \in BOOLEAN :
          /\ inbox' = Append(inbox, [kind |-> ReplyKind(item.cmd, ok), n |-> item.n])
          /\ \/ \E c \in {"STORING", "SENDING"} :
                    queue' = <<[cmd |-> c, n |-> item.n]>> \o Tail(queue)
             \/ queue' = <<>>
             \/ queue' = Tail(queue)
          /\ passive' \in {item.n, 0, passive}
          /\ obeyed' \in {item.n, obeyed}
    BY <1>17 DEF Answer
  <2>4. ReplyKind(item.cmd, ok) \in ReplyKinds
    BY DEF ReplyKind, ReplyKinds
  <2>5. inbox' \in Inboxes(sent)
    BY <2>2, <2>3, <2>4, InboxAdd
  <2>6. {"STORING", "SENDING"} \subseteq QueueNames
    BY DEF QueueNames
  <2>7. /\ \A c \in {"STORING", "SENDING"} :
              <<[cmd |-> c, n |-> item.n]>> \o Tail(queue) \in Queues(sent)
        /\ <<>> \in Queues(sent)
    BY <2>2, <2>6, QueueAdd, QueueNext
  <2>8. queue' \in Queues(sent)
    BY <2>2, <2>3, <2>7
  <2>9. passive' \in 0..sent /\ obeyed' \in 0..sent
    BY <2>2, <2>3
  <2>10. QED
    BY <2>1, <2>5, <2>8, <2>9
<1>18. CASE HangUp
  BY <1>18, QueueNext DEF HangUp
<1>d. CASE Destroy
  <2>1. UNCHANGED <<inbox, text, passive, obeyed>>
    BY <1>d DEF Destroy
  <2>2. \/ sent' = sent /\ queue' = queue
        \/ /\ sent' = sent + 1
           /\ queue' \in {queue, Append(queue, [cmd |-> "QUIT", n |-> sent + 1])}
    BY <1>d DEF Destroy
  <2>3. CASE sent' = sent /\ queue' = queue
    BY <2>1, <2>3
  <2>4. CASE /\ sent' = sent + 1
             /\ queue' \in {queue, Append(queue, [cmd |-> "QUIT", n |-> sent + 1])}
    <3>1. queue \in Queues(sent + 1) /\ inbox \in Inboxes(sent + 1) /\ text \in Inboxes(sent + 1)
      BY WireGrows
    <3>2. "QUIT" \in QueueNames /\ sent + 1 \in Nat /\ sent + 1 \in 0..(sent + 1)
      BY DEF QueueNames
    <3>3. Append(queue, [cmd |-> "QUIT", n |-> sent + 1]) \in Queues(sent + 1)
      BY <3>1, <3>2, QueueAdd
    <3>4. passive \in 0..(sent + 1) /\ obeyed \in 0..(sent + 1)
      OBVIOUS
    <3>5. QED
      BY <2>1, <2>4, <3>1, <3>3, <3>4
  <2>5. QED
    BY <2>2, <2>3, <2>4
<1>e. CASE LoopEnds
  BY <1>e DEF LoopEnds
<1>f. CASE Chatter
  BY <1>f DEF Chatter
<1>19. CASE UNCHANGED vars
  BY <1>19 DEF vars
<1>20. QED
  BY <1>1, <1>2, <1>3, <1>4, <1>5, <1>6, <1>7, <1>8, <1>9, <1>10, <1>11, <1>12, <1>13, <1>14, <1>15, <1>16, <1>17, <1>18, <1>d, <1>e, <1>f, <1>19
     DEF Next, Client

-----------------------------------------------------------------------------
(* How a prompt server pairs replies with commands.                         *)

LEMMA OwnNone == ASSUME NEW k PROVE Own(<<>>, k)
BY DEF Own

LEMMA OwnAdd ==
    ASSUME NEW m \in Nat, NEW s \in Inboxes(m), NEW k, Own(s, k), NEW r
    PROVE  /\ Own(Append(s, [kind |-> r, n |-> k]), k)
           /\ Append(s, [kind |-> r, n |-> k]) # <<>>
<1>1. Len(s) \in Nat /\ \A i \in 1..Len(s) : s[i].n = k
  BY DEF Own, Inboxes
<1> DEFINE t == Append(s, [kind |-> r, n |-> k])
<1>2. Len(t) = Len(s) + 1 /\ \A i \in 1..Len(t) : t[i] = IF i = Len(s) + 1 THEN [kind |-> r, n |-> k] ELSE s[i]
  BY <1>1 DEF Inboxes
<1>3. \A i \in 1..Len(t) : t[i].n = k
  BY <1>1, <1>2
<1>4. t # <<>>
  BY <1>1, <1>2
<1>5. QED
  BY <1>3, <1>4 DEF Own

LEMMA OwnJoin ==
    ASSUME NEW m \in Nat, NEW s \in Inboxes(m), NEW t \in Inboxes(m), NEW k,
           Own(s, k), Own(t, k), t # <<>>
    PROVE  Own(s \o t, k) /\ s \o t # <<>>
<1>1. /\ Len(s) \in Nat /\ \A i \in 1..Len(s) : s[i].n = k
      /\ Len(t) \in Nat \ {0} /\ \A i \in 1..Len(t) : t[i].n = k
  BY DEF Own, Inboxes
<1> DEFINE u == s \o t
<1>2. /\ Len(u) = Len(s) + Len(t)
      /\ \A i \in 1..Len(u) : u[i] = IF i <= Len(s) THEN s[i] ELSE t[i - Len(s)]
  BY <1>1 DEF Inboxes
<1>3. \A i \in 1..Len(u) : u[i].n = k
  <2> SUFFICES ASSUME NEW i \in 1..Len(u) PROVE u[i].n = k
    OBVIOUS
  <2>1. CASE i <= Len(s)
    BY <1>1, <1>2, <2>1
  <2>2. CASE ~ (i <= Len(s))
    <3>1. i - Len(s) \in 1..Len(t)
      BY <1>1, <1>2, <2>2
    <3>2. QED
      BY <1>1, <1>2, <2>2, <3>1
  <2>3. QED
    BY <2>1, <2>2
<1>4. u # <<>>
  BY <1>1, <1>2
<1>5. QED
  BY <1>3, <1>4 DEF Own

(* Replies once left unread stay so. *)
LEMMA AstrayStays ==
    ASSUME FlagInv, [Next]_vars, astray' = FALSE
    PROVE  /\ astray = FALSE /\ speed' = speed
           /\ ~ EvalList /\ ~ LoopEnds
           /\ Send => Command # "REST"
           /\ Upload => pc' # "idle"
<1> USE DEF data, server
<1>0. astray \in BOOLEAN
  BY DEF FlagInv
<1>1. Call => (astray = TRUE => astray' = TRUE) /\ speed' = speed
  BY <1>0, Zenon DEF Call
<1>2. ConnectServer => (astray = TRUE => astray' = TRUE) /\ speed' = speed
  BY <1>0, Zenon DEF ConnectServer
<1>3. OpenData => (astray = TRUE => astray' = TRUE) /\ speed' = speed
  BY <1>0, Zenon DEF OpenData
<1>4. SendFails => (astray = TRUE => astray' = TRUE) /\ speed' = speed
  BY <1>0, Zenon DEF SendFails
<1>5. SendKills => (astray = TRUE => astray' = TRUE) /\ speed' = speed
  BY <1>0, Zenon DEF SendKills
<1>6. Send => (astray = TRUE => astray' = TRUE) /\ speed' = speed
  BY <1>0, Zenon DEF Send, SendCommand
<1>7. Receive => (astray = TRUE => astray' = TRUE) /\ speed' = speed
  BY <1>0, Zenon DEF Receive
<1>8. Silence => (astray = TRUE => astray' = TRUE) /\ speed' = speed
  BY <1>0, Zenon DEF Silence
<1>9. EvalLast => (astray = TRUE => astray' = TRUE) /\ speed' = speed
  BY <1>0, Zenon DEF EvalLast
<1>10. EvalRename => (astray = TRUE => astray' = TRUE) /\ speed' = speed
  BY <1>0, Zenon DEF EvalRename
<1>11. EvalLength => (astray = TRUE => astray' = TRUE) /\ speed' = speed
  BY <1>0, Zenon DEF EvalLength
<1>12. EvalPort => (astray = TRUE => astray' = TRUE) /\ speed' = speed
  BY <1>0, Zenon DEF EvalPort
<1>13. EvalList => (astray = TRUE => astray' = TRUE) /\ speed' = speed
  BY <1>0, Zenon DEF EvalList
<1>14. EvalStore => (astray = TRUE => astray' = TRUE) /\ speed' = speed
  BY <1>0, Zenon DEF EvalStore
<1>15. Download => (astray = TRUE => astray' = TRUE) /\ speed' = speed
  BY <1>0, Zenon DEF Download
<1>16. Upload => (astray = TRUE => astray' = TRUE) /\ speed' = speed
  BY <1>0, Zenon DEF Upload
<1>17. Answer => (astray = TRUE => astray' = TRUE) /\ speed' = speed
  BY <1>0, Zenon DEF Answer
<1>18. HangUp => (astray = TRUE => astray' = TRUE) /\ speed' = speed
  BY <1>0, Zenon DEF HangUp
<1>19. UNCHANGED vars => (astray = TRUE => astray' = TRUE) /\ speed' = speed
  BY <1>0, Zenon DEF vars
<1>d. Destroy => (astray = TRUE => astray' = TRUE) /\ speed' = speed
  BY <1>0, Zenon DEF Destroy
<1>e. LoopEnds => (astray = TRUE => astray' = TRUE) /\ speed' = speed
  BY <1>0, Zenon DEF LoopEnds
<1>f. Chatter => (astray = TRUE => astray' = TRUE) /\ speed' = speed
  BY <1>0, Zenon DEF Chatter
<1>20. ~ EvalList /\ ~ LoopEnds
  BY Zenon DEF EvalList, LoopEnds
<1>21. Send => Command # "REST"
  BY Zenon DEF Send
<1>22. Upload => pc' # "idle"
  BY Zenon DEF Upload, Continue
<1>23. (astray = TRUE => astray' = TRUE) /\ speed' = speed
  BY <1>1, <1>2, <1>3, <1>4, <1>5, <1>6, <1>7, <1>8, <1>9, <1>10, <1>11, <1>12, <1>13, <1>14, <1>15, <1>16, <1>17, <1>18, <1>d, <1>e, <1>f, <1>19, Zenon DEF Next, Client
<1>24. TRUE # FALSE
  OBVIOUS
<1>25. QED
  BY <1>0, <1>20, <1>21, <1>22, <1>23, <1>24, Zenon

LEMMA Quiet ==
    ASSUME ServerQuiet, NEW c, NEW k, queue = <<[cmd |-> c, n |-> k]>>
    PROVE  c \in {"SENDING", "STORING"} /\ (dataOpen = FALSE => c = "SENDING")
<1>1. 1 \in 1..Len(queue) /\ queue[1].cmd = c
  OBVIOUS
<1>2. c \in (IF dataOpen THEN {"SENDING", "STORING"} ELSE {"SENDING"})
  BY <1>1, Zenon DEF ServerQuiet
<1>3. QED
  BY <1>2, Zenon

(* What a server answers, and what it has left to do, when one item is all  *)
(* it had.                                                                  *)
LEMMA OneAnswer ==
    ASSUME Answer, NEW c, NEW k, queue = <<[cmd |-> c, n |-> k]>>
    PROVE  /\ \E r : inbox' = Append(inbox, [kind |-> r, n |-> k])
           /\ \/ queue' = <<>>
              \/ c = "STOR" /\ queue' = <<[cmd |-> "STORING", n |-> k]>>
              \/ c \in {"LIST", "RETR"} /\ queue' = <<[cmd |-> "SENDING", n |-> k]>>
<1>1. Head(queue).cmd = c /\ Head(queue).n = k /\ Tail(queue) = <<>>
  OBVIOUS
<1>2. PICK ok \in BOOLEAN :
        /\ inbox' = Append(inbox, [kind |-> ReplyKind(c, ok), n |-> k])
        /\ queue' = IF ok /\ c \in Transfers
                    THEN <<[cmd |-> IF c = "STOR" THEN "STORING" ELSE "SENDING",
                            n |-> k]>> \o <<>>
                    ELSE IF ok /\ c = "QUIT" THEN <<>>
                    ELSE <<>>
  BY <1>1 DEF Answer
<1>3. \A e : <<e>> \o <<>> = <<e>>
  OBVIOUS
<1>4. QED
  BY <1>2, <1>3 DEF Transfers

LEMMA PairStep ==
    ASSUME BaseInv, FlagInv, PlaceInv, RoomInv, WireInv, Paired, speed = "prompt",
           astray' = FALSE, [Next]_vars
    PROVE  Paired'
<1> USE DEF data, server, Return, Continue, Lose
<1>1. CASE Call
  <2>1. queue' = <<>> /\ inbox' = <<>> /\ pc' \in {"connect", "open", "send"}
    BY <1>1 DEF Call, Paired
  <2>2. PICK o \in Operations : script' = Script(o)
    BY <1>1 DEF Call
  <2>3. Head(Script(o)) # "RETR"
    <3>1. CASE o \in OneCommand
      <4>1. Script(o) = <<o>>
        BY <3>1, Zenon, SessionAssumption DEF Script, OneCommand
      <4>2. QED
        BY <3>1, <4>1, SessionAssumption DEF OneCommand
    <3>2. CASE o \notin OneCommand
      BY <2>2, <3>2, SessionAssumption DEF Script, OneCommand, Operations
    <3>3. QED
      BY <3>1, <3>2
  <2>4. QED
    BY <2>1, <2>2, <2>3 DEF Paired, Command
<1>2. CASE ConnectServer
  <2>1. /\ queue = <<>> /\ inbox = <<>> /\ op = "login" /\ script = <<"HELLO">>
        /\ sock = "fresh" => sent = 0
    BY <1>2 DEF ConnectServer, Paired, PlaceInv, RoomInv
  <2>2. UNCHANGED <<op, script, inbox, sent>> /\ text' = <<>>
    BY <1>2 DEF ConnectServer
  <2>3. \/ pc' = "idle" /\ queue' = queue
        \/ pc' = "reply" /\ queue' = queue
        \/ pc' = "reply" /\ queue' = <<[cmd |-> "HELLO", n |-> 0]>> /\ sent = 0
    BY <1>2, <2>1 DEF ConnectServer
  <2>4. Command' = "HELLO" /\ Expected(Command') = {"HELLO"} /\ ~ Owing'
    BY <2>1, <2>2 DEF Command, Expected, Owing
  <2>5. Own(text', sent') /\ Own(inbox', sent')
    BY <2>1, <2>2, OwnNone
  <2>6. Outstanding(queue', Expected(Command'), sent')
    BY <2>1, <2>2, <2>3, <2>4 DEF Outstanding
  <2>7. CASE pc' = "reply"
    BY <2>4, <2>5, <2>6, <2>7 DEF Paired
  <2>8. CASE pc' = "idle"
    BY <2>1, <2>2, <2>3, <2>8 DEF Paired
  <2>9. QED
    BY <2>3, <2>7, <2>8
<1>3. CASE OpenData
  <2>1. Command # "RETR"
    BY <1>3 DEF OpenData, PlaceInv, Command
  <2>2. /\ queue' = <<>> /\ inbox' = <<>> /\ pc' \in {"idle", "send"}
        /\ Command' = Command
    BY <1>3 DEF OpenData, Paired, Command
  <2>3. QED
    BY <2>1, <2>2 DEF Paired
<1>4. CASE SendFails
  <2>1. queue' = <<>> /\ inbox' = <<>> /\ pc' \in {"idle", "open"}
    BY <1>4 DEF SendFails, Paired
  <2>2. QED
    BY <2>1 DEF Paired
<1>5. CASE SendKills
  <2>1. pc' = "killed"
    BY <1>5 DEF SendKills
  <2>2. QED
    BY <2>1 DEF Paired
<1>6. CASE Send
  <2>1. Command \notin {"REST", "RETR", "DONE"} /\ queue = <<>> /\ inbox = <<>>
    BY <1>6, AstrayStays, NextCommands DEF Send, SendCommand, Paired
  <2>2. /\ pc' = "reply" /\ UNCHANGED <<op, script, inbox>> /\ text' = <<>>
        /\ \/ queue' = Append(queue, [cmd |-> Command, n |-> sent']) /\ peer' = "open"
           \/ queue' = queue /\ peer' = "reset"
    BY <1>6, <2>1 DEF Send, SendCommand
  <2>3. \A e : Append(<<>>, e) = <<e>>
    OBVIOUS
  <2>4. Command' = Command
    BY <2>2 DEF Command
  <2>5. \/ queue' = <<[cmd |-> Command, n |-> sent']>> /\ peer' = "open"
        \/ queue' = <<>> /\ peer' = "reset"
    BY <2>1, <2>2, <2>3
  <2>6. Command \in Expected(Command)
    BY <2>1 DEF Expected
  <2>7. Outstanding(queue', Expected(Command'), sent')
    BY <2>4, <2>5, <2>6 DEF Outstanding
  <2>8. Own(text', sent') /\ Own(inbox', sent')
    BY <2>1, <2>2, OwnNone
  <2>9. Owing' => queue' = <<[cmd |-> Command', n |-> sent']>>
    BY <2>4, <2>5 DEF Owing
  <2>10. QED
    BY <2>1, <2>2, <2>4, <2>7, <2>8, <2>9 DEF Paired
<1>7. CASE Receive
  <2>1. /\ pc = "reply" /\ inbox # <<>> /\ text' = text \o inbox /\ inbox' = <<>>
        /\ UNCHANGED <<pc, op, script, dataOpen, sent, queue, peer>>
    BY <1>7 DEF Receive
  <2>2. Own(text, sent) /\ Own(inbox, sent) /\ sent \in Nat
    BY <2>1 DEF Paired, BaseInv
  <2>3. Own(text', sent) /\ text' # <<>> /\ Own(inbox', sent)
    BY <2>1, <2>2, OwnJoin, OwnNone DEF WireInv
  <2>4. /\ Outstanding(queue', Expected(Command'), sent')
        /\ Command' = "DONE" => dataOpen' = FALSE
    BY <2>1 DEF Paired, Command
  <2>5. QED
    BY <2>1, <2>3, <2>4 DEF Paired
<1>8. CASE Silence
  <2>1. /\ pc = "reply" /\ inbox = <<>> /\ ServerQuiet /\ pc' = "eval"
        /\ UNCHANGED <<op, script, text, inbox, sent, queue, peer>>
    BY <1>8 DEF Silence
  <2>2. Command' = Command /\ Owing' = Owing /\ Command \notin {"SENDING", "STORING"}
    BY <2>1, NextCommands DEF Command, Owing
  <2>3. /\ Own(text, sent) /\ Own(inbox, sent)
        /\ Outstanding(queue, Expected(Command), sent)
        /\ Owing => text # <<>> \/ queue = <<[cmd |-> Command, n |-> sent]>>
        /\ Command = "DONE" => dataOpen = FALSE
    BY <2>1 DEF Paired
  <2>4. Owing => text # <<>>
    BY <2>1, <2>2, <2>3, Quiet
  <2>5. Outstanding(queue, Lasting(Command), sent)
    <3>1. CASE queue = <<>>
      BY <3>1 DEF Outstanding
    <3>2. CASE queue # <<>>
      <4>1. PICK c \in Expected(Command) : queue = <<[cmd |-> c, n |-> sent]>>
        BY <2>3, <3>2 DEF Outstanding
      <4>2. c \in {"SENDING", "STORING"} /\ (dataOpen = FALSE => c = "SENDING")
        BY <2>1, <4>1, Quiet
      <4>3. c \in Lasting(Command)
        BY <2>2, <2>3, <4>1, <4>2 DEF Expected, Lasting
      <4>4. QED
        BY <4>1, <4>3 DEF Outstanding
    <3>3. QED
      BY <3>1, <3>2
  <2>6. QED
    BY <2>1, <2>2, <2>3, <2>4, <2>5 DEF Paired
<1>9. CASE EvalLast
  <2>0. /\ pc = "eval" /\ Len(script) = 1 /\ Command # "LIST" /\ pc' = "idle"
        /\ UNCHANGED <<queue, inbox>>
    BY <1>9 DEF EvalLast
  <2>a. Command # "STOR"
    <3>1. Command = "STOR" => Tail(script) = <<"DONE">>
      BY <2>0, NextCommands
    <3>2. Len(Tail(script)) # 1
      BY <2>0, NextCommands
    <3>3. Len(<<"DONE">>) = 1
      OBVIOUS
    <3>4. QED
      BY <3>1, <3>2, <3>3, Zenon
  <2>1. /\ pc = "eval" /\ Command \notin {"LIST", "STOR"} /\ pc' = "idle"
        /\ UNCHANGED <<queue, inbox>>
    BY <2>0, <2>a
  <2>2. queue = <<>> /\ inbox = <<>>
    BY <2>1 DEF Paired, Outstanding, Lasting
  <2>3. QED
    BY <2>1, <2>2 DEF Paired
<1>10. CASE EvalRename
  <2>1. /\ pc = "eval" /\ Command = "RNFR" /\ pc' = "send" /\ script' = <<"RNTO">>
        /\ UNCHANGED <<queue, inbox>>
    BY <1>10, NextCommands DEF EvalRename
  <2>2. queue = <<>> /\ inbox = <<>> /\ Command' = "RNTO"
    BY <2>1 DEF Paired, Outstanding, Lasting, Command
  <2>3. QED
    BY <2>1, <2>2 DEF Paired
<1>11. CASE EvalLength
  <2>1. /\ pc = "eval" /\ Command = "SIZE" /\ pc' \in {"open", "idle"}
        /\ UNCHANGED <<queue, inbox>>
    BY <1>11 DEF EvalLength
  <2>2. queue = <<>> /\ inbox = <<>>
    BY <2>1 DEF Paired, Outstanding, Lasting
  <2>3. QED
    BY <2>1, <2>2 DEF Paired
<1>12. CASE EvalPort
  <2>1. /\ pc = "eval" /\ Command = "PASV" /\ Len(script) > 1
        /\ pc' \in {"send", "idle"}
        /\ script' = Tail(script) /\ UNCHANGED <<queue, inbox>>
    BY <1>12 DEF EvalPort
  <2>l. Len(script) # 1
    <3>1. Len(script) \in 1..4
      BY <2>1, NextCommands
    <3>2. QED
      BY <2>1, <3>1
  <2>2. \/ Tail(script) = <<"LIST">>
        \/ Tail(script) = <<"REST", "RETR">>
        \/ Tail(script) = <<"STOR", "DONE">>
    BY <2>1, <2>l, NextCommands
  <2>3. queue = <<>> /\ inbox = <<>>
    BY <2>1 DEF Paired, Outstanding, Lasting
  <2>4. Command' # "RETR"
    <3>1. /\ Head(<<"LIST">>) # "RETR"
          /\ Head(<<"REST", "RETR">>) # "RETR"
          /\ Head(<<"STOR", "DONE">>) # "RETR"
      OBVIOUS
    <3>2. QED
      BY <2>1, <2>2, <3>1, Zenon DEF Command
  <2>5. QED
    BY <2>1, <2>3, <2>4 DEF Paired
<1>13. CASE EvalList
  BY <1>13, AstrayStays
<1>14. CASE EvalStore
  <2>1. /\ pc = "eval" /\ Command = "STOR" /\ pc' = "data" /\ op = "put"
        /\ UNCHANGED <<op, queue, inbox, sent>>
    BY <1>14, NextCommands DEF EvalStore
  <2>2. Outstanding(queue, {"STORING"}, sent) /\ Own(inbox, sent)
    BY <2>1 DEF Paired, Lasting
  <2>3. QED
    BY <2>1, <2>2 DEF Paired
<1>15. CASE Download
  BY <1>15 DEF Download, Paired
<1>16. CASE Upload
  <2>1. /\ pc = "data" /\ op = "put"
        /\ pc' \in {"killed", "looping"} \/ (pc' = "reply" /\ dataOpen' = FALSE)
        /\ text' = <<>>
        /\ UNCHANGED <<op, script, queue, inbox, sent>>
    BY <1>16, AstrayStays DEF Upload
  <2>2. Outstanding(queue, {"STORING"}, sent) /\ Own(inbox, sent) /\ script = <<"DONE">>
    BY <2>1 DEF Paired, PlaceInv
  <2>3. Command' = "DONE" /\ Expected(Command') = {"STORING"} /\ ~ Owing'
    BY <2>1, <2>2 DEF Command, Expected, Owing
  <2>4. Own(text', sent')
    BY <2>1, OwnNone
  <2>5. CASE pc' = "reply"
    BY <2>1, <2>2, <2>3, <2>4, <2>5 DEF Paired
  <2>6. CASE pc' \in {"killed", "looping"}
    BY <2>6 DEF Paired
  <2>7. QED
    BY <2>1, <2>5, <2>6
<1>17. CASE Answer
  <2>1. queue # <<>> /\ UNCHANGED <<pc, op, script, text, dataOpen, sent>>
    BY <1>17 DEF Answer
  <2>2. Command' = Command /\ (Owing' => Owing)
    BY <1>17, <2>1 DEF Command, Owing, Answer
  <2>3. CASE pc \in {"idle", "connect", "open", "send"}
    BY <2>1, <2>3 DEF Paired
  <2>4. CASE pc \in {"looping", "killed", "gone"}
    BY <2>1, <2>4 DEF Paired
  <2>5. CASE pc = "data"
    <3>1. op = "put" /\ Own(inbox, sent) /\ queue = <<[cmd |-> "STORING", n |-> sent]>>
      BY <2>1, <2>5 DEF Paired, Outstanding
    <3>2. PICK r : inbox' = Append(inbox, [kind |-> r, n |-> sent])
      BY <1>17, <3>1, OneAnswer
    <3>e. queue' = <<>>
      BY <1>17, <3>1, OneAnswer
    <3>3. Own(inbox', sent)
      BY <3>1, <3>2, OwnAdd DEF BaseInv, WireInv
    <3>4. QED
      BY <2>1, <2>5, <3>1, <3>e, <3>3 DEF Paired, Outstanding
  <2>6. CASE pc = "reply"
    <3>1. /\ Own(text, sent) /\ Own(inbox, sent)
          /\ Command = "DONE" => dataOpen = FALSE
      BY <2>6 DEF Paired
    <3>2. PICK c \in Expected(Command) : queue = <<[cmd |-> c, n |-> sent]>>
      BY <2>1, <2>6 DEF Paired, Outstanding
    <3>3. PICK r : inbox' = Append(inbox, [kind |-> r, n |-> sent])
      BY <1>17, <3>2, OneAnswer
    <3>4. Own(inbox', sent) /\ inbox' # <<>>
      BY <3>1, <3>3, OwnAdd DEF BaseInv, WireInv
    <3>5. \/ queue' = <<>>
          \/ c = "STOR" /\ queue' = <<[cmd |-> "STORING", n |-> sent]>>
          \/ c \in {"LIST", "RETR"} /\ queue' = <<[cmd |-> "SENDING", n |-> sent]>>
      BY <1>17, <3>2, OneAnswer
    <3>6. Command # "RETR"
      BY <2>6, NextCommands
    <3>7. /\ c = "STOR" => "STORING" \in Expected(Command)
          /\ c \in {"LIST", "RETR"} => "SENDING" \in Expected(Command)
      BY <3>2, <3>6 DEF Expected
    <3>8. Outstanding(queue', Expected(Command), sent)
      BY <3>5, <3>7 DEF Outstanding
    <3>9. QED
      BY <2>1, <2>2, <2>6, <3>1, <3>4, <3>8 DEF Paired
  <2>7. CASE pc = "eval"
    <3>1. /\ Own(text, sent) /\ Own(inbox, sent)
          /\ Owing => text # <<>>
      BY <2>7 DEF Paired
    <3>2. PICK c \in Lasting(Command) : queue = <<[cmd |-> c, n |-> sent]>>
      BY <2>1, <2>7 DEF Paired, Outstanding
    <3>3. PICK r : inbox' = Append(inbox, [kind |-> r, n |-> sent])
      BY <1>17, <3>2, OneAnswer
    <3>4. Own(inbox', sent)
      BY <3>1, <3>3, OwnAdd DEF BaseInv, WireInv
    <3>5. c \in {"STORING", "SENDING"} /\ Command \in {"STOR", "LIST"}
      BY <3>2 DEF Lasting
    <3>6. queue' = <<>>
      BY <1>17, <3>2, <3>5, OneAnswer
    <3>7. QED
      BY <2>1, <2>2, <2>7, <3>1, <3>4, <3>5, <3>6 DEF Paired, Outstanding
  <2>8. QED
    BY <2>3, <2>4, <2>5, <2>6, <2>7 DEF BaseInv, Places
<1>18. CASE HangUp
  <2>1. /\ queue' = <<>> /\ peer' = "closed"
        /\ UNCHANGED <<pc, op, script, text, dataOpen, sent, inbox>>
    BY <1>18 DEF HangUp
  <2>2. Command' = Command /\ ~ Owing'
    BY <2>1 DEF Command, Owing
  <2>3. QED
    BY <2>1, <2>2 DEF Paired, Outstanding
<1>d. CASE Destroy
  <2>1. pc' \in {"killed", "gone"}
    BY <1>d DEF Destroy
  <2>2. QED
    BY <2>1 DEF Paired
<1>e. CASE LoopEnds
  BY <1>e, AstrayStays
<1>f. CASE Chatter
  BY <1>f DEF Chatter
<1>19. CASE UNCHANGED vars
  <2>1. UNCHANGED <<pc, op, script, text, dataOpen, sent, queue, inbox, peer>>
    BY <1>19 DEF vars
  <2>2. Command' = Command /\ Owing' = Owing
    BY <2>1 DEF Command, Owing
  <2>3. QED
    BY <2>1, <2>2 DEF Paired
<1>20. QED
  BY <1>1, <1>2, <1>3, <1>4, <1>5, <1>6, <1>7, <1>8, <1>9, <1>10, <1>11, <1>12, <1>13, <1>14, <1>15, <1>16, <1>17, <1>18, <1>d, <1>e, <1>f, <1>19
     DEF Next, Client

LEMMA PairKept ==
    ASSUME BaseInv, FlagInv, PlaceInv, RoomInv, WireInv, PairInv, [Next]_vars
    PROVE  PairInv'
<1> SUFFICES ASSUME speed' = "prompt", astray' = FALSE
             PROVE  Paired'
  BY Zenon DEF PairInv
<1>1. speed = "prompt" /\ astray = FALSE
  BY AstrayStays, Zenon
<1>2. Paired
  BY <1>1, Zenon DEF PairInv
<1>3. QED
  BY <1>1, <1>2, PairStep

-----------------------------------------------------------------------------
(* The invariant and what follows from it.                                  *)

LEMMA SessionStart == Init => SessionInv
<1> SUFFICES ASSUME Init PROVE SessionInv
  OBVIOUS
<1>1. BaseInv
  BY SessionAssumption DEF Init, BaseInv, Places, Operations
<1>2. FlagInv
  BY Zenon DEF Init, FlagInv
<1>3. PlaceInv
  BY DEF Init, PlaceInv
<1>4. RoomInv
  <2>1. sent \in {0, 2} /\ calls = 0 /\ pc = "idle"
    BY DEF Init
  <2>2. sock = "fresh" => sent = 0
    <3>1. sock = "fresh" => ~ loginFlag
      BY Zenon DEF Init
    <3>2. QED
      BY <3>1 DEF Init
  <2>3. QED
    BY <2>1, <2>2 DEF RoomInv, Unsent
<1>5. WireInv
  BY <1>1 DEF Init, WireInv, Queues, Inboxes, BaseInv
<1>6. PairInv
  BY DEF Init, PairInv, Paired
<1>7. DataInv
  BY DEF Init, DataInv
<1>8. QED
  BY <1>1, <1>2, <1>3, <1>4, <1>5, <1>6, <1>7 DEF SessionInv

LEMMA SeqElements ==
    ASSUME NEW S, NEW s \in Seq(S)
    PROVE  \A i \in 1..Len(s) : s[i] \in S
OBVIOUS

LEMMA SessionInd == Spec => []SessionInv
<1>1. ASSUME SessionInv, [Next]_vars PROVE SessionInv'
  BY <1>1, BaseStep, FlagStep, PlaceStep, DataStep, RoomStep, WireStep, PairKept DEF SessionInv
<1>2. QED
  BY SessionStart, <1>1, PTL DEF Spec

(* TypeOK of FtpSession: whatever the server answers and however late, the  *)
(* numbers of commands stay within four a call.                             *)
THEOREM SessionTyped == Spec => []TypeOK
<1>1. SessionInv => TypeOK
  <2> SUFFICES ASSUME SessionInv PROVE TypeOK
    OBVIOUS
  <2> USE DEF SessionInv
  <2>1. sent <= 2 + 4 * calls /\ sent \in Nat
    <3>1. Unsent \in Nat
      <4>1. pc \in {"connect", "open", "data"} => Len(script) \in Nat
        BY DEF PlaceInv
      <4>2. pc \in {"send", "reply", "eval"} => Len(script) \in 1..4
        BY NextCommands
      <4>3. QED
        BY <4>1, <4>2 DEF Unsent
    <3>2. QED
      BY <3>1, SessionAssumption DEF RoomInv, BaseInv
  <2>2. calls \in 0..MaxCalls /\ 0..sent \subseteq Numbers /\ sent \in Numbers
    <3>1. ASSUME NEW c \in Nat, NEW m \in Nat, NEW s \in Nat, c <= m, s <= 2 + 4 * c
          PROVE  s <= 2 + 4 * m
      BY <3>1
    <3>2. sent <= 2 + 4 * MaxCalls
      BY <2>1, <3>1, SessionAssumption DEF BaseInv
    <3>3. QED
      BY <2>1, <3>2, SessionAssumption DEF Numbers, BaseInv
  <2>3. ASSUME NEW s \in Inboxes(sent)
        PROVE  \A i \in 1..Len(s) : s[i] \in [kind : ReplyKinds, n : Numbers]
    <3>1. \A i \in 1..Len(s) : s[i] \in [kind : ReplyKinds, n : 0..sent]
      BY SeqElements DEF Inboxes
    <3>2. [kind : ReplyKinds, n : 0..sent] \subseteq [kind : ReplyKinds, n : Numbers]
      BY <2>2
    <3>3. QED
      BY <3>1, <3>2
  <2>4. /\ \A i \in 1..Len(inbox) : inbox[i] \in [kind : ReplyKinds, n : Numbers]
        /\ \A i \in 1..Len(text) : text[i] \in [kind : ReplyKinds, n : Numbers]
    BY <2>3 DEF WireInv
  <2>5. passive \in Numbers /\ obeyed \in Numbers
    BY <2>2 DEF WireInv
  <2>6. leaked \in 0..(2 * MaxCalls) /\ failures \in 0..MaxCalls
    BY SessionAssumption DEF BaseInv, Places
  <2>7. QED
    BY <2>2, <2>4, <2>5, <2>6, Zenon DEF TypeOK, BaseInv, FlagInv
<1>2. QED
  BY <1>1, SessionInd, PTL

(* VerdictOwn: with a prompt server, and until replies were left unread,    *)
(* the reply an operation judges belongs to its last command.               *)
THEOREM VerdictsOwn == Spec => []VerdictOwn
<1>1. SessionInv => VerdictOwn
  <2> SUFFICES ASSUME SessionInv, pc = "eval", speed = "prompt", ~ astray
               PROVE  /\ text # <<>> => text[1].n = sent
                      /\ text = <<>> => peer # "open" \/ op = "login" \/ Command = "DONE"
    BY Zenon DEF VerdictOwn
  <2>1. astray = FALSE
    BY Zenon DEF SessionInv, FlagInv
  <2>2. Paired
    BY <2>1, Zenon DEF SessionInv, PairInv
  <2>3. Own(text, sent) /\ (Owing => text # <<>>) /\ text \in Inboxes(sent)
    BY <2>2 DEF Paired, SessionInv, WireInv
  <2>4. text # <<>> => text[1].n = sent
    BY <2>3 DEF Own, Inboxes
  <2>5. QED
    BY <2>3, <2>4 DEF Owing
<1>2. QED
  BY <1>1, SessionInd, PTL

(* LeaksBounded: an operation that succeeds closes all that it opened; one  *)
(* that fails loses two descriptors at most, its data socket and the local  *)
(* file of a Put, whatever the server answers, stale replies included; and  *)
(* none leaves a socket open that the next would overwrite.                 *)
THEOREM SocketsCounted == Spec => []LeaksBounded
<1>1. SessionInv => LeaksBounded
  <2> SUFFICES ASSUME SessionInv PROVE LeaksBounded
    OBVIOUS
  <2>1. leaked <= 2 * failures
    BY DEF SessionInv, BaseInv
  <2>2. pc \in {"idle", "gone"} => dataOpen # TRUE
    BY DEF SessionInv, DataInv
  <2>3. dataOpen \in BOOLEAN
    BY Zenon DEF SessionInv, FlagInv
  <2>4. QED
    BY <2>1, <2>2, <2>3, Zenon DEF LeaksBounded
<1>2. QED
  BY <1>1, SessionInd, PTL

=============================================================================
