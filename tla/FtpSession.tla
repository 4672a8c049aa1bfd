----------------------------- MODULE FtpSession -----------------------------
(***************************************************************************)
(* The control connection of class CFTPManager (cPlusPlus/ftp-test2):      *)
(* a client that calls the public operations in any order, one at a time,  *)
(* and the server at the other end, which takes commands in order and may  *)
(* answer late.  The client has no notion of which reply belongs to which  *)
(* command: serverResponse returns whatever arrived before one second of   *)
(* silence.  What travels over the data connections is left to the modules *)
(* about transfers; here a transfer is one step with any outcome.          *)
(***************************************************************************)
EXTENDS Naturals, Sequences

CONSTANTS
    Simple,     (* commands of the operations that send one command and      *)
                (* report on its reply, or return it (PWD, Pasv)             *)
    Composite,  (* the other operations that are called                      *)
    Speeds,     (* "prompt": each answer comes within a second; "slow": any; *)
                (* "endless": it may also go on sending without a pause      *)
    MaxCalls    (* bound: operations called in one session                   *)

ASSUME SessionAssumption ==
    /\ Simple \subseteq {"PWD", "TYPE", "CWD", "DELE", "RMD", "MKD", "QUIT", "PASV"}
    /\ Composite \subseteq {"login", "USER", "PASS", "rename", "size", "dir", "get", "put"}
    /\ Speeds \subseteq {"prompt", "slow", "endless"}
    /\ MaxCalls \in Nat

VARIABLES
    pc,         (* the client's next step                                    *)
    op,         (* the operation under way, or the last one                  *)
    script,     (* the commands it has still to deal with, the present first *)
    text,       (* strResponse: what serverResponse has collected            *)
    loginFlag,  (* m_bLogin                                                  *)
    sock,       (* m_cmdSocket: "fresh", "connected" or "closed"             *)
    dataOpen,   (* the operation holds an open data socket                   *)
    leaked,     (* descriptors nobody will close: data sockets, and the      *)
                (* local files of Put                                        *)
    sent,       (* commands sent so far; a command is named by its number    *)
    speed,      (* the server's, for the whole session                       *)
    queue,      (* commands the server has to deal with, the present first   *)
    inbox,      (* replies that have arrived and are not read                *)
    peer,       (* the server's end: "open", "closed", or "reset" by a send  *)
    chatter,    (* it is sending without a pause of a second                 *)
    authed,     (* the server accepted a password                            *)
    passive,    (* the PASV command on whose port the server listens         *)
    obeyed,     (* history: the last command the server carried out          *)
    calls,      (* history: operations called                                *)
    failures,   (* history: operations that failed                           *)
    astray,     (* history: an operation left replies to its commands unread *)
    result      (* history: what the last operation returned                 *)

data == <<dataOpen, leaked>>
server == <<speed, queue, inbox, peer, chatter, authed, passive, obeyed>>
vars == <<pc, op, script, text, loginFlag, sock, dataOpen, leaked, sent, speed, queue,
          inbox, peer, chatter, authed, passive, obeyed, calls, failures, astray, result>>

Operations == Simple \cup Composite

(* The commands of an operation, in order; "HELLO" and "DONE" are replies   *)
(* that are awaited without a command, at login and at the end of a Put.    *)
Script(o) ==
    CASE o = "login" -> <<"HELLO">>
      [] o = "rename" -> <<"RNFR", "RNTO">>
      [] o = "size" -> <<"SIZE">>
      [] o = "dir" -> <<"PASV", "LIST">>
      [] o = "get" -> <<"SIZE", "PASV", "REST", "RETR">>
      [] o = "put" -> <<"SIZE", "PASV", "STOR", "DONE">>
      [] OTHER -> <<o>>

Command == Head(script)

-----------------------------------------------------------------------------
(* Ends of an operation.  An early return of Dir, Put or downLoad leaves    *)
(* its data socket open unless it closes it first, and one of Put its local *)
(* file, open from the moment it has asked for the size.                    *)

Return(success) ==
    /\ pc' = "idle"
    /\ result' = success
    /\ failures' = IF success THEN failures ELSE failures + 1

Sockets == IF dataOpen THEN 1 ELSE 0
Files == IF op = "put" THEN 1 ELSE 0

Lose(descriptors) ==
    /\ dataOpen' = FALSE
    /\ leaked' = leaked + descriptors

Continue(label) == pc' = label /\ UNCHANGED <<failures, result>>

-----------------------------------------------------------------------------
(* The client.                                                              *)

Call ==
    /\ pc = "idle"
    /\ calls < MaxCalls
    /\ calls' = calls + 1
    /\ \E o \in Operations :
          /\ op' = o
          /\ script' = Script(o)
          /\ pc' = CASE o = "login" -> "connect"
                     [] o = "dir" -> "open"
                     [] OTHER -> "send"
    /\ UNCHANGED <<text, loginFlag, sock, data, sent, server, failures, astray, result>>

(* login2Server.  On a connected socket connect() fails, but select and     *)
(* SO_ERROR then report success.  A socket that did not connect is closed   *)
(* for good.                                                                *)
ConnectServer ==
    /\ pc = "connect"
    /\ \/ /\ sock = "fresh"
          /\ sock' = "connected"
          /\ queue' = <<[cmd |-> "HELLO", n |-> 0]>>
          /\ Continue("reply")
       \/ /\ sock = "connected"
          /\ Continue("reply")
          /\ UNCHANGED <<sock, queue>>
       \/ /\ sock # "connected"
          /\ sock' = "closed"
          /\ Return(FALSE)
          /\ UNCHANGED queue
    /\ text' = <<>>
    /\ UNCHANGED <<op, script, loginFlag, data, sent, speed, inbox, peer, chatter,
                   authed, passive, obeyed, calls, astray>>

(* The data socket of Dir, Put and downLoad; Put opens its file before.     *)
(* Either can fail, and so can binding the socket to the device.            *)
OpenData ==
    /\ pc = "open"
    /\ \/ Return(FALSE) /\ \E opened \in 0..(1 + Files) : Lose(opened)
       \/ Continue("send") /\ dataOpen' = TRUE /\ UNCHANGED leaked
    /\ UNCHANGED <<op, script, text, loginFlag, sock, sent, server, calls, astray>>

MaySend == loginFlag \/ Command \in {"USER", "PASS"}

(* The gate of Send, a closed socket, or one that stays unwritable for a    *)
(* second.  Only Dir and Put close their data socket, when LIST, STOR or    *)
(* APPE cannot be sent.  A Put that cannot ask for the size goes on.        *)
SendFails ==
    /\ pc = "send"
    /\ \/ ~ MaySend
       \/ sock \in {"closed", "connected"}
    /\ \/ /\ op = "put" /\ Command = "SIZE"
          /\ Continue("open")
          /\ script' = Tail(script)
          /\ UNCHANGED data
       \/ /\ op # "put" \/ Command # "SIZE"
          /\ Return(FALSE)
          /\ Lose(IF Command \in {"LIST", "STOR"} THEN Files ELSE Sockets + Files)
          /\ UNCHANGED script
    /\ UNCHANGED <<op, text, loginFlag, sock, sent, server, calls, astray>>

(* send() on a socket that never was connected or has been reset raises     *)
(* SIGPIPE, which nobody handles.                                           *)
SendKills ==
    /\ pc = "send"
    /\ MaySend
    /\ sock = "fresh" \/ (sock = "connected" /\ peer = "reset")
    /\ Continue("killed")
    /\ UNCHANGED <<op, script, text, loginFlag, sock, data, sent, server, calls, astray>>

(* A command that is on its way; the first after the server has closed its  *)
(* end is lost.  The caller goes on to read the reply, unless LOGG_DEBUG,   *)
(* whose arguments are never evaluated, holds the call that would.          *)
SendCommand(unread) ==
    /\ pc = "send"
    /\ MaySend
    /\ sock = "connected"
    /\ peer # "reset"
    /\ sent' = sent + 1
    /\ queue' = IF peer = "open" THEN Append(queue, [cmd |-> Command, n |-> sent'])
                                 ELSE queue
    /\ peer' = IF peer = "open" THEN "open" ELSE "reset"
    /\ loginFlag' = (loginFlag \/ Command = "PASS")
    /\ IF Command \in unread
       THEN /\ Continue(IF Command = "RETR" THEN "data" ELSE "send")
            /\ script' = Tail(script)
       ELSE /\ Continue("reply")
            /\ UNCHANGED script
    /\ text' = <<>>
    /\ UNCHANGED <<op, sock, data, speed, inbox, chatter, authed, passive, obeyed, calls>>

(* Mutant: Rename does not wait for the reply to RNFR.                      *)
SendRenamePipelined ==
    /\ SendCommand({"REST", "RETR", "RNFR"})
    /\ astray' = (astray \/ Command = "REST")

Send ==
    /\ SendCommand({"REST", "RETR"})
    /\ astray' = (astray \/ Command = "REST")

(* serverResponse and getData.                                              *)
Receive ==
    /\ pc = "reply"
    /\ inbox # <<>>
    /\ text' = text \o inbox
    /\ inbox' = <<>>
    /\ UNCHANGED <<pc, op, script, loginFlag, sock, data, sent, speed, queue, peer,
                   chatter, authed, passive, obeyed, calls, failures, astray, result>>

(* A prompt server keeps nobody waiting, except for the end of a transfer.  *)
ServerQuiet ==
    \A i \in 1..Len(queue) :
        queue[1].cmd \in (IF dataOpen THEN {"SENDING", "STORING"} ELSE {"SENDING"})

(* Mutant: select without a timeout, so only a closed connection ends it.   *)
SilenceForClose ==
    /\ pc = "reply"
    /\ inbox = <<>>
    /\ peer # "open"
    /\ pc' = "eval"
    /\ UNCHANGED <<op, script, text, loginFlag, sock, data, sent, server, calls,
                   failures, astray, result>>

(* One second without data, or the end of the connection.                   *)
Silence ==
    /\ pc = "reply"
    /\ inbox = <<>>
    /\ ~ chatter
    /\ speed = "prompt" => ServerQuiet
    /\ pc' = "eval"
    /\ UNCHANGED <<op, script, text, loginFlag, sock, data, sent, server, calls,
                   failures, astray, result>>

Found(kind) == text # <<>> /\ text[1].kind = kind

(* parseResponse takes any positive code for a success, getFileLength only  *)
(* 213.                                                                     *)
EvalLast ==
    /\ pc = "eval"
    /\ Len(script) = 1 /\ Command # "LIST"
    /\ Return(CASE Command = "SIZE" -> Found("size")
                [] Command = "DONE" -> TRUE
                [] OTHER -> text # <<>>)
    /\ UNCHANGED <<op, script, text, loginFlag, sock, data, sent, server, calls, astray>>

(* Mutant: RNFR is sent again until the server accepts it.                  *)
EvalRenameRetries ==
    /\ pc = "eval"
    /\ Command = "RNFR"
    /\ script' = IF Found("yes") THEN Tail(script) ELSE script
    /\ Continue("send")
    /\ UNCHANGED <<op, text, loginFlag, sock, data, sent, server, calls, astray>>

(* Rename goes on whatever the reply to RNFR is.                            *)
EvalRename ==
    /\ pc = "eval"
    /\ Command = "RNFR"
    /\ script' = Tail(script)
    /\ Continue("send")
    /\ UNCHANGED <<op, text, loginFlag, sock, data, sent, server, calls, astray>>

(* downLoad refuses a file of no or unknown length, Put any uses.           *)
EvalLength ==
    /\ pc = "eval"
    /\ Command = "SIZE"
    /\ \/ op = "put" /\ Continue("open")
       \/ op = "get" /\ Found("size") /\ Continue("open")
       \/ op = "get" /\ Return(FALSE)
    /\ script' = Tail(script)
    /\ UNCHANGED <<op, text, loginFlag, sock, data, sent, server, calls, astray>>

(* createDataLink takes the port from the first parentheses in what Pasv    *)
(* returned, and those may be in an old reply that precedes the port        *)
(* ("150 Opening ... (123 bytes)").  Connect closes the socket when it      *)
(* fails; a text without a port leaves it open.                             *)
Ports == {i \in 1..Len(text) : text[i].kind = "port"}

EvalPort ==
    /\ pc = "eval"
    /\ Command = "PASV" /\ Len(script) > 1
    /\ \/ /\ 1 \notin Ports
          /\ Return(FALSE)
          /\ Lose(Sockets + Files)
       \/ /\ Ports # {}
          /\ Return(FALSE)
          /\ Lose(Files)
       \/ /\ \E i \in Ports : text[i].n = passive /\ \A j \in Ports : i <= j
          /\ Continue("send")
          /\ UNCHANGED data
    /\ script' = Tail(script)
    /\ UNCHANGED <<op, text, loginFlag, sock, sent, server, calls, astray>>

(* The server has begun a transfer on the port it listened on: only then    *)
(* does it send data.                                                       *)
Begun == passive = 0

(* Dir reads the listing, and returns without the reply that ends it.       *)
EvalList ==
    /\ pc = "eval"
    /\ Command = "LIST"
    /\ ~ chatter
    /\ \E listed \in BOOLEAN : (listed => Begun) /\ Return(listed)
    /\ Lose(0)
    /\ astray' = TRUE
    /\ UNCHANGED <<op, script, text, loginFlag, sock, sent, server, calls>>

EvalStore ==
    /\ pc = "eval"
    /\ Command = "STOR"
    /\ Continue("data")
    /\ script' = Tail(script)
    /\ UNCHANGED <<op, text, loginFlag, sock, data, sent, server, calls, astray>>

(* Mutant: the data connection is not closed at the end of a download.      *)
DownloadKeepsSocket ==
    /\ pc = "data"
    /\ op = "get"
    /\ \E complete \in BOOLEAN : (complete => Begun) /\ Return(complete)
    /\ Lose(Sockets)
    /\ UNCHANGED <<op, script, text, loginFlag, sock, sent, server, calls, astray>>

(* The loop of downLoad; without a local file it does not get there.        *)
Download ==
    /\ pc = "data"
    /\ op = "get"
    /\ \/ Return(FALSE) /\ Lose(Sockets)
       \/ (\E complete \in BOOLEAN : (complete => Begun) /\ Return(complete)) /\ Lose(0)
    /\ UNCHANGED <<op, script, text, loginFlag, sock, sent, server, calls, astray>>

(* The loop of Put, and the reading of the data connection that follows.  A *)
(* Send that fails leaves the server's last reply unread and the file open. *)
(* A local file that cannot be read (fread returns 0, feof stays false)     *)
(* keeps the loop going.                                                    *)
Upload ==
    /\ pc = "data"
    /\ op = "put"
    /\ \/ Return(FALSE) /\ Lose(Files) /\ astray' = TRUE
       \/ ~ chatter /\ Continue("reply") /\ Lose(0) /\ UNCHANGED astray
       \/ Continue("killed") /\ UNCHANGED <<data, astray>>
       \/ Continue("looping") /\ UNCHANGED <<data, astray>>
    /\ text' = <<>>
    /\ chatter' = FALSE
    /\ UNCHANGED <<op, script, loginFlag, sock, sent, speed, queue, inbox, peer, authed,
                   passive, obeyed, calls>>

(* What such a loop sends again and again, the last piece that was read, may*)
(* be refused at last.                                                      *)
LoopEnds ==
    /\ pc = "looping"
    /\ \/ Return(FALSE) /\ Lose(Files)
       \/ Continue("killed") /\ UNCHANGED data
    /\ astray' = TRUE
    /\ UNCHANGED <<op, script, text, loginFlag, sock, sent, server, calls>>

(* The destructor sends QUIT, if it may, and does not wait for the reply.   *)
Destroy ==
    /\ pc = "idle"
    /\ calls < MaxCalls
    /\ calls' = calls + 1
    /\ \/ /\ loginFlag
          /\ peer = "reset"
          /\ Continue("killed")
          /\ UNCHANGED <<loginFlag, sock, sent, queue>>
       \/ /\ Continue("gone")
          /\ loginFlag' = FALSE
          /\ sock' = "closed"
          /\ \/ UNCHANGED <<sent, queue>>
             \/ /\ loginFlag /\ peer # "reset"
                /\ sent' = sent + 1
                /\ queue' = IF peer = "open" THEN Append(queue, [cmd |-> "QUIT", n |-> sent'])
                                             ELSE queue
    /\ UNCHANGED <<op, script, text, data, speed, inbox, peer, chatter, authed, passive,
                   obeyed, astray>>

-----------------------------------------------------------------------------
(* The server.                                                              *)

Transfers == {"LIST", "RETR", "STOR"}

ReplyKind(cmd, ok) ==
    IF ~ ok THEN "no"
    ELSE IF cmd = "SIZE" THEN "size"
    ELSE IF cmd = "PASV" THEN "port"
    ELSE "yes"

(* It answers a command, or reports that the transfer it was at is over.    *)
(* Without a password it obeys nothing but the login.                       *)
Answer ==
    /\ peer = "open"
    /\ queue # <<>>
    /\ LET item == Head(queue)
       IN  /\ item.cmd = "STORING" => ~ dataOpen
           /\ \E ok \in BOOLEAN :
                 /\ ok => authed \/ item.cmd \in {"HELLO", "USER", "PASS", "QUIT"}
                 /\ inbox' = Append(inbox, [kind |-> ReplyKind(item.cmd, ok), n |-> item.n])
                 /\ queue' = IF ok /\ item.cmd \in Transfers
                             THEN <<[cmd |-> IF item.cmd = "STOR" THEN "STORING" ELSE "SENDING",
                                     n |-> item.n]>> \o Tail(queue)
                             ELSE IF ok /\ item.cmd = "QUIT" THEN <<>>
                             ELSE Tail(queue)
                 /\ peer' = IF ok /\ item.cmd = "QUIT" THEN "closed" ELSE peer
                 /\ authed' = (authed \/ (ok /\ item.cmd = "PASS"))
                 /\ passive' = IF ok /\ item.cmd = "PASV" THEN item.n
                               ELSE IF ok /\ item.cmd \in Transfers THEN 0
                               ELSE passive
                 /\ obeyed' = IF ok /\ item.cmd \notin Transfers THEN item.n ELSE obeyed
    /\ UNCHANGED <<pc, op, script, text, loginFlag, sock, data, sent, speed, chatter,
                   calls, failures, astray, result>>

(* It goes on sending, or pauses: after a reply the client is reading, or   *)
(* on the data connection that serverResponse reads for Dir and Put.        *)
Chatter ==
    /\ speed = "endless"
    /\ \/ pc = "reply" /\ text # <<>> /\ peer = "open"
       \/ pc = "eval" /\ Command = "LIST"
       \/ pc = "data" /\ op = "put"
    /\ chatter' = ~ chatter
    /\ UNCHANGED <<pc, op, script, text, loginFlag, sock, data, sent, speed, queue, inbox,
                   peer, authed, passive, obeyed, calls, failures, astray, result>>

(* The server, or the network, ends the connection.                         *)
HangUp ==
    /\ sock = "connected"
    /\ peer = "open"
    /\ peer' = "closed"
    /\ queue' = <<>>
    /\ chatter' = FALSE
    /\ UNCHANGED <<pc, op, script, text, loginFlag, sock, data, sent, speed, inbox,
                   authed, passive, obeyed, calls, failures, astray, result>>

(* A new CFTPManager or, so that MaxCalls is not spent on it, one that has  *)
(* connected, or one that a prompt server has let in: login2Server,         *)
(* inputUserName and inputPassWord have returned true.                      *)
Init ==
    /\ pc = "idle"
    /\ op = "none"
    /\ script = <<>>
    /\ text = <<>>
    /\ sock \in {"fresh", "connected"}
    /\ loginFlag \in BOOLEAN
    /\ loginFlag => sock = "connected"
    /\ authed = loginFlag
    /\ sent = IF loginFlag THEN 2 ELSE 0
    /\ obeyed = sent
    /\ dataOpen = FALSE
    /\ leaked = 0
    /\ speed \in Speeds
    /\ queue = <<>>
    /\ inbox = <<>>
    /\ peer = "open"
    /\ chatter = FALSE
    /\ passive = 0
    /\ calls = 0
    /\ failures = 0
    /\ astray = FALSE
    /\ result = FALSE

Client ==
    \/ ConnectServer \/ OpenData \/ SendFails \/ SendKills \/ Send \/ Receive \/ Silence
    \/ EvalLast \/ EvalRename \/ EvalLength \/ EvalPort \/ EvalList \/ EvalStore
    \/ Download \/ Upload

Next == Call \/ Destroy \/ Client \/ LoopEnds \/ Answer \/ Chatter \/ HangUp

Spec == Init /\ [][Next]_vars

(* The client runs.  A prompt server answers; from another nothing need     *)
(* ever come, since getData gives up after a second.  Nothing ends a loop   *)
(* over a file that cannot be read.                                         *)
FairSpec == Spec /\ WF_vars(Client) /\ WF_vars(speed = "prompt" /\ Answer)

-----------------------------------------------------------------------------
(* Properties.                                                              *)

ReplyKinds == {"yes", "no", "size", "port"}
Numbers == 0..(2 + 4 * MaxCalls)

Places == {"idle", "connect", "open", "send", "reply", "eval", "data", "looping",
           "killed", "gone"}

TypeOK ==
    /\ pc \in Places
    /\ op \in Operations \cup {"none"}
    /\ loginFlag \in BOOLEAN
    /\ sock \in {"fresh", "connected", "closed"}
    /\ dataOpen \in BOOLEAN
    /\ leaked \in 0..(2 * MaxCalls)
    /\ sent \in Numbers
    /\ speed \in Speeds
    /\ \A i \in 1..Len(inbox) : inbox[i] \in [kind : ReplyKinds, n : Numbers]
    /\ \A i \in 1..Len(text) : text[i] \in [kind : ReplyKinds, n : Numbers]
    /\ peer \in {"open", "closed", "reset"}
    /\ chatter \in BOOLEAN
    /\ authed \in BOOLEAN
    /\ passive \in Numbers
    /\ obeyed \in Numbers
    /\ calls \in 0..MaxCalls
    /\ failures \in 0..MaxCalls
    /\ astray \in BOOLEAN
    /\ result \in BOOLEAN

(* With a server that answers within a second, and until a Get, a Dir or a  *)
(* failed Put has left replies unread, each operation judges its command by *)
(* the reply to that very command, although nothing but timing pairs them.  *)
VerdictOwn ==
    pc = "eval" /\ speed = "prompt" /\ ~ astray =>
        /\ text # <<>> => text[1].n = sent
        /\ text = <<>> => peer # "open" \/ op = "login" \/ Command = "DONE"

(* Only an operation that fails loses track of descriptors, and of two at   *)
(* most, a data socket and the local file of a Put: every path of Get, Put  *)
(* and Dir that succeeds closes all it opened, whatever the server does,    *)
(* and no operation hands an open data socket on to the next.               *)
LeaksBounded ==
    /\ leaked <= 2 * failures
    /\ pc \in {"idle", "gone"} => ~ dataOpen

(* An operation that was called returns, or dies of SIGPIPE, although the   *)
(* server may be silent or hang up at any time: unless the server goes on   *)
(* sending for ever without a pause of a second, or Put is at a local file  *)
(* that it cannot read.                                                     *)
EveryCallReturns ==
    <>[](~ chatter) =>
        (pc \in Places \ {"idle"} ~> pc \in {"idle", "killed", "gone", "looping"})

(* CD fails when the server refuses ("chdir to '%s' failed!"), and so do    *)
(* the other operations that report on one reply.                           *)
SuccessIsTrue ==
    pc = "idle" /\ calls > 0 /\ op \in Simple /\ speed = "prompt" /\ result
        => obeyed = sent

(* downLoad complains that "The size of '%s' is less than 0." only when the *)
(* server has refused to name the size: in a session of Gets, with a prompt *)
(* server, of which none has failed.                                        *)
SizeRefusalIsTrue ==
    pc = "eval" /\ op = "get" /\ Command = "SIZE" /\ speed = "prompt" /\ failures = 0 /\ text # <<>>
        => Found("size") \/ obeyed # sent

=============================================================================
