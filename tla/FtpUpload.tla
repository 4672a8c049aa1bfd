------------------------------ MODULE FtpUpload ------------------------------
(***************************************************************************)
(* CFTPManager::Put (cPlusPlus/ftp-test2/ftpClient.cpp): where in the      *)
(* local file it begins, which command it sends, and what its chunks are,  *)
(* sent as C strings, when they reach the remote file.                     *)
(***************************************************************************)
EXTENDS Integers, Sequences, SequencesExt

CONSTANTS
    PutBuffer,      (* FTP_DEFAULT_BUFFER: 6144                              *)
    Bytes,          (* values of a byte                                      *)
    Texts,          (* contents of the local file                            *)
    Remotes,        (* contents of the remote file, or Absent                *)
    Strays,         (* lengths that a late reply to another SIZE names       *)
    MaxRemote       (* bound: bytes that rounds without an end pile up       *)

NUL == "NUL"
Absent == <<"absent">>  (* no file contains this one "byte"                  *)

ASSUME FtpUploadAssumption ==
    /\ PutBuffer \in Nat \ {0}
    /\ NUL \in Bytes /\ "absent" \notin Bytes
    /\ Texts \subseteq Seq(Bytes)
    /\ Remotes \subseteq Seq(Bytes) \cup {Absent}
    /\ Strays \subseteq Nat
    /\ MaxRemote \in Nat

VARIABLES
    putStep,        (* "idle", "command", "send", "looping", "done"          *)
    local,          (* contents of the local file                            *)
    before,         (* of the remote file as it was when Put was called, or  *)
                    (* as another client of the server has left it since     *)
    remoteFile,     (* of the remote file now                                *)
    nSize,          (* getFileLength's answer, -1 kept as such               *)
    offset,         (* of pFile                                              *)
    strBuf,
    storing,        (* the server took the STOR or APPE, and stores under    *)
                    (* that name what arrives                                *)
    putRet          (* what Put returned                                     *)

putVars == <<putStep, local, before, remoteFile, nSize, offset, strBuf, storing, putRet>>

Contents(file) == IF file = Absent THEN <<>> ELSE file

PutInit ==
    /\ putStep = "idle"
    /\ local = <<>> /\ before = Absent /\ remoteFile = Absent
    /\ nSize = 0 /\ offset = 0
    /\ strBuf = [i \in 1..PutBuffer |-> NUL]
    /\ storing = FALSE /\ putRet = FALSE

PutReturns(success) == putStep' = "done" /\ putRet' = success

-----------------------------------------------------------------------------
(* SIZE, the local file and the data link.  The server may refuse SIZE for  *)
(* a file it has, and what Put reads may be the reply to an earlier SIZE.   *)
CallPut ==
    /\ putStep = "idle"
    /\ local' \in Texts
    /\ before' \in Remotes
    /\ remoteFile' = before'
    /\ nSize' \in {-1} \cup Strays \cup (IF before' = Absent THEN {} ELSE {Len(before')})
    /\ \/ putStep' = "command" /\ UNCHANGED putRet
       \/ PutReturns(FALSE)
    /\ UNCHANGED <<offset, strBuf, storing>>

(* Mutant: nSize is signed, so that -1 is not above zero.                   *)
StoresSigned == nSize <= 0

(* nSize <= 0, of an unsigned long.                                         *)
Stores == nSize = 0

(* Mutant: the file is sent from its start.                                 *)
SeekStart == 0

(* fseek to nSize: -1 is no place in a file and leaves it at its start.     *)
Seek == IF nSize = -1 THEN 0 ELSE nSize

(* Another client of the server changes the file or puts another in its     *)
(* place: what Put still sends is not stored under that name.               *)
RemoteReplaced ==
    /\ putStep \in {"command", "send", "looping"}
    /\ remoteFile' \in Remotes \ {remoteFile}
    /\ before' = remoteFile'
    /\ storing' = FALSE
    /\ UNCHANGED <<putStep, local, nSize, offset, strBuf, putRet>>

(* STOR begins the remote file anew, APPE goes on with it.  The reply is    *)
(* read and not looked at.                                                  *)
PutCommand ==
    /\ putStep = "command"
    /\ \/ /\ putStep' = "send"
          /\ storing' \in BOOLEAN
          /\ remoteFile' = IF ~storing' THEN remoteFile
                           ELSE IF Stores THEN <<>> ELSE Contents(remoteFile)
          /\ offset' = Seek
          /\ UNCHANGED putRet
       \/ PutReturns(FALSE) /\ UNCHANGED <<storing, remoteFile, offset>>
    /\ UNCHANGED <<local, before, nSize, strBuf>>

(* fread: the buffer keeps its old bytes after those that were read.        *)
Filled ==
    [i \in 1..PutBuffer |->
        IF offset + i <= Len(local) THEN local[offset + i] ELSE strBuf[i]]

(* The bytes of a buffer taken as a C string: up to a NUL or, where there   *)
(* is none, on into what lies behind the buffer.                            *)
CStrings(buffer) ==
    LET nuls == {i \in 1..PutBuffer : buffer[i] = NUL}
    IN  IF nuls = {}
        THEN {buffer, buffer \o <<"garbage">>}
        ELSE {SubSeq(buffer, 1, Min(nuls) - 1)}

(* The server stores what arrives, or its first bytes only and nothing of   *)
(* what follows (a full disk, an abort): its last reply, which would say    *)
(* so, is read and not looked at.                                           *)
Store(text) ==
    \/ storing /\ remoteFile' = remoteFile \o text /\ UNCHANGED storing
    \/ /\ storing
       /\ \E n \in 0..(Len(text) - 1) : remoteFile' = remoteFile \o SubSeq(text, 1, n)
       /\ storing' = FALSE
    \/ ~storing /\ UNCHANGED <<remoteFile, storing>>

(* A round of the loop.  It is the last if fread came to the end of file;   *)
(* where it just read the last byte, another round sends the buffer again.  *)
PutChunk ==
    /\ putStep = "send"
    /\ strBuf' = Filled
    /\ offset' = offset + PutBuffer
    /\ \/ /\ \E text \in CStrings(strBuf') : Store(text)
          /\ IF Len(local) < offset + PutBuffer
                THEN PutReturns(TRUE)
                ELSE UNCHANGED <<putStep, putRet>>
       \/ PutReturns(FALSE) /\ UNCHANGED <<remoteFile, storing>>
    /\ UNCHANGED <<local, before, nSize>>

(* fread fails: it returns 0, nLen, which is unsigned, is not below that,   *)
(* and feof stays false.                                                    *)
PutReadFails ==
    /\ putStep = "send"
    /\ putStep' = "looping"
    /\ UNCHANGED <<local, before, remoteFile, nSize, offset, strBuf, storing, putRet>>

(* Rounds that send the buffer as it is, again and again, until a Send      *)
(* fails.                                                                   *)
PutLoops ==
    /\ putStep = "looping"
    /\ \/ /\ Len(Contents(remoteFile)) < MaxRemote
          /\ \E text \in CStrings(strBuf) : Store(text)
          /\ UNCHANGED <<putStep, putRet>>
       \/ PutReturns(FALSE) /\ UNCHANGED <<remoteFile, storing>>
    /\ UNCHANGED <<local, before, nSize, offset, strBuf>>

PutNext ==
    CallPut \/ RemoteReplaced \/ PutCommand \/ PutChunk \/ PutReadFails \/ PutLoops

PutSpec == PutInit /\ [][PutNext]_putVars

-----------------------------------------------------------------------------
(* Properties.                                                              *)

(* What getFileLength said holds for the file that STOR or APPE met.        *)
SizeRight ==
    IF nSize = -1 THEN before = Absent ELSE before # Absent /\ nSize = Len(before)

(* What Put gets right, and no more.  Returning true it does not notice     *)
(* that the command was refused, that the server stopped storing, that the  *)
(* file changed after SIZE or that the size was another's.  But for those,  *)
(* a text without NUL has arrived as it is if and only if it goes on from   *)
(* what the server had and less than a buffer of it was still to send: a    *)
(* longer one, or one that fills the buffer, takes bytes with it that are   *)
(* not its own, and Put returns the same.                                   *)
OnlyShortTextCompletes ==
    /\ putRet /\ storing
    /\ SizeRight
    /\ NUL \notin ToSet(local)
    => (remoteFile = local <=>
            /\ IsPrefix(Contents(before), local)
            /\ Len(local) - Len(Contents(before)) < PutBuffer)

(* Put takes away from the remote file only where it was told 0 of one that *)
(* had bytes when STOR came, because it changed after SIZE or the reply was *)
(* another's: no other wrong length does, nor a refused SIZE, whose -1      *)
(* counts as the largest.                                                   *)
RemoteKept ==
    (nSize = 0 => Contents(before) = <<>>)
        => IsPrefix(Contents(before), Contents(remoteFile))

=============================================================================
