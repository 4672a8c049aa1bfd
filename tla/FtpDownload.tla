----------------------------- MODULE FtpDownload -----------------------------
(***************************************************************************)
(* CFTPManager::downLoad (cPlusPlus/ftp-test2/ftpClient.cpp): what comes   *)
(* over the data connection, into which buffer, and what is made of it.    *)
(* The control connection, with its replies that may belong to another     *)
(* command, is FtpSession's; here a command is obeyed or fails.            *)
(***************************************************************************)
EXTENDS Integers

CONSTANTS
    GetBuffer,      (* FTP_DEFAULT_BUFFER: 6144                              *)
    Half,           (* half the values of an int: 2^31                       *)
    RemoteSizes     (* lengths of the remote file                            *)

ASSUME FtpDownloadAssumption ==
    /\ GetBuffer \in Nat \ {0}
    /\ Half \in Nat \ {0}
    /\ RemoteSizes \subseteq Nat

VARIABLES
    getStep,        (* "idle", "link", "recv", "done"                        *)
    fileSize,       (* at the server: length of the file                     *)
    length,         (* what downLoad takes for it, an int                    *)
    nDataLen,       (* size of dataBuf                                       *)
    nReceiveLen,
    filed,          (* bytes in the local file                               *)
    block_size,     (* of m_progress                                         *)
    percent,        (* the last one shown, an index of m_progress.bar        *)
    getRet,         (* what downLoad returned                                *)
    cutShort,       (* history: a second of silence, or the end of the       *)
                    (* connection, before the end of the file                *)
    diskFull,       (* history: fwrite took less than it was given           *)
    changed         (* history: the file was replaced after SIZE             *)

getHistory == <<cutShort, diskFull, changed>>
getVars == <<getStep, fileSize, length, nDataLen, nReceiveLen, filed, block_size, percent,
             getRet, cutShort, diskFull, changed>>

Bar == 102          (* elements of m_progress.bar                            *)

(* The long of getFileLength, kept in an int.                               *)
ToInt(n) == ((n + Half) % (2 * Half)) - Half

Smaller(i, j) == IF i < j THEN i ELSE j

GetInit ==
    /\ getStep = "idle"
    /\ fileSize = 0 /\ length = 0 /\ nDataLen = 0 /\ nReceiveLen = 0 /\ filed = 0
    /\ block_size = 0 /\ percent = 0
    /\ getRet = FALSE
    /\ cutShort = FALSE /\ diskFull = FALSE /\ changed = FALSE

GetReturns(success) == getStep' = "done" /\ getRet' = success

-----------------------------------------------------------------------------
(* SIZE is answered, or getFileLength returns -1.                           *)
CallGet ==
    /\ getStep = "idle"
    /\ fileSize' \in RemoteSizes
    /\ \E told \in {fileSize', -1} :
          /\ length' = ToInt(told)
          /\ IF length' <= 0
                THEN GetReturns(FALSE) /\ UNCHANGED nDataLen
                ELSE /\ getStep' = "link"
                     /\ nDataLen' = Smaller(GetBuffer, length')
                     /\ UNCHANGED getRet
    /\ UNCHANGED <<nReceiveLen, filed, block_size, percent, getHistory>>

(* The data link, REST, RETR and the local file: what fails returns.        *)
GetLink ==
    /\ getStep = "link"
    /\ \/ getStep' = "recv" /\ UNCHANGED getRet
       \/ GetReturns(FALSE)
    /\ UNCHANGED <<fileSize, length, nDataLen, nReceiveLen, filed, block_size, percent,
                   getHistory>>

(* Another file takes the name meanwhile.                                   *)
FileChanges ==
    /\ getStep = "link"
    /\ fileSize' \in RemoteSizes \ {fileSize}
    /\ changed' = TRUE
    /\ UNCHANGED <<getStep, length, nDataLen, nReceiveLen, filed, block_size, percent, getRet,
                   cutShort, diskFull>>

(* Mutant: the buffer's size is added, not what came.                       *)
DownloadProgressBuffer(datasize) ==
    /\ block_size' = block_size + nDataLen
    /\ percent' = (100 * block_size') \div length

DownloadProgress(datasize) ==
    /\ block_size' = block_size + datasize
    /\ percent' = (100 * block_size') \div length

(* Mutant: the buffer is kept as it was.                                    *)
NextBufferSame(received) == nDataLen

(* Mutant: the buffer is one byte short of what is missing.                 *)
NextBufferShort(received) ==
    IF received + nDataLen > length THEN length - received - 1 ELSE nDataLen

(* The buffer is replaced when less than it holds is missing.               *)
NextBuffer(received) ==
    IF received + nDataLen > length THEN length - received ELSE nDataLen

(* A round of the loop.  How much fwrite wrote is not looked at.  A memset  *)
(* of sizeof(dataBuf) bytes after it is left out: it clears what the next   *)
(* recv fills or, in a buffer smaller than a pointer, what lies behind it.  *)
GetReceive ==
    /\ getStep = "recv"
    /\ \E n \in 1..Smaller(nDataLen, fileSize - nReceiveLen) :
          /\ nReceiveLen' = nReceiveLen + n
          /\ \E written \in 0..n :
                /\ filed' = filed + written
                /\ diskFull' = (diskFull \/ written < n)
          /\ IF nReceiveLen' = length
                THEN GetReturns(nReceiveLen' > 1) /\ UNCHANGED <<nDataLen, block_size, percent>>
                ELSE /\ nDataLen' = NextBuffer(nReceiveLen')
                     /\ DownloadProgress(n)
                     /\ UNCHANGED <<getStep, getRet>>
    /\ UNCHANGED <<fileSize, length, cutShort, changed>>

(* getData returns -1: nothing came within a second, the connection is at   *)
(* its end, or there was no room in the buffer.  downLoad does not tell the *)
(* three apart, and counts on having all if it has more than one byte.      *)
GetEnds ==
    /\ getStep = "recv"
    /\ GetReturns(nReceiveLen > 1)
    /\ cutShort' = (nDataLen > 0 /\ nReceiveLen < fileSize)
    /\ UNCHANGED <<fileSize, length, nDataLen, nReceiveLen, filed, block_size, percent,
                   diskFull, changed>>

GetNext == CallGet \/ GetLink \/ FileChanges \/ GetReceive \/ GetEnds

GetSpec == GetInit /\ [][GetNext]_getVars

-----------------------------------------------------------------------------
(* Properties.                                                              *)

(* At each recv the buffer takes at least a byte, at most what its default  *)
(* size allows, and never more than is missing: what the server sends       *)
(* beyond the length announced is not filed.  (Of recv only: the memset of  *)
(* a round may write beyond a buffer of fewer bytes than a pointer has.)    *)
BufferFits ==
    getStep = "recv" => nDataLen \in 1..Smaller(GetBuffer, length - nReceiveLen)

(* The progress bar is written inside its array.                            *)
BarInside == percent \in 0..(Bar - 1)

(* A download that is reported done is the whole file, but for what Get     *)
(* does not notice: the connection went silent or ended too soon, the disk  *)
(* was full, the file was replaced after SIZE, or it does not fit an int.   *)
ShortOnlyIf ==
    getRet =>
        \/ filed = fileSize
        \/ cutShort
        \/ diskFull
        \/ changed
        \/ fileSize >= Half

=============================================================================
