---------------------------- MODULE DownloadFile ----------------------------
(***************************************************************************)
(* One download by python/downloadFile.py: class upgrade over ftpConnect,  *)
(* sftpConnect or httpConnect, with the Python 2 libraries underneath      *)
(* (ftplib, paramiko, urllib) and the server at the other end.  The        *)
(* libraries call the program back for every piece that arrives, and the   *)
(* callback prints a progress line when the wall clock shows a new second: *)
(* its divisions are where a download of good data can die.                *)
(***************************************************************************)
EXTENDS Integers, FiniteSets

CONSTANTS
    KB,         (* bytes in a kilobyte: 1024                                 *)
    Cells,      (* cells of a full bar: 100                                  *)
    Block,      (* bytes urlretrieve reads at a time: 8192                   *)
    MaxChunk,   (* bound: most bytes in one piece of an ftp or sftp download *)
    Sizes,      (* sizes of the remote file                                  *)
    MaxClock,   (* bound: latest second of the wall clock                    *)
    Paramiko    (* whether the global name paramiko is bound: the file does  *)
                (* not import it, an importer may bind it                    *)

ASSUME DownloadAssumption ==
    /\ KB \in Nat \ {0} /\ Cells \in Nat \ {0}
    /\ Block \in Nat \ {0} /\ MaxChunk \in Nat \ {0}
    /\ Sizes \subseteq Nat
    /\ MaxClock \in Nat
    /\ Paramiko \subseteq BOOLEAN

VARIABLES
    stage,      (* what the program does next                                *)
    proto,      (* "ftp", "sftp", "http", or "path": no URL, a local file    *)
    size,       (* at the server: bytes of the file under the name           *)
    page,       (* at the server: what that name holds, the "image" or, with *)
                (* HTTP, the "missing" page of a 404 or the "error" of a 500 *)
    arrived,    (* bytes of this transfer the library has received           *)
    stored,     (* bytes in the local file, NoFile while it is not touched   *)
    total,      (* total_size, Unknown if the server does not tell           *)
    got,        (* block_size; count * block_size with HTTP                  *)
    once,       (* no piece has arrived yet                                  *)
    startTime,
    lastTime,
    wall,       (* int(time.time())                                          *)
    ended,      (* what the caller sees: "downloaded", "failed" (printed),   *)
                (* "abort" (click.Abort), "raised" (any other exception)     *)
    byProgress, (* history: it was the progress line that raised             *)
    fresh,      (* history: bytes that arrived within the present second     *)
    slow,       (* history: a second of the transfer brought less than KB,   *)
                (* or the wall clock was put forward meanwhile               *)
    back        (* history: the wall clock was put back                      *)

remote == <<size, page>>
times == <<once, startTime, lastTime>>
downloadHistory == <<byProgress, fresh, slow, back>>
downloadVars == <<stage, proto, size, page, arrived, stored, total, got, once, startTime,
                  lastTime, wall, ended, byProgress, fresh, slow, back>>

NoFile == -1
Unknown == -1

Abs(i) == IF i < 0 THEN -i ELSE i
Least(i, j) == IF i < j THEN i ELSE j

-----------------------------------------------------------------------------
(* The progress line, for p bytes after d seconds: lines 54-60, 123-129,    *)
(* 183-189.  With ftp block_size is a float and int() rounds towards zero,  *)
(* the other two divide integers, rounding down.                            *)

SpeedIsZero(p, d) ==
    IF proto = "ftp" THEN p < KB * Abs(d) ELSE d > 0 /\ p < KB * d

ProgressRaises(p, d) ==
    \/ d = 0                                (* speed                         *)
    \/ SpeedIsZero(p, d)                    (* time_left                     *)
    \/ proto = "ftp" /\ total = Unknown     (* percent: a float by None      *)
    \/ total \in 0..(Cells - 1)             (* percent or cursor_position    *)

(* The callback's clock: when a second has passed since the last line it    *)
(* prints one, and what that raises ends the transfer.                      *)
ShowProgress(p, start, last) ==
    /\ startTime' = start
    /\ lastTime' = wall
    /\ LET raises == wall # last /\ ProgressRaises(p, wall - start)
       IN  /\ byProgress' = raises
           /\ IF raises
                 THEN /\ stage' = "done"
                      /\ ended' = IF proto = "http" THEN "raised" ELSE "failed"
                 ELSE UNCHANGED <<stage, ended>>

-----------------------------------------------------------------------------
(* How a step of the program may end.                                       *)

Finish(how) == stage' = "done" /\ ended' = how
Proceed(next) == stage' = next /\ UNCHANGED ended

(* An exception inside the try statement around the transfer.  The handler  *)
(* of httpConnect raises itself: it passes the exception to click.echo as   *)
(* the file to write to, and never reaches its click.Abort.                 *)
Caught == Finish(IF proto = "http" THEN "raised" ELSE "failed")

DownloadInit ==
    /\ stage = "idle"
    /\ proto = "path"
    /\ size = 0 /\ page = "image"
    /\ arrived = 0 /\ stored = NoFile
    /\ total = 0 /\ got = 0
    /\ once = TRUE /\ startTime = 0 /\ lastTime = 0 /\ wall = 0
    /\ ended = "none"
    /\ byProgress = FALSE /\ fresh = 0 /\ slow = FALSE /\ back = FALSE

(* Mutant: the constructor opens the local file, before the login.          *)
CallDownloadOpens ==
    /\ stage = "idle"
    /\ \/ proto' = "http" /\ Proceed("validate")
       \/ proto' = "path" /\ Finish("downloaded")
       \/ proto' \in {"ftp", "sftp"} /\ (Proceed("login") \/ Finish("raised"))
    /\ stored' = 0
    /\ size' \in Sizes
    /\ page' \in (IF proto' = "http" THEN {"image", "missing", "error"} ELSE {"image"})
    /\ UNCHANGED <<arrived, total, got, times, wall, downloadHistory>>

(* ftpDownload, sftpDownload or httpDownload is called.  The constructors   *)
(* of ftpConnect and sftpConnect open a file of their own, which may fail.  *)
(* A URL that is no URL is taken for a path, and nothing is transferred:    *)
(* the download is reported whether or not there is such a file.            *)
CallDownload ==
    /\ stage = "idle"
    /\ \/ proto' = "http" /\ Proceed("validate")
       \/ proto' = "path" /\ Finish("downloaded")
       \/ proto' \in {"ftp", "sftp"} /\ (Proceed("login") \/ Finish("raised"))
    /\ size' \in Sizes
    /\ page' \in (IF proto' = "http" THEN {"image", "missing", "error"} ELSE {"image"})
    /\ UNCHANGED <<arrived, stored, total, got, times, wall, downloadHistory>>

(* Without the name paramiko, sftpDownload ends here.  A Transport that     *)
(* cannot connect raises too; a refused login aborts.                       *)
Login ==
    /\ stage = "login"
    /\ \/ \E bound \in Paramiko :
             /\ proto = "ftp" \/ bound
             /\ Proceed("open") \/ Finish("abort")
       \/ proto = "sftp" /\ Finish("raised")
    /\ UNCHANGED <<proto, remote, arrived, stored, total, got, times, wall, downloadHistory>>

(* DownLoadFile opens the local file, ftpConnect's inside the try.          *)
OpenLocal ==
    /\ stage = "open"
    /\ \/ Proceed("size") /\ stored' = 0
       \/ Finish(IF proto = "ftp" THEN "failed" ELSE "raised") /\ UNCHANGED stored
    /\ UNCHANGED <<proto, remote, arrived, total, got, times, wall, downloadHistory>>

(* ftp.size raises or, for an odd reply, returns None; sftp.stat raises.    *)
AskSize ==
    /\ stage = "size"
    /\ \/ /\ Proceed("retrieve")
          /\ total' \in (IF proto = "ftp" THEN {size, Unknown} ELSE {size})
       \/ Caught /\ UNCHANGED total
    /\ UNCHANGED <<proto, remote, arrived, stored, got, times, wall, downloadHistory>>

(* validate_url_or_abort: no answer or a 4xx aborts, an exception that is   *)
(* no IOError leaves as it is, any other status passes.                     *)
ValidateUrl ==
    /\ stage = "validate"
    /\ \/ page # "missing" /\ Proceed("retrieve")
       \/ Finish("abort")
       \/ Finish("raised")
    /\ UNCHANGED <<proto, remote, arrived, stored, total, got, times, wall, downloadHistory>>

(* The transfer begins.  sftp.get asks for the size again and opens the     *)
(* local file again; urlretrieve opens it, whatever the status, and calls   *)
(* the hook with count 0, which only notes the time.                        *)
StartTransfer ==
    /\ stage = "retrieve"
    /\ \/ /\ Proceed("transfer")
          /\ stored' = 0
          /\ \/ proto = "ftp" /\ UNCHANGED <<total, times>>
             \/ proto = "sftp" /\ total' = size /\ UNCHANGED times
             \/ /\ proto = "http"
                /\ total' \in {size, Unknown}
                /\ once' = FALSE /\ startTime' = wall /\ lastTime' = wall
       \/ Caught /\ UNCHANGED <<stored, total, times>>
    /\ UNCHANGED <<proto, remote, arrived, got, wall, downloadHistory>>

(* What the library hands over at a time: urllib reads full blocks until    *)
(* the last, the other two whatever came.                                   *)
Pieces ==
    IF proto = "http" THEN {Least(Block, size - arrived)}
                      ELSE 1..Least(MaxChunk, size - arrived)

(* Mutant: every piece is written by both branches of the callback.         *)
FileWriteTwice(n) ==
    /\ stored' = stored + n + n
    /\ got' = got + n
    /\ once' = FALSE
    /\ IF once THEN ShowProgress(got', wall, wall)
               ELSE ShowProgress(got', startTime, lastTime)

(* Mutant: the early return for an unchanged second precedes the write.     *)
FileWriteEachSecond(n) ==
    LET skip == ~once /\ wall = lastTime
    IN  /\ stored' = IF skip THEN stored ELSE stored + n
        /\ got' = IF skip THEN got ELSE got + n
        /\ once' = FALSE
        /\ IF once THEN ShowProgress(got', wall, wall)
                   ELSE ShowProgress(got', startTime, lastTime)

(* Mutant: the constructor's times are kept, the login counts as transfer.  *)
FileWriteSinceLogin(n) ==
    /\ stored' = stored + n
    /\ got' = got + (IF proto = "http" THEN Block ELSE n)
    /\ once' = FALSE
    /\ ShowProgress(got', startTime, lastTime)

(* file_write, or a round of urlretrieve with its reporthook: the piece is  *)
(* stored, counted, and the progress shown.                                 *)
FileWrite(n) ==
    /\ stored' = stored + n
    /\ got' = got + (IF proto = "http" THEN Block ELSE n)
    /\ once' = FALSE
    /\ IF once THEN ShowProgress(got', wall, wall)
               ELSE ShowProgress(got', startTime, lastTime)

Receive ==
    /\ stage = "transfer"
    /\ arrived < size
    /\ \E n \in Pieces :
          /\ arrived' = arrived + n
          /\ fresh' = fresh + n
          /\ FileWrite(n)
    /\ UNCHANGED <<proto, remote, total, wall, slow, back>>

(* The local file cannot take the next piece.                               *)
WriteFails ==
    /\ stage = "transfer"
    /\ arrived < size
    /\ Caught
    /\ UNCHANGED <<proto, remote, arrived, stored, total, got, times, wall, downloadHistory>>

(* The connection is cut.  ftplib and paramiko raise, for they await the    *)
(* end to be confirmed; urlretrieve takes it for the end of the file, and   *)
(* raises only if the size it was told is not reached.                      *)
CutOff ==
    /\ stage = "transfer"
    /\ arrived < size
    /\ IF proto = "http" /\ total = Unknown THEN Proceed("close") ELSE Caught
    /\ UNCHANGED <<proto, remote, arrived, stored, total, got, times, wall, downloadHistory>>

EndTransfer ==
    /\ stage = "transfer"
    /\ arrived = size
    /\ Proceed("close")
    /\ UNCHANGED <<proto, remote, arrived, stored, total, got, times, wall, downloadHistory>>

(* The file is closed.  Writing its last bytes may fail then, outside the   *)
(* try statements of the two DownLoadFile.                                  *)
CloseLocal ==
    /\ stage = "close"
    /\ Finish("downloaded") \/ Finish("raised")
    /\ UNCHANGED <<proto, remote, arrived, stored, total, got, times, wall, downloadHistory>>

-----------------------------------------------------------------------------
(* Around the program.                                                      *)

(* Another file, or with HTTP another page, takes the name at the server.   *)
RemoteChanges ==
    /\ stage \in {"login", "open", "size", "validate", "retrieve"}
    /\ size' \in Sizes
    /\ page' \in (IF proto = "http" THEN {"image", "missing", "error"} ELSE {"image"})
    /\ remote' # remote
    /\ UNCHANGED <<stage, proto, arrived, stored, total, got, times, wall, ended,
                   downloadHistory>>

(* The server has begun to send, as the program sees it.                    *)
Flowing == stage = "transfer" /\ (arrived > 0 \/ proto = "http")

(* The wall clock moves: a second passes, or it is set.                     *)
ClockMoves ==
    /\ stage \notin {"idle", "done"}
    /\ \E t \in (0..MaxClock) \ {wall} :
          /\ wall' = t
          /\ back' = (back \/ t < wall)
          /\ slow' = (slow \/ (Flowing /\ fresh < KB * (t - wall)))
    /\ fresh' = 0
    /\ UNCHANGED <<stage, proto, remote, arrived, stored, total, got, times, ended, byProgress>>

DownloadNext ==
    \/ CallDownload \/ Login \/ OpenLocal \/ AskSize \/ ValidateUrl \/ StartTransfer
    \/ Receive \/ WriteFails \/ CutOff \/ EndTransfer \/ CloseLocal
    \/ RemoteChanges \/ ClockMoves

DownloadSpec == DownloadInit /\ [][DownloadNext]_downloadVars

-----------------------------------------------------------------------------
(* Properties.                                                              *)

(* Types; the local file never holds more than has arrived.                 *)
DownloadTypeOK ==
    /\ stage \in {"idle", "login", "open", "size", "validate", "retrieve", "transfer",
                  "close", "done"}
    /\ proto \in {"ftp", "sftp", "http", "path"}
    /\ size \in Nat
    /\ page \in {"image", "missing", "error"}
    /\ arrived \in 0..size
    /\ stored \in {NoFile} \cup 0..arrived
    /\ total \in Nat \cup {Unknown}
    /\ got \in Nat
    /\ once \in BOOLEAN
    /\ startTime \in Nat /\ lastTime \in Nat /\ wall \in Nat
    /\ ended \in {"none", "downloaded", "failed", "abort", "raised"}
    /\ byProgress \in BOOLEAN /\ slow \in BOOLEAN /\ back \in BOOLEAN
    /\ fresh \in Nat

(* "download ... successfully": the local file is then as long as the one   *)
(* at the server, whatever pieces it came in and whenever it was replaced,  *)
(* unless the server never said how long the file is.                       *)
WholeWhenReported ==
    /\ ended = "downloaded"
    /\ proto # "path"
    /\ proto = "http" => total # Unknown
    => stored = size

(* When the progress line can kill a download: never if every second        *)
(* brings a kilobyte, the clock is not set, and the size announced is       *)
(* known and has as many bytes as the bar has cells.                        *)
ProgressSpares ==
    byProgress =>
        \/ slow
        \/ back
        \/ total \in 0..(Cells - 1)
        \/ proto = "ftp" /\ total = Unknown

(* A download that aborts (login refused, nothing at the URL) has not       *)
(* touched the local file: an image from an earlier download is still whole.*)
AbortLeavesFile == ended = "abort" => stored = NoFile

(* Of "validates whether a given URL specifies an existent file ... Will    *)
(* abort the current operation if not": what is downloaded over HTTP is the *)
(* image.  It is not: only 4xx aborts, and only if it came at the first     *)
(* request; the page of a 500 is saved and reported as the image.           *)
SuccessIsImage ==
    (ended = "downloaded" /\ proto = "http") => page = "image"

=============================================================================
