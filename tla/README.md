# TLA+ models of cPlusPlustools

The repository is a collection of small, independent tools. Two of them have
behaviour worth a model checker and a prover: the **upgrade daemon**
(`src/python/upgradeDaemon.py`), several processes that coordinate through files
and signals, and the **FTP client** (`src/cPlusPlus/ftp-test2/`), a protocol whose
two ends are kept in step by nothing but timing and whose transfers judge themselves by byte counts.
The rest are short programs with one or two hazards each.

## 1. Inventory

| Component | State | Operations | What is hard | What makes it correct |
|---|---|---|---|---|
| upgradeDaemon: life cycle (`class Daemon`: `start`, `stop`, `restart`, `_daemonize`, `parse_info`, `delpid`) | the PID file, the diagnose file, the processes | commands from any shell; a daemon that winds up calls `stop()` too | check and write of the PID file are far apart; every process removes the same path and kills the id it read before; SIGTERM skips `atexit`; SIGKILL | one daemon at most; it can be found and stopped; nobody else kills it; a diagnose file is acted on once; everything ends |
| upgradeDaemon: watch (`_run`, `handle_check`, `handle_force_rollback`, `upgrade_diagnose`) | `time_cnt`, the instructions, the containers, the boot image | a check each minute, a rollback | containers and programs come and go between two calls of docker; docker fails; a rollback fails half-way | a passed check has seen all it was to see; no healthy upgrade is rolled back; the watch ends |
| ftpClient: control connection (`CFTPManager`) | the socket, `m_bLogin`, replies in flight, data sockets | `login2Server`, `inputUserName`, `inputPassWord`, `quitServer`, `PWD`, `CD`, `setTransferMode`, `Pasv`, `CreateDirectory`, `Dele*`, `Rename`, `getFileLength`, `Dir`, `Get`, `Put`, the destructor | replies carry no name of their command; silence of a second ends a reply; refusals; a server that hangs up or never pauses; early returns | an operation judges its command by that command's reply; it returns; it does not lose descriptors; success means success |
| ftpClient: data connection (the loops of `downLoad` and `Put`) | byte counts, the buffer, the offset in the local file | a round of `getData`/`fwrite` or `fread`/`Send` | short reads, stalls, `int` truncation, a file replaced after `SIZE`, a server that stops storing, a local file that cannot be read, chunks taken for C strings | a file reported as transferred is the file |
| `downloadFile.py` (FTP, SFTP, HTTP with a progress bar) | byte counts, start time, time of the last line | `ftpDownload`, `sftpDownload`, `httpDownload`; a callback per block | a zero speed or duration, an unknown size, a connection cut, a file replaced meanwhile, a clock that is set | a reported file is whole; the progress line ends no good download |
| `send_arp.c` | a sending and a receiving thread | | the reply may arrive before the thread has its socket; `main` spins; a failed `recvfrom` passes for a frame | a reply ends the program |
| `printArpKernelLog.c` | two snapshot files | a `dmesg` a second | lines that enter or leave the ring in between, a `dmesg` that fails | each line taken down is shown |
| `getSysTime.cpp` | | split of `date`'s output | words that move with a two-digit day | the date printed is the date |
| `main.cpp` | | login, `CD`, `Get` | results of the login are ignored; `bool` compared with -1 | (not modelled) |
| `getInterfaces.c` | one `ifreq` for many ioctls | | any ioctl may fail | (not modelled) |
| `ipstr2int.c` | | conversions | byte order | (not modelled) |
| `raw_send.py` | none | one frame | | (not modelled) |

The components do not call each other. Inside the daemon, the life cycle hands over
to the watch in `_run` and gets control back when the watch calls `stop()` or
raises. Inside the FTP client, the control connection opens the data connections. `DownloadFile`
talks to the libraries below it (`ftplib`, `paramiko`, `urllib`), which call it back.

## 2. Modules

| Module | Role |
|---|---|
| `UpgradeDaemon` | the life cycle: any number of invocations, one action per system call on a shared object |
| `UpgradeDiagnose` | the watch of one daemon against containers and a docker that change between its calls |
| `UpgradeWatch` | the abstract watch: what `UpgradeDaemon` takes for granted of it; `UpgradeDiagnose` is shown to implement it |
| `FtpSession` | the control connection: the client's steps against a server and the replies in flight |
| `FtpDownload`, `FtpUpload` | the transfer loops of `downLoad` and `Put`, of which `FtpSession` takes any outcome for possible |
| `DownloadFile` | one download of `downloadFile.py` over FTP, SFTP or HTTP, with the callback that prints the progress |
| `SendArp`, `KernelLog`, `SystemTime` | one small program each |
| `MCUpgradeDaemon`, `MCUpgradeDiagnose` | instances for TLC (symmetry, tables) |
| `MCTools` | instance for TLC of the programs that run to their end by themselves: from a state where all rest, any one starts |
| `UpgradeDaemonProofs`, `UpgradeDiagnoseProofs`, `FtpSessionProofs`, `FtpDownloadProofs`, `FtpUploadProofs`, `DownloadFileProofs` | theorems with their proofs, one module for each component |
| `SmallToolsProofs` | theorems about `KernelLog`, `SystemTime` and `SendArp` |

Definitions that begin with "Mutant:" in their comment are faulty versions of the
definition that follows. No specification uses them. Each property of each passing run is
violated when one of them takes its original's place, so each property depends on
the code it is about. `PROJECT.json` says which, and maps every definition to the
lines it models.

### UpgradeDaemon

One member of `Procs` is one invocation of the script together with the daemon it
leaves behind: only daemons write their id into the PID file, so the ids of the
parents are never seen. `pc[c]` is the next system call:

* `check`, `fork`, `open`, `write`: `start()` and `_daemonize()`. The PID file is
  created empty by `open` and filled when it is closed, so another process may read
  it empty (`Blank`, for which `int('')` raises) or mixed (`Garbled`). A writer whose file
  was removed in between writes to nothing (`linked`).
* `parse`, `consume`, `watch`, `delpid`: `parse_info()`, `_run()` and the exit handler.
* `sread`, `sexists`, `sremove`, `skill`, `fexists`, `fremove`: `stop()`, from a
  command, a restart (`ret[c] = "start"`) or a daemon. A daemon usually kills itself here.

`Discipline` says when commands may be issued. With `"any"`, at any time from any
number of shells. With `"shell"`, from one shell, when the previous command has returned.
With `"settled"`, moreover not before a daemon that was just started has written
its PID file. `Faults` says who may be hit by SIGKILL. `InstallUpgrade` is the
upgrade tool, which writes the diagnose file at any time.

A process killed by SIGKILL is at `crashed`. One case has a label of its own, `cut`: a stop or restart
command that had removed the PID file and not yet killed the daemon whose id it read there. That daemon is lost
to the operator; `NoneLost`, in the properties, says that it has not happened. A process stopped by `stop()`'s
SIGTERM is at `killed`.

Assumed: process ids are not reused while somebody remembers them; `kill` is permitted (the
tool runs as root); SIGTERM is delivered at once. The log, the redirected descriptors
and the sleeps have no effect on the properties and are left out.

### UpgradeDiagnose

`pc` is where `_run` stands: `loop` (the test of `time_cnt`), `inspect` and `exec` (the
two docker calls for `Head(todo)`), `rollback`, `tick` (the decrement and the 60 s
sleep), `sread` (into `stop()`) and `raised`. `ContainerChanges` and `ProgramChanges` are the world.
`Inspect` may find the container running whatever its state is, because a failed
`docker inspect` is passed over. `ExecFails` is always possible; nobody catches its
exception. `alive[c]` is all that `ps`
shows in a container: programs the table asks for, and any lines of `Others`, the scripts and arguments of whatever else runs there.
`Matches` is the relation behind `if proc in line`: a name may be part of another program's line, as `portmgrd` is part of `subportmgrd`, or
of a line of `Others`. The history
variables `minutes`, `culprit` and `listings` (what `ps` showed in each container of the present check) record what was observed; no guard reads them.

`WatchImplemented` maps the detailed watch to `UpgradeWatch`: `phase` is `"watch"`
until `pc` is `sread` or `raised`. These are the two exits of `EndWatch` in `UpgradeDaemon`, where
the exception needs `c \in armed`, as it needs `hasOrders` here.

### FtpSession

An operation is a list of commands (`Script`). For each the client goes through `send`
(`Send`, with its gate on `m_bLogin`), `reply` (`serverResponse`: `Receive` as data comes,
`Silence` after a second without), and `eval` (what the caller does with
the text). `open` and `data` are the data socket and the transfer, whose loop is one step of any
outcome, of which one, for `Put`, is to stay in the loop (`looping`: the local file cannot be read and the end of file never comes). `Destroy`
is the destructor. `leaked` counts the descriptors nobody will close: data sockets, and the local files of `Put`, which goes on to open both where
`SIZE` could not even be sent. Commands and replies carry a number the program does not have; it exists only to
state properties. The server takes commands in order, may refuse each of them,
reports the end of a transfer on its own, may hang up at any time, and is `prompt` (an answer comes
within the second), `slow`, or `endless` for the session: an endless one may be late and may go on sending without a pause, during which (`chatter`)
`serverResponse` does not return. What it sends then is not collected. The replies to `REST` and `RETR` are never
read: the calls that would read them are arguments of `LOGG_DEBUG`, which is `if(0)`
(`ftpClient.h:40`). `createDataLink` takes the port from the first parentheses in the text (`EvalPort`), which an old reply may have had.

### FtpDownload and FtpUpload

`FtpDownload`: `CallGet` is `downLoad` up to the answer to `SIZE`, which `ToInt` keeps in an `int`; `GetLink`
is everything from the data link to the local file, any part of which may fail; `GetReceive` is a round of the
loop, a `recv` of any part of what there is, an `fwrite` of any part of that, the progress bar, and
the buffer that shrinks to what is missing (`NextBuffer`), without the `memset` of line 956, whose eight bytes may lie beyond a smaller buffer; `GetEnds` is the -1 of `getData`, which means a second of
silence, the end of the connection, or a buffer without room. `FileChanges` is another client of the server.
Bytes are counted, not looked at.

`FtpUpload` does look at bytes, since `Put` sends each buffer as a C string: `Filled` is `fread`
into a buffer that keeps what it held, `CStrings` what `strlen` makes of that. `PutCommand` is the choice of `STOR` or
`APPE` from the unsigned `nSize`, and the `fseek` to it. `nSize` may also be one of `Strays`, the late answer to another `SIZE`. `RemoteReplaced` is another
client of the server, at any time after `SIZE`; `before` then is what that client left. The server may refuse the command or stop storing half-way (`Store`,
`storing`), which the final reply would say; `Put` reads that reply and does not look at it. `PutReadFails` and `PutLoops` are the loop over a file that cannot
be read. `Bytes` is what a byte can be, `Texts` the local files, `Remotes` what the server may hold.

### DownloadFile

`stage` is where the call stands: `login`, `open`, `size` (FTP, SFTP), `validate` (HTTP), `retrieve` (the library is
called), `transfer`, `close`, `done`. `FileWrite` is the callback: with the wall clock in a second
it has not shown yet, it computes a progress line, and `ProgressRaises` says for which numbers that divides by
zero or fails on an unknown size. `ended` is what the caller sees. The server may replace
the file (`RemoteChanges`), the connection may be cut (`CutOff`, which `urlretrieve` takes for the end when no
length was announced), the disk may be full, and the wall clock may go anywhere (`ClockMoves`). The histories `slow`, `back` and `byProgress` are read
by no guard. `page` tells an image from the page of an error.

### SendArp, KernelLog, SystemTime

`SendArp`: `sender` is the main thread (`create`, `request`, then `spin`), `receiver` the one that opens the socket
and waits; a frame that comes while there is no socket is gone, and the first that is received ends the
process. So does a `recvfrom` that fails, on a socket or for want of one (`broken`): its -1, kept in an unsigned `socklen_t`, is not `<= 0`. `KernelLog`: a line is its number in the log; `Dmesg` writes the ring to `file_new`,
`Compare` is `compareFile`, `diff` and `cp`; the kernel logs in between. `SystemTime`:
`Words` are the words of the line `asctime` writes, `MonthOf` picks and maps the month.

## 3. What the runs check

| Run | Instance | What it shows |
|---|---|---|
| `daemon_any` | 3 invocations at any time, 2 diagnose files, anyone may be killed with SIGKILL | `TypeOK`; `PidfileNotStale`: no late write or removal leaves the name of a daemon that has gone; `NoDoubleWatch`: however many daemons start, one at most acts on each diagnose file; `EachCallCounts`: every system call leaves its process fewer to make, and what others do gives it no more |
| `daemon_ends` | 3 invocations at any time, fair | `EveryProcessEnds`: no `stop()` loops for ever, not even when several processes, daemons among them, stop each other |
| `daemon_settled` | 4 invocations, disciplined, anyone may be killed with SIGKILL | `OneWatcher`, `WatcherListed`, `NotRunningIsTrue`, `OnlyOperatorStops`: used with care, the PID file does what it is for, and the only SIGKILL that loses a daemon is one that hits a stop just before its `kill`; `RestartFailsOnlyIf`: a restart gets past the PID file of a killed daemon, and fails in three cases only: no fork, a PID file left empty by a daemon killed before its write, or a daemon that removes the file at that very moment |
| `daemon_race` (violation) | 2 `start`s from one shell | `OneWatcher` fails: the prompt returns before the PID file is written, and both daemons watch |
| `diagnose_watch` | 2 containers, one of 1 program and one of 2, of which one's name is part of the other's; a script with the name of the third; 1 container outside the table; 1 image; budget 2 | `PassedMeansAnswered`, `PassedMeansWhole`, `RollbackHasCause`, and the refinement `WatchImplemented` with its fairness |
| `diagnose_deb` (violation) | 1 container, 1 package | `DebOwnerChecked` fails: the arguments of `deb_diagnose` are swapped |
| `diagnose_rollback` (violation) | the real budget of 30 | `RollbackReturns` fails: every rollback dies of a `TypeError` in the first `run_command` |
| `ftp_session` | any 2 operations, also half-way through the login, server prompt, slow or endless | `VerdictOwn`: with a prompt server each command is judged by its own reply until a `Get`, a `Dir` or a failed `Put` has left replies unread; `LeaksBounded`: only a failed operation loses descriptors, a data socket and a local file at most; `EveryCallReturns`: unless the server sends for ever without a pause, or `Put` is at a file it cannot read |
| `ftp_refused` (violation) | prompt server | `SuccessIsTrue` fails: a refused `CD` returns true |
| `ftp_size` (violation) | prompt server | `SizeRefusalIsTrue` fails: after a `Get` that succeeded, the second one reads the first one's leftover reply as its size |
| `tools` | any one of the six small models | `WholeWhenReported`, `ProgressSpares`, `AbortLeavesFile` of `DownloadFile`; `BufferFits`, `BarInside`, `ShortOnlyIf` of `FtpDownload`; `OnlyShortTextCompletes`, `RemoteKept` of `FtpUpload`; `NoLineLost`, `LinesReachReader` of `KernelLog`; `ReplyWaits`, `ReplyEndsIt` of `SendArp`; `DateRightOrMonthMissing` of `SystemTime` |
| `http_image` (violation) | HTTP and the others | `SuccessIsImage` fails: the page of a server error is saved and reported as the image |

Several of these properties name the events that excuse a bad outcome: `ShortOnlyIf` the five things `downLoad` does not notice,
`ProgressSpares` the four numbers its line cannot bear, `NoneLost` the one SIGKILL that loses a daemon, `RestartFailsOnlyIf` the three ends of a restart,
`PassedMeansWhole` the line that was taken for a program, `RemoteKept` the length of 0 that was not the file's. What they say is
that there is no other way to go wrong. `OnlyShortTextCompletes` is an equivalence: where the length was right and the server stored what came, it names the texts `Put` carries, and all others
arrive spoiled.

Two properties are the safety half of a liveness property, which makes it provable for every instance: `EachCallCounts` of
`EveryProcessEnds`, `ReplyWaits` of `ReplyEndsIt`. Fairness adds only that a step that can be taken is taken.

### Bounds and why they are enough

* `Procs`: two commands make a race of check and write; a third can be a `stop`
  that interferes with both; the fourth, where the discipline leaves room for it, shows the
  aftermath. The safety runs use the symmetry of the processes; the liveness run cannot. The theorems
  hold for any number.
* `MaxInstalls`: with 2, two daemons compete for a file and each can have instructions. The
  liveness run has 0: with instructions a daemon only has one more way to leave `watch`, and nothing
  in `stop()` depends on them. The proof of `NoDoubleWatch` is for any number.
* Containers and programs: two containers let a check find one good and the next bad; two programs in one of them let
  one name hide in another, and `Others` lets one hide in a script. The two are of the five of `container_names`.
* `TimeCnt` is 2 instead of 30 where the state space needs it: the first check, one more and
  giving up all occur. The proofs are for any budget.
* `MaxCalls = 2`: what one operation leaves behind is seen by the next. `Simple` has three of
  the eight one-command operations: `CWD` for those that leave the session as it is, `QUIT`, which
  ends it, and `PASV`, which makes the server listen. `Init` includes sessions after a connection and after the login, so that the bound is
  not spent on those.

* `tools`: all numbers are scaled down, keeping their order. A kilobyte is 2 bytes, a full bar 2 cells and an HTTP block 4 bytes, so that a file
  of 1 byte is shorter than the bar and one of 5 takes several pieces of at most 3 and two blocks; the clock has the seconds 0 to 3, enough for
  a first second, a slow one, a step back and another line. `downLoad`'s buffer is 3 bytes, and an `int` wraps at 8, so
  that the sizes 0 to 19 include one byte, several rounds, a shrinking last buffer, and lengths that become
  negative (9), zero (16) and small (19). `Put` has a buffer of 2 and texts of up to 3 bytes, each a letter or NUL: texts within a
  buffer, filling it, and over it; a late length is 0 or 2, and rounds without an end pile up 4 bytes (`MaxRemote`). The kernel's ring has 2 lines of 4 ever logged, so lines are dropped;
  `dmesg` fails up to twice. `SendArp` has one frame of another host. `SystemTime` has all dates.

Runs have `CHECK_DEADLOCK FALSE`: the daemons end, the watch ends, a client whose
calls are used up does nothing more, and the small programs finish.

### Fairness

* `UpgradeDaemon`: weak fairness of each process's own steps (`Start`, `Run`, `Stop`): the operating
  system runs a process that can run. None for commands, faults or the upgrade tool. That `EndWatch`
  is among the fair steps is what `UpgradeWatch` promises, and is checked for `UpgradeDiagnose`.
* `UpgradeDiagnose`: weak fairness of the daemon. A docker call returns or fails; one that
  hangs for ever is outside the model, since `check_output` has no timeout.
* `FtpSession`: weak fairness of the client, justified by `select`'s timeout of a second, and of the
  answers of a prompt server. Nothing is assumed of another one: that `chatter` ends is a premise of the property, not a fairness. Nor of `LoopEnds`.
* `KernelLog`: weak fairness of `Dmesg` and `Compare`: the loop has no exit and the sleeps end. `dmesg` may fail,
  but not for ever.
* `SendArp`: weak fairness of both threads; `recvfrom` returns when a frame waits or there is no socket. A failure of it on a good socket is not owed.
* No liveness is stated of the downloads: `ftplib`, `paramiko` and `urllib` are used without a timeout, so a server that falls
  silent holds them for ever, and `downLoad` is bounded only by the size of the file.

## 4. What is proved

All proofs are checked by TLAPS, for every value of the constants that satisfies the assumptions named in the
modules (`FileAssumption`, `EnvironmentAssumption`, `ProcsAssumption`, `TimeAssumption`,
`TableAssumption`, `ImageAssumption`, `SessionAssumption`, `FtpDownloadAssumption`, `DownloadAssumption`,
`FtpUploadAssumption`, `KernelLogAssumption`, `SystemTimeAssumption`, `SendArpAssumption`), which TLC evaluates in the runs.

**UpgradeDaemonProofs**

* `Typing`, then `PidfileCorrect` (`PidfileNotStale`) under any interleaving and any
  SIGKILL. The property is not inductive: a late write could bring a dead daemon's id back. `IInv`
  adds `NamesInv`: an id gets into the PID file, and into any `seen[c]`, only once its
  daemon is past its own write (`Settled`), and a process that is about to kill `seen[c]` has
  taken that id out of the file. Since a settled daemon never writes again, nothing can put it back.
  `PhaseInv` says which labels a daemon and which a command can be at.
* `InstructionsOnce` (`NoDoubleWatch`): by the finite cardinality of `armed`, which grows only as a
  file is taken away.
* `EveryCallCounts` (`EachCallCounts`), under any interleaving and any SIGKILL: `CallsLeft(c)`, at most 34, is the number of
  system calls a process has still to make. It counts one more round of `stop()`'s loop where the
  process it would kill is alive (`Round`). `OwnCall` shows that each call makes it smaller: a kill that succeeds leads back into the
  loop, but uses the extra round up. `OthersCall` shows that other processes never make it larger: by `RoundKept`, a process that has
  gone stays gone (`StaysGone`, which needs `NamesInv`: an id in `seen` is never that of a process still to come).
* Under `Discipline = "settled"`, whoever is killed by SIGKILL: `OneDaemon` (`OneWatcher`), `WatcherFound`
  (`WatcherListed`), `NotRunning` (`NotRunningIsTrue`) and `OperatorStops`
  (`OnlyOperatorStops`). They rest on `SInv`, which is inductive together with `IInv` as long as `NoneLost`: `SerialInv` (one command and one
  starting daemon at a time), `ListedInv` (a live daemon is in the PID file or about to be killed)
  and `FileInv` (what the PID file may hold at each step of `start()` and `stop()`). `SerialInv` holds whether or not a daemon is lost
  (`SerialKept`), and a lost daemon is lost for good (`LostForGood`), so `NoneLost => SInv` is inductive with them.
  `daemon_race` shows that the discipline is needed.
* `RestartWorks` (`RestartFailsOnlyIf`) under the same discipline, lost daemons or not, by `RestartInv`: a restart that has come to its
  `start()` part has itself found no PID file or removed the one it found, and nobody else is at work; and an empty PID file at rest is one whose
  writer was killed.

**UpgradeDiagnoseProofs**, for any table of containers, any budget and any images

* `DInv` is the inductive invariant: `BudgetInv` (`minutes + timeCnt` is the budget),
  `CauseInv` (whoever waits, or gives up, or rolls back has just found a culprit) and `TargetInv` (the containers
  already dealt with in this round have a listing in which each name was found; the others are in `todo`, in order).
* From it: `PassedAnswered`, `PassedWhole`, `RollbackCaused`.
* `WatchTyped` (`TypeOK`): the list of containers still to be checked is always the part of the table from some
  place on that the orders ask for. That `TargetInv`'s next container exists and is the first one left out needs the least
  element of a set of positions (`LeastNumber`, from `WellFoundedInduction`).
* `WatchRefines`: the initial states map to initial states of `UpgradeWatch` and each step to a step or a stutter.

**FtpSessionProofs**, for any set of operations and any number of calls

* `SessionInv` is inductive. `PlaceInv` lists what an operation has still to send at each of its steps. With it `RoomInv`
  bounds the commands sent by four a call, and `WireInv` types what is on the wire. `PairInv` is
  the heart: with a prompt server, while nothing was left unread, the wire is empty between operations and
  before a command; while a reply is awaited, all that was received carries the number of the last
  command, the server has one item at most, that command or the transfer it began, and if nothing has come yet the command is still with it, unless it has hung up.
* From it: `SessionTyped` (`TypeOK`), `VerdictsOwn` (`VerdictOwn`) and `SocketsCounted` (`LeaksBounded`, by `DataInv`: which steps may hold a data socket). `VerdictOwn` alone
  is not inductive: it says nothing of replies still under way.

**FtpDownloadProofs**, for any buffer, any width of `int` and any sizes

* `LoopInv`: in the loop what was received is less than the announced length and equals what the bar counts, the buffer is never
  larger than what is missing, and what was received is in the file unless the disk was full.
  `IntKeeps` and `PercentBelow` are the arithmetic. `BufferAlwaysFits`, `BarAlwaysInside`, `DoneIsWhole` follow.

**FtpUploadProofs**, for any buffer, any bytes, and any texts and remote files over them

* `PutInv`: `PutTypeOK` types the buffer and the files, `RemoteInv` says that the remote file begins with what it held when `Put` or another client last found it,
  `RoundInv` what a round leaves behind: before the first one nothing has been sent; after a full one, of a text without NUL, there is no NUL
  in the buffer and the remote file has grown by all the rounds so far. So the last, short round sends what the buffer still holds of the one before
  (`LastRound`), and the file ends longer than the text. A chunk is a C string up to its first NUL, which is the
  least element of a set of positions (`LeastExists`, by well-foundedness); no induction over the text is needed.
* From it: `UploadKeepsRemote` (`RemoteKept`) and `OnlyShortTextsUploaded` (`OnlyShortTextCompletes`, in both directions).

**DownloadFileProofs**, for any sizes, pieces and clock

* `StageInv` (what is open and received at each stage) gives `DownloadWhole` and `AbortHarmless`. `PaceInv`
  is what `ProgressHarmless` needs: while no second was slow and the clock was not put back, what arrived before the present second is at least a kilobyte for each second
  since the start, so the speed is not rounded down to zero. `DownloadTyped` is the type invariant.

**SmallToolsProofs**

* `LinesPrinted` (`NoLineLost`) for any ring, by `FollowInv`: all that was taken down is in what was
  shown, in the first copy, or in a `file_new` not yet compared, and `file_old` has nothing that was not shown or in the first copy.
* `DateShown` (`DateRightOrMonthMissing`) for any set of weekday names of which none is a month's (`SystemTimeAssumption`): by `MonthWord` the word
  taken for the month is the month on the first nine days and the weekday on the others, and by `MonthFound` and `WeekdayIsNoMonth` the
  map has the former, August apart, and not the latter.
* `ReplyKept` (`ReplyWaits`) for any number of other frames, by `ArpInv`: no reply is there before the request, the thread is
  created before that, and it leaves its socket only with the process.

Only model-checked: liveness (`EveryProcessEnds`, `EveryCallReturns`, `LinesReachReader`, `ReplyEndsIt`, the fairness part of
`WatchImplemented`, and the violated `RollbackReturns`), since the prover does not handle `ENABLED`. Every safety property that a passing run
checks has its theorem.

## 5. Where the code departs from what it says

Shown by runs, with the lines in `PROJECT.json` under "findings": two daemons after two quick
`start`s; the swapped arguments of the deb check; rollbacks that die of a `TypeError`; refusals
reported as success; unread replies taken for a size; the page of a server error saved as an image.

Noticed while modelling, without a run of their own:

* After a SIGKILL of the daemon the PID file stays, and `start` answers "Daemon already running!"
  although nothing runs; a `stop` is needed first. After a SIGKILL of a `stop` between
  its removal of the file and its kill, the daemon runs on and no command finds it; this is the only way to lose one (`NoneLost`).
* A daemon killed between the open and the write of its PID file (line 111) leaves it empty. Every later `start`, `stop` and `restart` then dies of the
  `ValueError` of `int('')`, since only `IOError` is caught, until somebody removes the file by hand.
* As every rollback that has something to restore raises, only a skipped one comes back
  to `_run`, and the announced "force a fallback" never restores anything.
* The log speaks of "300 minutes" (line 191); the budget is 30 checks a minute apart.
* `rollback_system` boots the first image in the order of names, not the "previous version" its log names (line 303).
* The diagnose file is removed when it is read, so a daemon that dies later leaves its upgrade
  unwatched; nothing takes the watch up again.
* A slow FTP server, one that needs more than a second for a reply, breaks the pairing of
  commands and replies for the rest of the session.
* `main.cpp` compares `bool` results with -1, so its message about a failed `Get` can never appear and the one about
  success always does; the results of the login are not looked at.
* `downLoad` reports a file of one byte as failed (the test is "more than one byte"), and a stall of a second
  or a full disk as success. `Put` sends chunks as C strings: bytes after a NUL are lost, a short last chunk is followed by bytes of the one
  before, and a chunk that fills the buffer by whatever lies behind it. It does not look at the replies, sends for ever from a file it cannot read,
  and empties a remote file that got its bytes after `SIZE` said 0.
* The progress line of `downloadFile.py` ends good downloads: a first second with less than a kilobyte, a file of fewer than 100 bytes, or
  an FTP server without `SIZE`. `sftpDownload` uses `paramiko`, which the file does not import. A URL that is none is taken for a
  local path and "successfully" printed whether or not there is a file. In `httpConnect` the handler passes the exception to `click.echo` as a
  file, so an `AttributeError` takes the place of `click.Abort`.
* `send_arp` ends at any ARP frame, not only the reply it speaks of, and when the reply comes before the
  thread has its socket it spins until another frame comes. An error of `recvfrom` ends it silently, like a frame.
* `getSysTime.cpp` has "Agu" for August, and loses the month from the tenth day on.
* `ipstr2int.c` speaks of host order where the value is in network order.

## 6. Not modelled

* `main.cpp`: a straight line of calls which `FtpSession` makes in every order.
* `getInterfaces.c`: a loop of read-only `ioctl`s and prints; nothing is carried from one interface to the next, and without the kernel's answers
  only printing is left.
* `ipstr2int.c`: `inet_aton` and `inet_ntoa` with a print after each; the program has no state or branch of its own.
* `raw_send.py`: packs constants and sends one frame, without state or branch.
* Log formats, command-line parsing, terminal output, the layout of frames and messages.
* Hazards without a property: a diagnose file that is rewritten while it is read or lost with its
  daemon. The code promises nothing there.
* In the FTP client: that the number of a closed socket may be given to a new one and be used by mistake; memory beyond a buffer.

## 7. What could be added

Larger instances would add little, as the theorems hold for all. If the code learns to read the replies to `REST` and `RETR`, `astray` and the premise of `VerdictOwn`
should go; if `stop()` learns to kill before it removes the PID file, `NoneLost` should.
