------------------------- MODULE DownloadFileProofs -------------------------
(***************************************************************************)
(* Theorems about DownloadFile for every size of file, block, kilobyte and *)
(* bar, and every clock: its types, and the three safety properties.       *)
(***************************************************************************)
EXTENDS DownloadFile, TLAPS

-----------------------------------------------------------------------------
(* The inductive invariant.                                                 *)

(* What has to arrive in d seconds.                                         *)
Due(d) == KB * d

(* How far each stage has come with the local file.                         *)
StageInv ==
    /\ stage \in {"idle", "login", "open", "size", "validate", "retrieve"} =>
          arrived = 0 /\ fresh = 0 /\ once = TRUE
    /\ stage \in {"idle", "login", "open", "validate"} => stored = NoFile
    /\ stage \in {"transfer", "close"} => stored = arrived
    /\ stage = "transfer" /\ once = TRUE => ~Flowing
    /\ stage = "transfer" /\ once = FALSE => Flowing
    /\ stage = "close" => arrived = size \/ (proto = "http" /\ total = Unknown)
    /\ stage # "done" => ended = "none" /\ ~byProgress

(* While every second has brought its kilobyte and the clock has not gone   *)
(* back, what arrived before the present second keeps up with the clock;    *)
(* and the program's count is never behind what arrived.                    *)
PaceInv ==
    /\ fresh <= arrived
    /\ arrived <= got
    /\ Flowing /\ ~slow /\ ~back =>
          /\ startTime <= lastTime
          /\ lastTime <= wall
          /\ arrived - fresh >= Due(wall - startTime)

DownloadInv ==
    DownloadTypeOK /\ StageInv /\ PaceInv
        /\ WholeWhenReported /\ ProgressSpares /\ AbortLeavesFile

-----------------------------------------------------------------------------
(* What is due in no time is nothing, and times add up.                     *)
LEMMA DueInt ==
    ASSUME NEW d \in Int
    PROVE  Due(d) \in Int
  BY DownloadAssumption DEF Due

LEMMA DueZero == Due(0) = 0
  BY DownloadAssumption DEF Due

LEMMA DueAdds ==
    ASSUME NEW d \in Int, NEW e \in Int
    PROVE  Due(d + e) = Due(d) + Due(e)
<1>1. ASSUME NEW k \in Nat PROVE k * (d + e) = k * d + k * e
  BY <1>1, SMT
<1>2. QED
  BY <1>1, DownloadAssumption DEF Due

(* With a whole kilobyte for each second a progress line has something to   *)
(* divide by.                                                               *)
LEMMA ProgressWorks ==
    ASSUME DownloadTypeOK, NEW p \in Nat, NEW d \in Nat \ {0}, p >= Due(d),
           ProgressRaises(p, d)
    PROVE  total \in 0..(Cells - 1) \/ (proto = "ftp" /\ total = Unknown)
<1>1. ~ SpeedIsZero(p, d)
  <2>1. Abs(d) = d
    BY DEF Abs
  <2>2. KB * d \in Nat
    BY DownloadAssumption
  <2>3. QED
    BY <2>1, <2>2 DEF SpeedIsZero, Due
<1>2. QED
  BY <1>1 DEF ProgressRaises

(* A program step that leaves what has arrived, the clock and its times as  *)
(* they are keeps the pace.                                                 *)
LEMMA PaceKept ==
    ASSUME PaceInv,
           UNCHANGED <<arrived, got, fresh, slow, back, startTime, lastTime, wall, proto>>,
           stage' = "transfer" => stage = "transfer"
    PROVE  PaceInv'
  BY DEF PaceInv, Flowing

(* Before the transfer, and at its end.                                     *)
LEMMA QuietStep ==
    ASSUME DownloadInv,
           \/ Login \/ OpenLocal \/ AskSize \/ ValidateUrl
           \/ WriteFails \/ CutOff \/ EndTransfer \/ CloseLocal
    PROVE  DownloadInv'
<1> USE DownloadAssumption
    DEF DownloadInv, DownloadTypeOK, StageInv, WholeWhenReported, ProgressSpares,
        AbortLeavesFile, Flowing, NoFile, Unknown, Finish, Proceed, Caught, remote, times,
        downloadHistory
<1>1. CASE Login
  BY <1>1, PaceKept DEF Login
<1>2. CASE OpenLocal
  BY <1>2, PaceKept DEF OpenLocal
<1>3. CASE AskSize
  BY <1>3, PaceKept DEF AskSize
<1>4. CASE ValidateUrl
  BY <1>4, PaceKept DEF ValidateUrl
<1>5. CASE WriteFails
  BY <1>5, PaceKept DEF WriteFails
<1>6. CASE CutOff
  BY <1>6, PaceKept DEF CutOff
<1>7. CASE EndTransfer
  BY <1>7, PaceKept DEF EndTransfer
<1>8. CASE CloseLocal
  BY <1>8, PaceKept DEF CloseLocal
<1>9. QED
  BY <1>1, <1>2, <1>3, <1>4, <1>5, <1>6, <1>7, <1>8

(* The transfer begins: nothing is due yet.                                 *)
LEMMA StartStep ==
    ASSUME DownloadInv, StartTransfer
    PROVE  DownloadInv'
<1> USE DownloadAssumption DEF DownloadInv, NoFile, Unknown, Finish, Proceed, Caught, remote,
        times, downloadHistory
<1>0. /\ UNCHANGED <<proto, size, page, arrived, got, wall, byProgress, fresh, slow, back>>
      /\ \/ /\ stage' = "transfer" /\ ended' = ended /\ stored' = 0
            /\ total' \in {total, size, Unknown}
            /\ \/ /\ proto # "http"
                  /\ once' = once /\ startTime' = startTime /\ lastTime' = lastTime
               \/ proto = "http" /\ once' = FALSE /\ startTime' = wall /\ lastTime' = wall
         \/ /\ stage' = "done" /\ ended' \in {"raised", "failed"}
            /\ UNCHANGED <<stored, total, once, startTime, lastTime>>
  BY DEF StartTransfer
<1>1. DownloadTypeOK'
  <2>1. once' \in BOOLEAN
    BY <1>0, Zenon DEF DownloadTypeOK
  <2>2. QED
    BY <1>0, <2>1 DEF DownloadTypeOK
<1>2. StageInv'
  <2>1. arrived = 0 /\ once = TRUE /\ stage = "retrieve" /\ ended = "none" /\ ~byProgress
    BY DEF StartTransfer, StageInv
  <2>2. CASE proto = "http"
    BY <1>0, <2>1, <2>2 DEF StageInv, Flowing
  <2>3. CASE proto # "http"
    <3>1. once' = once \/ stage' = "done"
      BY <1>0, <2>3
    <3>2. once' = TRUE \/ stage' = "done"
      BY <2>1, <3>1
    <3>3. arrived' = 0 /\ proto' # "http" /\ ~byProgress'
      BY <1>0, <2>1, <2>3
    <3>4. CASE stage' = "done"
      BY <3>4 DEF StageInv
    <3>5. CASE stage' = "transfer" /\ ended' = ended /\ stored' = 0
      <4>1. ~Flowing'
        BY <3>3 DEF Flowing
      <4>2. QED
        BY <2>1, <3>2, <3>3, <3>5, <4>1 DEF StageInv
    <3>6. QED
      BY <1>0, <3>4, <3>5
  <2>4. QED
    BY <2>2, <2>3
<1>3. PaceInv'
  <2>1. /\ UNCHANGED <<arrived, got, fresh, slow, back, wall, proto>>
        /\ arrived = 0 /\ fresh = 0
        /\ stage' = "transfer" /\ proto = "http" => startTime' = wall /\ lastTime' = wall
    BY DEF StartTransfer, StageInv
  <2>2. wall \in Nat /\ wall - wall = 0
    BY DEF DownloadTypeOK
  <2>3. QED
    BY <2>1, <2>2, DueZero DEF PaceInv, Flowing
<1>4. WholeWhenReported' /\ ProgressSpares' /\ AbortLeavesFile'
  BY DEF StartTransfer, StageInv, WholeWhenReported, ProgressSpares, AbortLeavesFile
<1>5. QED
  BY <1>1, <1>2, <1>3, <1>4

(* A piece arrives: written before anything can return or raise, and        *)
(* counted from the first piece on.                                         *)
LEMMA ReceiveStep ==
    ASSUME DownloadInv, Receive
    PROVE  DownloadInv'
<1> USE DownloadAssumption DEF DownloadInv, DownloadTypeOK, Unknown, NoFile
<1>1. PICK n \in Pieces : arrived' = arrived + n /\ fresh' = fresh + n /\ FileWrite(n)
  BY DEF Receive
<1>2. /\ n \in Nat /\ n > 0
      /\ arrived + n <= size
      /\ proto = "http" => n <= Block
  BY <1>1 DEF Pieces, Least, Receive
<1> DEFINE start == IF once THEN wall ELSE startTime
           last == IF once THEN wall ELSE lastTime
           raises == wall # last /\ ProgressRaises(got', wall - start)
<1>3. /\ stored' = arrived'
      /\ got' \in Nat /\ arrived' <= got' /\ fresh' <= arrived'
      /\ once' = FALSE
  BY <1>1, <1>2 DEF FileWrite, Receive, StageInv, PaceInv
<1>4. ShowProgress(got', start, last)
  BY <1>1 DEF FileWrite
<1>5. /\ startTime' = start /\ lastTime' = wall /\ byProgress' = raises
      /\ raises => stage' = "done" /\ ended' \in {"failed", "raised"}
      /\ ~raises => UNCHANGED <<stage, ended>>
  BY <1>4 DEF ShowProgress
<1>6. UNCHANGED <<proto, size, page, total, wall, slow, back>> /\ stage = "transfer"
  BY DEF Receive, remote
<1>7. DownloadTypeOK'
  <2>1. arrived' \in 0..size' /\ stored' \in {NoFile} \cup 0..arrived' /\ fresh' \in Nat
    BY <1>1, <1>2, <1>3, <1>6
  <2>2. startTime' \in Nat /\ lastTime' \in Nat /\ wall' \in Nat
    BY <1>5, <1>6
  <2>3. byProgress' \in BOOLEAN /\ once' \in BOOLEAN
    BY <1>1, <1>5 DEF FileWrite
  <2>4. /\ stage' \in {"idle", "login", "open", "size", "validate", "retrieve", "transfer",
                       "close", "done"}
        /\ ended' \in {"none", "downloaded", "failed", "abort", "raised"}
    BY <1>5
  <2>5. QED
    BY <1>3, <1>6, <2>1, <2>2, <2>3, <2>4
<1>8. ~slow /\ ~back =>
          /\ start <= last /\ last <= wall
          /\ arrived' - fresh' >= Due(wall - start)
  <2>1. CASE once
    <3>1. arrived = 0 /\ fresh = 0
      BY <1>6, <2>1 DEF StageInv, Flowing, PaceInv
    <3>2. wall - wall = 0 /\ Due(0) = 0
      BY DueZero
    <3>3. QED
      BY <1>1, <1>2, <2>1, <3>1, <3>2
  <2>2. CASE ~once
    <3>1. Flowing
      BY <1>6, <2>2 DEF StageInv
    <3>2. arrived' - fresh' = arrived - fresh
      BY <1>1, <1>2
    <3>3. QED
      BY <2>2, <3>1, <3>2 DEF PaceInv
  <2>3. QED
    BY <2>1, <2>2
<1>9. PaceInv'
  <2>1. ~slow' /\ ~back' =>
          /\ startTime' <= lastTime' /\ lastTime' <= wall'
          /\ arrived' - fresh' >= Due(wall' - startTime')
    BY <1>5, <1>6, <1>8
  <2>2. QED
    BY <1>3, <2>1 DEF PaceInv
<1>10. ProgressSpares'
  <2> SUFFICES ASSUME raises, ~slow, ~back
               PROVE  total \in 0..(Cells - 1) \/ (proto = "ftp" /\ total = Unknown)
    BY <1>5, <1>6 DEF ProgressSpares
  <2>1. wall - start \in Nat \ {0}
    BY <1>8
  <2>2. got' >= Due(wall - start)
    <3>1. Due(wall - start) \in Int
      BY <2>1, DueInt
    <3>2. arrived' \in Nat /\ fresh' \in Nat
      BY <1>7
    <3>3. QED
      BY <1>3, <1>8, <3>1, <3>2
  <2>3. QED
    BY <1>3, <2>1, <2>2, ProgressWorks
<1>11. StageInv'
  BY <1>1, <1>2, <1>3, <1>5, <1>6 DEF StageInv, Flowing
<1>12. WholeWhenReported' /\ AbortLeavesFile'
  BY <1>5, <1>6 DEF StageInv, WholeWhenReported, AbortLeavesFile
<1>13. QED
  BY <1>7, <1>9, <1>10, <1>11, <1>12

(* The clock: a second that passes brings its kilobyte or makes slow true.  *)
LEMMA ClockStep ==
    ASSUME DownloadInv, ClockMoves
    PROVE  DownloadInv'
<1> USE DownloadAssumption DEF DownloadInv, DownloadTypeOK, remote, times
<1>1. PICK t \in 0..MaxClock :
          /\ wall' = t
          /\ back' = (back \/ t < wall)
          /\ slow' = (slow \/ (Flowing /\ fresh < KB * (t - wall)))
  BY DEF ClockMoves
<1>2. /\ fresh' = 0
      /\ UNCHANGED <<stage, proto, size, page, arrived, stored, total, got, once, startTime,
                     lastTime, ended, byProgress>>
      /\ stage # "done"
  BY DEF ClockMoves
<1>3. DownloadTypeOK'
  BY <1>1, <1>2
<1>4. StageInv'
  BY <1>1, <1>2 DEF StageInv, Flowing
<1>5. PaceInv'
  <2>1. Flowing' <=> Flowing
    BY <1>2 DEF Flowing
  <2>2. ASSUME Flowing, ~slow', ~back'
        PROVE  /\ startTime <= lastTime /\ lastTime <= t
               /\ arrived >= Due(t - startTime)
    <3>1. t \in Int /\ t - wall \in Int /\ wall - startTime \in Int
      BY <1>1
    <3>2. Due(t - wall) \in Int /\ Due(wall - startTime) \in Int
      BY <3>1, DueInt
    <3>3. ~slow /\ ~back /\ t >= wall /\ fresh >= Due(t - wall)
      <4>1. ~slow /\ ~back /\ ~(t < wall) /\ ~(fresh < Due(t - wall))
        BY <1>1, <2>2, Zenon DEF Due
      <4>2. QED
        BY <3>1, <3>2, <4>1
    <3>4. arrived - fresh >= Due(wall - startTime)
      BY <2>2, <3>3 DEF PaceInv
    <3>5. arrived >= Due(t - startTime)
      <4>1. Due((t - wall) + (wall - startTime)) = Due(t - wall) + Due(wall - startTime)
        BY <3>1, DueAdds
      <4>2. (t - wall) + (wall - startTime) = t - startTime
        BY <3>1
      <4>3. QED
        BY <3>2, <3>3, <3>4, <4>1, <4>2
    <3>6. QED
      BY <2>2, <3>3, <3>5 DEF PaceInv
  <2>3. QED
    BY <1>1, <1>2, <2>1, <2>2 DEF PaceInv
<1>6. WholeWhenReported' /\ ProgressSpares' /\ AbortLeavesFile'
  BY <1>2 DEF StageInv, WholeWhenReported, ProgressSpares, AbortLeavesFile
<1>7. QED
  BY <1>3, <1>4, <1>5, <1>6

(* The invariant holds of every reachable state.                            *)
LEMMA DownloadInd == DownloadSpec => []DownloadInv
<1> USE DownloadAssumption
<1>1. DownloadInit => DownloadInv
  <2> SUFFICES ASSUME DownloadInit PROVE DownloadInv
    OBVIOUS
  <2> USE DEF DownloadInit
  <2>1. DownloadTypeOK
    <3>1. /\ once \in BOOLEAN /\ byProgress \in BOOLEAN
          /\ slow \in BOOLEAN /\ back \in BOOLEAN
      BY Zenon
    <3>2. arrived \in 0..size /\ stored \in {NoFile} \cup 0..arrived
      BY DEF NoFile
    <3>3. /\ size \in Nat /\ got \in Nat /\ fresh \in Nat /\ total \in Nat \cup {Unknown}
          /\ startTime \in Nat /\ lastTime \in Nat /\ wall \in Nat
      OBVIOUS
    <3>4. QED
      BY <3>1, <3>2, <3>3 DEF DownloadTypeOK
  <2>2. StageInv
    BY DEF StageInv, Flowing
  <2>3. PaceInv
    BY DEF PaceInv, Flowing
  <2>4. WholeWhenReported /\ ProgressSpares /\ AbortLeavesFile
    BY DEF WholeWhenReported, ProgressSpares, AbortLeavesFile
  <2>5. QED
    BY <2>1, <2>2, <2>3, <2>4 DEF DownloadInv
<1>2. DownloadInv /\ [DownloadNext]_downloadVars => DownloadInv'
  <2> SUFFICES ASSUME DownloadInv, [DownloadNext]_downloadVars PROVE DownloadInv'
    OBVIOUS
  <2> USE DEF DownloadInv, DownloadTypeOK, StageInv, PaceInv, WholeWhenReported,
              ProgressSpares, AbortLeavesFile, Flowing, NoFile, Unknown, Finish, Proceed,
              Caught, remote, times, downloadHistory
  <2>1. CASE CallDownload
    BY <2>1 DEF CallDownload
  <2>2. CASE StartTransfer
    BY <2>2, StartStep
  <2>3. CASE RemoteChanges
    BY <2>3 DEF RemoteChanges
  <2>4. CASE UNCHANGED downloadVars
    BY <2>4 DEF downloadVars
  <2>5. QED
    BY <2>1, <2>2, <2>3, <2>4, QuietStep, ReceiveStep, ClockStep DEF DownloadNext
<1>3. QED
  BY <1>1, <1>2, PTL DEF DownloadSpec

-----------------------------------------------------------------------------
(* Every variable keeps its type, and the local file holds at most what has *)
(* arrived, with any of the three protocols.                                *)
THEOREM DownloadTyped == DownloadSpec => []DownloadTypeOK
  BY DownloadInd, PTL DEF DownloadInv

(* A download reported as successful is as long as the file at the server,  *)
(* if the server told a length.                                             *)
THEOREM DownloadWhole == DownloadSpec => []WholeWhenReported
  BY DownloadInd, PTL DEF DownloadInv

(* The progress line never ends a download that gets its kilobyte in every  *)
(* second of a clock nobody sets, of a file of known and sufficient size.   *)
THEOREM ProgressHarmless == DownloadSpec => []ProgressSpares
  BY DownloadInd, PTL DEF DownloadInv

(* A download that aborts has not touched the local file.                   *)
THEOREM AbortHarmless == DownloadSpec => []AbortLeavesFile
  BY DownloadInd, PTL DEF DownloadInv

=============================================================================
