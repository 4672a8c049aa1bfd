------------------------- MODULE FtpDownloadProofs -------------------------
(***************************************************************************)
(* Theorems about FtpDownload for every buffer, int width and file length: *)
(* the buffer fits what is missing, the bar stays inside its array, and a  *)
(* short file is reported done only for the reasons named.                 *)
(***************************************************************************)
EXTENDS FtpDownload, TLAPS

-----------------------------------------------------------------------------
(* The inductive invariant.                                                 *)

GetTypes ==
    /\ getStep \in {"idle", "link", "recv", "done"}
    /\ fileSize \in Nat /\ length \in Int /\ nDataLen \in Nat
    /\ nReceiveLen \in Nat /\ filed \in Nat /\ block_size \in Nat

(* While data comes in: what is counted, what is filed, and what is taken   *)
(* for the length of the file.                                              *)
LoopInv ==
    /\ getStep \in {"idle", "link"} => nReceiveLen = 0 /\ filed = 0 /\ block_size = 0
    /\ getStep = "link" => length > 0 /\ nDataLen = Smaller(GetBuffer, length)
    /\ getStep = "recv" =>
          /\ nReceiveLen < length
          /\ nReceiveLen <= fileSize
          /\ block_size = nReceiveLen
    /\ ~diskFull => filed = nReceiveLen
    /\ getStep \in {"link", "recv"} =>
          length = fileSize \/ changed \/ fileSize >= Half
    /\ getStep # "done" => getRet = FALSE

GetInv == GetTypes /\ LoopInv /\ BufferFits /\ BarInside /\ ShortOnlyIf

-----------------------------------------------------------------------------
(* A length below half the range is kept as it is, and a refused SIZE       *)
(* stays -1.                                                                *)
LEMMA IntKeeps ==
    ASSUME NEW n \in Int, -1 <= n, n < Half
    PROVE  ToInt(n) = n
<1>1. Half \in Nat \ {0}
  BY FtpDownloadAssumption
<1>2. n + Half \in 0..(2 * Half - 1)
  BY <1>1
<1>3. (n + Half) % (2 * Half) = n + Half
  BY <1>1, <1>2
<1>4. QED
  BY <1>1, <1>3 DEF ToInt

(* An int is an integer.                                                    *)
LEMMA IntTyped ==
    ASSUME NEW n \in Int
    PROVE  ToInt(n) \in Int
  BY FtpDownloadAssumption DEF ToInt

(* A part of the whole is less than a hundred per cent.                     *)
LEMMA PercentBelow ==
    ASSUME NEW whole \in Nat \ {0}, NEW part \in 0..(whole - 1)
    PROVE  (100 * part) \div whole \in 0..99
<1> DEFINE q == (100 * part) \div whole
<1>1. q \in Int /\ whole * q <= 100 * part /\ q >= 0
  BY SMT
<1>2. ASSUME q >= 100 PROVE FALSE
  <2>1. whole * q >= whole * 100
    BY <1>1, <1>2, SMT
  <2>2. QED
    BY <1>1, <2>1
<1>3. QED
  BY <1>1, <1>2

(* A buffer cut to what is missing has room, and no more than that.         *)
LEMMA RoomKept ==
    ASSUME length \in Nat, nDataLen \in 1..GetBuffer, NEW received \in 0..(length - 1)
    PROVE  NextBuffer(received) \in 1..Smaller(GetBuffer, length - received)
  BY FtpDownloadAssumption DEF NextBuffer, Smaller

(* SIZE and the choice of the buffer.                                       *)
LEMMA CallStep ==
    ASSUME GetInv, CallGet
    PROVE  GetInv'
<1> USE FtpDownloadAssumption DEF GetInv, GetTypes, GetReturns, getHistory
<1>1. PICK told \in {fileSize', -1} :
          /\ length' = ToInt(told)
          /\ IF length' <= 0
                THEN GetReturns(FALSE) /\ UNCHANGED nDataLen
                ELSE /\ getStep' = "link"
                     /\ nDataLen' = Smaller(GetBuffer, length')
                     /\ UNCHANGED getRet
  BY DEF CallGet
<1>2. /\ fileSize' \in Nat /\ getStep = "idle"
      /\ UNCHANGED <<nReceiveLen, filed, block_size, percent, cutShort, diskFull, changed>>
  BY DEF CallGet
<1>3. length' \in Int
  BY <1>1, <1>2, IntTyped
<1>4. length' > 0 => length' = fileSize' \/ fileSize' >= Half
  <2>1. ToInt(-1) = -1
    BY IntKeeps
  <2>2. fileSize' < Half => ToInt(fileSize') = fileSize'
    BY <1>2, IntKeeps
  <2>3. QED
    BY <1>1, <1>2, <2>1, <2>2
<1>5. GetTypes'
  BY <1>1, <1>2, <1>3 DEF Smaller
<1>6. LoopInv'
  BY <1>1, <1>2, <1>3, <1>4 DEF LoopInv
<1>7. BufferFits' /\ BarInside' /\ ShortOnlyIf'
  BY <1>1, <1>2 DEF LoopInv, BufferFits, BarInside, ShortOnlyIf, Bar
<1>8. QED
  BY <1>5, <1>6, <1>7

(* A round of the loop.                                                     *)
LEMMA RoundStep ==
    ASSUME GetInv, GetReceive
    PROVE  GetInv'
<1> USE FtpDownloadAssumption DEF GetInv, GetTypes, GetReturns
<1>1. PICK n \in 1..Smaller(nDataLen, fileSize - nReceiveLen) :
          /\ nReceiveLen' = nReceiveLen + n
          /\ \E written \in 0..n :
                /\ filed' = filed + written
                /\ diskFull' = (diskFull \/ written < n)
          /\ IF nReceiveLen' = length
                THEN GetReturns(nReceiveLen' > 1) /\ UNCHANGED <<nDataLen, block_size, percent>>
                ELSE /\ nDataLen' = NextBuffer(nReceiveLen')
                     /\ DownloadProgress(n)
                     /\ UNCHANGED <<getStep, getRet>>
  BY DEF GetReceive
<1>2. /\ getStep = "recv"
      /\ UNCHANGED <<fileSize, length, cutShort, changed>>
  BY DEF GetReceive
<1>3. n \in Nat \ {0} /\ n <= nDataLen /\ n <= fileSize - nReceiveLen
  BY <1>1 DEF Smaller
<1>4. PICK written \in 0..n : filed' = filed + written /\ diskFull' = (diskFull \/ written < n)
  BY <1>1
<1>5. /\ filed' \in Nat
      /\ ~diskFull' => filed' = nReceiveLen'
  <2>1. filed' \in Nat
    BY <1>3, <1>4
  <2>2. ASSUME ~diskFull' PROVE filed' = nReceiveLen'
    <3>1. ~diskFull /\ ~(written < n)
      BY <1>4, <2>2
    <3>2. filed = nReceiveLen /\ written = n
      BY <1>3, <3>1 DEF LoopInv
    <3>3. QED
      BY <1>1, <1>4, <3>2
  <2>3. QED
    BY <2>1, <2>2
<1>6. /\ nReceiveLen' \in Nat /\ nReceiveLen' <= fileSize
      /\ nReceiveLen' <= length /\ length \in Nat \ {0}
  BY <1>1, <1>2, <1>3 DEF BufferFits, LoopInv, Smaller
<1>7. CASE nReceiveLen' = length
  BY <1>1, <1>2, <1>5, <1>6, <1>7
     DEF LoopInv, BufferFits, BarInside, ShortOnlyIf
<1>8. CASE nReceiveLen' # length
  <2>1. /\ nDataLen' = NextBuffer(nReceiveLen')
        /\ block_size' = nReceiveLen'
        /\ percent' = (100 * nReceiveLen') \div length
        /\ getStep' = "recv" /\ getRet' = FALSE
    BY <1>1, <1>2, <1>8 DEF DownloadProgress, LoopInv
  <2>2. nReceiveLen' \in 0..(length - 1)
    BY <1>6, <1>8
  <2>3. BarInside'
    <3>1. (100 * nReceiveLen') \div length \in 0..99
      BY <1>6, <2>2, PercentBelow
    <3>2. percent' \in 0..99
      BY <2>1, <3>1
    <3>3. QED
      BY <3>2 DEF BarInside, Bar
  <2>4. BufferFits' /\ nDataLen' \in Nat
    <3>1. nDataLen \in 1..GetBuffer
      BY <1>2 DEF BufferFits, Smaller
    <3>2. nDataLen' \in 1..Smaller(GetBuffer, length - nReceiveLen')
      <4>1. length \in Nat
        BY <1>6
      <4>2. NextBuffer(nReceiveLen') \in 1..Smaller(GetBuffer, length - nReceiveLen')
        BY <2>2, <3>1, <4>1, RoomKept, Zenon
      <4>3. QED
        BY <2>1, <4>2, Zenon
    <3>3. nDataLen' \in Nat
      BY <1>6, <2>2, <3>2 DEF Smaller
    <3>4. length' = length
      BY <1>2
    <3>5. QED
      BY <2>1, <3>2, <3>3, <3>4 DEF BufferFits
  <2>5. GetTypes' /\ LoopInv' /\ ShortOnlyIf'
    BY <1>2, <1>5, <1>6, <2>1, <2>2, <2>4 DEF LoopInv, ShortOnlyIf
  <2>6. QED
    BY <2>3, <2>4, <2>5
<1>9. QED
  BY <1>7, <1>8

(* The invariant holds of every reachable state.                            *)
LEMMA GetInd == GetSpec => []GetInv
<1> USE FtpDownloadAssumption
<1>1. GetInit => GetInv
  BY DEF GetInit, GetInv, GetTypes, LoopInv, BufferFits, BarInside, ShortOnlyIf, Bar
<1>2. GetInv /\ [GetNext]_getVars => GetInv'
  <2> SUFFICES ASSUME GetInv, [GetNext]_getVars PROVE GetInv'
    OBVIOUS
  <2> USE DEF GetInv, GetTypes, LoopInv, BufferFits, BarInside, ShortOnlyIf, GetReturns,
              getHistory
  <2>1. CASE GetLink
    BY <2>1 DEF GetLink, Smaller
  <2>2. CASE FileChanges
    BY <2>2 DEF FileChanges
  <2>3. CASE GetEnds
    <3>1. nDataLen > 0
      BY <2>3 DEF GetEnds, Smaller
    <3>2. nReceiveLen < fileSize => cutShort'
      BY <2>3, <3>1 DEF GetEnds
    <3>3. QED
      BY <2>3, <3>2 DEF GetEnds
  <2>4. CASE UNCHANGED getVars
    BY <2>4 DEF getVars
  <2>5. QED
    BY <2>1, <2>2, <2>3, <2>4, CallStep, RoundStep DEF GetNext
<1>3. QED
  BY <1>1, <1>2, PTL DEF GetSpec

-----------------------------------------------------------------------------
(* Each recv has room for at least a byte and never for more than is        *)
(* missing of the length announced.                                         *)
THEOREM BufferAlwaysFits == GetSpec => []BufferFits
  BY GetInd, PTL DEF GetInv

(* downloadProgress writes inside the bar.                                  *)
THEOREM BarAlwaysInside == GetSpec => []BarInside
  BY GetInd, PTL DEF GetInv

(* What Get reports done is whole, but for the causes it does not look at.  *)
THEOREM DoneIsWhole == GetSpec => []ShortOnlyIf
  BY GetInd, PTL DEF GetInv

=============================================================================
