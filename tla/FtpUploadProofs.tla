--------------------------- MODULE FtpUploadProofs ---------------------------
(***************************************************************************)
(* Theorems about FtpUpload for every size of the buffer, every local file *)
(* and every remote one: that Put takes nothing away from the remote file, *)
(* and exactly which texts arrive as they are.                             *)
(***************************************************************************)
EXTENDS FtpUpload, SequenceTheorems, WellFoundedInduction, TLAPS

-----------------------------------------------------------------------------
(* Facts about numbers and sequences.                                       *)

Less == OpToRel(<, Nat)

(* A set of naturals with an element has a least one.                       *)
LEMMA LeastExists ==
    ASSUME NEW T, T \subseteq Nat, T # {}
    PROVE  Min(T) \in T /\ \A y \in T : Min(T) <= y
<1>1. IsWellFoundedOn(Less, Nat)
  BY NatLessThanWellFounded, Zenon DEF Less
<1>2. \E x \in T : \A y \in T : ~ (<<y, x>> \in Less)
  BY <1>1, WFMin, Zenon
<1>3. \A x, y \in Nat : y < x => <<y, x>> \in Less
  BY DEF Less, OpToRel
<1>4. PICK x \in T : \A y \in T : ~ (<<y, x>> \in Less)
  BY <1>2
<1>5. \A y \in T : x <= y
  <2>1. SUFFICES ASSUME NEW y \in T, ~ (x <= y) PROVE FALSE
    OBVIOUS
  <2>2. y < x
    BY <2>1
  <2>3. QED
    BY <1>3, <1>4, <2>1, <2>2
<1>6. QED
  BY <1>4, <1>5, Zenon DEF Min

LEMMA PrefixOfItself ==
    ASSUME NEW S, NEW s \in Seq(S)
    PROVE  IsPrefix(s, s)
  BY LenProperties DEF IsPrefix

(* What comes at the end of a sequence leaves its prefixes alone.           *)
LEMMA PrefixKept ==
    ASSUME NEW S, NEW s \in Seq(S), NEW t \in Seq(S), NEW u \in Seq(S), IsPrefix(s, t)
    PROVE  IsPrefix(s, t \o u)
<1>1. Len(s) \in Nat /\ Len(t) \in Nat /\ Len(u) \in Nat
  BY LenProperties
<1>2. Len(s) <= Len(t) /\ SubSeq(s, 1, Len(s)) = SubSeq(t, 1, Len(s))
  BY DEF IsPrefix
<1>3. Len(t \o u) = Len(t) + Len(u)
  BY ConcatProperties
<1>4. CASE Len(s) = 0
  <2>1. SubSeq(s, 1, 0) = <<>> /\ SubSeq(t \o u, 1, 0) = <<>>
    BY SubSeqEmpty
  <2>2. QED
    BY <1>1, <1>3, <1>4, <2>1 DEF IsPrefix
<1>5. CASE Len(s) # 0
  <2>1. 1 \in 1..Len(t) /\ Len(s) \in 1..Len(t)
    BY <1>1, <1>2, <1>5
  <2>2. SubSeq(t \o u, 1, Len(s)) = SubSeq(t, 1, Len(s))
    BY <2>1, SubSeqOfConcat1
  <2>3. QED
    BY <1>1, <1>2, <1>3, <2>2 DEF IsPrefix
<1>6. QED
  BY <1>4, <1>5

(* A sequence is its prefix and what comes after that.                      *)
LEMMA PrefixCompleted ==
    ASSUME NEW S, NEW s \in Seq(S), NEW t \in Seq(S), IsPrefix(s, t)
    PROVE  s \o SubSeq(t, Len(s) + 1, Len(t)) = t
<1>1. Len(s) \in Nat /\ Len(t) \in Nat /\ Len(s) <= Len(t)
  BY LenProperties DEF IsPrefix
<1>2. SubSeq(t, 1, Len(s)) = s
  <2>1. SubSeq(s, 1, Len(s)) = SubSeq(t, 1, Len(s))
    BY DEF IsPrefix
  <2>2. SubSeq(s, 1, Len(s)) = s
    BY SubSeqFull
  <2>3. QED
    BY <2>1, <2>2
<1>3. SubSeq(t, 1, Len(t)) = t
  BY SubSeqFull
<1>4. 1 \in 1..(Len(t) + 1) /\ Len(s) \in (1 - 1)..Len(t) /\ Len(t) \in Len(s)..Len(t)
  BY <1>1
<1>5. SubSeq(t, 1, Len(s)) \o SubSeq(t, Len(s) + 1, Len(t)) = SubSeq(t, 1, Len(t))
  BY <1>4, ConcatAdjacentSubSeq
<1>6. QED
  BY <1>2, <1>3, <1>5

(* What is left of a sequence after its first m elements.                   *)
LEMMA RestOfSeq ==
    ASSUME NEW S, NEW s \in Seq(S), NEW m \in Nat, m <= Len(s)
    PROVE  /\ SubSeq(s, m + 1, Len(s)) \in Seq(S)
           /\ Len(SubSeq(s, m + 1, Len(s))) = Len(s) - m
           /\ \A i \in 1..(Len(s) - m) : SubSeq(s, m + 1, Len(s))[i] = s[m + i]
<1>1. Len(s) \in Nat /\ m + 1 \in Int
  BY LenProperties
<1>2. \A i \in (m + 1)..Len(s) : s[i] \in S
  <2>1. \A i \in (m + 1)..Len(s) : i \in 1..Len(s)
    BY <1>1
  <2>2. QED
    BY <2>1, ElementOfSeq
<1>3. /\ SubSeq(s, m + 1, Len(s)) \in Seq(S)
      /\ Len(SubSeq(s, m + 1, Len(s))) =
            IF m + 1 <= Len(s) THEN Len(s) - (m + 1) + 1 ELSE 0
      /\ \A i \in 1..(Len(s) - (m + 1) + 1) :
            SubSeq(s, m + 1, Len(s))[i] = s[(m + 1) + i - 1]
  BY <1>1, <1>2, SubSeqProperties
<1>4. Len(s) - (m + 1) + 1 = Len(s) - m /\ \A i \in Int : (m + 1) + i - 1 = m + i
  BY <1>1
<1>5. \A i \in 1..(Len(s) - m) : SubSeq(s, m + 1, Len(s))[i] = s[m + i]
  <2>1. SUFFICES ASSUME NEW i \in 1..(Len(s) - m)
                 PROVE  SubSeq(s, m + 1, Len(s))[i] = s[m + i]
    OBVIOUS
  <2>2. i \in 1..(Len(s) - (m + 1) + 1) /\ i \in Int
    BY <1>4
  <2>3. SubSeq(s, m + 1, Len(s))[i] = s[(m + 1) + i - 1]
    BY <1>3, <2>2, Zenon
  <2>4. (m + 1) + i - 1 = m + i
    BY <2>2
  <2>5. QED
    BY <2>3, <2>4, Zenon
<1>6. Len(SubSeq(s, m + 1, Len(s))) = Len(s) - m
  <2>1. CASE m + 1 <= Len(s)
    BY <1>1, <1>3, <2>1
  <2>2. CASE ~ (m + 1 <= Len(s))
    <3>1. Len(s) - m = 0
      BY <1>1, <2>2
    <3>2. QED
      BY <1>3, <2>2, <3>1, Zenon
  <2>3. QED
    BY <2>1, <2>2
<1>7. QED
  BY <1>3, <1>5, <1>6, Zenon

-----------------------------------------------------------------------------
(* The inductive invariant.                                                 *)

(* What Put may send: bytes, and what lies behind the buffer.               *)
Sendable == Bytes \cup {"garbage"}

Blank == [i \in 1..PutBuffer |-> NUL]

PutTypeOK ==
    /\ putStep \in {"idle", "command", "send", "looping", "done"}
    /\ local \in Seq(Bytes)
    /\ before \in Seq(Bytes) \cup {Absent}
    /\ remoteFile \in Seq(Sendable) \cup {Absent}
    /\ nSize \in Nat \cup {-1}
    /\ offset \in Nat
    /\ strBuf \in [1..PutBuffer -> Bytes]
    /\ storing \in BOOLEAN /\ putRet \in BOOLEAN

(* The remote file is as another left it until the command is sent, and a   *)
(* file once something is stored in it.                                     *)
RemoteInv ==
    /\ RemoteKept
    /\ storing = TRUE => remoteFile \in Seq(Sendable)
    /\ putStep \in {"idle", "command"} =>
          storing = FALSE /\ strBuf = Blank /\ remoteFile = before
    /\ putStep # "done" => putRet = FALSE

(* No round has been sent, or the local file reaches beyond what was read   *)
(* of it, and whole buffers have been sent.                                 *)
RoundInv ==
    putStep = "send" =>
        \/ /\ offset = Seek /\ strBuf = Blank
           /\ storing = TRUE /\ SizeRight => remoteFile = Contents(before)
        \/ /\ Seek + PutBuffer <= offset /\ offset <= Len(local)
           /\ NUL \notin ToSet(local) =>
                 /\ \A i \in 1..PutBuffer : strBuf[i] # NUL
                 /\ storing = TRUE /\ SizeRight =>
                       Len(Contents(before)) + offset - Seek <= Len(remoteFile)

PutInv == PutTypeOK /\ RemoteInv /\ RoundInv /\ OnlyShortTextCompletes

-----------------------------------------------------------------------------
(* What a buffer amounts to as a C string.                                  *)

LEMMA BufferIsSeq ==
    ASSUME NEW buffer \in [1..PutBuffer -> Bytes]
    PROVE  buffer \in Seq(Sendable) /\ Len(buffer) = PutBuffer
<1>1. buffer \in Seq(Bytes)
  BY SeqDef, FtpUploadAssumption
<1>2. Len(buffer) = PutBuffer
  <2>1. Len(buffer) \in Nat /\ 1..Len(buffer) = 1..PutBuffer
    BY <1>1, LenProperties
  <2>2. QED
    BY <2>1, FtpUploadAssumption
<1>3. buffer \in Seq(Sendable)
  BY <1>1, SeqMonotonic DEF Sendable
<1>4. QED
  BY <1>2, <1>3

LEMMA GarbageFollows ==
    ASSUME NEW buffer \in [1..PutBuffer -> Bytes]
    PROVE  /\ buffer \o <<"garbage">> \in Seq(Sendable)
           /\ Len(buffer \o <<"garbage">>) = PutBuffer + 1
<1>1. <<"garbage">> \in Seq(Sendable) /\ Len(<<"garbage">>) = 1
  BY DEF Sendable
<1>2. QED
  BY <1>1, BufferIsSeq, ConcatProperties

(* What is sent is made of what may be sent, and is as long as the buffer   *)
(* or longer if no NUL ends it.                                             *)
LEMMA CStringSent ==
    ASSUME NEW buffer \in [1..PutBuffer -> Bytes], NEW string \in CStrings(buffer)
    PROVE  /\ string \in Seq(Sendable)
           /\ (\A i \in 1..PutBuffer : buffer[i] # NUL) => PutBuffer <= Len(string)
<1> DEFINE nuls == {i \in 1..PutBuffer : buffer[i] = NUL}
<1>1. CASE nuls = {}
  <2>1. string = buffer \/ string = buffer \o <<"garbage">>
    BY <1>1 DEF CStrings
  <2>2. QED
    BY <2>1, BufferIsSeq, GarbageFollows, FtpUploadAssumption
<1>2. CASE nuls # {}
  <2>1. string = SubSeq(buffer, 1, Min(nuls) - 1)
    BY <1>2 DEF CStrings
  <2>2. Min(nuls) \in 1..PutBuffer
    <3>1. nuls \subseteq Nat
      OBVIOUS
    <3>2. Min(nuls) \in nuls
      BY <1>2, <3>1, LeastExists
    <3>3. QED
      BY <3>2
  <2>3. \A i \in 1..(Min(nuls) - 1) : buffer[i] \in Sendable
    BY <2>2, FtpUploadAssumption DEF Sendable
  <2>4. SubSeq(buffer, 1, Min(nuls) - 1) \in Seq(Sendable)
    <3>1. ASSUME NEW n \in Int, \A i \in 1..n : buffer[i] \in Sendable
          PROVE  SubSeq(buffer, 1, n) \in Seq(Sendable)
      BY <3>1, SubSeqProperties
    <3>2. Min(nuls) - 1 \in Int
      BY <2>2
    <3>3. QED
      BY <2>3, <3>1, <3>2
  <2>5. QED
    BY <1>2, <2>1, <2>4
<1>3. QED
  BY <1>1, <1>2

(* A buffer of d bytes that are no NUL, and NUL after them, is the d bytes. *)
LEMMA CStringEnds ==
    ASSUME NEW buffer \in [1..PutBuffer -> Bytes], NEW d \in 0..(PutBuffer - 1),
           \A i \in 1..d : buffer[i] # NUL,
           \A i \in (d + 1)..PutBuffer : buffer[i] = NUL
    PROVE  CStrings(buffer) = {SubSeq(buffer, 1, d)}
<1> DEFINE nuls == {i \in 1..PutBuffer : buffer[i] = NUL}
<1>1. nuls = (d + 1)..PutBuffer
  BY FtpUploadAssumption
<1>2. nuls # {} /\ nuls \subseteq Nat
  BY <1>1, FtpUploadAssumption
<1>3. Min(nuls) \in nuls /\ \A y \in nuls : Min(nuls) <= y
  BY <1>2, LeastExists
<1>4. d + 1 \in nuls
  BY <1>1, FtpUploadAssumption
<1> HIDE DEF nuls
<1>5. Min(nuls) = d + 1
  BY <1>1, <1>3, <1>4, FtpUploadAssumption
<1>6. Min(nuls) - 1 = d
  BY <1>5
<1>7. CStrings(buffer) = {SubSeq(buffer, 1, Min(nuls) - 1)}
  BY <1>2 DEF CStrings, nuls
<1>8. QED
  BY <1>6, <1>7

-----------------------------------------------------------------------------
(* The steps of Put.                                                        *)

LEMMA AbsentApart == Absent \notin Seq(Bytes) /\ Absent \notin Seq(Sendable)
<1>1. Len(Absent) = 1 /\ Absent[1] = "absent"
  BY DEF Absent
<1>2. "absent" \notin Sendable /\ "absent" \notin Bytes
  BY FtpUploadAssumption DEF Sendable
<1>3. QED
  BY <1>1, <1>2, ElementOfSeq

LEMMA ContentsSeq ==
    ASSUME NEW file \in Seq(Bytes) \cup {Absent}
    PROVE  Contents(file) \in Seq(Bytes) /\ Contents(file) \in Seq(Sendable)
<1>1. Contents(file) \in Seq(Bytes)
  BY AbsentApart, EmptySeq DEF Contents
<1>2. QED
  BY <1>1, SeqMonotonic DEF Sendable

(* A file that is as it was left has lost nothing.                          *)
LEMMA SameKept ==
    ASSUME before \in Seq(Bytes) \cup {Absent}, remoteFile = before
    PROVE  RemoteKept
<1>1. Contents(before) \in Seq(Bytes)
  BY ContentsSeq
<1>2. QED
  BY <1>1, PrefixOfItself DEF RemoteKept

LEMMA SameKeptNext ==
    ASSUME before' \in Seq(Bytes) \cup {Absent}, remoteFile' = before'
    PROVE  RemoteKept'
<1>1. Contents(before') \in Seq(Bytes)
  BY ContentsSeq
<1>2. IsPrefix(Contents(before'), Contents(remoteFile'))
  BY <1>1, PrefixOfItself
<1>3. QED
  BY <1>2 DEF RemoteKept, Contents

LEMMA BlankBuffer == Blank \in [1..PutBuffer -> Bytes]
  BY FtpUploadAssumption DEF Blank

LEMMA PutInvInit == PutInit => PutInv
<1> SUFFICES ASSUME PutInit PROVE PutInv
  OBVIOUS
<1>1. local = <<>> /\ <<>> \in Seq(Bytes)
  BY EmptySeq DEF PutInit
<1>2. strBuf = Blank
  BY DEF PutInit, Blank
<1>3. PutTypeOK
  <2>1. storing \in BOOLEAN /\ putRet \in BOOLEAN
    BY Zenon DEF PutInit
  <2>2. before = Absent /\ remoteFile = Absent /\ putStep = "idle" /\ nSize = 0 /\ offset = 0
    BY DEF PutInit
  <2>3. nSize \in Nat \cup {-1} /\ offset \in Nat
    BY <2>2
  <2>4. QED
    BY <1>1, <1>2, <2>1, <2>2, <2>3, BlankBuffer, Zenon DEF PutTypeOK
<1>4. putStep = "idle" /\ storing = FALSE /\ putRet = FALSE /\ remoteFile = before
  BY DEF PutInit
<1>5. RemoteKept
  <2>1. before \in Seq(Bytes) \cup {Absent}
    BY <1>3, Zenon DEF PutTypeOK
  <2>2. QED
    BY <1>4, <2>1, SameKept
<1>6. RemoteInv /\ RoundInv /\ OnlyShortTextCompletes
  BY <1>2, <1>4, <1>5, Zenon DEF RemoteInv, RoundInv, OnlyShortTextCompletes
<1>7. QED
  BY <1>3, <1>6 DEF PutInv

(* Put is called.                                                           *)
LEMMA CallPutStep ==
    ASSUME PutInv, CallPut
    PROVE  PutInv'
<1> USE DEF PutInv
<1>1. local' \in Seq(Bytes) /\ before' \in Seq(Bytes) \cup {Absent}
  BY FtpUploadAssumption DEF CallPut
<1>2. remoteFile' = before' /\ before' \in Seq(Sendable) \cup {Absent}
  BY <1>1, SeqMonotonic DEF CallPut, Sendable
<1>3. nSize' \in Nat \cup {-1}
  <2>1. before' # Absent => Len(before') \in Nat
    BY <1>1, LenProperties
  <2>2. QED
    BY <2>1, FtpUploadAssumption DEF CallPut
<1>4. putStep' = "command" \/ putStep' = "done"
  BY DEF CallPut, PutReturns
<1>5. putRet = FALSE /\ storing = FALSE /\ strBuf = Blank
  BY Zenon DEF CallPut, RemoteInv
<1>6. putRet' = FALSE
  BY <1>5, Zenon DEF CallPut, PutReturns
<1>7. storing' = FALSE /\ strBuf' = Blank /\ offset' = offset
  BY <1>5, Zenon DEF CallPut
<1>8. PutTypeOK'
  <2>1. strBuf' \in [1..PutBuffer -> Bytes]
    BY <1>7, BlankBuffer
  <2>2. storing' \in BOOLEAN /\ putRet' \in BOOLEAN
    BY <1>6, <1>7, Zenon
  <2>3. remoteFile' \in Seq(Sendable) \cup {Absent}
    BY <1>2
  <2>4. offset' \in Nat
    BY <1>7 DEF PutTypeOK
  <2>5. putStep' \in {"idle", "command", "send", "looping", "done"}
    BY <1>4
  <2>6. QED
    BY <1>1, <1>3, <2>1, <2>2, <2>3, <2>4, <2>5, Zenon DEF PutTypeOK
<1>9. RemoteInv'
  <2>1. RemoteKept'
    BY <1>1, <1>2, SameKeptNext
  <2>2. QED
    BY <1>2, <1>6, <1>7, <2>1, Zenon DEF RemoteInv
<1>10. RoundInv'
  BY <1>4 DEF RoundInv
<1>11. OnlyShortTextCompletes'
  BY <1>6, Zenon DEF OnlyShortTextCompletes
<1>12. QED
  BY <1>8, <1>9, <1>10, <1>11

LEMMA SeekNat ==
    ASSUME PutTypeOK
    PROVE  /\ Seek \in Nat
           /\ SizeRight => Seek = Len(Contents(before))
<1>1. before # Absent => Len(before) \in Nat /\ Contents(before) = before
  BY LenProperties DEF PutTypeOK, Contents
<1>2. before = Absent => Len(Contents(before)) = 0
  BY EmptySeq DEF Contents
<1>3. QED
  BY <1>1, <1>2 DEF Seek, SizeRight, PutTypeOK

(* Another client leaves a file of its own, and nothing is stored in it.    *)
LEMMA ReplacedStep ==
    ASSUME PutInv, RemoteReplaced
    PROVE  PutInv'
<1> USE DEF PutInv
<1>1. /\ putStep \in {"command", "send", "looping"} /\ before' = remoteFile'
      /\ UNCHANGED <<putStep, local, nSize, offset, strBuf, putRet>>
  BY DEF RemoteReplaced
<1>2. storing' = FALSE /\ putRet' = FALSE
  BY <1>1, Zenon DEF RemoteReplaced, RemoteInv
<1>3. before' \in Seq(Bytes) \cup {Absent}
  BY <1>1, FtpUploadAssumption DEF RemoteReplaced
<1>4. remoteFile' \in Seq(Sendable) \cup {Absent}
  BY <1>1, <1>3, SeqMonotonic DEF Sendable
<1>5. PutTypeOK'
  BY <1>1, <1>2, <1>3, <1>4, Zenon DEF PutTypeOK
<1>6. RemoteInv'
  <2>1. RemoteKept'
    BY <1>1, <1>3, SameKeptNext
  <2>2. putStep' = "command" => strBuf' = Blank
    BY <1>1, Zenon DEF RemoteInv
  <2>3. putStep' # "idle"
    BY <1>1
  <2>4. QED
    BY <1>1, <1>2, <2>1, <2>2, <2>3, Zenon DEF RemoteInv
<1>7. RoundInv'
  <2>1. CASE putStep' # "send"
    BY <2>1 DEF RoundInv
  <2>2. CASE putStep = "send"
    <3>1. \/ offset = Seek /\ strBuf = Blank
          \/ /\ Seek + PutBuffer <= offset /\ offset <= Len(local)
             /\ NUL \notin ToSet(local) => \A i \in 1..PutBuffer : strBuf[i] # NUL
      BY <2>2, Zenon DEF RoundInv
    <3>2. Seek' = Seek
      BY <1>1 DEF Seek
    <3>3. ~ (storing' = TRUE)
      BY <1>2, Zenon
    <3>4. QED
      BY <1>1, <3>1, <3>2, <3>3, Zenon DEF RoundInv
  <2>3. QED
    BY <1>1, <2>1, <2>2
<1>8. OnlyShortTextCompletes'
  BY <1>2, Zenon DEF OnlyShortTextCompletes
<1>9. QED
  BY <1>5, <1>6, <1>7, <1>8

(* STOR begins anew only a file of which 0 bytes were told.                 *)
LEMMA CommandStep ==
    ASSUME PutInv, PutCommand
    PROVE  PutInv'
<1> USE DEF PutInv
<1>1. putStep = "command" /\ UNCHANGED <<local, before, nSize, strBuf>>
  BY DEF PutCommand
<1>2. storing = FALSE /\ putRet = FALSE /\ strBuf = Blank /\ remoteFile = before
  BY <1>1, Zenon DEF RemoteInv
<1>3. putRet' = FALSE
  BY <1>2, Zenon DEF PutCommand, PutReturns
<1>4. OnlyShortTextCompletes'
  BY <1>3, Zenon DEF OnlyShortTextCompletes
<1>5. before \in Seq(Bytes) \cup {Absent}
  BY DEF PutTypeOK
<1>6. Contents(before)' = Contents(before) /\ Seek' = Seek /\ SizeRight' = SizeRight
  BY <1>1 DEF Contents, Seek, SizeRight
<1>7. CASE PutReturns(FALSE) /\ UNCHANGED <<storing, remoteFile, offset>>
  <2>1. putStep' = "done"
    BY <1>7 DEF PutReturns
  <2>2. PutTypeOK'
    <3>1. putRet' \in BOOLEAN /\ storing' \in BOOLEAN
      BY <1>2, <1>3, <1>7, Zenon
    <3>2. QED
      BY <1>1, <1>7, <2>1, <3>1, Zenon DEF PutTypeOK
  <2>3. RemoteInv'
    <3>1. RemoteKept'
      BY <1>1, <1>2, <1>5, <1>7, SameKeptNext
    <3>2. QED
      BY <1>2, <1>7, <2>1, <3>1, Zenon DEF RemoteInv
  <2>4. RoundInv'
    BY <2>1 DEF RoundInv
  <2>5. QED
    BY <1>4, <2>2, <2>3, <2>4
<1>8. CASE /\ putStep' = "send"
           /\ storing' \in BOOLEAN
           /\ remoteFile' = IF ~storing' THEN remoteFile
                            ELSE IF Stores THEN <<>> ELSE Contents(remoteFile)
           /\ offset' = Seek
  <2>1. Contents(before) \in Seq(Sendable) /\ Contents(before) \in Seq(Bytes)
    BY <1>5, ContentsSeq
  <2>2. storing' = TRUE => remoteFile' = IF Stores THEN <<>> ELSE Contents(before)
    BY <1>2, <1>8, Zenon
  <2>3. storing' = FALSE => remoteFile' = before
    BY <1>2, <1>8, Zenon
  <2>4. storing' = TRUE \/ storing' = FALSE
    BY <1>8, Zenon
  <2>5. storing' = TRUE => remoteFile' \in Seq(Sendable)
    BY <2>1, <2>2, EmptySeq
  <2>6. (nSize = 0 => Contents(before) = <<>>) /\ storing' = TRUE =>
            remoteFile' = Contents(before)
    BY <2>2 DEF Stores
  <2>7. SizeRight /\ nSize = 0 => Contents(before) = <<>>
    <3>1. SUFFICES ASSUME SizeRight, nSize = 0 PROVE Contents(before) = <<>>
      OBVIOUS
    <3>2. before \in Seq(Bytes) /\ Len(before) = 0
      BY <1>5, <3>1 DEF SizeRight
    <3>3. before = <<>>
      BY <3>2, EmptySeq
    <3>4. QED
      BY <3>3 DEF Contents
  <2>8. PutTypeOK'
    <3>1. putRet' \in BOOLEAN /\ storing' \in BOOLEAN
      BY <1>3, <1>8, Zenon
    <3>2. before \in Seq(Sendable) \cup {Absent}
      BY <1>2 DEF PutTypeOK
    <3>3. remoteFile' \in Seq(Sendable) \cup {Absent}
      <4>1. remoteFile' \in Seq(Sendable) \/ remoteFile' = before
        BY <2>3, <2>4, <2>5, Zenon
      <4>2. QED
        BY <4>1, <3>2
    <3>4. offset' \in Nat
      BY <1>1, <1>8, SeekNat
    <3>5. putStep' \in {"idle", "command", "send", "looping", "done"}
      BY <1>8
    <3>6. QED
      BY <1>1, <3>1, <3>3, <3>4, <3>5, Zenon DEF PutTypeOK
  <2>9. RemoteInv'
    <3>1. IsPrefix(Contents(before), Contents(before))
      BY <2>1, PrefixOfItself
    <3>2. (nSize = 0 => Contents(before) = <<>>) =>
              IsPrefix(Contents(before), Contents(remoteFile'))
      <4>1. SUFFICES ASSUME nSize = 0 => Contents(before) = <<>>
                     PROVE  IsPrefix(Contents(before), Contents(remoteFile'))
        OBVIOUS
      <4>2. remoteFile' = Contents(before) \/ remoteFile' = before
        BY <2>3, <2>4, <2>6, <4>1, Zenon
      <4>3. Contents(Contents(before)) = Contents(before)
        BY <2>1, AbsentApart DEF Contents
      <4>4. QED
        BY <3>1, <4>2, <4>3
    <3>3. RemoteKept'
      BY <1>1, <3>2 DEF RemoteKept, Contents
    <3>4. putStep' \notin {"idle", "command"}
      BY <1>8
    <3>5. QED
      BY <1>3, <2>5, <3>3, <3>4, Zenon DEF RemoteInv
  <2>10. RoundInv'
    <3>1. strBuf' = Blank /\ offset' = Seek'
      BY <1>1, <1>2, <1>6, <1>8
    <3>2. storing' = TRUE /\ SizeRight' => remoteFile' = Contents(before)'
      BY <1>6, <2>6, <2>7, Zenon
    <3>3. QED
      BY <3>1, <3>2, Zenon DEF RoundInv
  <2>11. QED
    BY <1>4, <2>8, <2>9, <2>10
<1>9. QED
  BY <1>7, <1>8 DEF PutCommand

LEMMA FilledBuffer ==
    ASSUME PutTypeOK
    PROVE  Filled \in [1..PutBuffer -> Bytes]
<1>1. \A i \in 1..PutBuffer : offset + i <= Len(local) => local[offset + i] \in Bytes
  BY ElementOfSeq, FtpUploadAssumption DEF PutTypeOK
<1>2. \A i \in 1..PutBuffer : strBuf[i] \in Bytes
  BY DEF PutTypeOK
<1>3. QED
  BY <1>1, <1>2 DEF Filled

(* A text without NUL that still fills the buffer, or one that goes on      *)
(* where the buffer has no NUL, leaves none in it.                          *)
LEMMA FilledWhole ==
    ASSUME PutTypeOK, NUL \notin ToSet(local),
           \/ offset + PutBuffer <= Len(local)
           \/ \A i \in 1..PutBuffer : strBuf[i] # NUL
    PROVE  \A i \in 1..PutBuffer : Filled[i] # NUL
<1>1. \A j \in 1..Len(local) : local[j] # NUL
  BY LenProperties DEF ToSet, PutTypeOK
<1>2. Len(local) \in Nat /\ offset \in Nat /\ PutBuffer \in Nat
  BY LenProperties, FtpUploadAssumption DEF PutTypeOK
<1>3. QED
  <2>1. SUFFICES ASSUME NEW i \in 1..PutBuffer PROVE Filled[i] # NUL
    OBVIOUS
  <2>2. Filled[i] = IF offset + i <= Len(local) THEN local[offset + i] ELSE strBuf[i]
    BY DEF Filled
  <2>3. CASE offset + i <= Len(local)
    BY <1>1, <1>2, <2>2, <2>3
  <2>4. CASE ~ (offset + i <= Len(local))
    <3>1. ~ (offset + PutBuffer <= Len(local))
      BY <1>2, <2>4
    <3>2. QED
      BY <2>2, <2>4, <3>1
  <2>5. QED
    BY <2>3, <2>4

(* The first round sends what a text without NUL has left, if that is less  *)
(* than a buffer.                                                           *)
LEMMA FirstRoundShort ==
    ASSUME PutTypeOK, strBuf = Blank, NUL \notin ToSet(local),
           offset <= Len(local), Len(local) < offset + PutBuffer
    PROVE  CStrings(Filled) = {SubSeq(local, offset + 1, Len(local))}
<1> DEFINE d == Len(local) - offset
<1>1. Len(local) \in Nat /\ offset \in Nat /\ PutBuffer \in Nat \ {0}
  BY LenProperties, FtpUploadAssumption DEF PutTypeOK
<1>2. d \in 0..(PutBuffer - 1) /\ offset + d = Len(local)
  BY <1>1
<1>3. \A i \in 1..PutBuffer :
          Filled[i] = IF offset + i <= Len(local) THEN local[offset + i] ELSE NUL
  BY DEF Filled, Blank
<1>4. \A i \in 1..d : Filled[i] = local[offset + i] /\ local[offset + i] # NUL
  <2>1. \A j \in 1..Len(local) : local[j] # NUL
    BY LenProperties DEF ToSet, PutTypeOK
  <2>2. QED
    BY <1>1, <1>2, <1>3, <2>1
<1>5. \A i \in (d + 1)..PutBuffer : Filled[i] = NUL
  BY <1>1, <1>2, <1>3
<1>6. CStrings(Filled) = {SubSeq(Filled, 1, d)}
  BY <1>2, <1>4, <1>5, FilledBuffer, CStringEnds
<1>7. SubSeq(Filled, 1, d) = SubSeq(local, offset + 1, Len(local))
  <2>1. /\ SubSeq(Filled, 1, d) \in Seq(Bytes)
        /\ Len(SubSeq(Filled, 1, d)) = d
        /\ \A i \in 1..d : SubSeq(Filled, 1, d)[i] = Filled[i]
    <3>1. \A i \in 1..d : Filled[i] \in Bytes
      BY <1>1, <1>2, FilledBuffer
    <3>2. QED
      BY <1>2, <3>1, SubSeqProperties
  <2>2. /\ SubSeq(local, offset + 1, Len(local)) \in Seq(Bytes)
        /\ Len(SubSeq(local, offset + 1, Len(local))) = d
        /\ \A i \in 1..d : SubSeq(local, offset + 1, Len(local))[i] = local[offset + i]
    BY <1>1, RestOfSeq DEF PutTypeOK
  <2>3. SubSeq(Filled, 1, d) \in Seq(Bytes) /\ Len(SubSeq(Filled, 1, d)) = d
    BY <2>1
  <2>4. QED
    BY <1>4, <2>1, <2>2, SeqEqual
<1>8. QED
  BY <1>6, <1>7

(* What the server makes of a text that arrives.                            *)
LEMMA TextArrives ==
    ASSUME PutTypeOK, RemoteInv, UNCHANGED <<before, nSize>>,
           NEW text \in Seq(Sendable), Store(text)
    PROVE  /\ storing' \in BOOLEAN
           /\ remoteFile' \in Seq(Sendable) \cup {Absent}
           /\ storing' = TRUE =>
                 /\ storing = TRUE /\ remoteFile' = remoteFile \o text
                 /\ remoteFile \in Seq(Sendable) /\ remoteFile' \in Seq(Sendable)
           /\ RemoteKept'
<1>1. storing = TRUE \/ storing = FALSE
  BY Zenon DEF PutTypeOK
<1>2. CASE storing = FALSE
  <2>1. UNCHANGED <<remoteFile, storing>>
    BY <1>2, Zenon DEF Store
  <2>2. RemoteKept'
    BY <2>1 DEF RemoteInv, RemoteKept, Contents
  <2>3. storing' = FALSE
    BY <1>2, <2>1, Zenon
  <2>4. remoteFile' \in Seq(Sendable) \cup {Absent}
    BY <2>1 DEF PutTypeOK
  <2>5. QED
    BY <2>2, <2>3, <2>4, Zenon
<1>3. CASE storing = TRUE
  <2>1. remoteFile \in Seq(Sendable) /\ Contents(remoteFile) = remoteFile
    <3>1. remoteFile \in Seq(Sendable)
      BY <1>3, Zenon DEF RemoteInv
    <3>2. QED
      BY <3>1, AbsentApart DEF Contents
  <2>2. PICK t \in Seq(Sendable) :
            remoteFile' = remoteFile \o t /\ (storing' = TRUE => t = text)
    <3>1. CASE remoteFile' = remoteFile \o text
      BY <3>1
    <3>2. CASE storing' = FALSE /\ \E n \in 0..(Len(text) - 1) :
                                      remoteFile' = remoteFile \o SubSeq(text, 1, n)
      <4>1. PICK n \in 0..(Len(text) - 1) : remoteFile' = remoteFile \o SubSeq(text, 1, n)
        BY <3>2
      <4>2. SubSeq(text, 1, n) \in Seq(Sendable)
        <5>1. \A i \in 1..n : text[i] \in Sendable
          BY LenProperties, ElementOfSeq
        <5>2. n \in Int /\ 1 \in Int
          BY LenProperties
        <5>3. QED
          BY <5>1, <5>2, SubSeqProperties
      <4>3. QED
        BY <3>2, <4>1, <4>2, Zenon
    <3>3. QED
      BY <1>3, <3>1, <3>2, Zenon DEF Store
  <2>3. remoteFile' \in Seq(Sendable)
    BY <2>1, <2>2, ConcatProperties
  <2>4. storing' \in BOOLEAN
    BY <1>3, Zenon DEF Store
  <2>5. Contents(remoteFile') = remoteFile'
    BY <2>3, AbsentApart DEF Contents
  <2>6. RemoteKept'
    <3>1. SUFFICES ASSUME nSize = 0 => Contents(before) = <<>>
                   PROVE  IsPrefix(Contents(before), remoteFile')
      BY <2>5 DEF RemoteKept, Contents
    <3>2. IsPrefix(Contents(before), remoteFile)
      BY <2>1, <3>1 DEF RemoteInv, RemoteKept
    <3>3. Contents(before) \in Seq(Sendable)
      BY ContentsSeq DEF PutTypeOK
    <3>4. QED
      BY <2>1, <2>2, <3>2, <3>3, PrefixKept
  <2>7. QED
    BY <1>3, <2>1, <2>2, <2>3, <2>4, <2>6, Zenon
<1>4. QED
  BY <1>1, <1>2, <1>3

(* A round of the loop sends the buffer as a C string, unless a Send fails. *)
LEMMA RoundSends ==
    ASSUME PutInv, PutChunk
    PROVE  /\ putStep = "send" /\ strBuf' = Filled /\ offset' = offset + PutBuffer
           /\ UNCHANGED <<local, before, nSize>>
           /\ \/ /\ putStep' = "done" /\ putRet' = FALSE
                 /\ UNCHANGED <<remoteFile, storing>>
              \/ /\ putStep' = "done" /\ putRet' = TRUE /\ Len(local) < offset + PutBuffer
                 /\ \E text \in CStrings(Filled) : Store(text)
              \/ /\ putStep' = "send" /\ putRet' = FALSE /\ offset + PutBuffer <= Len(local)
                 /\ \E text \in CStrings(Filled) : Store(text)
<1>1. /\ putStep = "send" /\ strBuf' = Filled /\ offset' = offset + PutBuffer
      /\ UNCHANGED <<local, before, nSize>>
  BY DEF PutChunk
<1>2. putRet = FALSE
  BY <1>1, Zenon DEF PutInv, RemoteInv
<1>3. \/ PutReturns(FALSE) /\ UNCHANGED <<remoteFile, storing>>
      \/ /\ \E text \in CStrings(Filled) : Store(text)
         /\ IF Len(local) < offset + PutBuffer
               THEN PutReturns(TRUE)
               ELSE UNCHANGED <<putStep, putRet>>
  BY <1>1, Zenon DEF PutChunk
<1>4. Len(local) < offset + PutBuffer \/ offset + PutBuffer <= Len(local)
  BY LenProperties, FtpUploadAssumption DEF PutInv, PutTypeOK
<1>5. Len(local) < offset + PutBuffer => ~ (offset + PutBuffer <= Len(local))
  BY LenProperties, FtpUploadAssumption DEF PutInv, PutTypeOK
<1>6. CASE PutReturns(FALSE) /\ UNCHANGED <<remoteFile, storing>>
  BY <1>1, <1>6, Zenon DEF PutReturns
<1>7. CASE /\ \E text \in CStrings(Filled) : Store(text)
           /\ Len(local) < offset + PutBuffer /\ PutReturns(TRUE)
  BY <1>1, <1>7, Zenon DEF PutReturns
<1>8. CASE /\ \E text \in CStrings(Filled) : Store(text)
           /\ ~ (Len(local) < offset + PutBuffer) /\ UNCHANGED <<putStep, putRet>>
  BY <1>1, <1>2, <1>4, <1>8, Zenon
<1>9. QED
  BY <1>3, <1>6, <1>7, <1>8, Zenon

(* A round after which Put goes on has sent a whole buffer of the text.     *)
LEMMA RoundGoesOn ==
    ASSUME PutInv, PutChunk, putStep' = "send"
    PROVE  RoundInv'
<1> USE DEF PutInv
<1>1. /\ putStep = "send" /\ strBuf' = Filled /\ offset' = offset + PutBuffer
      /\ UNCHANGED <<local, before, nSize>>
  BY RoundSends, Zenon
<1>2. /\ offset + PutBuffer <= Len(local)
      /\ \E text \in CStrings(Filled) : Store(text)
  <2>1. putStep' # "done"
    OBVIOUS
  <2>2. QED
    BY <2>1, RoundSends, Zenon
<1>3. Seek \in Nat /\ offset \in Nat /\ PutBuffer \in Nat /\ Seek <= offset
  BY <1>1, SeekNat, FtpUploadAssumption DEF PutTypeOK, RoundInv
<1>4. Seek' = Seek /\ Contents(before)' = Contents(before) /\ SizeRight' = SizeRight
  BY <1>1 DEF Seek, Contents, SizeRight
<1>5. ASSUME NUL \notin ToSet(local)
      PROVE  \A i \in 1..PutBuffer : Filled[i] # NUL
  BY <1>2, <1>5, FilledWhole
<1>6. ASSUME NUL \notin ToSet(local), storing' = TRUE, SizeRight
      PROVE  Len(Contents(before)) + offset' - Seek <= Len(remoteFile')
  <2>1. PICK text \in CStrings(Filled) : Store(text)
    BY <1>2
  <2>2. text \in Seq(Sendable) /\ PutBuffer <= Len(text)
    BY <1>5, <1>6, FilledBuffer, CStringSent
  <2>3. storing = TRUE /\ remoteFile' = remoteFile \o text /\ remoteFile \in Seq(Sendable)
    BY <1>1, <1>6, <2>1, <2>2, TextArrives, Zenon
  <2>4. Len(remoteFile') = Len(remoteFile) + Len(text)
    BY <2>2, <2>3, ConcatProperties
  <2>5. Len(Contents(before)) + offset - Seek <= Len(remoteFile)
    <3>1. CASE offset = Seek /\ remoteFile = Contents(before)
      BY <1>3, <2>3, <3>1, LenProperties
    <3>2. CASE Len(Contents(before)) + offset - Seek <= Len(remoteFile)
      BY <3>2
    <3>3. QED
      BY <1>1, <1>6, <2>3, <3>1, <3>2, Zenon DEF RoundInv
  <2>6. Len(Contents(before)) \in Nat /\ Len(remoteFile) \in Nat /\ Len(text) \in Nat
    BY <2>2, <2>3, ContentsSeq, LenProperties DEF PutTypeOK
  <2>7. QED
    BY <1>1, <1>3, <2>2, <2>4, <2>5, <2>6
<1>7. Seek + PutBuffer <= offset' /\ offset' <= Len(local)
  BY <1>1, <1>2, <1>3
<1>8. QED
  BY <1>1, <1>4, <1>5, <1>6, <1>7, Zenon DEF RoundInv

(* The last round: what has arrived is the text in one case only.           *)
LEMMA LastRound ==
    ASSUME PutInv, PutChunk, putRet' = TRUE, storing' = TRUE, SizeRight,
           NUL \notin ToSet(local)
    PROVE  remoteFile' = local <=>
               /\ IsPrefix(Contents(before), local)
               /\ Len(local) - Len(Contents(before)) < PutBuffer
<1> USE DEF PutInv
<1>1. putStep = "send" /\ UNCHANGED <<local, before, nSize>>
  BY RoundSends, Zenon
<1>2. PICK text \in CStrings(Filled) : Store(text) /\ Len(local) < offset + PutBuffer
  <2>1. ~ (putRet' = FALSE)
    OBVIOUS
  <2>2. QED
    BY <2>1, RoundSends, Zenon
<1>3. /\ Seek \in Nat /\ offset \in Nat /\ PutBuffer \in Nat /\ Len(local) \in Nat
      /\ Seek = Len(Contents(before))
  BY SeekNat, LenProperties, FtpUploadAssumption DEF PutTypeOK
<1>4. /\ text \in Seq(Sendable)
      /\ (\A i \in 1..PutBuffer : Filled[i] # NUL) => PutBuffer <= Len(text)
  BY FilledBuffer, CStringSent
<1>5. Contents(before) \in Seq(Bytes) /\ Contents(before) \in Seq(Sendable)
  BY ContentsSeq DEF PutTypeOK
<1>6. local \in Seq(Bytes) /\ local \in Seq(Sendable)
  BY SeqMonotonic DEF PutTypeOK, Sendable
<1>7. storing = TRUE /\ remoteFile' = remoteFile \o text /\ remoteFile \in Seq(Sendable)
  BY <1>1, <1>2, <1>4, TextArrives, Zenon
<1>8. CASE offset = Seek /\ strBuf = Blank /\ remoteFile = Contents(before)
  <2>1. Len(local) - Len(Contents(before)) < PutBuffer
    BY <1>2, <1>3, <1>8
  <2>2. ASSUME IsPrefix(Contents(before), local)
        PROVE  remoteFile' = local
    <3>1. offset <= Len(local)
      BY <1>3, <1>8, <2>2 DEF IsPrefix
    <3>2. text = SubSeq(local, Len(Contents(before)) + 1, Len(local))
      BY <1>2, <1>3, <1>8, <3>1, FirstRoundShort
    <3>3. QED
      BY <1>5, <1>6, <1>7, <1>8, <2>2, <3>2, PrefixCompleted
  <2>3. ASSUME remoteFile' = local
        PROVE  IsPrefix(Contents(before), local)
    <3>1. IsPrefix(Contents(before), Contents(before) \o text)
      BY <1>4, <1>5, PrefixOfItself, PrefixKept
    <3>2. QED
      BY <1>7, <1>8, <2>3, <3>1
  <2>4. QED
    BY <2>1, <2>2, <2>3, Zenon
<1>9. CASE /\ Seek + PutBuffer <= offset /\ offset <= Len(local)
           /\ \A i \in 1..PutBuffer : strBuf[i] # NUL
           /\ Len(Contents(before)) + offset - Seek <= Len(remoteFile)
  <2>1. PutBuffer <= Len(text)
    BY <1>4, <1>9, FilledWhole
  <2>2. Len(remoteFile') = Len(remoteFile) + Len(text)
    BY <1>4, <1>7, ConcatProperties
  <2>3. Len(text) \in Nat /\ Len(remoteFile) \in Nat
    BY <1>4, <1>7, LenProperties
  <2>4. Len(local) < Len(remoteFile')
    BY <1>2, <1>3, <1>9, <2>1, <2>2, <2>3
  <2>5. remoteFile' # local
    BY <1>3, <2>2, <2>3, <2>4
  <2>6. ~ (Len(local) - Len(Contents(before)) < PutBuffer)
    BY <1>3, <1>9
  <2>7. QED
    BY <2>5, <2>6, Zenon
<1>10. QED
  BY <1>1, <1>7, <1>8, <1>9, Zenon DEF RoundInv

(* What a step does to the remote file keeps its type and what it had.      *)
LEMMA FileStep ==
    ASSUME PutInv, UNCHANGED <<before, nSize>>, NEW buffer \in [1..PutBuffer -> Bytes],
           \/ UNCHANGED <<remoteFile, storing>>
           \/ \E text \in CStrings(buffer) : Store(text)
    PROVE  /\ storing' \in BOOLEAN
           /\ remoteFile' \in Seq(Sendable) \cup {Absent}
           /\ storing' = TRUE => remoteFile' \in Seq(Sendable)
           /\ RemoteKept'
<1> USE DEF PutInv
<1>1. CASE UNCHANGED <<remoteFile, storing>>
  <2>1. RemoteKept'
    BY <1>1 DEF RemoteInv, RemoteKept, Contents
  <2>2. QED
    BY <1>1, <2>1, Zenon DEF PutTypeOK, RemoteInv
<1>2. ASSUME NEW text \in CStrings(buffer), Store(text)
      PROVE  /\ storing' \in BOOLEAN
             /\ remoteFile' \in Seq(Sendable) \cup {Absent}
             /\ storing' = TRUE => remoteFile' \in Seq(Sendable)
             /\ RemoteKept'
  <2>1. text \in Seq(Sendable)
    BY CStringSent
  <2>2. QED
    BY <1>2, <2>1, TextArrives, Zenon
<1>3. QED
  BY <1>1, <1>2, Zenon

(* A round of Put.                                                          *)
LEMMA ChunkStep ==
    ASSUME PutInv, PutChunk
    PROVE  PutInv'
<1> USE DEF PutInv
<1>1. /\ putStep = "send" /\ strBuf' = Filled /\ offset' = offset + PutBuffer
      /\ UNCHANGED <<local, before, nSize>>
  BY RoundSends, Zenon
<1>2. \/ putStep' = "done" /\ (putRet' = TRUE \/ putRet' = FALSE)
      \/ putStep' = "send" /\ putRet' = FALSE
  BY RoundSends, Zenon
<1>3. /\ storing' \in BOOLEAN
      /\ remoteFile' \in Seq(Sendable) \cup {Absent}
      /\ storing' = TRUE => remoteFile' \in Seq(Sendable)
      /\ RemoteKept'
  <2>1. \/ UNCHANGED <<remoteFile, storing>>
        \/ \E text \in CStrings(Filled) : Store(text)
    BY RoundSends, Zenon
  <2>2. Filled \in [1..PutBuffer -> Bytes]
    BY FilledBuffer
  <2>3. QED
    BY <1>1, <2>1, <2>2, FileStep, Zenon
<1>4. PutTypeOK'
  <2>1. putRet' \in BOOLEAN
    BY <1>2, Zenon
  <2>2. offset' \in Nat
    BY <1>1, FtpUploadAssumption DEF PutTypeOK
  <2>3. strBuf' \in [1..PutBuffer -> Bytes]
    BY <1>1, FilledBuffer
  <2>4. putStep' \in {"idle", "command", "send", "looping", "done"}
    BY <1>2
  <2>5. QED
    BY <1>1, <1>3, <2>1, <2>2, <2>3, <2>4, Zenon DEF PutTypeOK
<1>5. RemoteInv'
  <2>1. putStep' \notin {"idle", "command"}
    BY <1>2
  <2>2. putStep' # "done" => putRet' = FALSE
    BY <1>2, Zenon
  <2>3. QED
    BY <1>3, <2>1, <2>2, Zenon DEF RemoteInv
<1>6. RoundInv'
  BY <1>2, RoundGoesOn DEF RoundInv
<1>7. OnlyShortTextCompletes'
  <2>1. SUFFICES ASSUME putRet' = TRUE, storing' = TRUE, SizeRight', NUL \notin ToSet(local')
                 PROVE  remoteFile' = local' <=>
                            /\ IsPrefix(Contents(before'), local')
                            /\ Len(local') - Len(Contents(before')) < PutBuffer
    <3>1. storing' \in BOOLEAN /\ putRet' \in BOOLEAN
      BY <1>4 DEF PutTypeOK
    <3>2. Contents(before)' = Contents(before')
      BY DEF Contents
    <3>3. QED
      BY <3>1, <3>2, Zenon DEF OnlyShortTextCompletes
  <2>2. local' = local /\ before' = before /\ SizeRight
    BY <1>1, <2>1 DEF SizeRight
  <2>3. remoteFile' = local <=>
            /\ IsPrefix(Contents(before), local)
            /\ Len(local) - Len(Contents(before)) < PutBuffer
    BY <2>1, <2>2, LastRound, Zenon
  <2>4. QED
    BY <2>2, <2>3, Zenon
<1>8. QED
  BY <1>4, <1>5, <1>6, <1>7

(* A local file that cannot be read.                                        *)
LEMMA LoopStep ==
    ASSUME PutInv, PutReadFails \/ PutLoops
    PROVE  PutInv'
<1> USE DEF PutInv
<1>1. /\ putStep \in {"send", "looping"} /\ putStep' \in {"looping", "done"}
      /\ UNCHANGED <<local, before, nSize, offset, strBuf>>
  BY DEF PutReadFails, PutLoops, PutReturns
<1>2. putRet' = FALSE
  <2>1. putRet = FALSE
    BY <1>1, Zenon DEF RemoteInv
  <2>2. QED
    BY <2>1, Zenon DEF PutReadFails, PutLoops, PutReturns
<1>3. /\ storing' \in BOOLEAN
      /\ remoteFile' \in Seq(Sendable) \cup {Absent}
      /\ storing' = TRUE => remoteFile' \in Seq(Sendable)
      /\ RemoteKept'
  <2>1. \/ UNCHANGED <<remoteFile, storing>>
        \/ \E text \in CStrings(strBuf) : Store(text)
    BY Zenon DEF PutReadFails, PutLoops
  <2>2. strBuf \in [1..PutBuffer -> Bytes]
    BY DEF PutTypeOK
  <2>3. QED
    BY <1>1, <2>1, <2>2, FileStep, Zenon
<1>4. PutTypeOK'
  <2>1. putStep' \in {"idle", "command", "send", "looping", "done"}
    BY <1>1
  <2>2. QED
    BY <1>1, <1>2, <1>3, <2>1, Zenon DEF PutTypeOK
<1>5. RemoteInv'
  <2>1. putStep' \notin {"idle", "command"}
    BY <1>1
  <2>2. QED
    BY <1>2, <1>3, <2>1, Zenon DEF RemoteInv
<1>6. RoundInv'
  BY <1>1 DEF RoundInv
<1>7. OnlyShortTextCompletes'
  BY <1>2, Zenon DEF OnlyShortTextCompletes
<1>8. QED
  BY <1>4, <1>5, <1>6, <1>7

LEMMA PutInvStep == PutInv /\ [PutNext]_putVars => PutInv'
<1> SUFFICES ASSUME PutInv, [PutNext]_putVars PROVE PutInv'
  OBVIOUS
<1>1. CASE CallPut
  BY <1>1, CallPutStep
<1>2. CASE RemoteReplaced
  BY <1>2, ReplacedStep
<1>3. CASE PutCommand
  BY <1>3, CommandStep
<1>4. CASE PutChunk
  BY <1>4, ChunkStep
<1>5. CASE PutReadFails \/ PutLoops
  BY <1>5, LoopStep
<1>6. CASE UNCHANGED putVars
  BY <1>6, Zenon DEF putVars, PutInv, PutTypeOK, RemoteInv, RemoteKept, RoundInv, Seek,
                     SizeRight, Contents, OnlyShortTextCompletes
<1>7. QED
  BY <1>1, <1>2, <1>3, <1>4, <1>5, <1>6 DEF PutNext

-----------------------------------------------------------------------------
(* The theorems.                                                            *)

LEMMA PutInvariant == PutSpec => []PutInv
  BY PutInvInit, PutInvStep, PTL DEF PutSpec

(* Whatever the server answers to SIZE, rightly or wrongly, and whatever    *)
(* becomes of the file and of the transfer meanwhile: what the remote file  *)
(* had is still there, unless Put was told 0 of a file that had bytes.      *)
THEOREM UploadKeepsRemote == PutSpec => []RemoteKept
<1>1. PutInv => RemoteKept
  BY DEF PutInv, RemoteInv
<1>2. QED
  BY <1>1, PutInvariant, PTL

(* Where the server told how much it has, took the command and stored what  *)
(* arrived, and the file was nobody else's meanwhile, a text without NUL    *)
(* arrives as it is if and only if it goes on from what the server had with *)
(* less than a buffer.                                                      *)
THEOREM OnlyShortTextsUploaded == PutSpec => []OnlyShortTextCompletes
<1>1. PutInv => OnlyShortTextCompletes
  BY DEF PutInv
<1>2. QED
  BY <1>1, PutInvariant, PTL

=============================================================================
