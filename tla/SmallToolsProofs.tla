-------------------------- MODULE SmallToolsProofs --------------------------
(***************************************************************************)
(* Theorems about the three smallest programs: NoLineLost of KernelLog for *)
(* every ring, DateRightOrMonthMissing of SystemTime for every set of      *)
(* names of weekdays of which none is the name of a month, and ReplyWaits  *)
(* of SendArp for any number of frames of other hosts.                     *)
(***************************************************************************)
EXTENDS KernelLog, SystemTime, SendArp, SequenceTheorems, TLAPS

-----------------------------------------------------------------------------
(* printArpKernelLog.c.                                                     *)

(* file_old never holds a line that was not printed or copied at first; so  *)
(* what diff leaves out of file_new is no loss.                             *)
FollowInv ==
    /\ fileOld \subseteq shown \cup initial
    /\ taken \subseteq shown \cup initial \cup (IF follow = "compare" THEN fileNew ELSE {})
    /\ first => taken = {}
    /\ follow \in {"idle", "dmesg", "compare"}

(* Each round of the loop keeps it, and so does the kernel between rounds.  *)
LEMMA FollowInd == KernelSpec => []FollowInv
<1>1. KernelInit => FollowInv
  BY DEF KernelInit, FollowInv
<1>2. FollowInv /\ [KernelNext]_kernelVars => FollowInv'
  <2> SUFFICES ASSUME FollowInv, [KernelNext]_kernelVars PROVE FollowInv'
    OBVIOUS
  <2>1. ASSUME NEW lines, Snapshot(lines) PROVE FollowInv'
    BY <2>1 DEF Snapshot, FollowInv
  <2>2. CASE Compare
    BY <2>2 DEF Compare, FollowInv
  <2>3. CASE StartFollowing \/ LogLine \/ UNCHANGED kernelVars
    BY <2>3 DEF StartFollowing, LogLine, kernelVars, FollowInv
  <2>4. QED
    BY <2>1, <2>2, <2>3 DEF KernelNext, Dmesg, DmesgFails
<1>3. QED
  BY <1>1, <1>2, PTL DEF KernelSpec

(* Between rounds no line that dmesg ever wrote is still to be printed.     *)
THEOREM LinesPrinted == KernelSpec => []NoLineLost
<1>1. FollowInv => NoLineLost
  BY DEF FollowInv, NoLineLost
<1>2. QED
  BY <1>1, FollowInd, PTL

-----------------------------------------------------------------------------
(* getSysTime.cpp.                                                          *)

(* Each month but August is found under its name, and August is not.        *)
LEMMA MonthFound ==
    ASSUME NEW month \in 1..12
    PROVE  MonthMap(Months[month]) = IF month = 8 THEN 0 ELSE month
<1>1. \A i \in 1..12 : MonthKeys[i] = IF i = 8 THEN "Agu" ELSE Months[i]
  BY DEF MonthKeys, Months
<1>2. \A i \in 1..12 : Months[i] # "Agu"
  BY DEF Months
<1>3. \A i, j \in 1..12 : Months[i] = Months[j] => i = j
  BY DEF Months
<1>4. CASE month = 8
  <2>1. {i \in 1..12 : MonthKeys[i] = Months[month]} = {}
    BY <1>1, <1>2, <1>3, <1>4
  <2>2. QED
    BY <1>4, <2>1 DEF MonthMap
<1>5. CASE month # 8
  <2>1. {i \in 1..12 : MonthKeys[i] = Months[month]} = {month}
    BY <1>1, <1>2, <1>3, <1>5
  <2>2. (CHOOSE i \in {month} : TRUE) = month
    OBVIOUS
  <2>3. QED
    BY <1>5, <2>1, <2>2 DEF MonthMap
<1>6. QED
  BY <1>4, <1>5

(* The name of a weekday is no month.                                       *)
LEMMA WeekdayIsNoMonth ==
    ASSUME NEW weekday \in Weekdays
    PROVE  MonthMap(weekday) = 0
  BY SystemTimeAssumption DEF MonthMap

(* The word that is taken for the month: the month where asctime pads the   *)
(* day, and the weekday where it does not.                                  *)
LEMMA MonthWord ==
    ASSUME NEW d \in [weekday : Weekdays, month : 1..12, day : 1..31]
    PROVE  LET words == Words(d)
           IN  /\ words[Len(words)] = "year" /\ words[Len(words) - 1] = "time"
               /\ words[Len(words) - 2] = d.day
               /\ words[Len(words) - 4] = IF d.day < 10 THEN Months[d.month] ELSE d.weekday
<1>1. CASE d.day < 10
  <2>1. ASSUME NEW w, w = <<d.weekday, Months[d.month], "", d.day, "time", "year">>
        PROVE  Len(w) = 6 /\ w[6] = "year" /\ w[5] = "time" /\ w[4] = d.day
                   /\ w[2] = Months[d.month]
    BY <2>1
  <2>2. /\ Len(Words(d)) = 6 /\ Words(d)[6] = "year" /\ Words(d)[5] = "time"
        /\ Words(d)[4] = d.day /\ Words(d)[2] = Months[d.month]
    BY <1>1, <2>1, Zenon DEF Words
  <2>3. /\ Len(Words(d)) - 1 = 5 /\ Len(Words(d)) - 2 = 4
        /\ Len(Words(d)) - 4 = 2
    BY <2>2
  <2>4. QED
    BY <1>1, <2>2, <2>3, Zenon
<1>2. CASE ~ (d.day < 10)
  <2>1. ASSUME NEW w, w = <<d.weekday, Months[d.month], d.day, "time", "year">>
        PROVE  Len(w) = 5 /\ w[5] = "year" /\ w[4] = "time" /\ w[3] = d.day
                   /\ w[1] = d.weekday
    BY <2>1
  <2>2. /\ Len(Words(d)) = 5 /\ Words(d)[5] = "year" /\ Words(d)[4] = "time"
        /\ Words(d)[3] = d.day /\ Words(d)[1] = d.weekday
    BY <1>2, <2>1, Zenon DEF Words
  <2>3. /\ Len(Words(d)) - 1 = 4 /\ Len(Words(d)) - 2 = 3
        /\ Len(Words(d)) - 4 = 1
    BY <2>2
  <2>4. QED
    BY <1>2, <2>2, <2>3, Zenon
<1>3. QED
  BY <1>1, <1>2, Zenon

TimeInv ==
    /\ date = Nothing \/ date \in [weekday : Weekdays, month : 1..12, day : 1..31]
    /\ DateRightOrMonthMissing

LEMMA TimeInvStep == TimeInv /\ [TimeNext]_timeVars => TimeInv'
<1> SUFFICES ASSUME TimeInv, [TimeNext]_timeVars PROVE TimeInv'
  OBVIOUS
<1>1. CASE ShowTime
  <2> DEFINE words == Words(date')
  <2>1. /\ date' \in [weekday : Weekdays, month : 1..12, day : 1..31]
        /\ text' = [year |-> words[Len(words)], time |-> words[Len(words) - 1],
                    day |-> words[Len(words) - 2], month |-> MonthMap(words[Len(words) - 4])]
    BY <1>1 DEF ShowTime, MonthOf
  <2>2. /\ words[Len(words)] = "year" /\ words[Len(words) - 1] = "time"
        /\ words[Len(words) - 2] = date'.day
        /\ words[Len(words) - 4] =
              IF date'.day < 10 THEN Months[date'.month] ELSE date'.weekday
    BY <2>1, MonthWord
  <2> HIDE DEF words
  <2>3. /\ date'.weekday \in Weekdays /\ date'.month \in 1..12 /\ date'.day \in 1..31
    BY <2>1
  <2>4. text'.month = IF date'.day < 10 /\ date'.month # 8 THEN date'.month ELSE 0
    <3>1. CASE date'.day < 10
      BY <2>1, <2>2, <2>3, <3>1, MonthFound
    <3>2. CASE ~ (date'.day < 10)
      BY <2>1, <2>2, <2>3, <3>2, WeekdayIsNoMonth
    <3>3. QED
      BY <3>1, <3>2
  <2>5. text'.year = "year" /\ text'.time = "time" /\ text'.day = date'.day
    BY <2>1, <2>2
  <2>6. QED
    BY <2>1, <2>4, <2>5 DEF TimeInv, DateRightOrMonthMissing
<1>2. CASE UNCHANGED timeVars
  BY <1>2 DEF timeVars, TimeInv, DateRightOrMonthMissing
<1>3. QED
  BY <1>1, <1>2 DEF TimeNext

(* A wrong month is never shown: the right one on the first nine days of    *)
(* every month but August, none on all other days; and year, time and day   *)
(* are always right.                                                        *)
THEOREM DateShown == TimeSpec => []DateRightOrMonthMissing
<1>1. TimeInit => TimeInv
  BY DEF TimeInit, TimeInv, DateRightOrMonthMissing
<1>2. TimeInv => DateRightOrMonthMissing
  BY DEF TimeInv
<1>3. QED
  BY <1>1, <1>2, TimeInvStep, PTL DEF TimeSpec

-----------------------------------------------------------------------------
(* send_arp.c.                                                              *)

(* There is no reply before the request, and the thread is created before   *)
(* that: from then on its socket is opened, and never given up.             *)
ArpInv ==
    /\ frames \in Seq({"reply", "other"})
    /\ asked \/ answered => sender \in {"spin", "exited"}
    /\ ReplyWaits

(* No step of the two threads, and no frame, takes a waiting reply away.    *)
LEMMA ArpInvStep == ArpInv /\ [ArpNext]_arpVars => ArpInv'
<1> SUFFICES ASSUME ArpInv, [ArpNext]_arpVars PROVE ArpInv'
  OBVIOUS
<1> USE DEF ArpInv, ReplyWaits
<1>1. ASSUME NEW frame \in {"reply", "other"}, Deliver(frame)
      PROVE  /\ frames' \in Seq({"reply", "other"})
             /\ frames # <<>> => frames' # <<>>
             /\ receiver = "recv" => frames' # <<>>
  BY <1>1 DEF Deliver
<1>2. CASE StartArp \/ CreateThread \/ SendRequest
  BY <1>2 DEF StartArp, CreateThread, SendRequest
<1>3. CASE OpenSocket \/ ReceiveFails
  BY <1>3 DEF OpenSocket, ReceiveFails, Running
<1>4. CASE ReceiveFrame
  BY <1>4 DEF ReceiveFrame
<1>5. CASE TargetReplies
  BY <1>1, <1>5 DEF TargetReplies, Running
<1>6. CASE OtherFrame
  BY <1>1, <1>6 DEF OtherFrame
<1>7. CASE UNCHANGED arpVars
  BY <1>7 DEF arpVars
<1>8. QED
  BY <1>2, <1>3, <1>4, <1>5, <1>6, <1>7 DEF ArpNext

(* However many frames of other hosts come and wherever recvfrom fails, a   *)
(* reply that was not early waits at a live thread or the program is over:  *)
(* the safety half of ReplyEndsIt.                                          *)
THEOREM ReplyKept == ArpSpec => []ReplyWaits
<1>1. ArpInit => ArpInv
  BY DEF ArpInit, ArpInv, ReplyWaits
<1>2. ArpInv => ReplyWaits
  BY DEF ArpInv
<1>3. QED
  BY <1>1, <1>2, ArpInvStep, PTL DEF ArpSpec

=============================================================================
