----------------------------- MODULE SystemTime -----------------------------
(***************************************************************************)
(* cPlusPlus/getSysTime.cpp: the date asctime writes is split at spaces,   *)
(* taken apart from its end, and put together in another order.  asctime   *)
(* pads a day below ten with a second space: an empty word for split.      *)
(***************************************************************************)
EXTENDS Naturals, Sequences

CONSTANT Weekdays       (* names of days of the week                         *)

VARIABLES
    date,       (* the date shown, Nothing before                            *)
    text        (* what getSystemTime made of it                             *)

timeVars == <<date, text>>

Months == <<"Jan", "Feb", "Mar", "Apr", "May", "Jun",
            "Jul", "Aug", "Sep", "Oct", "Nov", "Dec">>

Nothing == [weekday |-> "", month |-> 0, day |-> 0]

(* The keys of m_monthMap, with its "Agu".                                  *)
MonthKeys == [Months EXCEPT ![8] = "Agu"]

ASSUME SystemTimeAssumption == \A i \in 1..12 : MonthKeys[i] \notin Weekdays

(* m_monthMap[key]; a key it lacks is mapped to the empty string.           *)
MonthMap(key) ==
    LET matching == {i \in 1..12 : MonthKeys[i] = key}
    IN  IF matching = {} THEN 0 ELSE CHOOSE i \in matching : TRUE

(* The words of asctime's line.                                             *)
Words(d) ==
    IF d.day < 10
        THEN <<d.weekday, Months[d.month], "", d.day, "time", "year">>
        ELSE <<d.weekday, Months[d.month], d.day, "time", "year">>

(* Mutant: the day is taken off, the empty word before it is not.           *)
MonthOnce(words) == MonthMap(words[Len(words) - 3])

(* The month's place: two words before the day.                             *)
MonthOf(words) == MonthMap(words[Len(words) - 4])

ShowTime ==
    /\ date = Nothing
    /\ date' \in [weekday : Weekdays, month : 1..12, day : 1..31]
    /\ LET words == Words(date')
       IN  text' = [year |-> words[Len(words)], time |-> words[Len(words) - 1],
                    day |-> words[Len(words) - 2], month |-> MonthOf(words)]

TimeInit ==
    /\ date = Nothing
    /\ text = [year |-> "", time |-> "", day |-> 0, month |-> 0]

TimeNext == ShowTime

TimeSpec == TimeInit /\ [][TimeNext]_timeVars

(* The month shown is the right one on the first nine days of every month   *)
(* but August, and is missing on all others: a wrong month is never shown,  *)
(* and year, time and day are always right.                                 *)
DateRightOrMonthMissing ==
    date # Nothing =>
        /\ text.year = "year" /\ text.time = "time" /\ text.day = date.day
        /\ text.month = IF date.day < 10 /\ date.month # 8 THEN date.month ELSE 0

=============================================================================
