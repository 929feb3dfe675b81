------------------------------- MODULE Periods -------------------------------
(***************************************************************************)
(* Pay periods (internal/service/period.go).  EnsureCurrentPeriod finds the *)
(* period of a day or creates it, and then gives it a time zone: a handful  *)
(* of statements with nothing around them.  A day is a number.              *)
(***************************************************************************)
EXTENDS Integers

CONSTANTS
  Days,        \* bound: the days on which the application is opened
  MonthStart,  \* the first day of the month of each day and its neighbours
  MonthEnd,
  HalfMonth,   \* 15
  Week,        \* 7
  Cadences,
  NoCall

PeriodsAssumption ==
  /\ Days \subseteq Int /\ Week \in Nat \ {0} /\ HalfMonth \in Nat
  /\ MonthStart \in [Days -> Int] /\ MonthEnd \in [Days -> Int]
  /\ \A d \in Days : /\ MonthStart[d] <= d /\ d <= MonthEnd[d]
                     /\ MonthStart[d] + HalfMonth <= MonthEnd[d]
  /\ \A d, e \in Days : \/ MonthStart[d] = MonthStart[e] /\ MonthEnd[d] = MonthEnd[e]
                        \/ MonthEnd[d] < MonthStart[e] \/ MonthEnd[e] < MonthStart[d]

VARIABLES
  periods,   \* period rows
  zoned,     \* those with a tz_segment
  setting,   \* period.cadence, or "" while unset
  call,      \* EnsureCurrentPeriod in progress, before ensurePeriodTzSegment
  answer     \* what the last call to succeed was asked, and returned

vars == <<periods, zoned, setting, call, answer>>

Init ==
  /\ periods = {} /\ zoned = {} /\ setting = "" /\ call = NoCall /\ answer = NoCall

Contains(p, day) == p.start <= day /\ day <= p.end

(* ORDER BY start_date DESC                                                 *)
Latest == CHOOSE p \in periods : \A q \in periods : q.start <= p.start

(* Mutant: the setting comes before what the periods have.                  *)
PeriodCadenceOfSetting ==
  IF setting # "" THEN setting ELSE IF periods # {} THEN Latest.cadence ELSE "bi-weekly"

PeriodCadence ==
  IF periods # {} THEN Latest.cadence ELSE IF setting # "" THEN setting ELSE "bi-weekly"

PeriodAnchor(today) == IF periods # {} THEN Latest.anchor ELSE today

(* The remainder of Go, which has the sign of the dividend.                 *)
Remainder(a, n) == IF a >= 0 THEN a % n ELSE -((-a) % n)

FixedDayPeriodRange(today, anchor, length) ==
  LET rest == Remainder(today - anchor, length)
      offset == IF rest < 0 THEN rest + length ELSE rest
  IN [start |-> today - offset, end |-> today - offset + length - 1]

MonthRange(today) == [start |-> MonthStart[today], end |-> MonthEnd[today]]

HalfMonthRange(today) ==
  LET middle == MonthStart[today] + HalfMonth - 1
  IN IF today <= middle THEN [start |-> MonthStart[today], end |-> middle]
     ELSE [start |-> middle + 1, end |-> MonthEnd[today]]

CurrentPeriodRange(today, anchor, cadence) ==
  CASE cadence = "weekly" -> FixedDayPeriodRange(today, anchor, Week)
    [] cadence = "semi-monthly" -> HalfMonthRange(today)
    [] cadence = "monthly" -> MonthRange(today)
    [] OTHER -> FixedDayPeriodRange(today, anchor, 2 * Week)

Created(today) ==
  LET range == CurrentPeriodRange(today, PeriodAnchor(today), PeriodCadence)
  IN [start |-> range.start, end |-> range.end, cadence |-> PeriodCadence, anchor |-> PeriodAnchor(today)]
-----------------------------------------------------------------------------
(* Mutant: only a period just created is given a time zone.                 *)
EnsureCurrentPeriodFound(today) ==
  /\ call = NoCall
  /\ \E p \in {q \in periods : Contains(q, today)} \cup {Created(today)} :
       /\ p \in periods \/ \A q \in periods : ~Contains(q, today)
       /\ periods' = periods \cup {p}
       /\ call' = IF p \in periods THEN NoCall ELSE [today |-> today, period |-> p]
       /\ answer' = IF p \in periods THEN [today |-> today, period |-> p] ELSE answer
  /\ UNCHANGED <<zoned, setting>>

(* Up to the time zone: the period of today is found or created.            *)
EnsureCurrentPeriod(today) ==
  /\ call = NoCall
  /\ LET found == {p \in periods : Contains(p, today)} IN
     \E p \in IF found # {} THEN found ELSE {Created(today)} :
       /\ periods' = periods \cup {p}
       /\ call' = [today |-> today, period |-> p]
  /\ UNCHANGED <<zoned, setting, answer>>

(* ensurePeriodTzSegment, and the period is returned.                       *)
EnsurePeriodTzSegment ==
  /\ call # NoCall
  /\ zoned' = zoned \cup {call.period}
  /\ answer' = call /\ call' = NoCall
  /\ UNCHANGED <<periods, setting>>

(* A statement fails, or the application stops.                             *)
CallFails == call # NoCall /\ call' = NoCall /\ UNCHANGED <<periods, zoned, setting, answer>>

SetCadence(cadence) == setting' = cadence /\ UNCHANGED <<periods, zoned, call, answer>>

Next ==
  \/ \E today \in Days : EnsureCurrentPeriod(today)
  \/ EnsurePeriodTzSegment \/ CallFails
  \/ \E cadence \in Cadences : SetCadence(cadence)

Spec == Init /\ [][Next]_vars
-----------------------------------------------------------------------------
(* No day is in two periods, whichever days the application is opened on,   *)
(* in whatever order, and however the cadence is changed between: time of a *)
(* day is reported once.                                                   *)
PeriodsDisjoint == \A p, q \in periods : p # q => p.end < q.start \/ q.end < p.start

(* The period returned contains the day asked for, and has a time zone even *)
(* if an earlier call stopped before giving it one.                         *)
ReturnedIsUsable == answer # NoCall => Contains(answer.period, answer.today) /\ answer.period \in zoned
=============================================================================
