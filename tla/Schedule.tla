------------------------------ MODULE Schedule ------------------------------
(***************************************************************************)
(* The work schedule (internal/service/work_schedule.go) and the expected   *)
(* time of a date (expected_time.go).  A schedule is a chain of versions,   *)
(* each a week of day plans in force over a half-open range of dates.  A    *)
(* date is a number, a weekday its remainder.                              *)
(***************************************************************************)
EXTENDS Integers

CONSTANTS
  MaxDate,      \* bound: the last date a user may name
  WeekLength,
  DayLength,    \* 1440
  DayPlans,     \* bound: the day plans a user may ask for, bad ones included
  NoPlan, NoException

ScheduleAssumption ==
  MaxDate \in Nat /\ WeekLength \in Nat \ {0} /\ DayLength \in Nat \ {0}

Dates == 0 .. MaxDate

Weekdays == 0 .. WeekLength - 1

(* effective_to is NULL: later than every date.                             *)
Open == MaxDate + 1

Kinds == {"holiday", "leave", "changed_hours"}

VARIABLES
  versions,   \* work_schedule with its days and windows
  exception   \* schedule_exception, by date

vars == <<versions, exception>>

Init == versions = {} /\ exception = [d \in Dates |-> NoException]

ValidWindow(w) ==
  /\ 0 <= w.start /\ w.start < DayLength
  /\ 0 < w.end /\ w.end <= DayLength
  /\ w.start < w.end

ValidDay(day) == day.minutes >= 0 /\ \A w \in day.windows : ValidWindow(w)

(* validateScheduleDays: every weekday once, and each of them valid.        *)
ValidWeek(week) == DOMAIN week = Weekdays /\ \A d \in Weekdays : ValidDay(week[d])

(* Mutant: effective_to taken for the last date of the range.               *)
ClosedInclusive(v, from) == IF v.to > from THEN [v EXCEPT !.to = from - 1] ELSE v

(* UpdateWorkScheduleEffectiveTo of a version that reaches past from.       *)
Closed(v, from) == IF v.to > from THEN [v EXCEPT !.to = from] ELSE v

(* The triggers on work_schedule.                                           *)
Disjoint(table) == \A u, v \in table : u # v => u.to <= v.from \/ v.to <= u.from

(* Refused while a version reaches past from and does not start before it;  *)
(* else the version in force ends and the new one begins.                   *)
ReplaceActiveWorkSchedule(week, from) ==
  /\ ValidWeek(week)
  /\ \A v \in versions : v.to > from => v.from < from
  /\ LET created == [from |-> from, to |-> Open, week |-> week]
     IN versions' = {Closed(v, from) : v \in versions} \cup {created}
  /\ Disjoint(versions')
  /\ UNCHANGED exception

UpsertScheduleException(d, kind, day) ==
  /\ ValidDay(day)
  /\ kind = "changed_hours" \/ day.windows = {}
  /\ exception' = [exception EXCEPT ![d] = [kind |-> kind, day |-> day]]
  /\ UNCHANGED versions

DeleteScheduleException(d) ==
  /\ exception[d] # NoException
  /\ exception' = [exception EXCEPT ![d] = NoException]
  /\ UNCHANGED versions

Next ==
  \/ \E days \in SUBSET Weekdays, from \in Dates : \E week \in [days -> DayPlans] :
       ReplaceActiveWorkSchedule(week, from)
  \/ \E d \in Dates :
       \/ \E kind \in Kinds, day \in DayPlans : UpsertScheduleException(d, kind, day)
       \/ DeleteScheduleException(d)

Spec == Init /\ [][Next]_vars
-----------------------------------------------------------------------------
(* GetWorkScheduleForDate *)
InForce(d) == {v \in versions : v.from <= d /\ d < v.to}

(* The day of the week in force, whichever row LIMIT 1 gives.               *)
PlanFor(d) ==
  IF InForce(d) = {} THEN NoPlan ELSE (CHOOSE v \in InForce(d) : TRUE).week[d % WeekLength]

(* Without a schedule in force nothing is expected, exception or not.       *)
ExpectedTimeForDate(d) ==
  IF PlanFor(d) = NoPlan THEN [minutes |-> 0, windows |-> {}]
  ELSE IF exception[d] # NoException THEN exception[d].day ELSE PlanFor(d)

ValidDays == {day \in DayPlans : ValidDay(day)}

Kept == INSTANCE Timetable WITH
  Weeks <- [Weekdays -> ValidDays],
  Exceptions <- [kind : Kinds, day : ValidDays],
  plan <- [d \in Dates |-> PlanFor(d)],
  expected <- [d \in Dates |-> ExpectedTimeForDate(d)]

(* The versions keep the timetable: expected time of the past never changes *)
(* when the schedule is replaced, and every date from the first one on has  *)
(* exactly one plan.                                                       *)
KeepsTimetable == Kept!Spec
=============================================================================
