------------------------------ MODULE Timetable ------------------------------
(***************************************************************************)
(* What the work schedule promises: each date has a plan, its day in the    *)
(* week in force, and perhaps an exception.  A new week sets the plan from  *)
(* one date on and leaves every earlier date alone; an exception touches    *)
(* its own date only.                                                      *)
(***************************************************************************)
EXTENDS Integers

CONSTANTS Dates, WeekLength, Weeks, Exceptions, NoPlan, NoException

VARIABLES
  plan, exception,
  expected    \* what is asked for: the hours of each date

timetable == <<plan, exception, expected>>

Nothing == [minutes |-> 0, windows |-> {}]

(* An exception speaks only where there is a plan.                          *)
Answers(plans, exceptions) ==
  [d \in Dates |-> IF plans[d] = NoPlan THEN Nothing
                   ELSE IF exceptions[d] # NoException THEN exceptions[d].day ELSE plans[d]]

Init ==
  /\ plan = [d \in Dates |-> NoPlan]
  /\ exception = [d \in Dates |-> NoException]
  /\ expected = [d \in Dates |-> Nothing]

Adopt(week, from) ==
  /\ plan' = [d \in Dates |-> IF d >= from THEN week[d % WeekLength] ELSE plan[d]]
  /\ UNCHANGED exception

Except(d, to) == exception' = [exception EXCEPT ![d] = to] /\ UNCHANGED plan

(* What changes neither a plan nor an exception is a stuttering step.       *)
Next ==
  /\ plan' # plan \/ exception' # exception
  /\ \/ \E week \in Weeks, from \in Dates : Adopt(week, from)
     \/ \E d \in Dates, to \in Exceptions \cup {NoException} : Except(d, to)
  /\ expected' = Answers(plan', exception')

Spec == Init /\ [][Next]_timetable
=============================================================================
