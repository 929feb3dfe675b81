------------------------------ MODULE Intervals ------------------------------
(***************************************************************************)
(* The half-open interval [start, end) of the schedule and the pure        *)
(* operations the service builds on it: overlap, the split of one interval *)
(* around another, the subtraction of one interval from several, the cut   *)
(* at local midnights.  Instants are naturals; a day is DayLength instants *)
(* long in every timezone (daylight saving is abstracted).  An optional    *)
(* interval of the code (a nil pointer, an ok result) is a set of at most  *)
(* one interval.                                                           *)
(***************************************************************************)
EXTENDS Integers

Interval == [start : Nat, end : Nat]

Span(s, e) == [start |-> s, end |-> e]

NonEmpty(iv) == iv.start < iv.end

(* The instants an interval, or a set of intervals, contains. *)
Points(iv) == iv.start .. (iv.end - 1)

Covered(ivs) == UNION {Points(iv) : iv \in ivs}

Overlaps(a, b) == a.start < b.end /\ b.start < a.end

Later(a, b) == IF a < b THEN b ELSE a

Earlier(a, b) == IF a < b THEN a ELSE b

(* Mutant: only one side of the gap is kept. *)
SplitAroundOneSide(gap, event) ==
  IF ~Overlaps(gap, event)
  THEN [before |-> {gap}, overlap |-> {}, after |-> {}]
  ELSE [before  |-> IF event.start > gap.start THEN {Span(gap.start, event.start)} ELSE {},
        overlap |-> {Span(Later(gap.start, event.start), Earlier(gap.end, event.end))},
        after   |-> IF event.start <= gap.start /\ gap.end > event.end
                    THEN {Span(event.end, gap.end)} ELSE {}]

(* The parts of gap before, inside and after event. *)
SplitAround(gap, event) ==
  IF ~NonEmpty(gap)
  THEN [before |-> {}, overlap |-> {}, after |-> {}]
  ELSE IF gap.end < event.start \/ gap.start >= event.end
  THEN [before |-> {gap}, overlap |-> {}, after |-> {}]
  ELSE [before  |-> IF event.start > gap.start
                    THEN {Span(gap.start, event.start)} ELSE {},
        overlap |-> {Span(Later(gap.start, event.start),
                          Earlier(gap.end, event.end))},
        after   |-> IF gap.end > event.end
                    THEN {Span(event.end, gap.end)} ELSE {}]

(* Mutant: what follows the cut is lost. *)
SubtractIntervalBefore(spans, cut) ==
  {sp \in spans : ~Overlaps(cut, sp)}
    \cup {Span(sp.start, cut.start) : sp \in {s \in spans : Overlaps(cut, s) /\ s.start < cut.start}}

(* What the spans keep when cut is taken out of them. *)
SubtractInterval(spans, cut) ==
  {sp \in spans : ~Overlaps(cut, sp)}
    \cup {Span(sp.start, cut.start) : sp \in {s \in spans : Overlaps(cut, s) /\ s.start < cut.start}}
    \cup {Span(cut.end, sp.end) : sp \in {s \in spans : Overlaps(cut, s) /\ cut.end < s.end}}

(* What span keeps when every cut is taken out of it, one subtractInterval *)
(* per cut: from its start or a cut's end to its end or a cut's start.     *)
Remainders(span, cuts) ==
  {iv \in {Span(a, b) : a \in {span.start} \cup {c.end : c \in cuts},
                       b \in {span.end} \cup {c.start : c \in cuts}} :
     /\ NonEmpty(iv) /\ span.start <= iv.start /\ iv.end <= span.end
     /\ \A c \in cuts : ~Overlaps(c, iv)}

(* The local date of an instant, and the spans between local midnights. *)
LocalDate(t, dayLength) == t \div dayLength

CrossesLocalMidnight(iv, dayLength) ==
  LocalDate(iv.start, dayLength) # LocalDate(iv.end, dayLength)

(* Mutant: one piece too many for a span that ends at midnight. *)
SplitThroughLastMidnight(iv, dayLength) ==
  {Span(Later(iv.start, d * dayLength), Earlier(iv.end, (d + 1) * dayLength)) :
     d \in LocalDate(iv.start, dayLength) .. LocalDate(iv.end, dayLength)}

SplitAtLocalMidnights(iv, dayLength) ==
  {Span(Later(iv.start, d * dayLength), Earlier(iv.end, (d + 1) * dayLength)) :
     d \in LocalDate(iv.start, dayLength) .. LocalDate(iv.end - 1, dayLength)}
=============================================================================
