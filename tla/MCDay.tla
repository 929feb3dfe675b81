------------------------------- MODULE MCDay -------------------------------
(***************************************************************************)
(* A six-instant day with up to two windows, overlapping ones included, and *)
(* up to three spans in every position: long enough for a span before,      *)
(* inside, around, touching and after a window, and across two of them.     *)
(* The interval operations are checked on the spans of the day, which are   *)
(* in the end every pair and triple there is.                               *)
(***************************************************************************)
EXTENDS Gaps

CONSTANT DayLength    \* instants between two local midnights

ASSUME DayAssumption == DayLength \in Nat \ {0}

MCHorizon == 5
MCMaxWindows == 2
MCMaxSpans == 3
MCDayLength == 2

(* splitAround: the three parts are the instants of the gap before, inside  *)
(* and after the event; none is lost and none is in two parts.  A part that *)
(* is returned is not empty, but for one: a gap that ends where the event   *)
(* starts has an empty overlap, where the comment on the function           *)
(* (review_policy.go:844) promises a non-empty interval.                    *)
AroundPartitions ==
  \A gap, event \in spans :
    LET parts == SplitAround(gap, event) IN
    /\ Covered(parts.before)  = {t \in Points(gap) : t < event.start \/ ~Overlaps(gap, event)}
    /\ Covered(parts.overlap) = Points(gap) \cap Points(event)
    /\ Covered(parts.after)   = {t \in Points(gap) : t >= event.end /\ Overlaps(gap, event)}
    /\ \A iv \in parts.before \cup parts.after : NonEmpty(iv)
    /\ \A iv \in parts.overlap : ~NonEmpty(iv) <=> gap.end = event.start

(* subtractInterval, called once per overlap: what is left are non-empty    *)
(* spans with exactly the instants of the span that no cut contains, in     *)
(* whichever order the cuts are made.                                       *)
SubtractPartitions ==
  \A span, first, second \in spans :
    LET left == SubtractInterval(SubtractInterval({span}, first), second)
    IN /\ Covered(left) = Points(span) \ (Points(first) \cup Points(second))
       /\ \A iv \in left : NonEmpty(iv)
       /\ left = Remainders(span, {first, second})

(* splitAtLocalMidnights: non-empty pieces of one date each that together   *)
(* last exactly as long as the span.                                        *)
MidnightsPartition ==
  \A span \in spans :
    LET pieces == SplitAtLocalMidnights(span, DayLength) IN
    /\ Covered(pieces) = Points(span)
    /\ \A iv \in pieces : /\ NonEmpty(iv)
                          /\ \A t \in Points(iv) : LocalDate(t, DayLength) = LocalDate(iv.start, DayLength)

(* Whatever cuts a span of time - an event that splits a gap, the overlaps  *)
(* taken from a draft, the local midnights - loses no instant and doubles   *)
(* none.  Only splitAround leaves an empty piece, and only as the overlap   *)
(* of a gap with the event that starts at its end.                          *)
CutsPartition == AroundPartitions /\ SubtractPartitions /\ MidnightsPartition
=============================================================================
