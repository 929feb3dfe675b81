------------------------------- MODULE DayProofs -------------------------------
(***************************************************************************)
(* The arithmetic of a day, for days of any length and spans in any         *)
(* position: cutting a span of time loses nothing and doubles nothing       *)
(* (CutsPartition), and ComputeGaps leaves exactly the working time nothing *)
(* occupies.  ComputeGaps is three folds over sequences (union, subtract,   *)
(* the loop over the windows); each is the run of its steps, and induction  *)
(* over the run shows what a step keeps: a chain of intervals with time     *)
(* between them, of the right instants, that end where they must.           *)
(***************************************************************************)
EXTENDS MCDay, TimeEntriesProofs

(* The intervals of a day, and the inputs of ComputeGaps.                   *)
InDay == [start : 0 .. Horizon, end : 0 .. Horizon]

DayInputs(windows, taken) == windows \subseteq InDay /\ taken \subseteq DaySpans

(* The windows stay those the day began with; its spans are never empty.    *)
DayInv == DayInputs(rawWindows, spans)

LEMMA SpanInDay ==
  ASSUME NEW iv \in DaySpans
  PROVE  iv \in Interval /\ NonEmpty(iv)
BY GapsAssumption DEF DaySpans, Interval

LEMMA InputsStay == Spec => []DayInv
<1>1. Init => DayInv
  <2> SUFFICES ASSUME Init PROVE DayInv
    OBVIOUS
  <2>1. PICK ws \in [1 .. MaxWindows -> InDay] : rawWindows = Range(ws)
    BY DEF Init, InDay
  <2>2. Range(ws) \subseteq InDay
    BY DEF Range
  <2> QED BY <2>1, <2>2 DEF DayInv, DayInputs, Init
<1>2. DayInv /\ [Next]_vars => DayInv'
  BY DEF DayInv, DayInputs, Next, AddSpan, vars
<1> QED BY <1>1, <1>2, PTL DEF Spec

-----------------------------------------------------------------------------
(* splitAround: before, inside and after the event.                         *)
Around(gap, event) ==
  LET parts == SplitAround(gap, event) IN
  /\ Covered(parts.before)  = {t \in Points(gap) : t < event.start \/ ~Overlaps(gap, event)}
  /\ Covered(parts.overlap) = Points(gap) \cap Points(event)
  /\ Covered(parts.after)   = {t \in Points(gap) : t >= event.end /\ Overlaps(gap, event)}
  /\ \A iv \in parts.before \cup parts.after : NonEmpty(iv)
  /\ \A iv \in parts.overlap : ~NonEmpty(iv) <=> gap.end = event.start

LEMMA CoveredOne ==
  ASSUME NEW iv
  PROVE  Covered({iv}) = Points(iv) /\ Covered({}) = {}
BY DEF Covered

LEMMA AroundOf ==
  ASSUME NEW gap \in Interval, NEW event \in Interval, NonEmpty(gap), NonEmpty(event)
  PROVE  Around(gap, event)
<1> DEFINE parts == SplitAround(gap, event)
           from == Later(gap.start, event.start)
           upto == Earlier(gap.end, event.end)
<1>1. /\ gap.start \in Nat /\ gap.end \in Nat /\ event.start \in Nat /\ event.end \in Nat
      /\ gap.start < gap.end /\ event.start < event.end
  BY PointsOf DEF NonEmpty
<1>2. from \in Nat /\ upto \in Nat
  BY <1>1 DEF Later, Earlier
<1>3. ASSUME NEW a \in Nat, NEW b \in Nat, NEW t
      PROVE  t \in Points(Span(a, b)) <=> t \in Nat /\ a <= t /\ t < b
  BY PointsOf, SpanOf
<1>4. CASE gap.end < event.start \/ gap.start >= event.end
  <2>1. parts = [before |-> {gap}, overlap |-> {}, after |-> {}]
    BY <1>1, <1>4 DEF SplitAround, NonEmpty
  <2>2. ~Overlaps(gap, event)
    BY <1>1, <1>4 DEF Overlaps
  <2>3. Points(gap) \cap Points(event) = {}
    BY <1>1, <1>4, PointsOf
  <2> QED BY <2>1, <2>2, <2>3, CoveredOne DEF Around
<1>5. CASE ~(gap.end < event.start \/ gap.start >= event.end)
  <2>1. /\ parts.before = (IF event.start > gap.start THEN {Span(gap.start, event.start)} ELSE {})
        /\ parts.overlap = {Span(from, upto)}
        /\ parts.after = (IF gap.end > event.end THEN {Span(event.end, gap.end)} ELSE {})
    BY <1>1, <1>5 DEF SplitAround, NonEmpty
  <2>2. Overlaps(gap, event) \/ gap.end = event.start
    BY <1>1, <1>5 DEF Overlaps
  <2>3. Covered(parts.before) = {t \in Points(gap) : t < event.start \/ ~Overlaps(gap, event)}
    <3>1. CASE event.start > gap.start
      <4>1. Covered(parts.before) = Points(Span(gap.start, event.start))
        BY <2>1, <3>1, CoveredOne
      <4>2. ASSUME NEW t
            PROVE  t \in Points(Span(gap.start, event.start))
                     <=> t \in Points(gap) /\ (t < event.start \/ ~Overlaps(gap, event))
        <5>1. t \in Points(gap) <=> t \in Nat /\ gap.start <= t /\ t < gap.end
          BY PointsOf
        <5>2. t \in Points(Span(gap.start, event.start)) <=> t \in Nat /\ gap.start <= t /\ t < event.start
          BY <1>1, <1>3
        <5> QED BY <1>1, <1>5, <2>2, <5>1, <5>2
      <4> QED BY <4>1, <4>2
    <3>2. CASE ~(event.start > gap.start)
      <4>1. Covered(parts.before) = {}
        BY <2>1, <3>2, CoveredOne
      <4>2. ASSUME NEW t \in Points(gap) PROVE ~(t < event.start) /\ Overlaps(gap, event)
        BY <1>1, <1>5, <2>2, <3>2, PointsOf
      <4> QED BY <4>1, <4>2
    <3> QED BY <3>1, <3>2
  <2>4. Covered(parts.overlap) = Points(gap) \cap Points(event)
    <3>1. Covered(parts.overlap) = Points(Span(from, upto))
      BY <2>1, CoveredOne
    <3>2. ASSUME NEW t PROVE t \in Points(Span(from, upto)) <=> t \in Points(gap) /\ t \in Points(event)
      <4>1. t \in Points(Span(from, upto)) <=> t \in Nat /\ from <= t /\ t < upto
        BY <1>2, <1>3
      <4>2. t \in Nat => (from <= t <=> gap.start <= t /\ event.start <= t) /\ (t < upto <=> t < gap.end /\ t < event.end)
        BY <1>1 DEF Later, Earlier
      <4> QED BY <4>1, <4>2, PointsOf
    <3> QED BY <3>1, <3>2
  <2>5. Covered(parts.after) = {t \in Points(gap) : t >= event.end /\ Overlaps(gap, event)}
    <3>1. CASE gap.end > event.end
      <4>1. Covered(parts.after) = Points(Span(event.end, gap.end))
        BY <2>1, <3>1, CoveredOne
      <4>2. ASSUME NEW t
            PROVE  t \in Points(Span(event.end, gap.end))
                     <=> t \in Points(gap) /\ t >= event.end /\ Overlaps(gap, event)
        <5>1. t \in Points(gap) <=> t \in Nat /\ gap.start <= t /\ t < gap.end
          BY PointsOf
        <5>2. t \in Points(Span(event.end, gap.end)) <=> t \in Nat /\ event.end <= t /\ t < gap.end
          BY <1>1, <1>3
        <5> QED BY <1>1, <1>5, <2>2, <3>1, <5>1, <5>2
      <4> QED BY <4>1, <4>2
    <3>2. CASE ~(gap.end > event.end)
      <4>1. Covered(parts.after) = {}
        BY <2>1, <3>2, CoveredOne
      <4>2. ASSUME NEW t \in Points(gap) PROVE ~(t >= event.end)
        BY <1>1, <3>2, PointsOf
      <4> QED BY <4>1, <4>2
    <3> QED BY <3>1, <3>2
  <2>6. \A iv \in parts.before \cup parts.after : NonEmpty(iv)
    <3>1. ASSUME event.start > gap.start PROVE NonEmpty(Span(gap.start, event.start))
      BY <1>1, <3>1 DEF NonEmpty, Span
    <3>2. ASSUME gap.end > event.end PROVE NonEmpty(Span(event.end, gap.end))
      BY <1>1, <3>2 DEF NonEmpty, Span
    <3> QED BY <2>1, <3>1, <3>2
  <2>7. \A iv \in parts.overlap : ~NonEmpty(iv) <=> gap.end = event.start
    <3>1. ~(from < upto) <=> gap.end = event.start
      BY <1>1, <1>5 DEF Later, Earlier
    <3>2. NonEmpty(Span(from, upto)) <=> from < upto
      BY DEF NonEmpty, Span
    <3> QED BY <2>1, <3>1, <3>2
  <2> QED BY <2>3, <2>4, <2>5, <2>6, <2>7 DEF Around
<1> QED BY <1>4, <1>5

-----------------------------------------------------------------------------
(* subtractInterval, one cut after the other.                               *)

(* Nothing cut out leaves the span.                                         *)
LEMMA NoCuts ==
  ASSUME NEW span \in Interval, NonEmpty(span)
  PROVE  Remainders(span, {}) = {span}
<1>1. span.start \in Nat /\ span.end \in Nat /\ Span(span.start, span.end) = span
  BY SpanOf, SameInterval, PointsOf
<1>2. Remainders(span, {})
        = {iv \in {Span(span.start, span.end)} : NonEmpty(iv) /\ span.start <= iv.start /\ iv.end <= span.end}
  BY DEF Remainders
<1> QED BY <1>1, <1>2

(* One more cut.                                                            *)
LEMMA CutOnce ==
  ASSUME NEW span \in Interval, NEW cuts, cuts \subseteq Interval, \A c \in cuts : NonEmpty(c),
         NEW cut \in Interval, NonEmpty(cut)
  PROVE  SubtractInterval(Remainders(span, cuts), cut) = Remainders(span, cuts \cup {cut})
<1> DEFINE old == Remainders(span, cuts)
           all == cuts \cup {cut}
           new == Remainders(span, all)
           left == {sp \in old : Overlaps(cut, sp) /\ sp.start < cut.start}
           right == {sp \in old : Overlaps(cut, sp) /\ cut.end < sp.end}
<1>0. all \subseteq Interval /\ \A c \in all : NonEmpty(c) /\ c.start \in Nat /\ c.end \in Nat /\ c.start < c.end
  BY PointsOf DEF NonEmpty
<1>1. ASSUME NEW iv \in old
      PROVE  /\ iv \in Interval /\ iv.start \in Nat /\ iv.end \in Nat /\ iv.start < iv.end
             /\ span.start <= iv.start /\ iv.end <= span.end
             /\ \A c \in cuts : ~Overlaps(c, iv)
             /\ iv.start = span.start \/ \E c \in cuts : iv.start = c.end
             /\ iv.end = span.end \/ \E c \in cuts : iv.end = c.start
  <2>1. /\ iv \in Interval /\ NonEmpty(iv)
        /\ span.start <= iv.start /\ iv.end <= span.end
        /\ \A c \in cuts : ~Overlaps(c, iv)
        /\ iv.start \in {span.start} \cup {c.end : c \in cuts}
        /\ iv.end \in {span.end} \cup {c.start : c \in cuts}
    BY RemaindersType
  <2> QED BY <2>1, PointsOf DEF NonEmpty
<1>2. ASSUME NEW iv \in new
      PROVE  /\ iv \in Interval /\ iv.start \in Nat /\ iv.end \in Nat /\ iv.start < iv.end
             /\ span.start <= iv.start /\ iv.end <= span.end
             /\ \A c \in all : ~Overlaps(c, iv)
             /\ iv.start = span.start \/ \E c \in all : iv.start = c.end
             /\ iv.end = span.end \/ \E c \in all : iv.end = c.start
  <2>1. /\ iv \in Interval /\ NonEmpty(iv)
        /\ span.start <= iv.start /\ iv.end <= span.end
        /\ \A c \in all : ~Overlaps(c, iv)
        /\ iv.start \in {span.start} \cup {c.end : c \in all}
        /\ iv.end \in {span.end} \cup {c.start : c \in all}
    <3> HIDE DEF all
    <3> QED BY <1>0, RemaindersType
  <2> QED BY <2>1, PointsOf DEF NonEmpty
<1>3. ASSUME NEW a \in Nat, NEW b \in Nat, a < b, span.start <= a, b <= span.end,
             \A c \in all : ~Overlaps(c, Span(a, b)),
             a \in {span.start} \cup {c.end : c \in all}, b \in {span.end} \cup {c.start : c \in all}
      PROVE  Span(a, b) \in new
  <2>1. Span(a, b).start = a /\ Span(a, b).end = b
    BY SpanOf
  <2> HIDE DEF all
  <2> QED BY <1>3, <2>1 DEF Remainders, NonEmpty
<1>4. span.start \in Nat /\ span.end \in Nat
  BY PointsOf
<1> HIDE DEF old, new
<1>5. ASSUME NEW iv \in SubtractInterval(old, cut) PROVE iv \in new
  <2>1. CASE iv \in old /\ ~Overlaps(cut, iv)
    <3>1. iv.start \in {span.start} \cup {c.end : c \in all} /\ iv.end \in {span.end} \cup {c.start : c \in all}
      BY <1>1, <2>1
    <3>2. Span(iv.start, iv.end) = iv
      BY <1>1, <2>1, SpanOf, SameInterval
    <3>3. Span(iv.start, iv.end) \in new
      BY <1>1, <1>3, <2>1, <3>1, <3>2
    <3> QED BY <3>2, <3>3
  <2>2. ASSUME NEW sp \in old, Overlaps(cut, sp), sp.start < cut.start, iv = Span(sp.start, cut.start)
        PROVE  iv \in new
    <3>1. sp.start \in {span.start} \cup {c.end : c \in all} /\ cut.start \in {span.end} \cup {c.start : c \in all}
      BY <1>1, <2>2
    <3>2. cut.start < sp.end /\ cut.start <= span.end
      BY <1>0, <1>1, <1>4, <2>2 DEF Overlaps
    <3>3. \A c \in all : ~Overlaps(c, Span(sp.start, cut.start))
      <4>1. Span(sp.start, cut.start).start = sp.start /\ Span(sp.start, cut.start).end = cut.start
        BY <1>0, <1>1, SpanOf
      <4>2. ~Overlaps(cut, Span(sp.start, cut.start))
        BY <1>0, <4>1 DEF Overlaps
      <4>3. ASSUME NEW c \in cuts PROVE ~Overlaps(c, Span(sp.start, cut.start))
        <5>1. ~Overlaps(c, sp) /\ c.start \in Nat /\ c.end \in Nat
          BY <1>0, <1>1
        <5> QED BY <1>0, <1>1, <3>2, <4>1, <5>1 DEF Overlaps
      <4> QED BY <4>2, <4>3
    <3> QED BY <1>0, <1>1, <1>3, <2>2, <3>1, <3>2, <3>3
  <2>3. ASSUME NEW sp \in old, Overlaps(cut, sp), cut.end < sp.end, iv = Span(cut.end, sp.end)
        PROVE  iv \in new
    <3>1. cut.end \in {span.start} \cup {c.end : c \in all} /\ sp.end \in {span.end} \cup {c.start : c \in all}
      BY <1>1, <2>3
    <3>2. sp.start < cut.end /\ span.start <= cut.end
      BY <1>0, <1>1, <1>4, <2>3 DEF Overlaps
    <3>3. \A c \in all : ~Overlaps(c, Span(cut.end, sp.end))
      <4>1. Span(cut.end, sp.end).start = cut.end /\ Span(cut.end, sp.end).end = sp.end
        BY <1>0, <1>1, SpanOf
      <4>2. ~Overlaps(cut, Span(cut.end, sp.end))
        BY <1>0, <4>1 DEF Overlaps
      <4>3. ASSUME NEW c \in cuts PROVE ~Overlaps(c, Span(cut.end, sp.end))
        <5>1. ~Overlaps(c, sp) /\ c.start \in Nat /\ c.end \in Nat
          BY <1>0, <1>1
        <5> QED BY <1>0, <1>1, <3>2, <4>1, <5>1 DEF Overlaps
      <4> QED BY <4>2, <4>3
    <3> QED BY <1>0, <1>1, <1>3, <2>3, <3>1, <3>2, <3>3
  <2>4. \/ iv \in old /\ ~Overlaps(cut, iv)
        \/ \E sp \in old : Overlaps(cut, sp) /\ sp.start < cut.start /\ iv = Span(sp.start, cut.start)
        \/ \E sp \in old : Overlaps(cut, sp) /\ cut.end < sp.end /\ iv = Span(cut.end, sp.end)
    BY DEF SubtractInterval
  <2> QED BY <2>1, <2>2, <2>3, <2>4
<1>6. ASSUME NEW iv \in new PROVE iv \in SubtractInterval(old, cut)
  <2>1. PICK sp \in old : iv.start \in Points(sp)
    <3>1. iv.start \in Points(span)
      BY <1>2, <1>4, PointsOf
    <3>2. iv.start \notin Covered(cuts)
      <4> SUFFICES ASSUME NEW c \in cuts, iv.start \in Points(c) PROVE FALSE
        BY InCovered
      <4>1. iv.start \in Points(iv)
        BY <1>2, PointsOf
      <4> QED BY <1>0, <1>2, <4>1, OverlapsMeet
    <3>3. iv.start \in Covered(old)
      BY <3>1, <3>2, RemaindersCover DEF old
    <3> QED BY <3>3, InCovered
  <2>2. sp.start <= iv.start /\ iv.start < sp.end
    BY <1>1, <2>1, PointsOf
  <2>3. iv.start = sp.start \/ (iv.start = cut.end /\ sp.start < cut.end)
    <3> SUFFICES ASSUME iv.start # sp.start PROVE iv.start = cut.end /\ sp.start < cut.end
      OBVIOUS
    <3>1. sp.start < iv.start
      BY <1>1, <1>2, <2>2
    <3>2. iv.start # span.start
      BY <1>1, <1>4, <3>1
    <3>3. ASSUME NEW c \in cuts, iv.start = c.end PROVE FALSE
      BY <1>0, <1>1, <2>2, <3>1, <3>3 DEF Overlaps
    <3> QED BY <1>2, <3>1, <3>2, <3>3
  <2>4. iv.end <= sp.end
    <3> SUFFICES ASSUME sp.end < iv.end PROVE FALSE
      BY <1>1, <1>2
    <3>1. sp.end # span.end
      BY <1>1, <1>2, <1>4
    <3>2. ASSUME NEW c \in cuts, sp.end = c.start PROVE FALSE
      BY <1>0, <1>2, <2>2, <3>2 DEF Overlaps
    <3> QED BY <1>1, <3>1, <3>2
  <2>5. iv.end = sp.end \/ (iv.end = cut.start /\ cut.start < sp.end)
    <3> SUFFICES ASSUME iv.end # sp.end PROVE iv.end = cut.start /\ cut.start < sp.end
      OBVIOUS
    <3>1. iv.end < sp.end
      BY <1>1, <1>2, <2>4
    <3>2. iv.end # span.end
      BY <1>1, <1>4, <3>1
    <3>3. ASSUME NEW c \in cuts, iv.end = c.start PROVE FALSE
      BY <1>0, <1>1, <1>2, <2>2, <3>1, <3>3 DEF Overlaps
    <3> QED BY <1>2, <3>1, <3>2, <3>3
  <2>6. iv = Span(iv.start, iv.end) /\ cut.start < cut.end /\ cut.start \in Nat /\ cut.end \in Nat /\ ~Overlaps(cut, iv)
    BY <1>0, <1>2, SpanOf, SameInterval
  <2>7. CASE iv.start = sp.start /\ iv.end = sp.end
    <3>1. iv = sp
      BY <1>1, <1>2, <2>7, SameInterval
    <3> QED BY <2>6, <3>1 DEF SubtractInterval
  <2>8. CASE iv.start = sp.start /\ iv.end = cut.start /\ cut.start < sp.end
    <3>1. Overlaps(cut, sp) /\ sp.start < cut.start
      BY <1>1, <1>2, <2>6, <2>8 DEF Overlaps
    <3> QED BY <2>6, <2>8, <3>1 DEF SubtractInterval
  <2>9. CASE iv.start = cut.end /\ sp.start < cut.end /\ iv.end = sp.end
    <3>1. Overlaps(cut, sp) /\ cut.end < sp.end
      BY <1>1, <1>2, <2>6, <2>9 DEF Overlaps
    <3> QED BY <2>6, <2>9, <3>1 DEF SubtractInterval
  <2>10. ~(iv.start = cut.end /\ iv.end = cut.start)
    BY <1>2, <2>6
  <2> QED BY <2>3, <2>5, <2>7, <2>8, <2>9, <2>10
<1> QED BY <1>5, <1>6 DEF old, new

LEMMA SubtractOf ==
  ASSUME NEW span \in Interval, NonEmpty(span), NEW first \in Interval, NonEmpty(first),
         NEW second \in Interval, NonEmpty(second)
  PROVE  LET left == SubtractInterval(SubtractInterval({span}, first), second)
         IN /\ Covered(left) = Points(span) \ (Points(first) \cup Points(second))
            /\ \A iv \in left : NonEmpty(iv)
            /\ left = Remainders(span, {first, second})
<1>1. SubtractInterval({span}, first) = Remainders(span, {first})
  <2>1. SubtractInterval(Remainders(span, {}), first) = Remainders(span, {} \cup {first})
    BY CutOnce
  <2>2. {} \cup {first} = {first}
    OBVIOUS
  <2> QED BY <2>1, <2>2, NoCuts
<1>2. SubtractInterval(Remainders(span, {first}), second) = Remainders(span, {first, second})
  <2>1. SubtractInterval(Remainders(span, {first}), second) = Remainders(span, {first} \cup {second})
    BY CutOnce
  <2>2. {first} \cup {second} = {first, second}
    OBVIOUS
  <2> QED BY <2>1, <2>2
<1>3. Covered(Remainders(span, {first, second})) = Points(span) \ Covered({first, second})
  BY RemaindersCover
<1>4. Covered({first, second}) = Points(first) \cup Points(second)
  BY DEF Covered
<1>5. \A iv \in Remainders(span, {first, second}) : NonEmpty(iv)
  BY RemaindersType
<1> QED BY <1>1, <1>2, <1>3, <1>4, <1>5

-----------------------------------------------------------------------------
(* splitAtLocalMidnights.                                                   *)
LEMMA MidnightsOf ==
  ASSUME NEW span \in Interval, NonEmpty(span)
  PROVE  LET pieces == SplitAtLocalMidnights(span, DayLength) IN
         /\ Covered(pieces) = Points(span)
         /\ \A iv \in pieces :
              /\ NonEmpty(iv)
              /\ \A t \in Points(iv) : LocalDate(t, DayLength) = LocalDate(iv.start, DayLength)
<1>1. DayLength \in Nat \ {0}
  BY DayAssumption
<1>2. /\ Covered(SplitAtLocalMidnights(span, DayLength)) = Points(span)
      /\ \A p \in SplitAtLocalMidnights(span, DayLength) :
           p \in Interval /\ NonEmpty(p) /\ LocalDate(p.start, DayLength) = LocalDate(p.end - 1, DayLength)
  BY <1>1, SegmentsOf
<1>3. ASSUME NEW iv \in SplitAtLocalMidnights(span, DayLength), NEW t \in Points(iv)
      PROVE  LocalDate(t, DayLength) = LocalDate(iv.start, DayLength)
  <2>1. /\ iv.start \in Nat /\ iv.end \in Nat /\ t \in Nat /\ iv.start <= t /\ t <= iv.end - 1 /\ iv.end - 1 \in Nat
        /\ LocalDate(iv.start, DayLength) = LocalDate(iv.end - 1, DayLength)
    BY <1>2, PointsOf
  <2>2. /\ LocalDate(iv.start, DayLength) \in Nat /\ LocalDate(t, DayLength) \in Nat
        /\ LocalDate(iv.end - 1, DayLength) \in Nat
    BY <1>1, <2>1, DateOf
  <2>3. LocalDate(iv.start, DayLength) <= LocalDate(t, DayLength)
    BY <1>1, <2>1, DatesInOrder
  <2>4. LocalDate(t, DayLength) <= LocalDate(iv.end - 1, DayLength)
    BY <1>1, <2>1, DatesInOrder
  <2> QED BY <2>1, <2>2, <2>3, <2>4
<1> QED BY <1>2, <1>3

-----------------------------------------------------------------------------
(* Splitting a gap around an event, taking the overlaps out of a draft and  *)
(* cutting at local midnights lose no instant and double none.  The pieces  *)
(* of the last two are never empty; of the first, the overlap is, exactly   *)
(* when the gap ends where the event starts.  Taking cuts out one by one    *)
(* leaves what Remainders says, by which the other modules describe it      *)
(* (splitAround, subtractInterval, splitAtLocalMidnights).                  *)
THEOREM CutsArePartitions == Spec => []CutsPartition
<1>1. DayInv => CutsPartition
  <2> SUFFICES ASSUME DayInv PROVE CutsPartition
    OBVIOUS
  <2>1. \A iv \in spans : iv \in Interval /\ NonEmpty(iv)
    BY SpanInDay DEF DayInv, DayInputs
  <2>2. AroundPartitions
    BY <2>1, AroundOf DEF AroundPartitions, Around
  <2>3. SubtractPartitions
    BY <2>1, SubtractOf DEF SubtractPartitions
  <2>4. MidnightsPartition
    BY <2>1, MidnightsOf DEF MidnightsPartition
  <2> QED BY <2>2, <2>3, <2>4 DEF CutsPartition
<1> QED BY <1>1, InputsStay, PTL

-----------------------------------------------------------------------------
(* A fold over a sequence goes through its indices up to the last.          *)
LEMMA LastIndex ==
  ASSUME NEW n \in Nat
  PROVE  /\ \A s \in SUBSET (1 .. n) : s # {} => Max(s) \in s
         /\ \A k \in 1 .. n : Max(1 .. k) = k /\ (1 .. k) \ {k} = 1 .. (k - 1) /\ 1 .. k \in SUBSET (1 .. n) /\ 1 .. k # {}
<1>1. ASSUME NEW s \in SUBSET (1 .. n), s # {} PROVE Max(s) \in s
  <2>1. PICK a \in s : TRUE
    BY <1>1
  <2>2. s \subseteq Nat /\ n + 1 \in Nat /\ a < n + 1
    OBVIOUS
  <2>3. PICK m \in s : m < n + 1 /\ \A k \in s : k < n + 1 => k <= m
    BY <2>2, LastBelow
  <2>4. \A k \in s : m >= k
    BY <2>3
  <2> QED BY <2>4 DEF Max
<1>2. ASSUME NEW k \in 1 .. n
      PROVE  Max(1 .. k) = k /\ (1 .. k) \ {k} = 1 .. (k - 1) /\ 1 .. k \in SUBSET (1 .. n) /\ 1 .. k # {}
  <2>1. k \in 1 .. k /\ \A j \in 1 .. k : k >= j
    OBVIOUS
  <2>2. Max(1 .. k) \in 1 .. k /\ \A j \in 1 .. k : Max(1 .. k) >= j
    BY <2>1 DEF Max
  <2>3. Max(1 .. k) = k
    BY <2>1, <2>2
  <2> QED BY <2>3
<1> QED BY <1>1, <1>2

(* The steps of the fold over the first k elements of a sequence.           *)
Walks(win, occupied, run) ==
  /\ run[0] = [cursor |-> win.start, out |-> <<>>]
  /\ \A k \in 1 .. Len(occupied) : run[k] = Walk(win, run[k - 1], occupied[k])

LEMMA WalkType ==
  ASSUME NEW win \in Interval, NEW acc \in [cursor : Nat, out : Seq(Interval)], NEW o \in Interval
  PROVE  Walk(win, acc, o) \in [cursor : Nat, out : Seq(Interval)]
<1>1. acc.cursor \in Nat /\ acc.out \in Seq(Interval) /\ o.start \in Nat /\ o.end \in Nat
  BY PointsOf
<1>2. Span(acc.cursor, o.start) \in Interval
  BY <1>1, SpanOf
<1>3. Append(acc.out, Span(acc.cursor, o.start)) \in Seq(Interval)
  BY <1>1, <1>2
<1>4. Later(acc.cursor, o.end) \in Nat
  BY <1>1 DEF Later
<1> QED BY <1>1, <1>3, <1>4 DEF Walk

LEMMA WalkRun ==
  ASSUME NEW win \in Interval, NEW occupied \in Seq(Interval)
  PROVE  \E run : Walks(win, occupied, run) /\ Walked(win, occupied) = run[Len(occupied)]
<1> DEFINE n == Len(occupied)
           T == [cursor : Nat, out : Seq(Interval)]
           base == [cursor |-> win.start, out |-> <<>>]
           c == [s \in SUBSET (1 .. n) |-> Max(s)]
           G == [p \in (1 .. n) \X T |-> Walk(win, p[2], occupied[p[1]])]
           iter[s \in SUBSET (DOMAIN occupied)] ==
             IF s = {} THEN base
             ELSE LET x == Max(s) IN Walk(win, iter[s \ {x}], occupied[x])
           body(h) == [s \in SUBSET (1 .. n) |->
             IF s = {} THEN base ELSE Walk(win, h[s \ {Max(s)}], occupied[Max(s)])]
<1>1. n \in Nat /\ DOMAIN occupied = 1 .. n /\ IsFiniteSet(1 .. n)
  BY FS_Interval
<1>2. \A s \in SUBSET (1 .. n) : s # {} => c[s] \in s
  BY <1>1, LastIndex
<1>3. G \in [(1 .. n) \X T -> T]
  <2>1. ASSUME NEW p \in (1 .. n) \X T PROVE Walk(win, p[2], occupied[p[1]]) \in T
    <3>1. p[2] \in T /\ p[1] \in 1 .. n
      OBVIOUS
    <3>2. occupied[p[1]] \in Interval
      BY <1>1, <3>1
    <3> QED BY <3>1, <3>2, WalkType
  <2> QED BY <2>1
<1>4. base \in T
  BY PointsOf
<1>5. PICK h \in [SUBSET (1 .. n) -> T] : FoldOf(1 .. n, base, c, G, h)
  <2> HIDE DEF c, G, T, base, n
  <2> QED BY <1>1, <1>2, <1>3, <1>4, FoldExists
<1>6. ASSUME NEW s \in SUBSET (1 .. n), s # {}
      PROVE  h[s] = Walk(win, h[s \ {Max(s)}], occupied[Max(s)])
  <2>1. c[s] = Max(s) /\ Max(s) \in 1 .. n
    BY <1>2, <1>6
  <2> HIDE DEF c
  <2>2. h[s \ {Max(s)}] \in T
    OBVIOUS
  <2>3. G[<<Max(s), h[s \ {Max(s)}]>>] = Walk(win, h[s \ {Max(s)}], occupied[Max(s)])
    BY <2>1, <2>2
  <2> HIDE DEF G, base
  <2> QED BY <1>5, <1>6, <2>1, <2>3 DEF FoldOf
<1>7. h = body(h)
  BY <1>5, <1>6 DEF FoldOf
<1>8. iter = body(iter)
  <2>1. \E g : g = body(g)
    BY <1>7
  <2> QED BY <1>1, <2>1
<1>9. Walked(win, occupied) = iter[1 .. n]
  BY <1>1 DEF Walked, FoldLeft, MapThenFoldSet
<1> HIDE DEF iter
<1> DEFINE run == [k \in 0 .. n |-> iter[1 .. k]]
<1>10. run[0] = base
  BY <1>1, <1>8
<1>11. ASSUME NEW k \in 1 .. n PROVE run[k] = Walk(win, run[k - 1], occupied[k])
  <2>1. Max(1 .. k) = k /\ (1 .. k) \ {k} = 1 .. (k - 1) /\ 1 .. k \in SUBSET (1 .. n) /\ 1 .. k # {}
    BY <1>1, LastIndex
  <2>2. iter[1 .. k] = Walk(win, iter[(1 .. k) \ {Max(1 .. k)}], occupied[Max(1 .. k)])
    BY <1>8, <2>1
  <2>3. k - 1 \in 0 .. n /\ k \in 0 .. n
    BY <1>1
  <2> QED BY <2>1, <2>2, <2>3
<1>12. Walked(win, occupied) = run[n]
  BY <1>1, <1>9
<1> HIDE DEF run
<1> QED BY <1>10, <1>11, <1>12 DEF Walks

(* Of a finite set of intervals one starts last.                            *)
LEMMA LastStartingIn ==
  ASSUME NEW S, IsFiniteSet(S), S \subseteq Interval
  PROVE  \A s \in SUBSET S : s # {} => LastStarting(s) \in s /\ \A y \in s : y.start <= LastStarting(s).start
<1> DEFINE Q(s) == \E x \in s : \A y \in s : y.start <= x.start
           P == {s \in SUBSET S : s = {} \/ Q(s)}
<1>1. {} \in P
  OBVIOUS
<1>2. ASSUME NEW s \in SUBSET S, s # {}, \A x \in s : s \ {x} \in P PROVE s \in P
  <2>1. PICK a \in s : TRUE
    BY <1>2
  <2>2. CASE s \ {a} = {}
    <3>1. \A y \in s : y.start <= a.start
      BY <2>2, PointsOf
    <3> QED BY <3>1
  <2>3. CASE s \ {a} # {}
    <3>1. PICK b \in s \ {a} : \A y \in s \ {a} : y.start <= b.start
      BY <1>2, <2>3
    <3>2. a.start \in Nat /\ b.start \in Nat /\ \A y \in s : y.start \in Nat
      BY PointsOf
    <3>3. CASE a.start <= b.start
      <4>1. \A y \in s : y.start <= b.start
        BY <3>1, <3>3
      <4> QED BY <4>1
    <3>4. CASE b.start < a.start
      <4>1. ASSUME NEW y \in s PROVE y.start <= a.start
        BY <3>1, <3>2, <3>4
      <4> QED BY <4>1
    <3> QED BY <3>2, <3>3, <3>4
  <2> QED BY <2>2, <2>3
<1> HIDE DEF P
<1>3. \A s \in SUBSET S : s \in P
  BY <1>1, <1>2, SetInduct
<1>4. ASSUME NEW s \in SUBSET S, s # {} PROVE LastStarting(s) \in s /\ \A y \in s : y.start <= LastStarting(s).start
  <2>1. Q(s)
    BY <1>3, <1>4 DEF P
  <2> QED BY <2>1 DEF LastStarting
<1> QED BY <1>4

LEMMA MergeType ==
  ASSUME NEW merged \in Seq(Interval), NEW iv \in Interval
  PROVE  Merge(merged, iv) \in Seq(Interval)
<1> DEFINE n == Len(merged)
           whole == Span(merged[n].start, Later(merged[n].end, iv.end))
<1>1. CASE merged # <<>> /\ iv.start <= merged[n].end
  <2>1. n \in Nat /\ n \in 1 .. n /\ merged[n] \in Interval
    BY <1>1
  <2>2. whole \in Interval
    BY <2>1, PointsOf, SpanOf DEF Later
  <2>3. [merged EXCEPT ![n] = whole] \in Seq(Interval)
    BY <2>1, <2>2
  <2> QED BY <1>1, <2>3 DEF Merge
<1>2. CASE ~(merged # <<>> /\ iv.start <= merged[n].end)
  BY <1>2 DEF Merge
<1> QED BY <1>1, <1>2

(* The intervals of every subset merged, the last to start last.            *)
Merges(S, it) ==
  /\ it[{}] = <<>>
  /\ \A s \in SUBSET S : s # {} => it[s] = Merge(it[s \ {LastStarting(s)}], LastStarting(s))

LEMMA UnionEquation ==
  ASSUME NEW S, IsFiniteSet(S), S \subseteq Interval
  PROVE  \E it : Merges(S, it) /\ UnionOf(S) = it[S]
<1> DEFINE T == Seq(Interval)
           c == [s \in SUBSET S |-> LastStarting(s)]
           G == [p \in S \X T |-> Merge(p[2], p[1])]
           iter[s \in SUBSET S] ==
             IF s = {} THEN <<>>
             ELSE LET x == LastStarting(s) IN Merge(iter[s \ {x}], x)
           body(h) == [s \in SUBSET S |->
             IF s = {} THEN <<>> ELSE Merge(h[s \ {LastStarting(s)}], LastStarting(s))]
<1>1. \A s \in SUBSET S : s # {} => c[s] \in s
  BY LastStartingIn
<1>2. G \in [S \X T -> T]
  <2>1. ASSUME NEW p \in S \X T PROVE Merge(p[2], p[1]) \in T
    <3>1. p[2] \in T /\ p[1] \in Interval
      OBVIOUS
    <3> QED BY <3>1, MergeType
  <2> QED BY <2>1
<1>3. <<>> \in T
  OBVIOUS
<1>4. PICK h \in [SUBSET S -> T] : FoldOf(S, <<>>, c, G, h)
  <2> DEFINE base == <<>>
  <2>1. base \in T
    BY <1>3
  <2> HIDE DEF c, G, T, base
  <2>2. \E h \in [SUBSET S -> T] : FoldOf(S, base, c, G, h)
    BY <1>1, <1>2, <2>1, FoldExists
  <2> QED BY <2>2 DEF base
<1>5. ASSUME NEW s \in SUBSET S, s # {}
      PROVE  h[s] = Merge(h[s \ {LastStarting(s)}], LastStarting(s))
  <2>1. c[s] = LastStarting(s) /\ LastStarting(s) \in S
    BY <1>1, <1>5
  <2> HIDE DEF c
  <2>2. h[s \ {LastStarting(s)}] \in T
    OBVIOUS
  <2>3. G[<<LastStarting(s), h[s \ {LastStarting(s)}]>>] = Merge(h[s \ {LastStarting(s)}], LastStarting(s))
    BY <2>1, <2>2
  <2> HIDE DEF G
  <2> QED BY <1>4, <1>5, <2>1, <2>3 DEF FoldOf
<1>6. h = body(h)
  BY <1>4, <1>5 DEF FoldOf
<1>7. iter = body(iter)
  <2>1. \E g : g = body(g)
    BY <1>6
  <2> QED BY <2>1
<1>8. UnionOf(S) = iter[S]
  BY DEF UnionOf, MapThenFoldSet
<1> HIDE DEF iter
<1>9. iter[{}] = <<>>
  BY <1>7
<1>10. ASSUME NEW s \in SUBSET S, s # {}
       PROVE  iter[s] = Merge(iter[s \ {LastStarting(s)}], LastStarting(s))
  BY <1>7, <1>10
<1>11. Merges(S, iter)
  BY <1>9, <1>10 DEF Merges
<1> QED BY <1>8, <1>11

-----------------------------------------------------------------------------
(* A chain: non-empty intervals in their order, with time between them.     *)
Chain(seq) ==
  /\ seq \in Seq(Interval)
  /\ \A i \in 1 .. Len(seq) : NonEmpty(seq[i])
  /\ \A i, j \in 1 .. Len(seq) : i < j => seq[i].end < seq[j].start

Within(seq, t) == \E i \in 1 .. Len(seq) : t \in Points(seq[i])

LEMMA WithinCovered ==
  ASSUME NEW seq, DOMAIN seq = 1 .. Len(seq)
  PROVE  /\ \A t : t \in Covered(Range(seq)) <=> Within(seq, t)
         /\ \A iv : iv \in Range(seq) <=> \E i \in 1 .. Len(seq) : iv = seq[i]
<1>1. \A iv : iv \in Range(seq) <=> \E i \in 1 .. Len(seq) : iv = seq[i]
  BY DEF Range
<1> QED BY <1>1, InCovered DEF Within

(* union: a chain of the same instants, each interval from a start there is. *)
MergedFrom(s, merged) ==
  /\ Chain(merged)
  /\ \A t : Within(merged, t) <=> \E x \in s : t \in Points(x)
  /\ \A i \in 1 .. Len(merged) : \E x \in s : x.start = merged[i].start

LEMMA MergeKeeps ==
  ASSUME NEW s, s \subseteq Interval, \A y \in s : NonEmpty(y),
         NEW x \in s, \A y \in s : y.start <= x.start,
         NEW merged, MergedFrom(s \ {x}, merged)
  PROVE  MergedFrom(s, Merge(merged, x))
<1> DEFINE n == Len(merged)
           new == Merge(merged, x)
<1>1. /\ merged \in Seq(Interval) /\ n \in Nat /\ \A i \in 1 .. n : merged[i] \in Interval /\ NonEmpty(merged[i])
      /\ \A i, j \in 1 .. n : i < j => merged[i].end < merged[j].start
  BY DEF MergedFrom, Chain
<1>2. x \in Interval /\ x.start \in Nat /\ x.end \in Nat /\ x.start < x.end
  BY PointsOf DEF NonEmpty
<1>3. \A i \in 1 .. n : merged[i].start \in Nat /\ merged[i].end \in Nat /\ merged[i].start < merged[i].end
  BY <1>1, PointsOf DEF NonEmpty
<1>4. ASSUME NEW i \in 1 .. n PROVE merged[i].start <= x.start
  <2>1. PICK y \in s \ {x} : y.start = merged[i].start
    BY DEF MergedFrom
  <2> QED BY <2>1
<1>5. \A t : (\E y \in s : t \in Points(y)) <=> Within(merged, t) \/ t \in Points(x)
  BY DEF MergedFrom
<1>6. CASE merged # <<>> /\ x.start <= merged[n].end
  <2> DEFINE whole == Span(merged[n].start, Later(merged[n].end, x.end))
  <2>1. n \in 1 .. n
    BY <1>1, <1>6
  <2>2. Later(merged[n].end, x.end) \in Nat /\ merged[n].end <= Later(merged[n].end, x.end)
        /\ x.end <= Later(merged[n].end, x.end)
        /\ (Later(merged[n].end, x.end) = merged[n].end \/ Later(merged[n].end, x.end) = x.end)
    BY <1>2, <1>3, <2>1 DEF Later
  <2>3. whole \in Interval /\ whole.start = merged[n].start /\ whole.end = Later(merged[n].end, x.end)
    BY <1>3, <2>1, <2>2, SpanOf
  <2> HIDE DEF whole
  <2>4. new = [merged EXCEPT ![n] = whole]
    BY <1>6 DEF Merge, whole
  <2>5. /\ new \in Seq(Interval) /\ Len(new) = n
        /\ \A i \in 1 .. n : new[i] = IF i = n THEN whole ELSE merged[i]
    BY <1>1, <2>1, <2>3, <2>4
  <2> HIDE DEF new
  <2>6. NonEmpty(whole)
    BY <1>3, <2>1, <2>2, <2>3 DEF NonEmpty
  <2>7. \A i \in 1 .. n : NonEmpty(new[i])
    BY <1>1, <2>5, <2>6
  <2>8. ASSUME NEW i \in 1 .. n, NEW j \in 1 .. n, i < j PROVE new[i].end < new[j].start
    <3>1. new[i] = merged[i] /\ new[j].start = merged[j].start
      BY <2>3, <2>5, <2>8
    <3> QED BY <1>1, <2>8, <3>1
  <2>9. ASSUME NEW t PROVE t \in Points(whole) <=> t \in Points(merged[n]) \/ t \in Points(x)
    <3>1. t \in Points(whole) <=> t \in Nat /\ whole.start <= t /\ t < whole.end
      BY <2>3, PointsOf
    <3>2. t \in Points(merged[n]) <=> t \in Nat /\ merged[n].start <= t /\ t < merged[n].end
      BY <1>1, <2>1, PointsOf
    <3>3. t \in Points(x) <=> t \in Nat /\ x.start <= t /\ t < x.end
      BY <1>2, PointsOf
    <3>4. merged[n].start <= x.start
      BY <1>4, <2>1
    <3>5. merged[n].start \in Nat /\ merged[n].end \in Nat
      BY <1>3, <2>1
    <3> QED BY <1>2, <1>6, <2>2, <2>3, <3>1, <3>2, <3>3, <3>4, <3>5
  <2>10. ASSUME NEW t PROVE Within(new, t) <=> Within(merged, t) \/ t \in Points(x)
    <3>1. ASSUME Within(new, t) PROVE Within(merged, t) \/ t \in Points(x)
      <4>1. PICK i \in 1 .. n : t \in Points(new[i])
        BY <2>5, <3>1 DEF Within
      <4> QED BY <2>1, <2>5, <2>9, <4>1 DEF Within
    <3>2. ASSUME Within(merged, t) PROVE Within(new, t)
      <4>1. PICK i \in 1 .. n : t \in Points(merged[i])
        BY <3>2 DEF Within
      <4>2. t \in Points(new[i])
        BY <2>5, <2>9, <4>1
      <4> QED BY <2>5, <4>2 DEF Within
    <3>3. ASSUME t \in Points(x) PROVE Within(new, t)
      <4>1. t \in Points(new[n])
        BY <2>1, <2>5, <2>9, <3>3
      <4> QED BY <2>1, <2>5, <4>1 DEF Within
    <3> QED BY <3>1, <3>2, <3>3
  <2>11. ASSUME NEW i \in 1 .. n PROVE \E y \in s : y.start = new[i].start
    <3>1. new[i].start = merged[i].start
      BY <2>3, <2>5
    <3>2. PICK y \in s \ {x} : y.start = merged[i].start
      BY DEF MergedFrom
    <3> QED BY <3>1, <3>2
  <2>12. Chain(new)
    BY <2>5, <2>7, <2>8 DEF Chain
  <2>13. \A t : Within(new, t) <=> \E y \in s : t \in Points(y)
    BY <1>5, <2>10
  <2> QED BY <2>5, <2>11, <2>12, <2>13 DEF MergedFrom, new
<1>7. CASE ~(merged # <<>> /\ x.start <= merged[n].end)
  <2>1. new = Append(merged, x)
    BY <1>7 DEF Merge
  <2>2. /\ new \in Seq(Interval) /\ Len(new) = n + 1 /\ new[n + 1] = x
        /\ \A i \in 1 .. n : new[i] = merged[i]
    BY <1>1, <1>2, <2>1
  <2>3. \A i \in 1 .. (n + 1) : i \in 1 .. n \/ i = n + 1
    BY <1>1
  <2> HIDE DEF new
  <2>4. ASSUME NEW i \in 1 .. n PROVE merged[i].end < x.start
    <3>1. n \in 1 .. n /\ merged # <<>>
      BY <1>1
    <3>2. merged[n].end < x.start
      BY <1>2, <1>3, <1>7, <3>1
    <3>3. CASE i = n
      BY <3>2, <3>3
    <3>4. CASE i # n
      <4>1. merged[i].end < merged[n].start /\ merged[n].start < merged[n].end
        BY <1>1, <1>3, <3>1, <3>4
      <4> QED BY <1>2, <1>3, <3>1, <3>2, <4>1
    <3> QED BY <3>3, <3>4
  <2>5. \A i \in 1 .. (n + 1) : NonEmpty(new[i])
    BY <1>1, <1>2, <2>2, <2>3 DEF NonEmpty
  <2>6. ASSUME NEW i \in 1 .. (n + 1), NEW j \in 1 .. (n + 1), i < j PROVE new[i].end < new[j].start
    <3>1. i \in 1 .. n
      BY <1>1, <2>6
    <3>2. CASE j = n + 1
      BY <2>2, <2>4, <3>1, <3>2
    <3>3. CASE j \in 1 .. n
      BY <1>1, <2>2, <2>6, <3>1, <3>3
    <3> QED BY <2>3, <3>2, <3>3
  <2>7. ASSUME NEW t PROVE Within(new, t) <=> Within(merged, t) \/ t \in Points(x)
    <3>1. Within(new, t) <=> (\E i \in 1 .. n : t \in Points(new[i])) \/ t \in Points(new[n + 1])
      <4>1. n + 1 \in 1 .. (n + 1) /\ \A i \in 1 .. n : i \in 1 .. (n + 1)
        BY <1>1
      <4> QED BY <2>2, <2>3, <4>1 DEF Within
    <3> QED BY <2>2, <3>1 DEF Within
  <2>8. ASSUME NEW i \in 1 .. (n + 1) PROVE \E y \in s : y.start = new[i].start
    <3>1. CASE i = n + 1
      BY <2>2, <3>1
    <3>2. CASE i \in 1 .. n
      <4>1. PICK y \in s \ {x} : y.start = merged[i].start
        BY <3>2 DEF MergedFrom
      <4> QED BY <2>2, <3>2, <4>1
    <3> QED BY <2>3, <3>1, <3>2
  <2>9. Chain(new)
    BY <2>2, <2>5, <2>6 DEF Chain
  <2>10. \A t : Within(new, t) <=> \E y \in s : t \in Points(y)
    BY <1>5, <2>7
  <2> QED BY <2>2, <2>8, <2>9, <2>10 DEF MergedFrom, new
<1> QED BY <1>6, <1>7

LEMMA UnionMerges ==
  ASSUME NEW S, IsFiniteSet(S), S \subseteq Interval, \A iv \in S : NonEmpty(iv)
  PROVE  MergedFrom(S, UnionOf(S))
<1>1. PICK it : Merges(S, it) /\ UnionOf(S) = it[S]
  BY UnionEquation
<1> DEFINE P == {s \in SUBSET S : MergedFrom(s, it[s])}
<1>2. {} \in P
  <2>1. it[{}] = <<>> /\ <<>> \in Seq(Interval) /\ Len(<<>>) = 0 /\ \A i : i \notin 1 .. 0
    BY <1>1 DEF Merges
  <2>2. MergedFrom({}, <<>>)
    BY <2>1 DEF MergedFrom, Chain, Within
  <2> QED BY <2>1, <2>2
<1>3. ASSUME NEW s \in SUBSET S, s # {}, \A x \in s : s \ {x} \in P PROVE s \in P
  <2>1. PICK x \in s : x = LastStarting(s) /\ \A y \in s : y.start <= x.start
    BY <1>3, LastStartingIn
  <2>2. MergedFrom(s \ {x}, it[s \ {x}])
    BY <1>3
  <2>3. it[s] = Merge(it[s \ {x}], x)
    BY <1>1, <1>3, <2>1 DEF Merges
  <2>4. s \subseteq Interval /\ \A y \in s : NonEmpty(y)
    OBVIOUS
  <2>5. MergedFrom(s, it[s])
    BY <2>1, <2>2, <2>3, <2>4, MergeKeeps
  <2> QED BY <2>5
<1> HIDE DEF P
<1>4. \A s \in SUBSET S : s \in P
  BY <1>2, <1>3, SetInduct
<1> QED BY <1>1, <1>4 DEF P

-----------------------------------------------------------------------------
(* subtract: behind the cursor the pieces are what the first k occupied     *)
(* intervals leave of the window, ahead of it those intervals take nothing. *)
TakenBy(occupied, k, t) == \E j \in 1 .. k : t \in Points(occupied[j])

FreeBehind(win, occupied, k, acc) ==
  \A t \in Points(win) : t < acc.cursor => (Within(acc.out, t) <=> ~TakenBy(occupied, k, t))

NothingAhead(win, occupied, k, acc) ==
  \A t \in Points(win) : acc.cursor <= t => ~TakenBy(occupied, k, t)

PieceOf(win, occupied, k, acc, iv) ==
  /\ win.start <= iv.start /\ iv.end <= win.end /\ iv.end < acc.cursor
  /\ \E j \in 1 .. k : iv.end = occupied[j].start

WalkedTo(win, occupied, k, acc) ==
  /\ acc \in [cursor : Nat, out : Seq(Interval)] /\ Chain(acc.out)
  /\ win.start <= acc.cursor
  /\ acc.cursor = win.start \/ \E j \in 1 .. k : acc.cursor = occupied[j].end
  /\ \A i \in 1 .. Len(acc.out) : PieceOf(win, occupied, k, acc, acc.out[i])
  /\ FreeBehind(win, occupied, k, acc) /\ NothingAhead(win, occupied, k, acc)

(* A chain goes on with an interval after its last.                         *)
LEMMA ChainAppend ==
  ASSUME NEW seq, Chain(seq), NEW iv \in Interval, NonEmpty(iv),
         \A i \in 1 .. Len(seq) : seq[i].end < iv.start
  PROVE  /\ Chain(Append(seq, iv))
         /\ Len(Append(seq, iv)) = Len(seq) + 1 /\ Append(seq, iv)[Len(seq) + 1] = iv
         /\ \A i \in 1 .. Len(seq) : Append(seq, iv)[i] = seq[i]
         /\ \A i \in 1 .. (Len(seq) + 1) : i \in 1 .. Len(seq) \/ i = Len(seq) + 1
         /\ \A t : Within(Append(seq, iv), t) <=> Within(seq, t) \/ t \in Points(iv)
<1> DEFINE n == Len(seq)
           new == Append(seq, iv)
<1>1. /\ seq \in Seq(Interval) /\ n \in Nat /\ \A i \in 1 .. n : NonEmpty(seq[i])
      /\ \A i, j \in 1 .. n : i < j => seq[i].end < seq[j].start
  BY DEF Chain
<1>2. new \in Seq(Interval) /\ Len(new) = n + 1 /\ new[n + 1] = iv /\ \A i \in 1 .. n : new[i] = seq[i]
  BY <1>1
<1>3. \A i \in 1 .. (n + 1) : i \in 1 .. n \/ i = n + 1
  BY <1>1
<1>4. n + 1 \in 1 .. (n + 1) /\ \A i \in 1 .. n : i \in 1 .. (n + 1)
  BY <1>1
<1>5. \A i \in 1 .. n : seq[i].end < iv.start
  OBVIOUS
<1> HIDE DEF new, n
<1>6. \A i \in 1 .. (n + 1) : NonEmpty(new[i])
  BY <1>1, <1>2, <1>3
<1>7. ASSUME NEW i \in 1 .. (n + 1), NEW j \in 1 .. (n + 1), i < j PROVE new[i].end < new[j].start
  <2>1. i \in 1 .. n
    BY <1>1, <1>7
  <2>2. CASE j = n + 1
    BY <1>2, <1>5, <2>1, <2>2
  <2>3. CASE j \in 1 .. n
    BY <1>1, <1>2, <1>7, <2>1, <2>3
  <2> QED BY <1>3, <2>2, <2>3
<1>8. Chain(new)
  BY <1>2, <1>6, <1>7 DEF Chain
<1>9. ASSUME NEW t PROVE Within(new, t) <=> Within(seq, t) \/ t \in Points(iv)
  <2>1. Within(new, t) <=> (\E i \in 1 .. n : t \in Points(new[i])) \/ t \in Points(new[n + 1])
    BY <1>2, <1>3, <1>4 DEF Within
  <2> QED BY <1>2, <2>1 DEF Within, n
<1> QED BY <1>2, <1>3, <1>8, <1>9 DEF new, n

LEMMA ChainOf ==
  ASSUME NEW seq, Chain(seq)
  PROVE  /\ Len(seq) \in Nat /\ DOMAIN seq = 1 .. Len(seq)
         /\ \A i \in 1 .. Len(seq) : /\ seq[i] \in Interval /\ seq[i].start \in Nat /\ seq[i].end \in Nat
                                     /\ seq[i].start < seq[i].end
<1>1. seq \in Seq(Interval) /\ Len(seq) \in Nat /\ \A i \in 1 .. Len(seq) : seq[i] \in Interval /\ NonEmpty(seq[i])
  BY DEF Chain
<1> QED BY <1>1, PointsOf DEF NonEmpty

LEMMA WalkKeeps ==
  ASSUME NEW win \in Interval, NonEmpty(win), NEW occupied, Chain(occupied),
         NEW k \in 1 .. Len(occupied), NEW acc, WalkedTo(win, occupied, k - 1, acc)
  PROVE  WalkedTo(win, occupied, k, Walk(win, acc, occupied[k]))
<1> DEFINE o == occupied[k]
           new == Walk(win, acc, o)
<1>1. Len(occupied) \in Nat /\ k \in Nat /\ k - 1 \in Nat /\ \A j \in 1 .. (k - 1) : j \in 1 .. Len(occupied) /\ j \in 1 .. k /\ j < k
  BY ChainOf
<1>2. o \in Interval /\ o.start \in Nat /\ o.end \in Nat /\ o.start < o.end /\ \A t : t \in Points(o) <=> t \in Nat /\ o.start <= t /\ t < o.end
  BY ChainOf, PointsOf
<1>3. win.start \in Nat /\ win.end \in Nat /\ win.start < win.end /\ \A t : t \in Points(win) <=> t \in Nat /\ win.start <= t /\ t < win.end
  BY PointsOf DEF NonEmpty
<1>4. ASSUME NEW j \in 1 .. (k - 1)
      PROVE  occupied[j].end < o.start /\ occupied[j].end \in Nat /\ occupied[j].start \in Nat
  BY <1>1, ChainOf DEF Chain
<1>5. ASSUME NEW t PROVE TakenBy(occupied, k, t) <=> TakenBy(occupied, k - 1, t) \/ t \in Points(o)
  <2>1. \A j \in 1 .. k : j \in 1 .. (k - 1) \/ j = k
    BY <1>1
  <2>2. k \in 1 .. k
    BY <1>1
  <2> QED BY <1>1, <2>1, <2>2 DEF TakenBy
<1>6. /\ acc.cursor \in Nat /\ acc.out \in Seq(Interval) /\ Chain(acc.out) /\ win.start <= acc.cursor
      /\ acc.cursor = win.start \/ \E j \in 1 .. (k - 1) : acc.cursor = occupied[j].end
      /\ \A i \in 1 .. Len(acc.out) : PieceOf(win, occupied, k - 1, acc, acc.out[i])
      /\ FreeBehind(win, occupied, k - 1, acc) /\ NothingAhead(win, occupied, k - 1, acc)
  BY DEF WalkedTo
<1>7. acc.cursor = win.start \/ acc.cursor < o.start
  BY <1>4, <1>6
<1>8. \A i \in 1 .. Len(acc.out) : /\ win.start <= acc.out[i].start /\ acc.out[i].end <= win.end /\ acc.out[i].end < acc.cursor
                                   /\ \E j \in 1 .. k : acc.out[i].end = occupied[j].start
  BY <1>1, <1>6 DEF PieceOf
<1>9. \A i \in 1 .. Len(acc.out) : acc.out[i] \in Interval /\ acc.out[i].start \in Nat /\ acc.out[i].end \in Nat
  BY <1>6, ChainOf
<1>10. ASSUME NEW t, t \in Nat, acc.cursor <= t PROVE ~Within(acc.out, t)
  <2> SUFFICES ASSUME NEW i \in 1 .. Len(acc.out), t \in Points(acc.out[i]) PROVE FALSE
    BY DEF Within
  <2>1. t < acc.out[i].end /\ acc.out[i].end < acc.cursor
    BY <1>8, <1>9, PointsOf
  <2> QED BY <1>6, <1>9, <1>10, <2>1
<1>11. CASE o.end < win.start \/ o.start > win.end
  <2>1. new = acc
    BY <1>11 DEF Walk
  <2>2. ASSUME NEW t \in Points(win) PROVE t \notin Points(o)
    BY <1>2, <1>3, <1>11
  <2>3. FreeBehind(win, occupied, k, acc) /\ NothingAhead(win, occupied, k, acc)
    BY <1>5, <1>6, <2>2 DEF FreeBehind, NothingAhead
  <2>4. acc.cursor = win.start \/ \E j \in 1 .. k : acc.cursor = occupied[j].end
    BY <1>1, <1>6
  <2>5. \A i \in 1 .. Len(acc.out) : PieceOf(win, occupied, k, acc, acc.out[i])
    BY <1>8 DEF PieceOf
  <2> QED BY <1>6, <2>1, <2>3, <2>4, <2>5 DEF WalkedTo
<1>12. CASE ~(o.end < win.start \/ o.start > win.end) /\ ~(o.start > acc.cursor)
  <2>1. new = [cursor |-> Later(acc.cursor, o.end), out |-> acc.out]
    BY <1>12 DEF Walk
  <2>2. acc.cursor = win.start /\ o.start <= acc.cursor
    BY <1>2, <1>6, <1>7, <1>12
  <2>3. new.cursor = o.end \/ new.cursor = acc.cursor
    BY <2>1 DEF Later
  <2>4. new.cursor \in Nat /\ acc.cursor <= new.cursor /\ o.end <= new.cursor /\ new.out = acc.out
    BY <1>2, <1>6, <2>1 DEF Later
  <2>5. new \in [cursor : Nat, out : Seq(Interval)]
    BY <1>6, <2>1, <2>4
  <2> HIDE DEF new
  <2>6. ASSUME NEW t \in Points(win), t < new.cursor PROVE Within(new.out, t) <=> ~TakenBy(occupied, k, t)
    <3>1. t \in Points(o)
      BY <1>2, <1>3, <1>6, <2>2, <2>3, <2>6
    <3>2. ~Within(acc.out, t)
      BY <1>3, <1>10, <2>2
    <3> QED BY <1>5, <2>4, <3>1, <3>2
  <2>7. ASSUME NEW t \in Points(win), new.cursor <= t PROVE ~TakenBy(occupied, k, t)
    <3>1. acc.cursor <= t /\ t \notin Points(o)
      BY <1>2, <1>3, <1>6, <2>4, <2>7
    <3> QED BY <1>5, <1>6, <3>1 DEF NothingAhead
  <2>8. FreeBehind(win, occupied, k, new) /\ NothingAhead(win, occupied, k, new)
    BY <2>6, <2>7 DEF FreeBehind, NothingAhead
  <2>9. new.cursor = win.start \/ \E j \in 1 .. k : new.cursor = occupied[j].end
    <3>1. k \in 1 .. k
      BY <1>1
    <3> QED BY <2>2, <2>3, <3>1
  <2>10. ASSUME NEW i \in 1 .. Len(new.out) PROVE PieceOf(win, occupied, k, new, new.out[i])
    <3>1. acc.out[i].end < new.cursor
      BY <1>6, <1>8, <1>9, <2>4
    <3> QED BY <1>8, <2>4, <3>1 DEF PieceOf
  <2>11. win.start <= new.cursor
    BY <1>3, <1>6, <2>4
  <2>12. Chain(new.out)
    BY <1>6, <2>4
  <2> QED BY <2>5, <2>8, <2>9, <2>10, <2>11, <2>12 DEF WalkedTo, new
<1>13. CASE ~(o.end < win.start \/ o.start > win.end) /\ o.start > acc.cursor
  <2> DEFINE piece == Span(acc.cursor, o.start)
  <2>1. Later(acc.cursor, o.end) = o.end
    BY <1>2, <1>6, <1>13 DEF Later
  <2>2. new = [cursor |-> o.end, out |-> Append(acc.out, piece)]
    BY <1>13, <2>1 DEF Walk
  <2>3. piece \in Interval /\ piece.start = acc.cursor /\ piece.end = o.start
    BY <1>2, <1>6, SpanOf
  <2>4. NonEmpty(piece)
    BY <1>13, <2>3 DEF NonEmpty
  <2> HIDE DEF piece
  <2>5. \A i \in 1 .. Len(acc.out) : acc.out[i].end < piece.start
    BY <1>8, <2>3
  <2> DEFINE out == Append(acc.out, piece)
             n == Len(acc.out)
  <2>6. /\ Chain(out) /\ Len(out) = n + 1 /\ out[n + 1] = piece /\ \A i \in 1 .. n : out[i] = acc.out[i]
        /\ \A i \in 1 .. (n + 1) : i \in 1 .. n \/ i = n + 1
    BY <1>6, <2>3, <2>4, <2>5, ChainAppend
  <2>7. \A t : Within(out, t) <=> Within(acc.out, t) \/ t \in Points(piece)
    BY <1>6, <2>3, <2>4, <2>5, ChainAppend
  <2>8. out \in Seq(Interval)
    BY <2>6 DEF Chain
  <2>9. new.cursor = o.end /\ new.out = out /\ new \in [cursor : Nat, out : Seq(Interval)]
    BY <1>2, <2>2, <2>8
  <2> HIDE DEF new, out
  <2>10. \A t : t \in Points(piece) <=> t \in Nat /\ acc.cursor <= t /\ t < o.start
    BY <2>3, PointsOf
  <2>11. ASSUME NEW t \in Points(win), t < o.end PROVE Within(out, t) <=> ~TakenBy(occupied, k, t)
    <3>1. t \in Nat
      BY <1>3
    <3>2. CASE t < acc.cursor
      <4>1. t \notin Points(piece) /\ t \notin Points(o)
        BY <1>2, <1>6, <1>13, <2>10, <3>1, <3>2
      <4>2. Within(acc.out, t) <=> ~TakenBy(occupied, k - 1, t)
        BY <1>6, <3>2 DEF FreeBehind
      <4> QED BY <1>5, <2>7, <4>1, <4>2
    <3>3. CASE acc.cursor <= t /\ t < o.start
      <4>1. t \in Points(piece) /\ t \notin Points(o)
        BY <1>2, <2>10, <3>1, <3>3
      <4>2. ~TakenBy(occupied, k - 1, t)
        BY <1>6, <3>3 DEF NothingAhead
      <4> QED BY <1>5, <2>7, <4>1, <4>2
    <3>4. CASE o.start <= t
      <4>1. t \in Points(o) /\ t \notin Points(piece) /\ acc.cursor <= t
        BY <1>2, <1>6, <1>13, <2>10, <2>11, <3>1, <3>4
      <4> QED BY <1>5, <1>10, <2>7, <3>1, <4>1
    <3> QED BY <1>2, <1>6, <3>1, <3>2, <3>3, <3>4
  <2>12. ASSUME NEW t \in Points(win), o.end <= t PROVE ~TakenBy(occupied, k, t)
    <3>1. acc.cursor <= t /\ t \notin Points(o)
      BY <1>2, <1>3, <1>6, <1>13, <2>12
    <3> QED BY <1>5, <1>6, <3>1 DEF NothingAhead
  <2>13. FreeBehind(win, occupied, k, new) /\ NothingAhead(win, occupied, k, new)
    BY <2>9, <2>11, <2>12 DEF FreeBehind, NothingAhead
  <2>14. k \in 1 .. k
    BY <1>1
  <2>15. ASSUME NEW i \in 1 .. (n + 1) PROVE PieceOf(win, occupied, k, new, out[i])
    <3>1. CASE i = n + 1
      <4>1. out[i] = piece
        BY <2>6, <3>1
      <4>2. win.start <= piece.start /\ piece.end <= win.end /\ piece.end < new.cursor
        BY <1>2, <1>3, <1>6, <1>13, <2>3, <2>9
      <4>3. \E j \in 1 .. k : piece.end = occupied[j].start
        BY <2>3, <2>14
      <4> QED BY <4>1, <4>2, <4>3 DEF PieceOf
    <3>2. CASE i \in 1 .. n
      <4>1. out[i] = acc.out[i]
        BY <2>6, <3>2
      <4>2. i \in 1 .. Len(acc.out)
        BY <3>2
      <4>3. acc.out[i].end < acc.cursor /\ acc.out[i].end \in Nat
        BY <1>8, <1>9, <4>2
      <4>4. acc.cursor \in Nat /\ acc.cursor < o.start /\ o.start < o.end /\ o.start \in Nat /\ o.end \in Nat
        BY <1>2, <1>6, <1>13
      <4>5. acc.out[i].end < o.end
        BY <4>3, <4>4
      <4> QED BY <1>8, <2>9, <4>1, <4>2, <4>5 DEF PieceOf
    <3> QED BY <2>6, <3>1, <3>2
  <2>16. win.start <= new.cursor /\ \E j \in 1 .. k : new.cursor = occupied[j].end
    BY <1>2, <1>3, <1>6, <1>13, <2>9, <2>14
  <2> QED BY <2>6, <2>9, <2>13, <2>15, <2>16 DEF WalkedTo, new
<1> QED BY <1>11, <1>12, <1>13

LEMMA WalkedOf ==
  ASSUME NEW win \in Interval, NonEmpty(win), NEW occupied, Chain(occupied)
  PROVE  WalkedTo(win, occupied, Len(occupied), Walked(win, occupied))
<1> DEFINE n == Len(occupied)
<1>1. occupied \in Seq(Interval) /\ n \in Nat
  BY DEF Chain
<1>2. PICK run : Walks(win, occupied, run) /\ Walked(win, occupied) = run[n]
  BY <1>1, WalkRun
<1> DEFINE P == {k \in Nat : k <= n => WalkedTo(win, occupied, k, run[k])}
<1>3. 0 \in P
  <2> DEFINE base == [cursor |-> win.start, out |-> <<>>]
  <2>1. run[0] = base
    BY <1>2 DEF Walks
  <2>2. <<>> \in Seq(Interval) /\ Len(<<>>) = 0 /\ \A i : i \notin 1 .. 0
    OBVIOUS
  <2>3. win.start \in Nat /\ \A t \in Points(win) : t \in Nat /\ win.start <= t
    BY PointsOf
  <2>4. base \in [cursor : Nat, out : Seq(Interval)] /\ base.cursor = win.start /\ base.out = <<>>
    BY <2>2, <2>3
  <2> HIDE DEF base
  <2>5. Chain(base.out)
    BY <2>2, <2>4 DEF Chain
  <2>6. ASSUME NEW t PROVE ~TakenBy(occupied, 0, t)
    BY <2>2 DEF TakenBy
  <2>7. FreeBehind(win, occupied, 0, base)
    BY <2>3, <2>4 DEF FreeBehind
  <2>8. NothingAhead(win, occupied, 0, base)
    BY <2>6 DEF NothingAhead
  <2>9. \A i \in 1 .. Len(base.out) : PieceOf(win, occupied, 0, base, base.out[i])
    BY <2>2, <2>4
  <2>10. WalkedTo(win, occupied, 0, base)
    BY <2>3, <2>4, <2>5, <2>7, <2>8, <2>9 DEF WalkedTo
  <2> QED BY <2>1, <2>10
<1>4. ASSUME NEW k \in Nat, k \in P PROVE k + 1 \in P
  <2> SUFFICES ASSUME k + 1 <= n PROVE WalkedTo(win, occupied, k + 1, run[k + 1])
    OBVIOUS
  <2>1. k + 1 \in 1 .. n /\ (k + 1) - 1 = k /\ k <= n
    BY <1>1
  <2>2. WalkedTo(win, occupied, (k + 1) - 1, run[k])
    BY <1>4, <2>1
  <2>3. run[k + 1] = Walk(win, run[(k + 1) - 1], occupied[k + 1])
    BY <1>2, <2>1 DEF Walks
  <2>4. run[k + 1] = Walk(win, run[k], occupied[k + 1])
    BY <2>1, <2>3
  <2>5. WalkedTo(win, occupied, k + 1, Walk(win, run[k], occupied[k + 1]))
    BY <2>1, <2>2, WalkKeeps
  <2> QED BY <2>4, <2>5
<1> HIDE DEF P
<1>5. n \in P
  BY <1>1, <1>3, <1>4, NatInduct
<1>6. WalkedTo(win, occupied, n, run[n])
  BY <1>1, <1>5 DEF P
<1> QED BY <1>2, <1>6

(* subtract: the instants of the window nothing occupies, in pieces that go *)
(* on to the end of the window or to what is occupied next.                *)
GapIn(win, occupied, iv) ==
  /\ win.start <= iv.start /\ iv.end <= win.end
  /\ iv.end = win.end \/ \E j \in 1 .. Len(occupied) : iv.end = occupied[j].start

RestOf(win, occupied, seq) ==
  /\ Chain(seq)
  /\ \A i \in 1 .. Len(seq) : GapIn(win, occupied, seq[i])
  /\ \A t \in Points(win) : Within(seq, t) <=> ~Within(occupied, t)

LEMMA SubtractFromIs ==
  ASSUME NEW win \in Interval, NonEmpty(win), NEW occupied, Chain(occupied)
  PROVE  RestOf(win, occupied, SubtractFrom(win, occupied))
<1> DEFINE last == Walked(win, occupied)
           n == Len(occupied)
           m == Len(last.out)
           rest == SubtractFrom(win, occupied)
<1>1. WalkedTo(win, occupied, n, last)
  BY WalkedOf
<1>2. \A t : TakenBy(occupied, n, t) <=> Within(occupied, t)
  BY DEF TakenBy, Within
<1>3. win.start \in Nat /\ win.end \in Nat /\ win.start < win.end /\ \A t : t \in Points(win) <=> t \in Nat /\ win.start <= t /\ t < win.end
  BY PointsOf DEF NonEmpty
<1>4. rest = IF last.cursor < win.end THEN Append(last.out, Span(last.cursor, win.end)) ELSE last.out
  BY DEF SubtractFrom
<1> HIDE DEF last, rest
<1>5. /\ last.cursor \in Nat /\ Chain(last.out) /\ win.start <= last.cursor
      /\ \A i \in 1 .. m : PieceOf(win, occupied, n, last, last.out[i])
      /\ FreeBehind(win, occupied, n, last) /\ NothingAhead(win, occupied, n, last)
  BY <1>1 DEF WalkedTo
<1>6. \A i \in 1 .. m : /\ last.out[i].end < last.cursor /\ GapIn(win, occupied, last.out[i])
                        /\ last.out[i] \in Interval /\ last.out[i].end \in Nat
  BY <1>5, ChainOf DEF PieceOf, GapIn
<1>7. CASE ~(last.cursor < win.end)
  <2>1. rest = last.out
    BY <1>4, <1>7
  <2>2. ASSUME NEW t \in Points(win) PROVE Within(last.out, t) <=> ~Within(occupied, t)
    <3>1. t < last.cursor
      BY <1>3, <1>5, <1>7
    <3> QED BY <1>2, <1>5, <3>1 DEF FreeBehind
  <2> QED BY <1>5, <1>6, <2>1, <2>2 DEF RestOf, rest, m
<1>8. CASE last.cursor < win.end
  <2> DEFINE tail == Span(last.cursor, win.end)
             all == Append(last.out, tail)
  <2>1. rest = all
    BY <1>4, <1>8
  <2>2. tail \in Interval /\ tail.start = last.cursor /\ tail.end = win.end /\ NonEmpty(tail)
    BY <1>3, <1>5, <1>8, SpanOf DEF NonEmpty
  <2>3. \A t : t \in Points(tail) <=> t \in Nat /\ last.cursor <= t /\ t < win.end
    BY <2>2, PointsOf
  <2> HIDE DEF tail
  <2>4. \A i \in 1 .. m : last.out[i].end < tail.start
    BY <1>6, <2>2
  <2>5. /\ Chain(all) /\ Len(all) = m + 1 /\ all[m + 1] = tail /\ \A i \in 1 .. m : all[i] = last.out[i]
        /\ \A i \in 1 .. (m + 1) : i \in 1 .. m \/ i = m + 1
    BY <1>5, <2>2, <2>4, ChainAppend
  <2>6. \A t : Within(all, t) <=> Within(last.out, t) \/ t \in Points(tail)
    BY <1>5, <2>2, <2>4, ChainAppend
  <2> HIDE DEF all, m
  <2>7. GapIn(win, occupied, tail)
    BY <1>3, <1>5, <2>2 DEF GapIn
  <2>8. \A i \in 1 .. Len(all) : GapIn(win, occupied, all[i])
    BY <1>6, <2>5, <2>7
  <2>9. ASSUME NEW t \in Points(win) PROVE Within(all, t) <=> ~Within(occupied, t)
    <3>1. CASE t < last.cursor
      <4>1. t \notin Points(tail)
        BY <1>3, <1>5, <2>3, <3>1
      <4>2. Within(last.out, t) <=> ~TakenBy(occupied, n, t)
        BY <1>5, <3>1 DEF FreeBehind
      <4> QED BY <1>2, <2>6, <4>1, <4>2
    <3>2. CASE last.cursor <= t
      <4>1. t \in Points(tail)
        BY <1>3, <2>3, <3>2
      <4>2. ~TakenBy(occupied, n, t)
        BY <1>5, <3>2 DEF NothingAhead
      <4> QED BY <1>2, <2>6, <4>1, <4>2
    <3> QED BY <1>3, <1>5, <3>1, <3>2
  <2> QED BY <2>1, <2>5, <2>8, <2>9 DEF RestOf, rest
<1> QED BY <1>7, <1>8

(* A chain goes on with one that begins after its last.                     *)
LEMMA ChainConcat ==
  ASSUME NEW a, Chain(a), NEW b, Chain(b),
         \A i \in 1 .. Len(a) : \A j \in 1 .. Len(b) : a[i].end < b[j].start
  PROVE  /\ Chain(a \o b)
         /\ \A i \in 1 .. Len(a \o b) : \/ i \in 1 .. Len(a) /\ (a \o b)[i] = a[i]
                                        \/ i - Len(a) \in 1 .. Len(b) /\ (a \o b)[i] = b[i - Len(a)]
         /\ \A t : Within(a \o b, t) <=> Within(a, t) \/ Within(b, t)
<1> DEFINE n == Len(a)
           m == Len(b)
           new == a \o b
<1>1. /\ a \in Seq(Interval) /\ n \in Nat /\ \A i \in 1 .. n : NonEmpty(a[i])
      /\ \A i, j \in 1 .. n : i < j => a[i].end < a[j].start
  BY DEF Chain
<1>2. /\ b \in Seq(Interval) /\ m \in Nat /\ \A i \in 1 .. m : NonEmpty(b[i])
      /\ \A i, j \in 1 .. m : i < j => b[i].end < b[j].start
  BY DEF Chain
<1>3. /\ new \in Seq(Interval) /\ Len(new) = n + m
      /\ \A i \in 1 .. (n + m) : new[i] = IF i <= n THEN a[i] ELSE b[i - n]
  BY <1>1, <1>2
<1>4. \A i \in 1 .. n : \A j \in 1 .. m : a[i].end < b[j].start
  OBVIOUS
<1> HIDE DEF new, n, m
<1>5. \A i \in 1 .. n : i \in 1 .. (n + m) /\ new[i] = a[i]
  BY <1>1, <1>2, <1>3
<1>6. \A j \in 1 .. m : n + j \in 1 .. (n + m) /\ (n + j) - n = j /\ ~(n + j <= n)
  BY <1>1, <1>2
<1>7. \A j \in 1 .. m : n + j \in 1 .. (n + m) /\ new[n + j] = b[j]
  BY <1>3, <1>6
<1>8. ASSUME NEW i \in 1 .. (n + m)
      PROVE  \/ i \in 1 .. n /\ new[i] = a[i]
             \/ i > n /\ i - n \in 1 .. m /\ new[i] = b[i - n]
  <2>1. CASE i <= n
    BY <1>1, <1>2, <1>3, <2>1
  <2>2. CASE ~(i <= n)
    <3>1. i > n /\ i - n \in 1 .. m
      BY <1>1, <1>2, <2>2
    <3> QED BY <1>3, <2>2, <3>1
  <2> QED BY <2>1, <2>2
<1>9. \A i \in 1 .. (n + m) : NonEmpty(new[i])
  BY <1>1, <1>2, <1>8
<1>10. ASSUME NEW i \in 1 .. (n + m), NEW j \in 1 .. (n + m), i < j PROVE new[i].end < new[j].start
  <2>1. CASE i \in 1 .. n /\ new[i] = a[i]
    <3>1. CASE j \in 1 .. n /\ new[j] = a[j]
      BY <1>1, <1>10, <2>1, <3>1
    <3>2. CASE j - n \in 1 .. m /\ new[j] = b[j - n]
      BY <1>4, <2>1, <3>2
    <3> QED BY <1>8, <3>1, <3>2
  <2>2. CASE i > n /\ i - n \in 1 .. m /\ new[i] = b[i - n]
    <3>1. ~(j \in 1 .. n)
      BY <1>1, <1>10, <2>2
    <3>2. j - n \in 1 .. m /\ new[j] = b[j - n]
      BY <1>8, <3>1
    <3>3. i - n < j - n
      BY <1>1, <1>2, <1>10
    <3> QED BY <1>2, <2>2, <3>2, <3>3
  <2> QED BY <1>8, <2>1, <2>2
<1>11. Chain(new)
  BY <1>3, <1>9, <1>10 DEF Chain
<1>12. ASSUME NEW t PROVE Within(new, t) <=> Within(a, t) \/ Within(b, t)
  <2>1. ASSUME Within(new, t) PROVE Within(a, t) \/ Within(b, t)
    <3>1. PICK i \in 1 .. (n + m) : t \in Points(new[i])
      BY <1>3, <2>1 DEF Within
    <3> QED BY <1>8, <3>1 DEF Within, n, m
  <2>2. ASSUME Within(a, t) PROVE Within(new, t)
    <3>1. PICK i \in 1 .. n : t \in Points(a[i])
      BY <2>2 DEF Within, n
    <3> QED BY <1>3, <1>5, <3>1 DEF Within
  <2>3. ASSUME Within(b, t) PROVE Within(new, t)
    <3>1. PICK j \in 1 .. m : t \in Points(b[j])
      BY <2>3 DEF Within, m
    <3>2. n + j \in 1 .. (n + m) /\ t \in Points(new[n + j])
      BY <1>7, <3>1
    <3> QED BY <1>3, <3>2 DEF Within
  <2> QED BY <2>1, <2>2, <2>3
<1>13. ASSUME NEW i \in 1 .. Len(new)
       PROVE  \/ i \in 1 .. Len(a) /\ new[i] = a[i]
              \/ i - Len(a) \in 1 .. Len(b) /\ new[i] = b[i - Len(a)]
  BY <1>3, <1>8 DEF n, m
<1> QED BY <1>11, <1>12, <1>13 DEF new

(* ComputeGaps, one window after the other.                                 *)
GapSteps(working, occupied, run) ==
  /\ run[0] = <<>>
  /\ \A k \in 1 .. Len(working) : run[k] = run[k - 1] \o SubtractFrom(working[k], occupied)

LEMMA GapsRun ==
  ASSUME NEW working, Chain(working), NEW occupied, Chain(occupied)
  PROVE  \E run : GapSteps(working, occupied, run) /\ GapsOf(working, occupied) = run[Len(working)]
<1> DEFINE n == Len(working)
           T == Seq(Interval)
           base == <<>>
           c == [s \in SUBSET (1 .. n) |-> Max(s)]
           G == [p \in (1 .. n) \X T |-> p[2] \o SubtractFrom(working[p[1]], occupied)]
           iter[s \in SUBSET (DOMAIN working)] ==
             IF s = {} THEN <<>>
             ELSE LET x == Max(s) IN iter[s \ {x}] \o SubtractFrom(working[x], occupied)
           body(h) == [s \in SUBSET (1 .. n) |->
             IF s = {} THEN <<>> ELSE h[s \ {Max(s)}] \o SubtractFrom(working[Max(s)], occupied)]
<1>1. n \in Nat /\ DOMAIN working = 1 .. n /\ IsFiniteSet(1 .. n)
  BY ChainOf, FS_Interval
<1>2. \A s \in SUBSET (1 .. n) : s # {} => c[s] \in s
  BY <1>1, LastIndex
<1>3. G \in [(1 .. n) \X T -> T]
  <2>1. ASSUME NEW p \in (1 .. n) \X T PROVE p[2] \o SubtractFrom(working[p[1]], occupied) \in T
    <3>1. p[2] \in T /\ p[1] \in 1 .. n
      OBVIOUS
    <3>2. working[p[1]] \in Interval /\ NonEmpty(working[p[1]])
      BY <3>1, ChainOf DEF NonEmpty
    <3>3. SubtractFrom(working[p[1]], occupied) \in T
      BY <3>2, SubtractFromIs DEF RestOf, Chain
    <3> QED BY <3>1, <3>3
  <2> QED BY <2>1
<1>4. base \in T
  OBVIOUS
<1>5. PICK h \in [SUBSET (1 .. n) -> T] : FoldOf(1 .. n, base, c, G, h)
  <2> HIDE DEF c, G, T, base, n
  <2> QED BY <1>1, <1>2, <1>3, <1>4, FoldExists
<1>6. ASSUME NEW s \in SUBSET (1 .. n), s # {}
      PROVE  h[s] = h[s \ {Max(s)}] \o SubtractFrom(working[Max(s)], occupied)
  <2>1. c[s] = Max(s) /\ Max(s) \in 1 .. n
    BY <1>2, <1>6
  <2> HIDE DEF c
  <2>2. h[s \ {Max(s)}] \in T
    OBVIOUS
  <2>3. G[<<Max(s), h[s \ {Max(s)}]>>] = h[s \ {Max(s)}] \o SubtractFrom(working[Max(s)], occupied)
    BY <2>1, <2>2
  <2> HIDE DEF G, base
  <2> QED BY <1>5, <1>6, <2>1, <2>3 DEF FoldOf
<1>7. h = body(h)
  BY <1>5, <1>6 DEF FoldOf
<1>8. iter = body(iter)
  <2>1. \E g : g = body(g)
    BY <1>7
  <2> QED BY <1>1, <2>1
<1>9. GapsOf(working, occupied) = iter[1 .. n]
  BY <1>1 DEF GapsOf, FoldLeft, MapThenFoldSet
<1> HIDE DEF iter
<1> DEFINE run == [k \in 0 .. n |-> iter[1 .. k]]
<1>10. run[0] = <<>>
  BY <1>1, <1>8
<1>11. ASSUME NEW k \in 1 .. n PROVE run[k] = run[k - 1] \o SubtractFrom(working[k], occupied)
  <2>1. Max(1 .. k) = k /\ (1 .. k) \ {k} = 1 .. (k - 1) /\ 1 .. k \in SUBSET (1 .. n) /\ 1 .. k # {}
    BY <1>1, LastIndex
  <2>2. iter[1 .. k] = iter[(1 .. k) \ {Max(1 .. k)}] \o SubtractFrom(working[Max(1 .. k)], occupied)
    BY <1>8, <2>1
  <2>3. k - 1 \in 0 .. n /\ k \in 0 .. n
    BY <1>1
  <2> QED BY <2>1, <2>2, <2>3
<1>12. GapsOf(working, occupied) = run[n]
  BY <1>1, <1>9
<1> HIDE DEF run
<1> QED BY <1>10, <1>11, <1>12 DEF GapSteps

GapsTo(working, occupied, k, out) ==
  /\ Chain(out)
  /\ \A i \in 1 .. Len(out) : \E j \in 1 .. k : GapIn(working[j], occupied, out[i])
  /\ \A j \in 1 .. k : \A t \in Points(working[j]) : Within(out, t) <=> ~Within(occupied, t)

LEMMA GapsKeep ==
  ASSUME NEW working, Chain(working), NEW occupied, Chain(occupied),
         NEW k \in 1 .. Len(working), NEW out, GapsTo(working, occupied, k - 1, out)
  PROVE  GapsTo(working, occupied, k, out \o SubtractFrom(working[k], occupied))
<1> DEFINE w == working[k]
           g == SubtractFrom(w, occupied)
           new == out \o g
<1>1. Len(working) \in Nat /\ k \in Nat /\ \A j \in 1 .. (k - 1) : j \in 1 .. Len(working) /\ j \in 1 .. k /\ j < k
  BY ChainOf
<1>2. w \in Interval /\ NonEmpty(w) /\ w.start \in Nat /\ w.end \in Nat
  BY ChainOf DEF NonEmpty
<1>3. RestOf(w, occupied, g)
  BY <1>2, SubtractFromIs
<1>4. \A j \in 1 .. k : j \in 1 .. (k - 1) \/ j = k
  BY <1>1
<1>5. ASSUME NEW j \in 1 .. (k - 1)
      PROVE  working[j] \in Interval /\ working[j].end \in Nat /\ working[j].end < w.start
  BY <1>1, ChainOf DEF Chain
<1> HIDE DEF g, w
<1>6. /\ Chain(g) /\ \A i \in 1 .. Len(g) : GapIn(w, occupied, g[i])
      /\ \A t \in Points(w) : Within(g, t) <=> ~Within(occupied, t)
  BY <1>3 DEF RestOf
<1>7. /\ Chain(out) /\ \A i \in 1 .. Len(out) : \E j \in 1 .. (k - 1) : GapIn(working[j], occupied, out[i])
      /\ \A j \in 1 .. (k - 1) : \A t \in Points(working[j]) : Within(out, t) <=> ~Within(occupied, t)
  BY DEF GapsTo
<1>8. ASSUME NEW i \in 1 .. Len(out) PROVE out[i].end \in Nat /\ out[i] \in Interval /\ out[i].end < w.start
  <2>1. PICK j \in 1 .. (k - 1) : GapIn(working[j], occupied, out[i])
    BY <1>7
  <2>2. out[i].end <= working[j].end /\ out[i].end \in Nat /\ out[i] \in Interval
    BY <1>7, <2>1, ChainOf DEF GapIn
  <2> QED BY <1>2, <1>5, <2>2
<1>9. ASSUME NEW i \in 1 .. Len(g) PROVE w.start <= g[i].start /\ g[i].start \in Nat /\ g[i] \in Interval
  BY <1>6, ChainOf DEF GapIn
<1>10. \A i \in 1 .. Len(out) : \A j \in 1 .. Len(g) : out[i].end < g[j].start
  BY <1>2, <1>8, <1>9
<1>11. /\ Chain(new)
       /\ \A i \in 1 .. Len(new) : \/ i \in 1 .. Len(out) /\ new[i] = out[i]
                                   \/ i - Len(out) \in 1 .. Len(g) /\ new[i] = g[i - Len(out)]
       /\ \A t : Within(new, t) <=> Within(out, t) \/ Within(g, t)
  BY <1>6, <1>7, <1>10, ChainConcat
<1> HIDE DEF new
<1>12. ASSUME NEW i \in 1 .. Len(new) PROVE \E j \in 1 .. k : GapIn(working[j], occupied, new[i])
  <2>1. CASE i \in 1 .. Len(out) /\ new[i] = out[i]
    BY <1>1, <1>7, <2>1
  <2>2. CASE i - Len(out) \in 1 .. Len(g) /\ new[i] = g[i - Len(out)]
    <3>1. k \in 1 .. k
      BY <1>1
    <3> QED BY <1>6, <2>2, <3>1 DEF w
  <2> QED BY <1>11, <2>1, <2>2
<1>13. ASSUME NEW j \in 1 .. k, NEW t \in Points(working[j]) PROVE Within(new, t) <=> ~Within(occupied, t)
  <2>1. CASE j \in 1 .. (k - 1)
    <3>1. t \in Nat /\ t < working[j].end
      BY <1>5, <2>1, PointsOf
    <3>2. ASSUME Within(g, t) PROVE FALSE
      <4>1. PICK i \in 1 .. Len(g) : t \in Points(g[i])
        BY <3>2 DEF Within
      <4>2. g[i].start <= t
        BY <1>9, <4>1, PointsOf
      <4> QED BY <1>2, <1>5, <1>9, <2>1, <3>1, <4>2
    <3> QED BY <1>7, <1>11, <2>1, <3>2
  <2>2. CASE j = k
    <3>1. t \in Points(w) /\ t \in Nat /\ w.start <= t
      BY <1>2, <2>2, PointsOf DEF w
    <3>2. ASSUME Within(out, t) PROVE FALSE
      <4>1. PICK i \in 1 .. Len(out) : t \in Points(out[i])
        BY <3>2 DEF Within
      <4>2. t < out[i].end
        BY <1>8, <4>1, PointsOf
      <4> QED BY <1>2, <1>8, <3>1, <4>2
    <3> QED BY <1>6, <1>11, <3>1, <3>2
  <2> QED BY <1>4, <2>1, <2>2
<1>14. GapsTo(working, occupied, k, new)
  BY <1>11, <1>12, <1>13 DEF GapsTo
<1> QED BY <1>14 DEF new, g, w

LEMMA GapsOfIs ==
  ASSUME NEW working, Chain(working), NEW occupied, Chain(occupied)
  PROVE  GapsTo(working, occupied, Len(working), GapsOf(working, occupied))
<1> DEFINE n == Len(working)
<1>1. n \in Nat
  BY ChainOf
<1>2. PICK run : GapSteps(working, occupied, run) /\ GapsOf(working, occupied) = run[n]
  BY GapsRun
<1> DEFINE P == {k \in Nat : k <= n => GapsTo(working, occupied, k, run[k])}
<1>3. 0 \in P
  <2>1. run[0] = <<>> /\ <<>> \in Seq(Interval) /\ Len(<<>>) = 0 /\ \A i : i \notin 1 .. 0
    BY <1>2 DEF GapSteps
  <2>2. GapsTo(working, occupied, 0, <<>>)
    BY <2>1 DEF GapsTo, Chain
  <2> QED BY <2>1, <2>2
<1>4. ASSUME NEW k \in Nat, k \in P PROVE k + 1 \in P
  <2> SUFFICES ASSUME k + 1 <= n PROVE GapsTo(working, occupied, k + 1, run[k + 1])
    OBVIOUS
  <2>1. k + 1 \in 1 .. n /\ (k + 1) - 1 = k /\ k <= n
    BY <1>1
  <2>2. GapsTo(working, occupied, (k + 1) - 1, run[k])
    BY <1>4, <2>1
  <2>3. run[k + 1] = run[(k + 1) - 1] \o SubtractFrom(working[k + 1], occupied)
    BY <1>2, <2>1 DEF GapSteps
  <2>4. run[k + 1] = run[k] \o SubtractFrom(working[k + 1], occupied)
    BY <2>1, <2>3
  <2>5. GapsTo(working, occupied, k + 1, run[k] \o SubtractFrom(working[k + 1], occupied))
    BY <2>1, <2>2, GapsKeep
  <2> QED BY <2>4, <2>5
<1> HIDE DEF P
<1>5. n \in P
  BY <1>1, <1>3, <1>4, NatInduct
<1>6. GapsTo(working, occupied, n, run[n])
  BY <1>1, <1>5 DEF P
<1> QED BY <1>2, <1>6

-----------------------------------------------------------------------------
(* totalHours: a chain lasts as long as it has instants.                    *)
TotalSteps(seq, run) ==
  /\ run[0] = 0
  /\ \A k \in 1 .. Len(seq) : run[k] = run[k - 1] + (seq[k].end - seq[k].start)

LEMMA TotalRun ==
  ASSUME NEW seq \in Seq(Interval)
  PROVE  \E run : TotalSteps(seq, run) /\ Total(seq) = run[Len(seq)]
<1> DEFINE n == Len(seq)
           T == Int
           c == [s \in SUBSET (1 .. n) |-> Max(s)]
           G == [p \in (1 .. n) \X T |-> p[2] + (seq[p[1]].end - seq[p[1]].start)]
           iter[s \in SUBSET (DOMAIN seq)] ==
             IF s = {} THEN 0
             ELSE LET x == Max(s) IN iter[s \ {x}] + (seq[x].end - seq[x].start)
           body(h) == [s \in SUBSET (1 .. n) |->
             IF s = {} THEN 0 ELSE h[s \ {Max(s)}] + (seq[Max(s)].end - seq[Max(s)].start)]
<1>1. n \in Nat /\ DOMAIN seq = 1 .. n /\ IsFiniteSet(1 .. n)
  BY FS_Interval
<1>2. \A s \in SUBSET (1 .. n) : s # {} => c[s] \in s
  BY <1>1, LastIndex
<1>3. G \in [(1 .. n) \X T -> T]
  <2>1. ASSUME NEW p \in (1 .. n) \X T PROVE p[2] + (seq[p[1]].end - seq[p[1]].start) \in T
    <3>1. p[2] \in Int /\ p[1] \in 1 .. n
      OBVIOUS
    <3>2. seq[p[1]] \in Interval
      BY <1>1, <3>1
    <3>3. seq[p[1]].end \in Nat /\ seq[p[1]].start \in Nat
      BY <3>2, PointsOf
    <3> QED BY <3>1, <3>3
  <2> QED BY <2>1
<1>4. 0 \in T
  OBVIOUS
<1>5. PICK h \in [SUBSET (1 .. n) -> T] : FoldOf(1 .. n, 0, c, G, h)
  <2> HIDE DEF c, G, T, n
  <2> QED BY <1>1, <1>2, <1>3, <1>4, FoldExists
<1>6. ASSUME NEW s \in SUBSET (1 .. n), s # {}
      PROVE  h[s] = h[s \ {Max(s)}] + (seq[Max(s)].end - seq[Max(s)].start)
  <2>1. c[s] = Max(s) /\ Max(s) \in 1 .. n
    BY <1>2, <1>6
  <2> HIDE DEF c
  <2>2. h[s \ {Max(s)}] \in T
    OBVIOUS
  <2>3. G[<<Max(s), h[s \ {Max(s)}]>>] = h[s \ {Max(s)}] + (seq[Max(s)].end - seq[Max(s)].start)
    BY <2>1, <2>2
  <2> HIDE DEF G
  <2> QED BY <1>5, <1>6, <2>1, <2>3 DEF FoldOf
<1>7. h = body(h)
  BY <1>5, <1>6 DEF FoldOf
<1>8. iter = body(iter)
  <2>1. \E g : g = body(g)
    BY <1>7
  <2> QED BY <1>1, <2>1
<1>9. Total(seq) = iter[1 .. n]
  BY <1>1 DEF Total, FoldLeft, MapThenFoldSet
<1> HIDE DEF iter
<1> DEFINE run == [k \in 0 .. n |-> iter[1 .. k]]
<1>10. run[0] = 0
  BY <1>1, <1>8
<1>11. ASSUME NEW k \in 1 .. n PROVE run[k] = run[k - 1] + (seq[k].end - seq[k].start)
  <2>1. Max(1 .. k) = k /\ (1 .. k) \ {k} = 1 .. (k - 1) /\ 1 .. k \in SUBSET (1 .. n) /\ 1 .. k # {}
    BY <1>1, LastIndex
  <2>2. iter[1 .. k] = iter[(1 .. k) \ {Max(1 .. k)}] + (seq[Max(1 .. k)].end - seq[Max(1 .. k)].start)
    BY <1>8, <2>1
  <2>3. k - 1 \in 0 .. n /\ k \in 0 .. n
    BY <1>1
  <2> QED BY <2>1, <2>2, <2>3
<1>12. Total(seq) = run[n]
  BY <1>1, <1>9
<1> HIDE DEF run
<1> QED BY <1>10, <1>11, <1>12 DEF TotalSteps

InFirst(seq, k) == {t \in Nat : TakenBy(seq, k, t)}

LEMMA TotalIs ==
  ASSUME NEW seq, Chain(seq)
  PROVE  IsFiniteSet(Covered(Range(seq))) /\ Total(seq) = Cardinality(Covered(Range(seq)))
<1> DEFINE n == Len(seq)
<1>1. seq \in Seq(Interval) /\ n \in Nat /\ DOMAIN seq = 1 .. n
  BY ChainOf DEF Chain
<1>2. PICK run : TotalSteps(seq, run) /\ Total(seq) = run[n]
  BY <1>1, TotalRun
<1> DEFINE P == {k \in Nat : k <= n => IsFiniteSet(InFirst(seq, k)) /\ run[k] = Cardinality(InFirst(seq, k))}
<1>3. 0 \in P
  <2>1. InFirst(seq, 0) = {}
    BY DEF InFirst, TakenBy
  <2> QED BY <1>2, <2>1, FS_EmptySet DEF TotalSteps
<1>4. ASSUME NEW k \in Nat, k \in P PROVE k + 1 \in P
  <2> SUFFICES ASSUME k + 1 <= n
               PROVE  IsFiniteSet(InFirst(seq, k + 1)) /\ run[k + 1] = Cardinality(InFirst(seq, k + 1))
    OBVIOUS
  <2> DEFINE iv == seq[k + 1]
             old == InFirst(seq, k)
  <2>1. k + 1 \in 1 .. n /\ (k + 1) - 1 = k /\ k <= n /\ \A j \in 1 .. (k + 1) : j \in 1 .. k \/ j = k + 1
    BY <1>1
  <2>2. k + 1 \in 1 .. (k + 1) /\ \A j \in 1 .. k : j \in 1 .. (k + 1) /\ j < k + 1 /\ j \in 1 .. n
    BY <2>1
  <2>3. iv \in Interval /\ iv.start \in Nat /\ iv.end \in Nat /\ iv.start < iv.end
    BY <2>1, ChainOf
  <2>4. IsFiniteSet(old) /\ run[k] = Cardinality(old)
    BY <1>4, <2>1
  <2>5. run[k + 1] = run[(k + 1) - 1] + (iv.end - iv.start)
    BY <1>2, <2>1 DEF TotalSteps
  <2>6. run[k + 1] = Cardinality(old) + (iv.end - iv.start)
    BY <2>1, <2>4, <2>5
  <2>7. IsFiniteSet(Points(iv)) /\ Cardinality(Points(iv)) = iv.end - iv.start
    <3>1. iv.start \in Int /\ iv.end - 1 \in Int /\ ~(iv.start > iv.end - 1)
      BY <2>3
    <3>2. IsFiniteSet(iv.start .. (iv.end - 1)) /\ Cardinality(iv.start .. (iv.end - 1)) = ((iv.end - 1) - iv.start) + 1
      BY <3>1, FS_Interval
    <3> QED BY <2>3, <3>2 DEF Points
  <2>8. old \cap Points(iv) = {}
    <3> SUFFICES ASSUME NEW j \in 1 .. k, NEW t \in Points(seq[j]), t \in Points(iv) PROVE FALSE
      BY DEF InFirst, TakenBy
    <3>1. seq[j].end < iv.start /\ seq[j] \in Interval /\ seq[j].end \in Nat
      BY <2>1, <2>2, ChainOf DEF Chain
    <3>2. t \in Nat /\ t < seq[j].end /\ iv.start <= t
      BY <2>3, <3>1, PointsOf
    <3> QED BY <2>3, <3>1, <3>2
  <2>9. InFirst(seq, k + 1) = old \cup Points(iv)
    <3>1. \A t \in Points(iv) : t \in Nat
      BY <2>3, PointsOf
    <3> QED BY <2>1, <2>2, <3>1 DEF InFirst, TakenBy
  <2> HIDE DEF iv, old
  <2>10. IsFiniteSet(old \cup Points(iv))
         /\ Cardinality(old \cup Points(iv)) = Cardinality(old) + Cardinality(Points(iv)) - Cardinality(old \cap Points(iv))
    BY <2>4, <2>7, FS_Union
  <2>11. Cardinality(old \cap Points(iv)) = 0 /\ Cardinality(old) \in Nat
    BY <2>4, <2>8, FS_EmptySet, FS_CardinalityType
  <2>12. Cardinality(old \cup Points(iv)) = Cardinality(old) + (iv.end - iv.start)
    BY <2>3, <2>7, <2>10, <2>11
  <2> QED BY <2>6, <2>9, <2>10, <2>12
<1> HIDE DEF P
<1>5. n \in P
  BY <1>1, <1>3, <1>4, NatInduct
<1>6. IsFiniteSet(InFirst(seq, n)) /\ run[n] = Cardinality(InFirst(seq, n))
  BY <1>1, <1>5 DEF P
<1>7. InFirst(seq, n) = Covered(Range(seq))
  <2>1. \A t : Within(seq, t) => t \in Nat
    BY ChainOf, PointsOf DEF Within
  <2> QED BY <1>1, <2>1, WithinCovered DEF InFirst, TakenBy, Within
<1> QED BY <1>2, <1>6, <1>7

-----------------------------------------------------------------------------
(* A day has finitely many intervals.                                       *)
LEMMA FinitelyMany ==
  /\ InDay \subseteq Interval
  /\ \A S \in SUBSET InDay : IsFiniteSet(S)
<1> DEFINE D == 0 .. Horizon
           f == [p \in D \X D |-> Span(p[1], p[2])]
<1>1. InDay \subseteq Interval
  BY GapsAssumption DEF InDay, Interval
<1>2. IsFiniteSet(D)
  BY GapsAssumption, FS_Interval
<1>3. IsFiniteSet(D \X D)
  <2> HIDE DEF D
  <2> QED BY <1>2, FS_Product
<1>4. f \in Surjection(D \X D, InDay)
  <2>1. f \in [D \X D -> InDay]
    <3>1. ASSUME NEW p \in D \X D PROVE Span(p[1], p[2]) \in InDay
      BY DEF Span, InDay
    <3> QED BY <3>1
  <2>2. ASSUME NEW iv \in InDay PROVE \E p \in D \X D : f[p] = iv
    <3>1. <<iv.start, iv.end>> \in D \X D
      BY DEF InDay
    <3>2. f[<<iv.start, iv.end>>] = Span(iv.start, iv.end)
      BY <3>1
    <3>3. Span(iv.start, iv.end) = iv
      BY DEF Span, InDay
    <3> QED BY <3>1, <3>2, <3>3
  <2> HIDE DEF f, D
  <2> QED BY <2>1, <2>2 DEF Surjection
<1>5. IsFiniteSet(InDay)
  <2> HIDE DEF f, D
  <2> QED BY <1>3, <1>4, FS_Surjection
<1> QED BY <1>1, <1>5, FS_Subset

(* workingWindowsUTC and the clipped occupation, as unions.                 *)
LEMMA WorkingIs ==
  ASSUME NEW windows, windows \subseteq InDay
  PROVE  Chain(WorkingWindows(windows))
<1> DEFINE S == {w \in windows : NonEmpty(w)}
<1>1. IsFiniteSet(S) /\ S \subseteq Interval /\ \A iv \in S : NonEmpty(iv)
  BY FinitelyMany
<1> HIDE DEF S
<1>2. MergedFrom(S, UnionOf(S))
  BY <1>1, UnionMerges
<1> QED BY <1>2 DEF WorkingWindows, MergedFrom, S

(* What the spans occupy of a window.                                       *)
LEMMA ClipIs ==
  ASSUME NEW taken, taken \subseteq DaySpans, NEW w \in Interval
  PROVE  /\ Clip(taken, w) \subseteq InDay
         /\ \A iv \in Clip(taken, w) : NonEmpty(iv)
         /\ \A t : (\E iv \in Clip(taken, w) : t \in Points(iv)) <=> t \in Points(w) /\ \E v \in taken : t \in Points(v)
<1> DEFINE piece(v) == Span(Later(v.start, w.start), Earlier(v.end, w.end))
<1>1. w.start \in Nat /\ w.end \in Nat /\ Horizon \in Nat
  BY GapsAssumption, PointsOf
<1>2. ASSUME NEW v \in taken
      PROVE  /\ v \in Interval /\ v.start \in 0 .. Horizon /\ v.end \in 0 .. Horizon
             /\ piece(v) \in Interval /\ piece(v).start = Later(v.start, w.start) /\ piece(v).end = Earlier(v.end, w.end)
  <2>1. v \in DaySpans
    OBVIOUS
  <2>2. v \in Interval /\ v.start \in 0 .. Horizon /\ v.end \in 0 .. Horizon
    BY <2>1, SpanInDay DEF DaySpans
  <2>3. Later(v.start, w.start) \in Nat /\ Earlier(v.end, w.end) \in Nat
    BY <1>1, <2>2 DEF Later, Earlier
  <2> QED BY <2>2, <2>3, SpanOf
<1>3. ASSUME NEW v \in taken, NEW t PROVE t \in Points(piece(v)) <=> t \in Points(v) /\ t \in Points(w)
  <2>1. t \in Points(piece(v)) <=> t \in Nat /\ Later(v.start, w.start) <= t /\ t < Earlier(v.end, w.end)
    BY <1>2, PointsOf
  <2>2. t \in Nat => (Later(v.start, w.start) <= t <=> v.start <= t /\ w.start <= t)
                     /\ (t < Earlier(v.end, w.end) <=> t < v.end /\ t < w.end)
    BY <1>1, <1>2 DEF Later, Earlier
  <2>3. t \in Points(v) <=> t \in Nat /\ v.start <= t /\ t < v.end
    BY <1>2, PointsOf
  <2>4. t \in Points(w) <=> t \in Nat /\ w.start <= t /\ t < w.end
    BY PointsOf
  <2> QED BY <2>1, <2>2, <2>3, <2>4
<1>4. \A iv : iv \in Clip(taken, w) <=> NonEmpty(iv) /\ \E v \in taken : iv = piece(v)
  BY DEF Clip
<1>5. ASSUME NEW v \in taken, NonEmpty(piece(v)) PROVE piece(v) \in InDay
  <2>1. Later(v.start, w.start) < Earlier(v.end, w.end)
    BY <1>2, <1>5 DEF NonEmpty
  <2>2. Later(v.start, w.start) \in 0 .. Horizon /\ Earlier(v.end, w.end) \in 0 .. Horizon
    BY <1>1, <1>2, <2>1 DEF Later, Earlier
  <2> QED BY <2>2 DEF Span, InDay
<1>6. ASSUME NEW v \in taken, NEW t \in Points(piece(v)) PROVE NonEmpty(piece(v))
  BY <1>2, PointsOf DEF NonEmpty
<1> HIDE DEF piece
<1>7. Clip(taken, w) \subseteq InDay /\ \A iv \in Clip(taken, w) : NonEmpty(iv)
  BY <1>4, <1>5
<1>8. ASSUME NEW t PROVE (\E iv \in Clip(taken, w) : t \in Points(iv)) <=> t \in Points(w) /\ \E v \in taken : t \in Points(v)
  <2>1. ASSUME NEW iv \in Clip(taken, w), t \in Points(iv) PROVE t \in Points(w) /\ \E v \in taken : t \in Points(v)
    BY <1>3, <1>4, <2>1
  <2>2. ASSUME t \in Points(w), NEW v \in taken, t \in Points(v) PROVE \E iv \in Clip(taken, w) : t \in Points(iv)
    BY <1>3, <1>4, <1>6, <2>2
  <2> QED BY <2>1, <2>2
<1> QED BY <1>7, <1>8

(* ComputeGaps.                                                             *)
DayIs(windows, taken, day) ==
  /\ day.working = WorkingWindows(windows)
  /\ Chain(day.working) /\ Chain(day.occupied) /\ Chain(day.gaps)
  /\ \A t : Within(day.occupied, t) <=> Within(day.working, t) /\ t \in Covered(taken)
  /\ \A t : Within(day.gaps, t) <=> Within(day.working, t) /\ t \notin Covered(taken)
  /\ \A i \in 1 .. Len(day.gaps) : \E j \in 1 .. Len(day.working) : GapIn(day.working[j], day.occupied, day.gaps[i])

LEMMA TimelineIs ==
  ASSUME NEW windows, NEW taken, DayInputs(windows, taken)
  PROVE  DayIs(windows, taken, Timeline(windows, taken))
<1> DEFINE working == WorkingWindows(windows)
           clips == UNION {Clip(taken, w) : w \in Range(working)}
           occupied == UnionOf(clips)
           gaps == GapsOf(working, occupied)
           day == Timeline(windows, taken)
<1>1. day.working = working /\ day.occupied = occupied /\ day.gaps = gaps
  BY DEF Timeline
<1>2. Chain(working)
  BY WorkingIs DEF DayInputs
<1> HIDE DEF working, day
<1>3. /\ DOMAIN working = 1 .. Len(working) /\ \A j \in 1 .. Len(working) : working[j] \in Interval
      /\ \A w : w \in Range(working) <=> \E j \in 1 .. Len(working) : w = working[j]
  BY <1>2, ChainOf, WithinCovered
<1>4. ASSUME NEW w \in Range(working) PROVE w \in Interval
  BY <1>3
<1>5. taken \subseteq DaySpans
  BY DEF DayInputs
<1>6. clips \subseteq InDay /\ \A iv \in clips : NonEmpty(iv)
  <2>1. ASSUME NEW w \in Range(working)
        PROVE  Clip(taken, w) \subseteq InDay /\ \A iv \in Clip(taken, w) : NonEmpty(iv)
    BY <1>4, <1>5, ClipIs
  <2> QED BY <2>1
<1>7. ASSUME NEW t PROVE (\E iv \in clips : t \in Points(iv)) <=> Within(working, t) /\ t \in Covered(taken)
  <2>1. (\E iv \in clips : t \in Points(iv)) <=> \E w \in Range(working) : \E iv \in Clip(taken, w) : t \in Points(iv)
    OBVIOUS
  <2>2. (\E iv \in clips : t \in Points(iv))
          <=> \E w \in Range(working) : t \in Points(w) /\ \E v \in taken : t \in Points(v)
    BY <1>4, <1>5, <2>1, ClipIs
  <2>3. (\E w \in Range(working) : t \in Points(w)) <=> Within(working, t)
    BY <1>3 DEF Within
  <2> QED BY <2>2, <2>3, InCovered
<1>8. IsFiniteSet(clips) /\ clips \subseteq Interval
  BY <1>6, FinitelyMany
<1> HIDE DEF clips
<1>9. MergedFrom(clips, occupied)
  BY <1>6, <1>8, UnionMerges
<1> HIDE DEF occupied
<1>10. Chain(occupied) /\ \A t : Within(occupied, t) <=> Within(working, t) /\ t \in Covered(taken)
  BY <1>7, <1>9 DEF MergedFrom
<1>11. GapsTo(working, occupied, Len(working), gaps)
  BY <1>2, <1>10, GapsOfIs
<1> HIDE DEF gaps
<1>12. ASSUME NEW t PROVE Within(gaps, t) <=> Within(working, t) /\ t \notin Covered(taken)
  <2>1. ASSUME Within(gaps, t) PROVE Within(working, t)
    <3>1. PICK i \in 1 .. Len(gaps) : t \in Points(gaps[i])
      BY <2>1 DEF Within
    <3>2. PICK j \in 1 .. Len(working) : GapIn(working[j], occupied, gaps[i])
      BY <1>11 DEF GapsTo
    <3>3. gaps[i] \in Interval /\ working[j] \in Interval
      BY <1>3, <1>11, ChainOf DEF GapsTo
    <3>4. /\ gaps[i].start \in Nat /\ gaps[i].end \in Nat /\ working[j].start \in Nat /\ working[j].end \in Nat
          /\ t \in Nat /\ gaps[i].start <= t /\ t < gaps[i].end
      BY <3>1, <3>3, PointsOf
    <3>5. working[j].start <= t /\ t < working[j].end
      BY <3>2, <3>4 DEF GapIn
    <3>6. t \in Points(working[j])
      BY <3>3, <3>4, <3>5, PointsOf
    <3> QED BY <3>6 DEF Within
  <2>2. ASSUME Within(working, t) PROVE Within(gaps, t) <=> ~Within(occupied, t)
    <3>1. PICK j \in 1 .. Len(working) : t \in Points(working[j])
      BY <2>2 DEF Within
    <3> QED BY <1>11, <3>1 DEF GapsTo
  <2> QED BY <1>10, <2>1, <2>2
<1>13. Chain(gaps) /\ \A i \in 1 .. Len(gaps) : \E j \in 1 .. Len(working) : GapIn(working[j], occupied, gaps[i])
  BY <1>11 DEF GapsTo
<1>14. DayIs(windows, taken, day)
  BY <1>1, <1>2, <1>10, <1>12, <1>13 DEF DayIs, working
<1> QED BY <1>14 DEF day

LEMMA ChainCovers ==
  ASSUME NEW seq, Chain(seq)
  PROVE  /\ \A t : t \in Covered(Range(seq)) <=> Within(seq, t)
         /\ \A iv : iv \in Range(seq) <=> \E i \in 1 .. Len(seq) : iv = seq[i]
BY ChainOf, WithinCovered

LEMMA DayGaps ==
  ASSUME DayInputs(rawWindows, spans)
  PROVE  GapsAreTheRest
<1> DEFINE day == Timeline(rawWindows, spans)
<1>1. DayIs(rawWindows, spans, day)
  BY TimelineIs
<1> HIDE DEF day
<1>2. Chain(day.gaps) /\ Chain(day.working)
  BY <1>1 DEF DayIs
<1>3. ASSUME NEW t PROVE t \in Covered(Range(day.gaps)) <=> t \in Covered(Range(day.working)) /\ t \notin Covered(spans)
  BY <1>1, <1>2, ChainCovers DEF DayIs
<1>4. Covered(Range(day.gaps)) = Covered(Range(day.working)) \ Covered(spans)
  BY <1>3
<1> QED BY <1>4 DEF GapsAreTheRest, day

LEMMA DayHours ==
  ASSUME DayInputs(rawWindows, spans)
  PROVE  HoursAddUp
<1> DEFINE day == Timeline(rawWindows, spans)
<1>1. DayIs(rawWindows, spans, day)
  BY TimelineIs
<1> HIDE DEF day
<1> DEFINE w == Covered(Range(day.working))
           o == Covered(Range(day.occupied))
           g == Covered(Range(day.gaps))
<1>2. Chain(day.gaps) /\ Chain(day.working) /\ Chain(day.occupied)
  BY <1>1 DEF DayIs
<1>3. ASSUME NEW t PROVE (t \in w <=> t \in o \/ t \in g) /\ ~(t \in o /\ t \in g)
  BY <1>1, <1>2, ChainCovers DEF DayIs
<1>4. w = o \cup g /\ o \cap g = {}
  BY <1>3
<1>5. IsFiniteSet(o) /\ Total(day.occupied) = Cardinality(o)
  BY <1>2, TotalIs
<1>6. IsFiniteSet(g) /\ Total(day.gaps) = Cardinality(g)
  BY <1>2, TotalIs
<1>7. Total(day.working) = Cardinality(w)
  BY <1>2, TotalIs
<1> HIDE DEF w, o, g
<1>8. Cardinality(o \cup g) = Cardinality(o) + Cardinality(g) - Cardinality(o \cap g)
  BY <1>5, <1>6, FS_Union
<1>9. Cardinality(o \cap g) = 0 /\ Cardinality(o) \in Nat /\ Cardinality(g) \in Nat
  BY <1>4, <1>5, <1>6, FS_EmptySet, FS_CardinalityType
<1>10. Total(day.occupied) + Total(day.gaps) = Total(day.working)
  BY <1>4, <1>5, <1>6, <1>7, <1>8, <1>9
<1> QED BY <1>10 DEF HoursAddUp, day

LEMMA DayFilled ==
  ASSUME DayInputs(rawWindows, spans)
  PROVE  FillingOpensNoGap
<1> SUFFICES ASSUME NEW s \in spans, NEW g \in Range(Timeline(rawWindows, spans).gaps)
             PROVE  \E h \in Range(Timeline(rawWindows, spans \ {s}).gaps) : h.start <= g.start /\ g.end <= h.end
  BY DEF FillingOpensNoGap
<1> DEFINE fewer == spans \ {s}
           day == Timeline(rawWindows, spans)
           old == Timeline(rawWindows, fewer)
           working == WorkingWindows(rawWindows)
<1>1. DayIs(rawWindows, spans, day)
  BY TimelineIs
<1>2. DayIs(rawWindows, fewer, old)
  BY TimelineIs DEF DayInputs
<1>3. \A t : t \in Covered(fewer) => t \in Covered(spans)
  BY InCovered
<1>4. g \in Range(day.gaps)
  OBVIOUS
<1> HIDE DEF day, old, working, fewer
<1>5. /\ Chain(working) /\ Chain(day.gaps)
      /\ \A t : Within(day.gaps, t) <=> Within(working, t) /\ t \notin Covered(spans)
      /\ \A i \in 1 .. Len(day.gaps) : \E j \in 1 .. Len(working) : GapIn(working[j], day.occupied, day.gaps[i])
  BY <1>1 DEF DayIs, working
<1>6. /\ Chain(old.gaps) /\ Chain(old.occupied)
      /\ \A t : Within(old.occupied, t) <=> Within(working, t) /\ t \in Covered(fewer)
      /\ \A t : Within(old.gaps, t) <=> Within(working, t) /\ t \notin Covered(fewer)
      /\ \A i \in 1 .. Len(old.gaps) : \E j \in 1 .. Len(working) : GapIn(working[j], old.occupied, old.gaps[i])
  BY <1>2 DEF DayIs, working
<1>7. PICK i \in 1 .. Len(day.gaps) : g = day.gaps[i]
  BY <1>4, <1>5, ChainCovers
<1>8. g \in Interval /\ g.start \in Nat /\ g.end \in Nat /\ g.start < g.end
  BY <1>5, <1>7, ChainOf
<1>9. ASSUME NEW t, t \in Nat, g.start <= t, t < g.end PROVE Within(working, t) /\ t \notin Covered(spans)
  <2>1. t \in Points(g)
    BY <1>8, <1>9, PointsOf
  <2> QED BY <1>5, <1>7, <2>1 DEF Within
<1>10. Within(old.gaps, g.start)
  BY <1>3, <1>6, <1>8, <1>9
<1>11. PICK k \in 1 .. Len(old.gaps) : g.start \in Points(old.gaps[k])
  BY <1>10 DEF Within
<1> DEFINE h == old.gaps[k]
<1>12. h \in Interval /\ h.start \in Nat /\ h.end \in Nat /\ h.start <= g.start /\ g.start < h.end
  BY <1>6, <1>11, ChainOf, PointsOf
<1>13. h \in Range(old.gaps)
  BY <1>6, ChainCovers
<1>14. PICK j \in 1 .. Len(working) : GapIn(working[j], old.occupied, h)
  BY <1>6
<1> HIDE DEF h
<1>15. ASSUME h.end < g.end PROVE FALSE
  <2>1. Within(working, h.end) /\ h.end \notin Covered(spans)
    BY <1>8, <1>9, <1>12, <1>15
  <2>2. CASE h.end = working[j].end
    <3>1. PICK p \in 1 .. Len(working) : h.end \in Points(working[p])
      BY <2>1 DEF Within
    <3>2. /\ working[p].start \in Nat /\ working[p].end \in Nat /\ working[j].start \in Nat /\ working[j].end \in Nat
          /\ working[p].start < working[p].end /\ working[j].start < working[j].end /\ working[p] \in Interval
      BY <1>5, ChainOf
    <3>3. working[p].start <= working[j].end /\ working[j].end < working[p].end
      BY <2>2, <3>1, <3>2, PointsOf
    <3>4. Len(working) \in Nat /\ p \in Nat /\ j \in Nat
      BY <1>5, ChainOf
    <3>5. CASE p < j
      <4>1. working[p].end < working[j].start
        BY <1>5, <3>5 DEF Chain
      <4> QED BY <3>2, <3>3, <4>1
    <3>6. CASE j < p
      <4>1. working[j].end < working[p].start
        BY <1>5, <3>6 DEF Chain
      <4> QED BY <3>2, <3>3, <4>1
    <3>7. CASE p = j
      BY <3>2, <3>3, <3>7
    <3> QED BY <3>4, <3>5, <3>6, <3>7
  <2>3. CASE \E q \in 1 .. Len(old.occupied) : h.end = old.occupied[q].start
    <3>1. PICK q \in 1 .. Len(old.occupied) : h.end = old.occupied[q].start
      BY <2>3
    <3>2. /\ old.occupied[q] \in Interval /\ old.occupied[q].start \in Nat /\ old.occupied[q].end \in Nat
          /\ old.occupied[q].start < old.occupied[q].end
      BY <1>6, ChainOf
    <3>3. h.end \in Points(old.occupied[q])
      BY <3>1, <3>2, PointsOf
    <3>4. h.end \in Covered(fewer)
      BY <1>6, <3>3 DEF Within
    <3> QED BY <1>3, <2>1, <3>4
  <2> QED BY <1>14, <2>2, <2>3 DEF GapIn
<1>16. g.end <= h.end
  BY <1>8, <1>12, <1>15
<1> QED BY <1>12, <1>13, <1>16 DEF old, fewer

-----------------------------------------------------------------------------
(* ComputeGaps leaves exactly the working time nothing occupies             *)
(* (GapsAreTheRest), for a day of any length with any number of windows and *)
(* spans: union, subtract and the loop over the windows lose no instant and *)
(* offer none twice.                                                        *)
THEOREM GapsAreFreeTime == Spec => []GapsAreTheRest
<1>1. DayInv => GapsAreTheRest
  BY DayGaps DEF DayInv
<1> QED BY <1>1, InputsStay, PTL

(* The covered and the gap hours of a day are its expected hours            *)
(* (HoursAddUp): totalHours of intervals that are apart counts instants.    *)
THEOREM HoursOfDayAddUp == Spec => []HoursAddUp
<1>1. DayInv => HoursAddUp
  BY DayHours DEF DayInv
<1> QED BY <1>1, InputsStay, PTL

(* An event or entry more opens no gap (FillingOpensNoGap): a gap reaches   *)
(* to the end of its window or to the next occupied instant, so it lies in  *)
(* one gap of the day before.                                               *)
THEOREM FillingKeepsGaps == Spec => []FillingOpensNoGap
<1>1. DayInv => FillingOpensNoGap
  BY DayFilled DEF DayInv
<1> QED BY <1>1, InputsStay, PTL
=============================================================================
