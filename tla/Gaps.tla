-------------------------------- MODULE Gaps --------------------------------
(***************************************************************************)
(* ComputeGaps of internal/service/gaps.go for one day: the expected       *)
(* working windows, the spans of events and time entries that occupy them, *)
(* and the uncovered gaps that are left.  The inputs of the computation    *)
(* are the state: a day starts with its windows and nothing in it, and     *)
(* spans are added one at a time, in every order.                          *)
(***************************************************************************)
EXTENDS Intervals, FiniteSets, SequencesExt

CONSTANTS
  Horizon,        \* bound: the last instant of the modelled day
  MaxWindows,     \* bound: expected windows of the day
  MaxSpans        \* bound: events and entries on the day

ASSUME GapsAssumption ==
  Horizon \in Nat \ {0} /\ MaxWindows \in Nat \ {0} /\ MaxSpans \in Nat \ {0}

VARIABLES rawWindows, spans

vars == <<rawWindows, spans>>

DaySpans == {iv \in [start : 0 .. Horizon, end : 0 .. Horizon] : NonEmpty(iv)}

(* Mutant: spans are clipped at the start of the window only. *)
ClipStart(ivs, win) ==
  {iv \in {Span(Later(v.start, win.start), v.end) : v \in ivs} : NonEmpty(iv) /\ iv.start < win.end}

(* clip and clipAll: the non-empty parts of the spans inside a window. *)
Clip(ivs, win) ==
  {iv \in {Span(Later(v.start, win.start), Earlier(v.end, win.end)) : v \in ivs} : NonEmpty(iv)}

(* union: from the first to start to the last (in any order where they start *)
(* together, as sort.Slice leaves it), overlapping or touching neighbours   *)
(* merged.                                                                 *)
LastStarting(ivs) == CHOOSE x \in ivs : \A y \in ivs : y.start <= x.start

Merge(merged, iv) ==
  LET n == Len(merged) IN
  IF merged # <<>> /\ iv.start <= merged[n].end
  THEN [merged EXCEPT ![n] = Span(merged[n].start, Later(merged[n].end, iv.end))]
  ELSE Append(merged, iv)

UnionOf(ivs) ==
  MapThenFoldSet(LAMBDA iv, merged : Merge(merged, iv), <<>>, LAMBDA iv : iv, LastStarting, ivs)

(* subtract: walk the occupied spans with a cursor; the rest of win is free. *)
Walk(win, acc, o) ==
  IF o.end < win.start \/ o.start > win.end THEN acc
  ELSE [cursor |-> Later(acc.cursor, o.end),
        out    |-> IF o.start > acc.cursor
                   THEN Append(acc.out, Span(acc.cursor, o.start)) ELSE acc.out]

Walked(win, occupied) ==
  FoldLeft(LAMBDA acc, o : Walk(win, acc, o), [cursor |-> win.start, out |-> <<>>], occupied)

(* Mutants: the gap after the last span is lost; each gap is measured from  *)
(* the start of the window.                                                *)
SubtractFromNoTail(win, occupied) == Walked(win, occupied).out

SubtractFromStart(win, occupied) ==
  LET inside == SelectSeq(occupied, LAMBDA o : o.start > win.start /\ o.start < win.end)
  IN [i \in DOMAIN inside |-> Span(win.start, inside[i].start)]

SubtractFrom(win, occupied) ==
  LET last == Walked(win, occupied)
  IN IF last.cursor < win.end THEN Append(last.out, Span(last.cursor, win.end)) ELSE last.out

(* workingWindowsUTC: the union of the windows that are not empty. *)
WorkingWindows(windows) == UnionOf({w \in windows : NonEmpty(w)})

(* The gaps of one window after those of another. *)
GapsOf(working, occupied) == FoldLeft(LAMBDA out, w : out \o SubtractFrom(w, occupied), <<>>, working)

(* ComputeGaps for the day: the windows, what occupies them, the rest. *)
Timeline(windows, taken) ==
  LET working  == WorkingWindows(windows)
      occupied == UnionOf(UNION {Clip(taken, w) : w \in Range(working)})
  IN [working |-> working, occupied |-> occupied,
      gaps |-> GapsOf(working, occupied)]

(* totalHours, in instants. *)
Total(ivs) == FoldLeft(LAMBDA n, iv : n + (iv.end - iv.start), 0, ivs)

Init ==
  /\ rawWindows \in {Range(ws) : ws \in [1 .. MaxWindows -> [start : 0 .. Horizon, end : 0 .. Horizon]]}
  /\ spans = {}

(* An event or a time entry occupies iv. *)
AddSpan(iv) ==
  /\ Cardinality(spans) < MaxSpans
  /\ iv \notin spans
  /\ spans' = spans \cup {iv}
  /\ UNCHANGED rawWindows

Next == \E iv \in DaySpans : AddSpan(iv)

Spec == Init /\ [][Next]_vars

-----------------------------------------------------------------------------
(* The gaps are exactly the working instants nothing occupies: no covered   *)
(* instant is offered as a gap, and no uncovered one is lost.               *)
GapsAreTheRest ==
  LET day == Timeline(rawWindows, spans)
  IN Covered(Range(day.gaps)) = Covered(Range(day.working)) \ Covered(spans)

(* CoveredHours and GapHours of a day add up to its expected hours, so no   *)
(* instant is counted twice.                                                *)
HoursAddUp ==
  LET day == Timeline(rawWindows, spans) IN Total(day.occupied) + Total(day.gaps) = Total(day.working)

(* Filling time never opens a gap: each gap of a day lies inside a gap of   *)
(* the day with one span fewer.                                             *)
FillingOpensNoGap ==
  LET gaps(taken) == Range(Timeline(rawWindows, taken).gaps)
  IN \A s \in spans : \A g \in gaps(spans) :
       \E h \in gaps(spans \ {s}) : h.start <= g.start /\ g.end <= h.end
=============================================================================
