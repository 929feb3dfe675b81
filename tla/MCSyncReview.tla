---------------------------- MODULE MCSyncReview ----------------------------
(***************************************************************************)
(* Instances of SyncReview.  A scenario bounds what the calendar may       *)
(* report, what the user types in and how many rows there are; it is       *)
(* chosen once, and every step stays within it.                            *)
(***************************************************************************)
EXTENDS SyncReview, FiniteSets, TLC

VARIABLE scenario

Morning == Span(0, 2)
Shifted == Span(1, 3)

Fact(title, status, span) == [title |-> title, status |-> status, allDay |-> FALSE, span |-> span]

WholeDay == [title |-> "standup", status |-> "accepted", allDay |-> TRUE, span |-> Morning]

MCTitles == {"standup", "retro"}

(* A meeting that moves. *)
MovedFacts == {Fact("standup", "accepted", Morning), Fact("standup", "accepted", Shifted)}

(* A meeting that moves, and becomes an all-day event. *)
ChangedFacts == MovedFacts \cup {WholeDay}

(* A meeting whose invitation is answered this way and that. *)
AnsweredFacts == {Fact("standup", s, Morning) : s \in Statuses}

(* Accepted and undecided, accepted and declined: the same with a second    *)
(* row, for a rejected draft beside the next one.                          *)
UndecidedFacts == {f \in AnsweredFacts : f.status # "declined"}

DeclinedFacts == {f \in AnsweredFacts : f.status # "tentative"}

(* A meeting that is renamed and declined at once, and named back. *)
RenamedFacts == {Fact("standup", "accepted", Morning), Fact("retro", "declined", Morning)}

(* A meeting that does not change, inside and around what the user enters:  *)
(* its drafts are split, confirmed around other entries, and cut out of     *)
(* them.                                                                   *)
FixedFacts == {Fact("standup", "accepted", Shifted)}

AroundSpans == {Span(0, 4), Span(1, 2)}

MCUserSpans == {Span(1, 2)}

MorningSpan == {Morning}

MCFacts == ChangedFacts \cup AnsweredFacts \cup RenamedFacts \cup FixedFacts

AllSpans == MCUserSpans \cup MorningSpan \cup AroundSpans

(* What is left of the meeting and of the typed spans, cut by each other.   *)
CutSpans == AroundSpans \cup {Shifted, Span(0, 1), Span(2, 3), Span(2, 4)}

Scenarios ==
  [changed   |-> [facts |-> ChangedFacts,   rows |-> 1, spans |-> {Span(1, 2), Morning, Shifted}],
   answered  |-> [facts |-> AnsweredFacts,  rows |-> 1, spans |-> MorningSpan],
   undecided |-> [facts |-> UndecidedFacts, rows |-> 2, spans |-> MorningSpan],
   declined  |-> [facts |-> DeclinedFacts,  rows |-> 2, spans |-> MorningSpan],
   renamed   |-> [facts |-> RenamedFacts,   rows |-> 1, spans |-> MorningSpan],
   cut       |-> [facts |-> FixedFacts,     rows |-> 3, spans |-> CutSpans]]

RowsWithin(entries, bound) ==
  /\ Cardinality(RowIds(entries)) <= bound.rows
  /\ \A id \in RowIds(entries) : entries[id].span \in bound.spans

Within ==
  LET bound == Scenarios[scenario] IN
  /\ RowsWithin(db.entries, bound)
  /\ Syncing => /\ \A e \in Events : sync.pull[e] \in bound.facts \cup {NoFact}
                /\ RowsWithin(sync.work.entries, bound)

MCInit == Init /\ scenario \in DOMAIN Scenarios

MCNext == Next /\ UNCHANGED scenario /\ Within'

MCSpec == MCInit /\ [][MCNext]_<<vars, scenario>>

(* Whatever the constants allow. *)
FreeSpec == Init /\ scenario = "free" /\ [][Next /\ UNCHANGED scenario]_<<vars, scenario>>

Symmetry == Permutations(EntryIds)
=============================================================================
