---------------------------- MODULE MCConfirmFlow ----------------------------
(***************************************************************************)
(* Two days of three instants for ConfirmFlow: a draft within a day, one   *)
(* that ends at midnight, one that crosses it, and entries that meet,      *)
(* cover or lie inside them.                                               *)
(***************************************************************************)
EXTENDS ConfirmFlow, TLC

MCDayLength == 3

MCDraftSpans == {Span(1, 3), Span(0, 5)}

MCUserSpans == {Span(0, 2), Span(2, 3)}

MCCutPoints == {2}

(* What the ledger of a call in progress is reported as, without a least    *)
(* block and on a report of both days.                                     *)
Report == INSTANCE Export WITH
  Categories <- {}, Unassigned <- "none", Keys <- {"none"}, KeyOf <- [c \in {"none"} |-> c],
  DayLength <- MCDayLength, MinBlock <- 0, FirstDate <- 0, LastDate <- 1, Spans <- {},
  ledger <- [i \in EntryIds |->
    IF entries[i] = NoRow THEN NoRow
    ELSE [att |-> entries[i].att, span |-> entries[i].span, category |-> "none"]],
  category <- {}

(* "overnight work is split or attributed by a declared policy, never       *)
(* silently clipped" (timesheet-domain-gap-analysis.md:89): what was        *)
(* confirmed, by whichever policy, is reported whole.                      *)
NeverClipped == Report!NeverClipped

Symmetry == Permutations(EntryIds)
=============================================================================
