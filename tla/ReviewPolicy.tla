---------------------------- MODULE ReviewPolicy ----------------------------
(***************************************************************************)
(* The tables of one period and what internal/service/review_policy.go     *)
(* does to them: the status and category overlays, the review queue, and   *)
(* the side effects of a decision.  A database d is a record               *)
(*                                                                         *)
(*   event       the stored fact of each event, or NoFact                  *)
(*   categorized the events with a category overlay                        *)
(*   excluded    the events with a status=excluded overlay                 *)
(*   entries     the time_entry table (TimeEntries)                        *)
(*   review      the review item of each event and conflict, or NoItem     *)
(*                                                                         *)
(* A fact is what an event says; its source hash is the fact itself, since *)
(* the hash covers every field of it.  Operators that the code can leave   *)
(* with an error, or that insert rows at fresh ids, give the set of        *)
(* databases they may lead to; no database stands for an error, on which   *)
(* the caller rolls its transaction back.                                  *)
(***************************************************************************)
EXTENDS TimeEntries

CONSTANTS
  Events,      \* event identities: provider, calendar, external and instance id
  Titles,      \* normalized titles
  Facts,       \* bound: the facts a calendar may report
  UserSpans,   \* bound: the spans a user types in
  Manual,      \* the source of an entry that comes from no event
  NoFact,      \* no such event row
  DeletedRev   \* the revision "deleted" of a source_drift item

(* "tentative" also stands for needsAction, which the code treats alike. *)
Statuses == {"accepted", "tentative", "declined"}

ASSUME FactsAssumption ==
  Facts \subseteq [title : Titles, status : Statuses, allDay : BOOLEAN, span : Interval]

ASSUME SpansAssumption == UserSpans \subseteq Interval

ASSUME NullsAssumption == NoFact \notin Facts /\ DeletedRev \notin Facts /\ Manual \notin Events

Revisions == Facts \cup {NoFact, DeletedRev}

Rows == [att : Attestations, src : Events \cup {Manual}, rev : Revisions, span : Interval]

ASSUME NoRowAssumption == NoRow \notin Rows

(* The conflicts of one event: a review kind and what the conflict key     *)
(* adds to the event's identity.                                           *)
NewInGap == <<"new_in_gap", "", "">>
AllDay == <<"all_day", "", "">>
Tentative == <<"tentative", "", "">>
SourceDrift == <<"source_drift", "", "">>
Deleted == <<"deleted_categorized", "deleted", "">>
Declined == <<"deleted_categorized", "declined", "">>
TitleChanged(from, to) == <<"title_changed", from, to>>

Conflicts ==
  {NewInGap, AllDay, Tentative, SourceDrift, Deleted, Declined}
    \cup {TitleChanged(from, to) : from, to \in Titles}

(* ToDecision: the actions a decision of the kind offers. *)
Offered(c) ==
  CASE c \in {Deleted, Declined} -> {"drop_entry", "keep_entry"}
    [] c = NewInGap -> {"use_event", "keep_gap"}
    [] c \in {Tentative, AllDay} -> {"include", "exclude"}
    [] c = SourceDrift -> {"spawn_draft", "replace", "dismiss"}
    [] OTHER -> {"accept", "dismiss"}

Actions ==
  {"", "drop_entry", "keep_entry", "use_event", "keep_gap", "include", "exclude",
   "spawn_draft", "replace", "dismiss", "accept"}

Items == [status : {"none", "open", "decided"}, action : Actions, rev : Revisions]

NoItem == [status |-> "none", action |-> "", rev |-> NoFact]
OpenItem(rev) == [status |-> "open", action |-> "", rev |-> rev]

(* Mutant: the arguments swapped. *)
DecidedSwapped(action) == [status |-> action, action |-> "decided", rev |-> NoFact]

Decided(action) == [status |-> "decided", action |-> action, rev |-> NoFact]

IsOpen(d, e, c) == d.review[e][c].status = "open"

DatabaseType ==
  [event : [Events -> Facts \cup {NoFact}],
   categorized : SUBSET Events,
   excluded : SUBSET Events,
   entries : [EntryIds -> Rows \cup {NoRow}],
   review : [Events -> [Conflicts -> Items]]]

-----------------------------------------------------------------------------
(* The review queue. *)

(* Mutant: an item that exists is opened again. *)
EnqueueAgain(d, e, c) == [d EXCEPT !.review[e][c] = OpenItem(NoFact)]

(* EnqueueOrReplay: an item is created once per conflict key; a decided one *)
(* gives its action back.                                                  *)
Enqueue(d, e, c) ==
  IF d.review[e][c] = NoItem THEN [d EXCEPT !.review[e][c] = OpenItem(NoFact)] ELSE d

PriorDecision(d, e, c) == d.review[e][c].action

(* enqueueSourceDrift: created, refreshed or reopened with a new payload. *)
RaiseDrift(d, e, rev) == [d EXCEPT !.review[e][SourceDrift] = OpenItem(rev)]

-----------------------------------------------------------------------------
(* Overlays and drafts. *)

MarkExcluded(d, e) == [d EXCEPT !.excluded = @ \cup {e}]

DeleteCategoryOverlay(d, e) == [d EXCEPT !.categorized = @ \ {e}]

(* clearAllDayReviewExclusion *)
ClearAllDayExclusion(d, e) ==
  IF d.event[e].allDay THEN [d EXCEPT !.excluded = @ \ {e}] ELSE d

(* linkedCalendarEntries, and the live drafts of partitionLinked. *)
Linked(entries, e) == {id \in RowIds(entries) : entries[id].src = e}

LinkedDrafts(entries, e) == {id \in Linked(entries, e) : entries[id].att = "draft"}

LinkedConfirmed(entries, e) == {id \in Linked(entries, e) : entries[id].att = "confirmed"}

(* Mutant: only drafts count as live. *)
LiveDraftsOnly(entries, e) == LinkedDrafts(entries, e)

(* partitionLinked: the live rows. *)
Live(entries, e) == LinkedDrafts(entries, e) \cup LinkedConfirmed(entries, e)

(* Mutant: the rows are left as they are. *)
DismissNone(d, ids) == d

DismissRows(d, ids) == [d EXCEPT !.entries = Attest(d.entries, ids, "dismissed")]

(* dismissCalendarDraftsForEvent *)
DismissCalendarDrafts(d, e) == DismissRows(d, LinkedDrafts(d.entries, e))

AddRow(d, row) == {[d EXCEPT !.entries = table] : table \in AddRows(d.entries, {row})}

-----------------------------------------------------------------------------
(* shrinkGapFillsForEvent: every row that overlaps the event, whatever its  *)
(* attestation or source, is deleted, trimmed, or cut in two.              *)
ShrinkForEvent(d, event) ==
  LET part(id) == SplitAround(d.entries[id].span, event)
      hit == {id \in RowIds(d.entries) : part(id).overlap # {}}
      gone == {id \in hit : part(id).before = {} /\ part(id).after = {}}
      cut == {id \in hit : part(id).before # {} /\ part(id).after # {}}
      kept(id) == IF part(id).before # {} THEN part(id).before ELSE part(id).after
      trimmed == [id \in EntryIds |->
                    IF id \in gone THEN NoRow
                    ELSE IF id \in hit
                    THEN [d.entries[id] EXCEPT !.span = CHOOSE iv \in kept(id) : TRUE]
                    ELSE d.entries[id]]
      tail(id) == [d.entries[id] EXCEPT !.span = CHOOSE iv \in part(id).after : TRUE]
  IN {[d EXCEPT !.entries = [id \in EntryIds |->
                               IF \E m \in cut : at[m] = id
                               THEN tail(CHOOSE m \in cut : at[m] = id)
                               ELSE trimmed[id]]] :
        at \in Injection(cut, FreeIds(d.entries))}

(* convertEventToManualFill: a confirmed row with the event's span, and no  *)
(* category overlay; an error for an all-day event.                        *)
ConvertToManualFill(d, e) ==
  IF d.event[e].allDay THEN {}
  ELSE {DeleteCategoryOverlay(w, e) :
          w \in AddRow(d, [att |-> "confirmed", src |-> Manual, rev |-> NoFact,
                           span |-> d.event[e].span])}

ApplyDeleted(d, e, action) ==
  LET dismissed == DismissCalendarDrafts(d, e) IN
  CASE action = "keep_entry" -> {MarkExcluded(w, e) : w \in ConvertToManualFill(dismissed, e)}
    [] action = "drop_entry" -> {MarkExcluded(DeleteCategoryOverlay(dismissed, e), e)}
    [] OTHER -> {}

ApplyNewInGap(d, e, action) ==
  CASE action = "keep_gap" -> {MarkExcluded(d, e)}
    [] action = "use_event" /\ ~d.event[e].allDay -> ShrinkForEvent(d, d.event[e].span)
    [] OTHER -> {}

ApplyIncludeExclude(d, e, c, action) ==
  LET uncategorized == DeleteCategoryOverlay(d, e) IN
  CASE action = "include" -> {IF c = AllDay THEN ClearAllDayExclusion(d, e) ELSE d}
    [] action = "exclude" -> {IF c = AllDay THEN ClearAllDayExclusion(uncategorized, e)
                              ELSE MarkExcluded(uncategorized, e)}
    [] OTHER -> {}

(* applySourceDrift: a new draft with the event's span and the revision of  *)
(* the item's payload; spawn and replace differ only in the description.   *)
ApplySourceDrift(d, e, action) ==
  CASE action = "dismiss" -> {d}
    [] action \in {"spawn_draft", "replace"} /\ ~d.event[e].allDay ->
         AddRow(d, [att |-> "draft", src |-> e, rev |-> d.review[e][SourceDrift].rev,
                    span |-> d.event[e].span])
    [] OTHER -> {}

(* The decisions whose side effects read the event's row. *)
ReadsEvent(c, action) ==
  \/ c \in {Deleted, Declined, NewInGap, AllDay}
  \/ c = Tentative /\ action = "exclude"
  \/ c = SourceDrift /\ action # "dismiss"

(* Apply: the side effects of a decision; title_changed has none. *)
Apply(d, e, c, action) ==
  IF action \notin Offered(c) \/ (ReadsEvent(c, action) /\ d.event[e] = NoFact) THEN {}
  ELSE CASE c \in {Deleted, Declined} -> ApplyDeleted(d, e, action)
         [] c = NewInGap -> ApplyNewInGap(d, e, action)
         [] c \in {Tentative, AllDay} -> ApplyIncludeExclude(d, e, c, action)
         [] c = SourceDrift -> ApplySourceDrift(d, e, action)
         [] OTHER -> {d}
-----------------------------------------------------------------------------
(* No review item outlives its event's row (review_item.event_id ON DELETE  *)
(* CASCADE), whether the row is missing from the tables or from a sync.    *)
ItemsHaveEvents(d) ==
  \A e \in Events : d.event[e] = NoFact => \A c \in Conflicts : d.review[e][c] = NoItem

(* A categorized event has no decided drop or keep: both decisions remove   *)
(* the category, and only a new event, which has no items, gets one back.  *)
CategorizedUndecided(d) ==
  \A e \in d.categorized : \A c \in {Deleted, Declined} :
    d.review[e][c].action \notin {"drop_entry", "keep_entry"}
=============================================================================
