--------------------------- MODULE SyncReviewProofs ---------------------------
(***************************************************************************)
(* What holds of SyncReview for every set of events, titles, facts, spans   *)
(* and rows: first what every operation of ReviewPolicy preserves of a      *)
(* database; then SyncInv, that a sync works on the rows it read; then      *)
(* MergeInv and with it all that a sync promises of the user's decisions.   *)
(*                                                                         *)
(* A visit of an event changes the rows, items and overlays of that event  *)
(* alone; so what the visit settles stays settled, and an event not yet     *)
(* visited is as the sync read it.                                         *)
(***************************************************************************)
EXTENDS SyncReview, TimeEntriesProofs

Tables == [EntryIds -> Rows \cup {NoRow}]

(* A database any transaction may leave. *)
DbOK(d) ==
  /\ d \in DatabaseType
  /\ ItemsHaveEvents(d)
  /\ CategorizedUndecided(d)

-----------------------------------------------------------------------------
(* Tables of entries. *)

(* Attesting existing rows of a table gives a table. *)
LEMMA AttestType ==
  ASSUME NEW t \in Tables, NEW ids, ids \subseteq RowIds(t), NEW att \in Attestations
  PROVE  Attest(t, ids, att) \in Tables
BY DEF Tables, Attest, RowIds, Rows

(* Deleting rows of a table gives a table. *)
LEMMA DeleteRowsType ==
  ASSUME NEW t \in Tables, NEW ids
  PROVE  DeleteRows(t, ids) \in Tables
BY DEF Tables, DeleteRows

(* Moving an existing row gives a table. *)
LEMMA WithSpanType ==
  ASSUME NEW t \in Tables, NEW id \in RowIds(t), NEW span \in Interval
  PROVE  WithSpan(t, id, span) \in Tables
BY DEF Tables, WithSpan, RowIds, Rows

(* Inserting rows gives tables. *)
LEMMA AddRowsType ==
  ASSUME NEW t \in Tables, NEW rows, rows \subseteq Rows, NEW u \in AddRows(t, rows)
  PROVE  u \in Tables
BY DEF Tables, AddRows

(* A row is a draft only if it is a row. *)
LEMMA DraftIsRow ==
  ASSUME NEW t \in Tables, NEW id, IsDraft(t, id)
  PROVE  id \in RowIds(t) /\ id \in EntryIds /\ t[id] \in Rows /\ t[id] # NoRow /\ t[id].att = "draft"
BY DEF Tables, IsDraft, WithAttestation, RowIds

(* Replacing a draft by pieces of it gives tables. *)
LEMMA ReplaceByPiecesType ==
  ASSUME NEW t \in Tables, NEW id, IsDraft(t, id), NEW pieces, pieces \subseteq Interval,
         NEW att \in Attestations, NEW u \in ReplaceByPieces(t, id, pieces, att)
  PROVE  u \in Tables
<1> DEFINE rows == {[t[id] EXCEPT !.span = p, !.att = att] : p \in pieces}
<1>1. t[id] \in Rows /\ id \in RowIds(t)
  BY DraftIsRow
<1>2. rows \subseteq Rows
  BY <1>1 DEF Rows
<1>3. PICK v \in AddRows(t, rows) : u = Attest(v, {id}, "dismissed")
  BY DEF ReplaceByPieces
<1>4. v \in Tables
  BY <1>2, <1>3, AddRowsType
<1>5. v[id] = t[id]
  <2>1. id \notin FreeIds(t)
    BY <1>1 DEF FreeIds
  <2>2. PICK at \in Injection(rows, FreeIds(t)) :
          v = [i \in EntryIds |-> IF \E r \in rows : at[r] = i
                                  THEN CHOOSE r \in rows : at[r] = i ELSE t[i]]
    BY <1>3 DEF AddRows
  <2>3. \A r \in rows : at[r] \in FreeIds(t)
    BY <2>2, InjectionRange
  <2>4. ~ \E r \in rows : at[r] = id
    BY <2>1, <2>3
  <2>5. id \in EntryIds
    BY <1>1 DEF RowIds
  <2> QED
    BY <2>2, <2>4, <2>5
<1>6. {id} \subseteq RowIds(v)
  BY <1>1, <1>5 DEF RowIds
<1> QED
  BY <1>3, <1>4, <1>6, AttestType DEF Attestations

-----------------------------------------------------------------------------
(* Databases: what changes one component keeps the others. *)

(* A database with other entries is a database, in as good an order. *)
LEMMA EntriesDb ==
  ASSUME NEW d, DbOK(d), NEW t \in Tables
  PROVE  DbOK([d EXCEPT !.entries = t])
BY DEF DbOK, DatabaseType, Tables, ItemsHaveEvents, CategorizedUndecided

(* So is one with other exclusions, or with fewer categories. *)
LEMMA OverlaysDb ==
  ASSUME NEW d, DbOK(d), NEW e \in Events
  PROVE  /\ DbOK(MarkExcluded(d, e))
         /\ DbOK(DeleteCategoryOverlay(d, e))
         /\ DbOK(ClearAllDayExclusion(d, e))
BY DEF DbOK, DatabaseType, ItemsHaveEvents, CategorizedUndecided,
       MarkExcluded, DeleteCategoryOverlay, ClearAllDayExclusion

(* An item of a stored event may be set, unless it records a drop or keep   *)
(* of a categorized event.                                                 *)
LEMMA ItemDb ==
  ASSUME NEW d, DbOK(d), NEW e \in Events, NEW c \in Conflicts, NEW item \in Items,
         d.event[e] # NoFact,
         (c \in {Deleted, Declined} /\ e \in d.categorized)
           => item.action \notin {"drop_entry", "keep_entry"}
  PROVE  DbOK([d EXCEPT !.review[e][c] = item])
<1> DEFINE n == [d EXCEPT !.review[e][c] = item]
<1>1. n \in DatabaseType
  BY DEF DbOK, DatabaseType
<1>2. n.event = d.event /\ n.categorized = d.categorized
  BY DEF DbOK, DatabaseType
<1>3. \A f \in Events, k \in Conflicts :
        n.review[f][k] = IF f = e /\ k = c THEN item ELSE d.review[f][k]
  BY DEF DbOK, DatabaseType
<1>4. Deleted \in Conflicts /\ Declined \in Conflicts
  BY DEF Conflicts
<1>5. d.categorized \subseteq Events
  BY DEF DbOK, DatabaseType
<1>6. ItemsHaveEvents(n)
  BY <1>2, <1>3 DEF DbOK, ItemsHaveEvents
<1>7. CategorizedUndecided(n)
  BY <1>2, <1>3, <1>4, <1>5 DEF DbOK, CategorizedUndecided
<1> QED
  BY <1>1, <1>6, <1>7 DEF DbOK

(* An open item is an item without an action. *)
LEMMA OpenItemType ==
  ASSUME NEW rev \in Revisions
  PROVE  OpenItem(rev) \in Items /\ OpenItem(rev).action = ""
BY DEF OpenItem, Items, Actions

(* An item of a stored event may be put in the review queue. *)
LEMMA EnqueueDb ==
  ASSUME NEW d, DbOK(d), NEW e \in Events, NEW c \in Conflicts, d.event[e] # NoFact
  PROVE  /\ DbOK(Enqueue(d, e, c))
         /\ Enqueue(d, e, c).event = d.event
         /\ Enqueue(d, e, c).categorized = d.categorized
         /\ Enqueue(d, e, c).excluded = d.excluded
         /\ Enqueue(d, e, c).entries = d.entries
BY OpenItemType, ItemDb DEF Enqueue, Revisions, DbOK, DatabaseType

(* The drift of a stored event may be raised. *)
LEMMA RaiseDriftDb ==
  ASSUME NEW d, DbOK(d), NEW e \in Events, NEW rev \in Revisions, d.event[e] # NoFact
  PROVE  /\ DbOK(RaiseDrift(d, e, rev))
         /\ RaiseDrift(d, e, rev).event = d.event
         /\ RaiseDrift(d, e, rev).categorized = d.categorized
         /\ RaiseDrift(d, e, rev).excluded = d.excluded
         /\ RaiseDrift(d, e, rev).entries = d.entries
<1>1. SourceDrift \in Conflicts
  BY DEF Conflicts
<1> QED
  BY <1>1, OpenItemType, ItemDb DEF RaiseDrift, DbOK, DatabaseType

(* Rows of the table are dismissed. *)
LEMMA DismissRowsDb ==
  ASSUME NEW d, DbOK(d), NEW ids, ids \subseteq RowIds(d.entries)
  PROVE  /\ DbOK(DismissRows(d, ids))
         /\ DismissRows(d, ids).event = d.event
         /\ DismissRows(d, ids).categorized = d.categorized
         /\ DismissRows(d, ids).review = d.review
<1>1. Attest(d.entries, ids, "dismissed") \in Tables
  BY AttestType DEF DbOK, DatabaseType, Tables, Attestations
<1> QED
  BY <1>1, EntriesDb DEF DismissRows, DbOK, DatabaseType

(* The live drafts of an event are dismissed. *)
LEMMA DismissCalendarDraftsDb ==
  ASSUME NEW d, DbOK(d), NEW e
  PROVE  /\ DbOK(DismissCalendarDrafts(d, e))
         /\ DismissCalendarDrafts(d, e).event = d.event
         /\ DismissCalendarDrafts(d, e).categorized = d.categorized
         /\ DismissCalendarDrafts(d, e).review = d.review
BY DismissRowsDb DEF DismissCalendarDrafts, LinkedDrafts, Linked

(* A row is inserted. *)
LEMMA AddRowDb ==
  ASSUME NEW d, DbOK(d), NEW row \in Rows, NEW w \in AddRow(d, row)
  PROVE  /\ DbOK(w)
         /\ w.event = d.event
         /\ w.categorized = d.categorized
         /\ w.review = d.review
<1>1. PICK t \in AddRows(d.entries, {row}) : w = [d EXCEPT !.entries = t]
  BY DEF AddRow
<1>2. t \in Tables
  BY AddRowsType DEF DbOK, DatabaseType, Tables
<1> QED
  BY <1>1, <1>2, EntriesDb DEF DbOK, DatabaseType

-----------------------------------------------------------------------------
(* Splitting an interval around another. *)

(* The parts of a split are intervals. *)
LEMMA SplitAroundType ==
  ASSUME NEW gap \in Interval, NEW event \in Interval
  PROVE  /\ SplitAround(gap, event).before \subseteq Interval
         /\ SplitAround(gap, event).after \subseteq Interval
BY DEF SplitAround, Interval, Span, NonEmpty, Later, Earlier

(* An event that is not all-day has a span. *)
LEMMA FactType ==
  ASSUME NEW d, DbOK(d), NEW e \in Events, d.event[e] # NoFact
  PROVE  d.event[e] \in Facts /\ d.event[e].span \in Interval
BY FactsAssumption DEF DbOK, DatabaseType

(* Shrinking the rows an event overlaps gives databases. *)
LEMMA ShrinkDb ==
  ASSUME NEW d, DbOK(d), NEW event \in Interval, NEW w \in ShrinkForEvent(d, event)
  PROVE  /\ DbOK(w)
         /\ w.event = d.event
         /\ w.categorized = d.categorized
         /\ w.review = d.review
<1> DEFINE part(id) == SplitAround(d.entries[id].span, event)
           hit == {id \in RowIds(d.entries) : part(id).overlap # {}}
           gone == {id \in hit : part(id).before = {} /\ part(id).after = {}}
           cut == {id \in hit : part(id).before # {} /\ part(id).after # {}}
           kept(id) == IF part(id).before # {} THEN part(id).before ELSE part(id).after
           trim(id) == [d.entries[id] EXCEPT !.span = CHOOSE iv \in kept(id) : TRUE]
           trimmed == [id \in EntryIds |-> IF id \in gone THEN NoRow
                                           ELSE IF id \in hit THEN trim(id) ELSE d.entries[id]]
           tail(id) == [d.entries[id] EXCEPT !.span = CHOOSE iv \in part(id).after : TRUE]
<1>1. PICK at \in Injection(cut, FreeIds(d.entries)) :
        w = [d EXCEPT !.entries = [id \in EntryIds |->
               IF \E m \in cut : at[m] = id THEN tail(CHOOSE m \in cut : at[m] = id)
               ELSE trimmed[id]]]
  BY DEF ShrinkForEvent
<1>2. \A id \in hit : /\ d.entries[id] \in Rows
                      /\ part(id).before \subseteq Interval /\ part(id).after \subseteq Interval
  BY SplitAroundType DEF RowIds, DbOK, DatabaseType, Rows
<1>3. \A id \in hit \ gone : trim(id) \in Rows
  <2> TAKE id \in hit \ gone
  <2>1. (CHOOSE iv \in kept(id) : TRUE) \in Interval
    BY <1>2
  <2> HIDE DEF kept
  <2> QED
    BY <1>2, <2>1 DEF Rows
<1>4. \A id \in cut : tail(id) \in Rows
  <2> TAKE id \in cut
  <2>1. (CHOOSE iv \in part(id).after : TRUE) \in Interval
    BY <1>2
  <2> HIDE DEF part
  <2> QED
    BY <1>2, <2>1 DEF Rows
<1> DEFINE table == [id \in EntryIds |->
                      IF \E m \in cut : at[m] = id THEN tail(CHOOSE m \in cut : at[m] = id)
                      ELSE trimmed[id]]
<1>5. table \in Tables
  <2> HIDE DEF gone, hit, cut, trim, tail
  <2>1. trimmed \in Tables
    BY <1>3 DEF Tables, DbOK, DatabaseType
  <2> HIDE DEF trimmed
  <2> QED
    BY <2>1, <1>4 DEF Tables
<1>6. w = [d EXCEPT !.entries = table]
  BY <1>1
<1> HIDE DEF table
<1> QED
  BY <1>5, <1>6, EntriesDb DEF DbOK, DatabaseType

-----------------------------------------------------------------------------
(* Decisions. *)

(* Overlays change nothing but themselves. *)
LEMMA OverlaysFrame ==
  ASSUME NEW d, DbOK(d), NEW e \in Events
  PROVE  /\ MarkExcluded(d, e).event = d.event
         /\ MarkExcluded(d, e).categorized = d.categorized
         /\ MarkExcluded(d, e).review = d.review
         /\ DeleteCategoryOverlay(d, e).event = d.event
         /\ DeleteCategoryOverlay(d, e).categorized = d.categorized \ {e}
         /\ DeleteCategoryOverlay(d, e).review = d.review
         /\ ClearAllDayExclusion(d, e).event = d.event
         /\ ClearAllDayExclusion(d, e).categorized = d.categorized
         /\ ClearAllDayExclusion(d, e).review = d.review
BY DEF DbOK, DatabaseType, MarkExcluded, DeleteCategoryOverlay, ClearAllDayExclusion

(* A decided drop or keep leaves the event without a category. *)
LEMMA ApplyDeletedDb ==
  ASSUME NEW d, DbOK(d), NEW e \in Events, d.event[e] # NoFact, NEW action,
         NEW w \in ApplyDeleted(d, e, action)
  PROVE  DbOK(w) /\ w.event = d.event /\ e \notin w.categorized
<1> DEFINE dismissed == DismissCalendarDrafts(d, e)
<1>1. DbOK(dismissed) /\ dismissed.event = d.event
  BY DismissCalendarDraftsDb
<1>2. CASE action = "keep_entry"
  <2> DEFINE row == [att |-> "confirmed", src |-> Manual, rev |-> NoFact,
                     span |-> dismissed.event[e].span]
  <2>1. PICK v \in ConvertToManualFill(dismissed, e) : w = MarkExcluded(v, e)
    BY <1>2 DEF ApplyDeleted
  <2>2. PICK u \in AddRow(dismissed, row) : v = DeleteCategoryOverlay(u, e)
    BY <2>1 DEF ConvertToManualFill
  <2>3. row \in Rows
    BY <1>1, FactType DEF Rows, Attestations, Revisions
  <2> HIDE DEF row, dismissed
  <2>4. DbOK(u) /\ u.event = d.event
    BY <1>1, <2>2, <2>3, AddRowDb
  <2>5. DbOK(v) /\ v.event = d.event /\ v.categorized = u.categorized \ {e}
    <3>1. DbOK(DeleteCategoryOverlay(u, e))
      BY <2>4, OverlaysDb
    <3>2. /\ DeleteCategoryOverlay(u, e).event = u.event
          /\ DeleteCategoryOverlay(u, e).categorized = u.categorized \ {e}
      BY <2>4, OverlaysFrame
    <3> QED BY <2>2, <2>4, <3>1, <3>2
  <2>6. DbOK(MarkExcluded(v, e))
    BY <2>5, OverlaysDb
  <2>7. MarkExcluded(v, e).event = v.event /\ MarkExcluded(v, e).categorized = v.categorized
    BY <2>5, OverlaysFrame
  <2> QED
    BY <2>1, <2>5, <2>6, <2>7
<1>3. CASE action = "drop_entry"
  <2> HIDE DEF dismissed
  <2>1. w = MarkExcluded(DeleteCategoryOverlay(dismissed, e), e)
    BY <1>3 DEF ApplyDeleted, dismissed
  <2>2. /\ DbOK(DeleteCategoryOverlay(dismissed, e))
        /\ DeleteCategoryOverlay(dismissed, e).event = d.event
        /\ DeleteCategoryOverlay(dismissed, e).categorized = dismissed.categorized \ {e}
    <3>1. DbOK(DeleteCategoryOverlay(dismissed, e))
      BY <1>1, OverlaysDb
    <3>2. /\ DeleteCategoryOverlay(dismissed, e).event = dismissed.event
          /\ DeleteCategoryOverlay(dismissed, e).categorized = dismissed.categorized \ {e}
      BY <1>1, OverlaysFrame
    <3> QED BY <1>1, <3>1, <3>2
  <2> DEFINE bare == DeleteCategoryOverlay(dismissed, e)
  <2> HIDE DEF bare
  <2>3. DbOK(bare) /\ bare.event = d.event /\ e \notin bare.categorized
    BY <2>2 DEF bare
  <2>4. DbOK(MarkExcluded(bare, e))
    BY <2>3, OverlaysDb
  <2>5. MarkExcluded(bare, e).event = bare.event /\ MarkExcluded(bare, e).categorized = bare.categorized
    BY <2>3, OverlaysFrame
  <2>6. w = MarkExcluded(bare, e)
    BY <2>1 DEF bare
  <2> QED
    BY <2>3, <2>4, <2>5, <2>6
<1> QED
  BY <1>2, <1>3 DEF ApplyDeleted

(* Keeping the gap, or giving it to the event, leaves a database. *)
LEMMA ApplyNewInGapDb ==
  ASSUME NEW d, DbOK(d), NEW e \in Events, d.event[e] # NoFact, NEW action,
         NEW w \in ApplyNewInGap(d, e, action)
  PROVE  DbOK(w) /\ w.event = d.event
<1>1. CASE action = "keep_gap"
  BY <1>1, OverlaysDb, OverlaysFrame DEF ApplyNewInGap
<1>2. CASE action = "use_event" /\ ~d.event[e].allDay
  BY <1>2, FactType, ShrinkDb DEF ApplyNewInGap
<1> QED
  BY <1>1, <1>2 DEF ApplyNewInGap

(* Including or excluding an event leaves a database. *)
LEMMA ApplyIncludeExcludeDb ==
  ASSUME NEW d, DbOK(d), NEW e \in Events, NEW c, NEW action,
         NEW w \in ApplyIncludeExclude(d, e, c, action)
  PROVE  DbOK(w) /\ w.event = d.event
<1> DEFINE uncategorized == DeleteCategoryOverlay(d, e)
<1>1. DbOK(uncategorized) /\ uncategorized.event = d.event
  BY OverlaysDb, OverlaysFrame
<1>2. CASE action = "include"
  BY <1>2, OverlaysDb, OverlaysFrame DEF ApplyIncludeExclude
<1>3. CASE action = "exclude"
  <2> HIDE DEF uncategorized
  <2>1. w = ClearAllDayExclusion(uncategorized, e) \/ w = MarkExcluded(uncategorized, e)
    BY <1>3 DEF ApplyIncludeExclude, uncategorized
  <2> QED
    BY <1>1, <2>1, OverlaysDb, OverlaysFrame
<1> QED
  BY <1>2, <1>3 DEF ApplyIncludeExclude

(* Answering a drift leaves a database. *)
LEMMA ApplySourceDriftDb ==
  ASSUME NEW d, DbOK(d), NEW e \in Events, NEW action,
         action = "dismiss" \/ d.event[e] # NoFact,
         NEW w \in ApplySourceDrift(d, e, action)
  PROVE  DbOK(w) /\ w.event = d.event
<1> DEFINE row == [att |-> "draft", src |-> e, rev |-> d.review[e][SourceDrift].rev,
                   span |-> d.event[e].span]
<1>1. CASE action = "dismiss"
  BY <1>1 DEF ApplySourceDrift
<1>2. CASE action # "dismiss" /\ w \in AddRow(d, row)
  <2>0. SourceDrift \in Conflicts
    BY DEF Conflicts
  <2>1. d.review[e][SourceDrift] \in Items
    BY <2>0 DEF DbOK, DatabaseType
  <2>2. row \in Rows
    BY <1>2, <2>1, FactType DEF Rows, Items, Attestations
  <2> QED
    BY <1>2, <2>2, AddRowDb
<1> QED
  BY <1>1, <1>2 DEF ApplySourceDrift

(* The conflicts of an event differ from one another. *)
LEMMA ConflictsDiffer ==
  /\ NewInGap \notin {AllDay, Tentative, SourceDrift, Deleted, Declined}
  /\ AllDay \notin {Tentative, SourceDrift, Deleted, Declined}
  /\ Tentative \notin {SourceDrift, Deleted, Declined}
  /\ SourceDrift \notin {Deleted, Declined}
BY DEF NewInGap, AllDay, Tentative, SourceDrift, Deleted, Declined

(* The side effects of a decision leave a database, never add or remove an  *)
(* event, and take the category away when they drop or keep its entry.     *)
LEMMA ApplyDb ==
  ASSUME NEW d, DbOK(d), NEW e \in Events, NEW c \in Conflicts, NEW action,
         NEW w \in Apply(d, e, c, action)
  PROVE  /\ DbOK(w)
         /\ w.event = d.event
         /\ c \in {Deleted, Declined} => e \notin w.categorized
<1>1. ~(ReadsEvent(c, action) /\ d.event[e] = NoFact) /\ action \in Offered(c)
  BY DEF Apply
<1>2. CASE c \in {Deleted, Declined}
  <2>1. w \in ApplyDeleted(d, e, action)
    BY <1>1, <1>2, ConflictsDiffer DEF Apply
  <2> QED
    BY <1>1, <1>2, <2>1, ApplyDeletedDb DEF ReadsEvent
<1>3. CASE c = NewInGap
  <2>1. w \in ApplyNewInGap(d, e, action)
    BY <1>1, <1>3, ConflictsDiffer DEF Apply
  <2> QED
    BY <1>1, <1>3, <2>1, ApplyNewInGapDb, ConflictsDiffer DEF ReadsEvent
<1>4. CASE c \in {Tentative, AllDay}
  <2>1. w \in ApplyIncludeExclude(d, e, c, action)
    BY <1>1, <1>4, ConflictsDiffer DEF Apply
  <2> QED
    BY <1>4, <2>1, ApplyIncludeExcludeDb, ConflictsDiffer
<1>5. CASE c = SourceDrift
  <2>1. w \in ApplySourceDrift(d, e, action)
    BY <1>1, <1>5, ConflictsDiffer DEF Apply
  <2> QED
    BY <1>1, <1>5, <2>1, ApplySourceDriftDb, ConflictsDiffer DEF ReadsEvent
<1>6. CASE c \notin {Deleted, Declined, NewInGap, Tentative, AllDay, SourceDrift}
  BY <1>1, <1>6 DEF Apply
<1> QED
  BY <1>2, <1>3, <1>4, <1>5, <1>6

-----------------------------------------------------------------------------
(* The part of SnapshotFaithful about one table and one snapshot of it.     *)
SnapOK(entries, snap) ==
  \A id \in EntryIds :
    /\ RowFaithful(snap[id], entries[id])
    /\ db.entries[id] # NoRow => snap[id] = db.entries[id]

-----------------------------------------------------------------------------
(* The user's calls. *)

(* A call that leaves a good database keeps the invariant. *)
LEMMA UserStep ==
  ASSUME SyncInv, sync = NoSync, UNCHANGED sync, DbOK(db')
  PROVE  SyncInv'
BY DEF SyncInv, DbOK, TypeOK, Syncing, SnapshotFaithful, BaseFaithful

(* The database outside a transaction is good. *)
LEMMA DbIsOK ==
  ASSUME SyncInv
  PROVE  DbOK(db) /\ db.entries \in Tables
BY DEF SyncInv, TypeOK, DbOK, DatabaseType, Tables

(* A call that only changes the table of entries keeps the invariant. *)
LEMMA EntriesStep ==
  ASSUME SyncInv, NEW tables, tables \subseteq Tables, EntriesTo(tables)
  PROVE  SyncInv'
<1>1. PICK t \in tables : db' = [db EXCEPT !.entries = t]
  BY DEF EntriesTo, UserTo
<1>2. DbOK(db')
  BY <1>1, DbIsOK, EntriesDb
<1> QED
  BY <1>2, UserStep DEF EntriesTo, UserTo

(* Resolving a decision. *)
LEMMA ResolveStep ==
  ASSUME SyncInv, NEW e \in Events, NEW c \in Conflicts, NEW action \in Offered(c),
         ResolveReviewDecision(e, c, action)
  PROVE  SyncInv'
<1>1. PICK d \in Apply(db, e, c, action) : db' = [d EXCEPT !.review[e][c] = Decided(action)]
  BY DEF ResolveReviewDecision, UserTo
<1>2. db.event[e] # NoFact
  <2>1. db.review[e][c].status = "open"
    BY DEF ResolveReviewDecision, IsOpen
  <2>2. NoItem.status = "none"
    BY DEF NoItem
  <2>3. db.review[e][c] # NoItem
    BY <2>1, <2>2
  <2> QED
    BY <2>3 DEF SyncInv, ItemsHaveEvents
<1>3. DbOK(d) /\ d.event = db.event
      /\ ((c \in {Deleted, Declined} /\ e \in d.categorized)
            => action \notin {"drop_entry", "keep_entry"})
  BY <1>1, <1>2, DbIsOK, ApplyDb
<1>4. Decided(action) \in Items /\ Decided(action).action = action
  BY DEF Decided, Items, Offered, Actions, Revisions
<1>5. DbOK(db')
  <2> HIDE DEF Decided
  <2> QED
    BY <1>1, <1>2, <1>3, <1>4, ItemDb
<1> QED
  BY <1>5, UserStep DEF ResolveReviewDecision, UserTo

(* Excluding an event. *)
LEMMA ExcludeStep ==
  ASSUME SyncInv, NEW e \in Events, ExcludeEvent(e)
  PROVE  SyncInv'
<1> DEFINE un == DeleteCategoryOverlay(db, e)
           dis == DismissCalendarDrafts(un, e)
           ex == MarkExcluded(dis, e)
           closed == [c \in Conflicts |-> IF ex.review[e][c].status = "open" THEN Decided("exclude")
                                          ELSE ex.review[e][c]]
<1>1. DbOK(un) /\ un.event = db.event /\ e \notin un.categorized
  BY DbIsOK, OverlaysDb, OverlaysFrame
<1>2. DbOK(dis) /\ dis.event = db.event /\ e \notin dis.categorized
  <2> HIDE DEF un
  <2> QED
    BY <1>1, DismissCalendarDraftsDb
<1>3. DbOK(ex) /\ ex.event = db.event /\ e \notin ex.categorized
  <2> HIDE DEF dis
  <2> QED
    BY <1>2, OverlaysDb, OverlaysFrame
<1>4. db' = [ex EXCEPT !.review[e] = closed]
  <2>1. ex.review \in [Events -> [Conflicts -> Items]]
    BY <1>3 DEF DbOK, DatabaseType
  <2> HIDE DEF dis
  <2>2. db' = [ex EXCEPT !.review[e] =
                 [c \in Conflicts |-> IF @[c].status = "open" THEN Decided("exclude") ELSE @[c]]]
    BY DEF ExcludeEvent, UserTo, dis
  <2> HIDE DEF ex
  <2> QED
    BY <2>1, <2>2
<1> HIDE DEF ex
<1>5. closed \in [Conflicts -> Items]
  <2>1. ex.review[e] \in [Conflicts -> Items]
    BY <1>3 DEF DbOK, DatabaseType
  <2>2. Decided("exclude") \in Items
    BY DEF Decided, Items, Actions, Revisions
  <2> HIDE DEF Decided
  <2> QED
    BY <2>1, <2>2
<1> HIDE DEF closed
<1>6. db.event[e] # NoFact
  BY DEF ExcludeEvent
<1>7. DbOK(db')
  <2>1. db' \in DatabaseType
    BY <1>3, <1>4, <1>5 DEF DbOK, DatabaseType
  <2>2. /\ db'.event = db.event /\ db'.categorized = ex.categorized
        /\ \A f \in Events \ {e} : db'.review[f] = ex.review[f]
    BY <1>3, <1>4 DEF DbOK, DatabaseType
  <2>3. e \notin db'.categorized /\ db'.categorized \subseteq Events
    BY <1>3, <2>1, <2>2 DEF DatabaseType
  <2>4. ItemsHaveEvents(db')
    BY <1>3, <1>6, <2>2 DEF DbOK, ItemsHaveEvents
  <2>5. CategorizedUndecided(db')
    BY <1>3, <2>2, <2>3 DEF DbOK, CategorizedUndecided
  <2> QED
    BY <2>1, <2>4, <2>5 DEF DbOK
<1> QED
  BY <1>7, UserStep DEF ExcludeEvent, UserTo

(* A row the user asks for, or a draft with the span a user gives an event. *)
LEMMA AddRowStep ==
  ASSUME SyncInv, NEW row \in Rows, UserTo(AddRow(db, row))
  PROVE  SyncInv'
<1>1. PICK w \in AddRow(db, row) : db' = w
  BY DEF UserTo
<1> QED
  BY <1>1, DbIsOK, AddRowDb, UserStep DEF UserTo

(* Confirming a draft, under any resolution. *)
LEMMA ConfirmStep ==
  ASSUME SyncInv, NEW id \in EntryIds, NEW resolution \in Resolutions,
         ConfirmTimeEntry(id, resolution)
  PROVE  SyncInv'
<1> DEFINE t == db.entries
           overlaps == ConfirmedOverlaps(t, id)
           left == Remainders(t[id].span, {t[o].span : o \in overlaps})
<1>1. t \in Tables /\ IsDraft(t, id)
  BY DbIsOK DEF ConfirmTimeEntry
<1>2. id \in RowIds(t) /\ t[id] \in Rows /\ t[id].att = "draft"
  BY <1>1, DraftIsRow
<1>3. Attest(t, {id}, "confirmed") \in Tables /\ Attest(t, {id}, "dismissed") \in Tables
  BY <1>1, <1>2, AttestType DEF Attestations
<1>4. Attest(DeleteRows(t, overlaps), {id}, "confirmed") \in Tables
  <2>1. id \notin overlaps
    BY DEF ConfirmedOverlaps
  <2>2. id \in RowIds(DeleteRows(t, overlaps))
    BY <1>2, <2>1 DEF RowIds, DeleteRows
  <2> QED
    BY <1>1, <2>2, DeleteRowsType, AttestType DEF Attestations
<1>5. ReplaceByPieces(t, id, left, "confirmed") \subseteq Tables
  <2>1. /\ t[id].span \in Interval
        /\ \A o \in overlaps : t[o].span \in Interval
    BY <1>1, <1>2 DEF Tables, Rows, ConfirmedOverlaps, WithAttestation, RowIds
  <2> DEFINE starts == {t[id].span.start} \cup {c.end : c \in {t[o].span : o \in overlaps}}
             ends == {t[id].span.end} \cup {c.start : c \in {t[o].span : o \in overlaps}}
  <2>2. starts \subseteq Nat /\ ends \subseteq Nat
    BY <2>1 DEF Interval
  <2>3. left \subseteq {Span(a, b) : a \in starts, b \in ends}
    BY DEF Remainders
  <2> HIDE DEF starts, ends, left
  <2>4. left \subseteq Interval
    BY <2>2, <2>3 DEF Interval, Span
  <2> HIDE DEF t
  <2> QED
    BY <1>1, <2>4, ReplaceByPiecesType DEF Attestations
<1>6. CASE resolution \in {"", "allow_parallel"}
  <2>1. EntriesTo({Attest(t, {id}, "confirmed")})
    BY <1>6 DEF ConfirmTimeEntry
  <2> QED
    BY <1>3, <2>1, EntriesStep
<1>7. CASE resolution = "keep_theirs"
  <2>1. EntriesTo({Attest(t, {id}, "dismissed")})
    BY <1>7 DEF ConfirmTimeEntry
  <2> QED
    BY <1>3, <2>1, EntriesStep
<1>8. CASE resolution = "keep_mine"
  <2>1. EntriesTo({Attest(DeleteRows(t, overlaps), {id}, "confirmed")})
    BY <1>8 DEF ConfirmTimeEntry
  <2> QED
    BY <1>4, <2>1, EntriesStep
<1>9. CASE resolution = "split"
  <2>1. EntriesTo(ReplaceByPieces(t, id, left, "confirmed"))
    BY <1>9 DEF ConfirmTimeEntry
  <2> QED
    BY <1>5, <2>1, EntriesStep
<1> QED
  BY <1>6, <1>7, <1>8, <1>9 DEF Resolutions

(* A rejected or deleted entry. *)
LEMMA RemoveStep ==
  ASSUME SyncInv, NEW id \in EntryIds, RejectTimeEntry(id) \/ DeleteTimeEntry(id)
  PROVE  SyncInv'
<1>1. db.entries \in Tables
  BY DbIsOK
<1>2. CASE RejectTimeEntry(id)
  <2>1. Attest(db.entries, {id}, "dismissed") \in Tables
    BY <1>1, <1>2, DraftIsRow, AttestType DEF RejectTimeEntry, Attestations
  <2> QED
    BY <1>2, <2>1, EntriesStep DEF RejectTimeEntry
<1>3. CASE DeleteTimeEntry(id)
  <2>1. DeleteRows(db.entries, {id}) \in Tables
    BY <1>1, DeleteRowsType
  <2> QED
    BY <1>3, <2>1, EntriesStep DEF DeleteTimeEntry
<1> QED
  BY <1>2, <1>3

(* An entry the user gives another span, or a draft split at an instant. *)
LEMMA EditStep ==
  ASSUME SyncInv, NEW id \in EntryIds, NEW span \in UserSpans,
         \/ AdjustDraftTimeEntry(id, span)
         \/ UpdateTimeEntry(id, span)
         \/ SplitTimeEntry(id, span.end)
  PROVE  SyncInv'
<1>1. db.entries \in Tables /\ span \in Interval
  BY DbIsOK, SpansAssumption
<1>2. CASE AdjustDraftTimeEntry(id, span)
  <2>1. WithSpan(db.entries, id, span) \in Tables
    BY <1>1, <1>2, DraftIsRow, WithSpanType DEF AdjustDraftTimeEntry
  <2> QED
    BY <1>2, <2>1, EntriesStep DEF AdjustDraftTimeEntry
<1>3. CASE UpdateTimeEntry(id, span)
  <2>1. WithSpan(db.entries, id, span) \in Tables
    BY <1>1, <1>3, WithSpanType DEF UpdateTimeEntry
  <2> QED
    BY <1>3, <2>1, EntriesStep DEF UpdateTimeEntry
<1>4. CASE SplitTimeEntry(id, span.end)
  <2> DEFINE old == db.entries[id].span
             pieces == {Span(old.start, span.end), Span(span.end, old.end)}
  <2>1. IsDraft(db.entries, id) /\ EntriesTo(ReplaceByPieces(db.entries, id, pieces, "draft"))
    BY <1>4 DEF SplitTimeEntry
  <2>2. pieces \subseteq Interval
    BY <1>1, <2>1, DraftIsRow DEF Rows, Interval, Span
  <2> HIDE DEF pieces
  <2>3. ReplaceByPieces(db.entries, id, pieces, "draft") \subseteq Tables
    BY <1>1, <2>1, <2>2, ReplaceByPiecesType DEF Attestations
  <2> QED
    BY <2>1, <2>3, EntriesStep
<1> QED
  BY <1>2, <1>3, <1>4

(* A user's entry, or the interval a user gives an all-day event. *)
LEMMA InsertStep ==
  ASSUME SyncInv, NEW span \in UserSpans,
         CreateTimeEntry(span) \/ (\E e \in Events : ConvertAllDayEvent(e, span))
  PROVE  SyncInv'
<1>1. span \in Interval
  BY SpansAssumption
<1>2. CASE CreateTimeEntry(span)
  <2>1. [att |-> "confirmed", src |-> Manual, rev |-> NoFact, span |-> span] \in Rows
    BY <1>1 DEF Rows, Attestations, Revisions
  <2> QED
    BY <1>2, <2>1, AddRowStep DEF CreateTimeEntry
<1>3. ASSUME NEW e \in Events, ConvertAllDayEvent(e, span)
      PROVE  SyncInv'
  <2>1. db.event[e] \in Facts
    BY <1>3, DbIsOK DEF ConvertAllDayEvent, DbOK, DatabaseType
  <2>2. [att |-> "draft", src |-> e, rev |-> db.event[e], span |-> span] \in Rows
    BY <1>1, <2>1 DEF Rows, Attestations, Revisions
  <2> QED
    BY <1>3, <2>2, AddRowStep DEF ConvertAllDayEvent
<1> QED
  BY <1>2, <1>3

-----------------------------------------------------------------------------
(* Drafts of one event in a sync. *)

(* Live drafts of an event are rows of the table. *)
LEMMA LinkedRows ==
  ASSUME NEW t \in Tables, NEW e
  PROVE  /\ Linked(t, e) \subseteq RowIds(t)
         /\ LinkedDrafts(t, e) \subseteq Linked(t, e)
         /\ LinkedConfirmed(t, e) \subseteq Linked(t, e)
         /\ \A id \in RowIds(t) : id \in EntryIds /\ t[id] \in Rows /\ t[id] # NoRow
BY DEF Tables, Linked, LinkedDrafts, LinkedConfirmed, RowIds

(* A sync dismisses the drafts it read. *)
LEMMA DismissFaithful ==
  ASSUME NEW w, DbOK(w), NEW snap \in Tables, SnapOK(w.entries, snap), NEW e,
         LinkedDrafts(snap, e) \subseteq RowIds(w.entries)
  PROVE  LET d == DismissRows(w, LinkedDrafts(snap, e))
         IN DbOK(d) /\ d.event = w.event /\ SnapOK(d.entries, snap)
<1> DEFINE ids == LinkedDrafts(snap, e)
           table == Attest(w.entries, ids, "dismissed")
<1>1. w.entries \in Tables /\ w \in DatabaseType
  BY DEF DbOK, DatabaseType, Tables
<1>2. \A id \in ids : id \in EntryIds /\ snap[id] # NoRow /\ snap[id].att = "draft"
  BY DEF LinkedDrafts, Linked, RowIds
<1>3. SnapOK(table, snap)
  <2> SUFFICES ASSUME NEW id \in EntryIds
               PROVE  RowFaithful(snap[id], table[id]) /\ (db.entries[id] # NoRow => snap[id] = db.entries[id])
    BY DEF SnapOK
  <2>1. CASE id \in ids
    <3>1. w.entries[id] \in Rows
      BY <1>1, <2>1 DEF Tables, RowIds
    <3>2. table[id] = [w.entries[id] EXCEPT !.att = "dismissed"]
      BY <2>1 DEF Attest
    <3>3. /\ table[id] \in Rows /\ table[id].src = w.entries[id].src
          /\ table[id].att = "dismissed"
      BY <3>1, <3>2 DEF Rows, Attestations
    <3> QED
      BY <1>2, <2>1, <3>1, <3>3, NoRowAssumption DEF SnapOK, RowFaithful
  <2>2. CASE id \notin ids
    <3>1. table[id] = w.entries[id]
      BY <2>2 DEF Attest
    <3> QED
      BY <3>1 DEF SnapOK
  <2> QED
    BY <2>1, <2>2
<1>4. DismissRows(w, ids) = [w EXCEPT !.entries = table]
  BY DEF DismissRows
<1> HIDE DEF ids, table
<1>5. DismissRows(w, ids).entries = table
  BY <1>1, <1>4 DEF DatabaseType
<1>6. DbOK(DismissRows(w, ids)) /\ DismissRows(w, ids).event = w.event
  BY DismissRowsDb DEF ids
<1> QED
  BY <1>3, <1>5, <1>6 DEF ids

(* A sync refreshes the drafts it read. *)
LEMMA RefreshFaithful ==
  ASSUME NEW w, DbOK(w), NEW snap \in Tables, SnapOK(w.entries, snap), NEW e \in Events,
         w.event[e] # NoFact, NEW d \in RefreshDrafts(w, snap, e)
  PROVE  DbOK(d) /\ d.event = w.event /\ SnapOK(d.entries, snap)
<1> DEFINE f == w.event[e]
           stale == {id \in LinkedDrafts(snap, e) : snap[id].rev # f}
           table == [id \in EntryIds |-> IF id \in stale
                                         THEN [w.entries[id] EXCEPT !.span = f.span, !.rev = f]
                                         ELSE w.entries[id]]
<1>1. w.entries \in Tables /\ w \in DatabaseType
  BY DEF DbOK, DatabaseType, Tables
<1>2. f \in Facts /\ f.span \in Interval
  BY FactType
<1>3. stale \subseteq LinkedDrafts(w.entries, e) /\ d = [w EXCEPT !.entries = table]
  BY DEF RefreshDrafts
<1>4. \A id \in stale : id \in EntryIds /\ snap[id] # NoRow /\ snap[id].att = "draft"
  BY DEF LinkedDrafts, Linked, RowIds
<1>5. \A id \in stale : w.entries[id] \in Rows /\ w.entries[id].att = "draft"
  BY <1>1, <1>3 DEF LinkedDrafts, Linked, RowIds, Tables
<1>6. \A id \in stale : /\ table[id] \in Rows
                        /\ table[id].att = "draft" /\ table[id].src = w.entries[id].src
  BY <1>2, <1>4, <1>5 DEF Rows, Revisions
<1>7. \A id \in EntryIds \ stale : table[id] = w.entries[id]
  OBVIOUS
<1>8. table \in Tables
  <2>1. \A id \in EntryIds : table[id] \in Rows \cup {NoRow}
    BY <1>1, <1>6, <1>7 DEF Tables
  <2>2. table = [id \in EntryIds |-> table[id]]
    OBVIOUS
  <2> HIDE DEF table
  <2> QED
    BY <2>1, <2>2 DEF Tables
<1> HIDE DEF table
<1>9. SnapOK(table, snap)
  <2> SUFFICES ASSUME NEW id \in EntryIds
               PROVE  RowFaithful(snap[id], table[id]) /\ (db.entries[id] # NoRow => snap[id] = db.entries[id])
    BY DEF SnapOK
  <2>1. CASE id \in stale
    BY <1>4, <1>5, <1>6, <2>1, NoRowAssumption DEF SnapOK, RowFaithful
  <2>2. CASE id \notin stale
    BY <1>7, <2>2 DEF SnapOK
  <2> QED
    BY <2>1, <2>2
<1> QED
  BY <1>1, <1>3, <1>8, <1>9, EntriesDb DEF DatabaseType

(* A sync moves the revision of the dismissed rows it read. *)
LEMMA BumpFaithful ==
  ASSUME NEW w, DbOK(w), NEW snap \in Tables, SnapOK(w.entries, snap), NEW e \in Events,
         w.event[e] # NoFact,
         LinkedDrafts(snap, e) \cup LinkedConfirmed(snap, e) = {}
  PROVE  LET d == BumpRevisions(w, snap, e)
         IN DbOK(d) /\ d.event = w.event /\ SnapOK(d.entries, snap)
<1> DEFINE f == w.event[e]
           bumped == {id \in Linked(snap, e) : w.entries[id] # NoRow}
           table == [id \in EntryIds |-> IF id \in bumped THEN [w.entries[id] EXCEPT !.rev = f]
                                         ELSE w.entries[id]]
           d == BumpRevisions(w, snap, e)
<1>1. w.entries \in Tables /\ w \in DatabaseType
  BY DEF DbOK, DatabaseType, Tables
<1>2. f \in Revisions
  BY FactType DEF Revisions
<1>3. d = [w EXCEPT !.entries = table]
  BY DEF BumpRevisions
<1>4. \A id \in bumped : /\ id \in EntryIds /\ snap[id] \in Rows /\ snap[id] # NoRow
                         /\ snap[id].att = "dismissed" /\ w.entries[id] \in Rows
  <2> TAKE id \in bumped
  <2>1. id \in EntryIds /\ snap[id] \in Rows /\ snap[id] # NoRow
    BY LinkedRows
  <2>2. id \notin LinkedDrafts(snap, e) /\ id \notin LinkedConfirmed(snap, e) /\ id \in Linked(snap, e)
    OBVIOUS
  <2>3. snap[id].att = "dismissed"
    BY <2>1, <2>2 DEF LinkedDrafts, LinkedConfirmed, Rows, Attestations
  <2>4. w.entries[id] \in Rows
    BY <1>1, <2>1 DEF Tables
  <2> QED
    BY <2>1, <2>3, <2>4
<1>5. \A id \in bumped : w.entries[id] = [snap[id] EXCEPT !.rev = w.entries[id].rev]
  BY <1>4 DEF SnapOK, RowFaithful
<1>6. \A id \in bumped : /\ table[id] \in Rows
                         /\ table[id] = [snap[id] EXCEPT !.rev = f]
                         /\ table[id].rev = f /\ table[id].src = snap[id].src
  <2> TAKE id \in bumped
  <2>1. table[id] = [w.entries[id] EXCEPT !.rev = f]
    BY <1>4
  <2> HIDE DEF f, bumped, table
  <2> QED
    BY ZenonT(40), <1>2, <1>4, <1>5, <2>1 DEF Rows
<1>7. \A id \in EntryIds \ bumped : table[id] = w.entries[id]
  OBVIOUS
<1>8. table \in Tables
  <2>1. \A id \in EntryIds : table[id] \in Rows \cup {NoRow}
    BY <1>1, <1>6, <1>7 DEF Tables
  <2>2. table = [id \in EntryIds |-> table[id]]
    OBVIOUS
  <2> HIDE DEF table
  <2> QED
    BY <2>1, <2>2 DEF Tables
<1> HIDE DEF table
<1>9. SnapOK(table, snap)
  <2> SUFFICES ASSUME NEW id \in EntryIds
               PROVE  RowFaithful(snap[id], table[id]) /\ (db.entries[id] # NoRow => snap[id] = db.entries[id])
    BY DEF SnapOK
  <2>1. CASE id \in bumped
    BY <1>4, <1>6, <2>1, NoRowAssumption DEF SnapOK, RowFaithful
  <2>2. CASE id \notin bumped
    BY <1>7, <2>2 DEF SnapOK
  <2> QED
    BY <2>1, <2>2
<1> HIDE DEF d
<1> QED
  BY <1>1, <1>3, <1>8, <1>9, EntriesDb DEF DatabaseType, d

(* A sync adds a draft at a row that is free in the table and in what it    *)
(* read.                                                                   *)
LEMMA CreateFaithful ==
  ASSUME NEW w, DbOK(w), NEW snap \in Tables, SnapOK(w.entries, snap), NEW e \in Events,
         w.event[e] # NoFact, NEW r \in CreateDraft(w, snap, e)
  PROVE  /\ DbOK(r.work) /\ r.work.event = w.event
         /\ r.snap \in Tables /\ SnapOK(r.work.entries, r.snap)
<1> DEFINE draft == [att |-> "draft", src |-> e, rev |-> w.event[e], span |-> w.event[e].span]
<1>1. PICK id \in FreeIds(w.entries) \cap FreeIds(snap) :
        r = [work |-> [w EXCEPT !.entries[id] = draft], snap |-> [snap EXCEPT ![id] = draft]]
  BY DEF CreateDraft
<1>2. w.entries \in Tables /\ w \in DatabaseType
  BY DEF DbOK, DatabaseType, Tables
<1>3. draft \in Rows /\ draft.att = "draft"
  BY FactType DEF Rows, Attestations, Revisions
<1>4. id \in EntryIds /\ snap[id] = NoRow /\ w.entries[id] = NoRow
  BY DEF FreeIds, RowIds
<1> HIDE DEF draft
<1> DEFINE table == [w.entries EXCEPT ![id] = draft]
           read == [snap EXCEPT ![id] = draft]
<1>5. r.work = [w EXCEPT !.entries = table] /\ r.snap = read
  BY <1>1
<1>6. table \in Tables /\ read \in Tables
  BY <1>2, <1>3, <1>4 DEF Tables
<1>7. SnapOK(table, read)
  <2> SUFFICES ASSUME NEW i \in EntryIds
               PROVE  RowFaithful(read[i], table[i]) /\ (db.entries[i] # NoRow => read[i] = db.entries[i])
    BY DEF SnapOK
  <2>1. CASE i = id
    <3>1. table[i] = draft /\ read[i] = draft /\ draft # NoRow
      BY <1>2, <1>3, <2>1, NoRowAssumption DEF Tables
    <3>2. db.entries[i] = NoRow
      BY <1>4, <2>1 DEF SnapOK
    <3> QED
      BY <1>3, <3>1, <3>2 DEF RowFaithful
  <2>2. CASE i # id
    <3>1. table[i] = w.entries[i] /\ read[i] = snap[i]
      BY <1>2, <2>2 DEF Tables
    <3> QED
      BY <3>1 DEF SnapOK
  <2> QED
    BY <2>1, <2>2
<1> HIDE DEF table, read
<1> QED
  BY <1>2, <1>5, <1>6, <1>7, EntriesDb DEF DatabaseType

(* Whatever a sync does with the drafts of an event, what it read of the    *)
(* entries stays good.                                                     *)
LEMMA MaterializeFaithful ==
  ASSUME NEW w, DbOK(w), NEW snap \in Tables, SnapOK(w.entries, snap), NEW e \in Events,
         w.event[e] # NoFact, NEW material, NEW r \in MaterializeDraft(w, snap, e, material)
  PROVE  /\ DbOK(r.work) /\ r.work.event = w.event
         /\ r.snap \in Tables /\ SnapOK(r.work.entries, r.snap)
<1>1. CASE r = [work |-> w, snap |-> snap]
  BY <1>1
<1>2. CASE /\ LinkedDrafts(snap, e) \subseteq RowIds(w.entries)
           /\ r \in Unsnapped({DismissRows(w, LinkedDrafts(snap, e))}, snap)
  BY <1>2, DismissFaithful DEF Unsnapped
<1>3. CASE r \in Unsnapped(RefreshDrafts(w, snap, e), snap)
  BY <1>3, RefreshFaithful DEF Unsnapped
<1>4. CASE /\ LinkedDrafts(snap, e) \cup LinkedConfirmed(snap, e) = {}
           /\ r \in Unsnapped({BumpRevisions(w, snap, e)}, snap)
  BY <1>4, BumpFaithful DEF Unsnapped
<1>5. CASE r \in CreateDraft(w, snap, e)
  BY <1>5, CreateFaithful
<1> QED
  BY <1>1, <1>2, <1>3, <1>4, <1>5 DEF MaterializeDraft, Live

-----------------------------------------------------------------------------
(* The steps of a sync. *)

(* What the invariant says of a sync. *)
LEMMA SyncFacts ==
  ASSUME SyncInv, Syncing
  PROVE  /\ sync \in SyncType
         /\ DbOK(sync.work) /\ sync.snap \in Tables
         /\ SnapOK(sync.work.entries, sync.snap)
BY DEF SyncInv, TypeOK, Syncing, SyncType, Snapshots, Tables, DbOK, SnapshotFaithful, SnapOK

(* A sync that leaves good tables and a good snapshot, and whose events yet *)
(* to visit are as it read them, keeps the invariant.                      *)
LEMMA WorkStep ==
  ASSUME SyncInv, Syncing, NEW w, DbOK(w), NEW snap \in Tables, SnapOK(w.entries, snap),
         NEW todo, todo \subseteq sync.todo, NEW vanish, vanish \subseteq sync.vanish,
         \A f \in todo \cup vanish : w.event[f] = sync.work.event[f],
         sync' = [work |-> w, base |-> sync.base, pull |-> sync.pull, snap |-> snap,
                  todo |-> todo, vanish |-> vanish],
         UNCHANGED db
  PROVE  SyncInv'
<1>1. sync \in SyncType
  BY SyncFacts
<1>2. /\ sync' \in SyncType /\ sync' # NoSync
      /\ sync'.work = w /\ sync'.snap = snap /\ sync'.todo = todo /\ sync'.vanish = vanish
      /\ sync'.pull = sync.pull /\ sync'.base = sync.base
  <2>1. w \in DatabaseType
    BY DEF DbOK
  <2> QED
    BY <1>1, <2>1, NoSyncAssumption DEF SyncType, Snapshots, Tables
<1>3. TypeOK'
  BY <1>2 DEF SyncInv, TypeOK
<1>4. SnapshotFaithful'
  BY <1>2 DEF SnapshotFaithful, SnapOK
<1>5. BaseFaithful'
  BY <1>2 DEF SyncInv, BaseFaithful, Syncing
<1>6. ItemsHaveEvents(w) /\ CategorizedUndecided(w)
  BY DEF DbOK
<1> QED
  BY <1>2, <1>3, <1>4, <1>5, <1>6 DEF SyncInv, Syncing

(* The upsert of a pulled event, and only of it. *)
LEMMA UpsertOK ==
  ASSUME SyncInv, Syncing, NEW e \in sync.todo
  PROVE  /\ e \in Events
         /\ DbOK(Upserted(e))
         /\ Upserted(e).event[e] \in Facts
         /\ Upserted(e).event[e] # NoFact
         /\ \A f \in Events \ {e} : Upserted(e).event[f] = sync.work.event[f]
         /\ Upserted(e).entries = sync.work.entries
         /\ Upserted(e).review = sync.work.review
<1>1. sync \in SyncType /\ DbOK(sync.work)
  BY SyncFacts
<1>2. e \in Events /\ sync.pull[e] \in Facts /\ sync.pull[e] # NoFact
  BY <1>1 DEF SyncInv, BaseFaithful, SyncType, Pulls
<1>3. sync.work \in DatabaseType
  BY <1>1 DEF DbOK
<1>4. /\ Upserted(e) \in DatabaseType
      /\ Upserted(e).event = [sync.work.event EXCEPT ![e] = sync.pull[e]]
      /\ Upserted(e).entries = sync.work.entries
      /\ Upserted(e).review = sync.work.review
      /\ Upserted(e).categorized = sync.work.categorized
  BY <1>2, <1>3 DEF Upserted, DatabaseType
<1>5. /\ Upserted(e).event[e] = sync.pull[e]
      /\ \A f \in Events \ {e} : Upserted(e).event[f] = sync.work.event[f]
  BY <1>2, <1>3, <1>4 DEF DatabaseType
<1>6. DbOK(Upserted(e))
  BY <1>1, <1>2, <1>4, <1>5 DEF DbOK, ItemsHaveEvents, CategorizedUndecided
<1> QED
  BY <1>2, <1>4, <1>5, <1>6

(* A step that merges a pulled event into good tables. *)
LEMMA MergeStep ==
  ASSUME SyncInv, Syncing, NEW e \in sync.todo, NEW w, DbOK(w), w.event[e] # NoFact,
         w.entries = sync.work.entries,
         \A f \in Events \ {e} : w.event[f] = sync.work.event[f],
         NEW material,
         MergedTo(e, MaterializeDraft(w, sync.snap, e, material)), UNCHANGED db
  PROVE  SyncInv'
<1>1. sync \in SyncType /\ e \in Events
  BY SyncFacts DEF SyncType
<1>2. PICK r \in MaterializeDraft(w, sync.snap, e, material) :
        sync' = [sync EXCEPT !.work = r.work, !.snap = r.snap, !.todo = @ \ {e}]
  BY DEF MergedTo
<1>3. /\ DbOK(r.work) /\ r.work.event = w.event
      /\ r.snap \in Tables /\ SnapOK(r.work.entries, r.snap)
  BY <1>1, SyncFacts, MaterializeFaithful
<1>4. e \notin sync.vanish
  BY <1>1 DEF SyncInv, BaseFaithful
<1>5. sync' = [work |-> r.work, base |-> sync.base, pull |-> sync.pull, snap |-> r.snap,
               todo |-> sync.todo \ {e}, vanish |-> sync.vanish]
  BY <1>1, <1>2 DEF SyncType
<1>6. \A f \in (sync.todo \ {e}) \cup sync.vanish : r.work.event[f] = sync.work.event[f]
  BY <1>1, <1>3, <1>4 DEF SyncType
<1> QED
  BY <1>3, <1>5, <1>6, WorkStep

(* A new event has no items, so nothing is replayed for it: it is at most   *)
(* put in the review queue.                                                *)
LEMMA NewEventCases ==
  ASSUME NEW w, NEW e \in Events, \A c \in Conflicts : w.review[e][c] = NoItem,
         NEW snap, NEW n \in OnNewEvent(w, snap, e)
  PROVE  n.work = w \/ (\E c \in {NewInGap, AllDay, Tentative} : n.work = Enqueue(w, e, c))
<1>0. NoItem.action = ""
  BY DEF NoItem
<1>1. NewInGap \in Conflicts /\ AllDay \in Conflicts /\ Tentative \in Conflicts
  BY DEF Conflicts
<1>2. /\ PriorDecision(w, e, NewInGap) = ""
      /\ PriorDecision(w, e, Tentative) = ""
  BY <1>0, <1>1 DEF PriorDecision
<1>3. /\ PriorDecision(w, e, NewInGap) \notin {"keep_gap", "use_event"}
      /\ PriorDecision(w, e, Tentative) # "exclude"
  BY <1>2
<1>4. \/ OnNewEvent(w, snap, e) = {[work |-> w, skip |-> FALSE]}
      \/ OnNewEvent(w, snap, e) = {[work |-> Enqueue(w, e, NewInGap), skip |-> FALSE]}
      \/ OnNewEvent(w, snap, e) = {[work |-> Enqueue(w, e, AllDay), skip |-> FALSE]}
      \/ OnNewEvent(w, snap, e) = {[work |-> Enqueue(w, e, Tentative), skip |-> FALSE]}
  BY <1>3, Zenon DEF OnNewEvent
<1> QED
  BY <1>4

(* Its items are then without an action. *)
LEMMA NewEventOK ==
  ASSUME NEW w, DbOK(w), NEW e \in Events, w.event[e] # NoFact,
         \A c \in Conflicts : w.review[e][c] = NoItem,
         NEW snap, NEW n \in OnNewEvent(w, snap, e)
  PROVE  /\ DbOK(n.work)
         /\ n.work.event = w.event /\ n.work.entries = w.entries
         /\ \A c \in Conflicts : n.work.review[e][c].action = ""
<1>0. NoItem.action = ""
  BY DEF NoItem
<1>1. NewInGap \in Conflicts /\ AllDay \in Conflicts /\ Tentative \in Conflicts
  BY DEF Conflicts
<1>3. n.work = w \/ (\E c \in {NewInGap, AllDay, Tentative} : n.work = Enqueue(w, e, c))
  BY NewEventCases
<1>4. CASE n.work = w
  BY <1>0, <1>4
<1>5. ASSUME NEW c \in {NewInGap, AllDay, Tentative}, n.work = Enqueue(w, e, c)
      PROVE  /\ DbOK(n.work)
             /\ n.work.event = w.event /\ n.work.entries = w.entries
             /\ \A k \in Conflicts : n.work.review[e][k].action = ""
  <2>1. c \in Conflicts
    BY <1>1
  <2>2. DbOK(n.work) /\ n.work.event = w.event /\ n.work.entries = w.entries
    BY <1>5, <2>1, EnqueueDb
  <2>3. w.review \in [Events -> [Conflicts -> Items]] /\ w \in DatabaseType
    BY DEF DbOK, DatabaseType
  <2>4. n.work.review = [w.review EXCEPT ![e] = [w.review[e] EXCEPT ![c] = OpenItem(NoFact)]]
    BY <1>5, <2>1, <2>3 DEF Enqueue, DatabaseType
  <2>5. \A k \in Conflicts :
          n.work.review[e][k] = IF k = c THEN OpenItem(NoFact) ELSE w.review[e][k]
    BY <2>1, <2>3, <2>4
  <2>6. OpenItem(NoFact).action = "" /\ NoItem.action = ""
    BY DEF OpenItem, NoItem
  <2> QED
    BY <2>2, <2>5, <2>6
<1> QED
  BY <1>3, <1>4, <1>5

(* A new event. *)
LEMMA MergeNewStep ==
  ASSUME SyncInv, NEW e \in Events, MergeNew(e)
  PROVE  SyncInv'
<1>1. Syncing /\ e \in sync.todo /\ sync.base[e] = NoFact /\ UNCHANGED db
  BY DEF MergeNew
<1> DEFINE w == Upserted(e)
<1>2. PICK n \in OnNewEvent(w, sync.snap, e) :
        \E categorized \in {n.work.categorized}
             \cup (IF n.skip THEN {} ELSE {n.work.categorized \cup {e}}) :
          MergedTo(e, MaterializeDraft([n.work EXCEPT !.categorized = categorized], sync.snap, e, FALSE))
  BY DEF MergeNew
<1>3. PICK categorized \in {n.work.categorized, n.work.categorized \cup {e}} :
        MergedTo(e, MaterializeDraft([n.work EXCEPT !.categorized = categorized], sync.snap, e, FALSE))
  BY <1>2
<1>4. \A c \in Conflicts : w.review[e][c] = NoItem
  <2>1. sync.work.event[e] = NoFact
    BY <1>1 DEF SyncInv, BaseFaithful
  <2> QED
    BY <1>1, <2>1, UpsertOK DEF SyncInv, ItemsHaveEvents
<1>5. /\ DbOK(w) /\ w.event[e] # NoFact /\ w.entries = sync.work.entries
      /\ \A f \in Events \ {e} : w.event[f] = sync.work.event[f]
  BY <1>1, UpsertOK
<1> HIDE DEF w
<1>6. /\ DbOK(n.work) /\ n.work.event = w.event /\ n.work.entries = w.entries
      /\ \A c \in Conflicts : n.work.review[e][c].action = ""
  <2>1. w.event[e] # NoFact /\ DbOK(w) /\ e \in Events
    BY <1>5
  <2>2. \A c \in Conflicts : w.review[e][c] = NoItem
    BY <1>4
  <2>3. \A s : \A m \in OnNewEvent(w, s, e) :
          /\ DbOK(m.work)
          /\ m.work.event = w.event /\ m.work.entries = w.entries
          /\ \A c \in Conflicts : m.work.review[e][c].action = ""
    BY <2>1, <2>2, NewEventOK
  <2> QED
    BY <1>2, <2>3
<1> DEFINE v == [n.work EXCEPT !.categorized = categorized]
<1>7. DbOK(v) /\ v.event = w.event /\ v.entries = w.entries
  <2>1. /\ v \in DatabaseType /\ v.event = w.event /\ v.entries = w.entries
        /\ v.categorized = categorized /\ v.review = n.work.review
    BY <1>3, <1>6 DEF DbOK, DatabaseType
  <2>2. ItemsHaveEvents(v)
    BY <1>6, <2>1 DEF DbOK, ItemsHaveEvents
  <2>3. CategorizedUndecided(v)
    <3>1. Deleted \in Conflicts /\ Declined \in Conflicts
      BY DEF Conflicts
    <3> QED
      BY <1>3, <1>6, <2>1, <3>1 DEF DbOK, CategorizedUndecided
  <2> QED
    BY <2>1, <2>2, <2>3 DEF DbOK
<1>8. MergedTo(e, MaterializeDraft(v, sync.snap, e, FALSE))
  BY <1>3
<1> HIDE DEF v
<1> QED
  BY <1>1, <1>5, <1>7, <1>8, MergeStep

(* An event the pull reports as it is stored. *)
LEMMA MergeUnchangedStep ==
  ASSUME SyncInv, NEW e \in Events, MergeUnchanged(e)
  PROVE  SyncInv'
<1>1. /\ Syncing /\ e \in sync.todo /\ sync.base[e] = sync.pull[e] /\ UNCHANGED db
      /\ MergedTo(e, MaterializeDraft(sync.work, sync.snap, e, FALSE))
  BY DEF MergeUnchanged
<1>2. DbOK(sync.work) /\ sync.work.event[e] # NoFact
  BY <1>1, SyncFacts DEF SyncInv, BaseFaithful
<1> QED
  BY <1>1, <1>2, MergeStep

(* The conflicts of a changed event are put in the review queue: its drop,  *)
(* if it was ever decided, took the category away.                         *)
LEMMA ChangedEventCases ==
  ASSUME NEW w, CategorizedUndecided(w), NEW e \in Events, NEW old, NEW snap,
         NEW d \in OnChangedEvent(w, snap, e, old),
         NEW drifted, drifted = OnConfirmedSourceDrift(w, snap, e), CategorizedUndecided(drifted),
         NEW titled, titled = IF drifted.event[e].title # old.title
                              THEN Enqueue(drifted, e, TitleChanged(old.title, drifted.event[e].title))
                              ELSE drifted
  PROVE  \/ d = drifted /\ (drifted.event[e].status = "declined" => e \notin drifted.categorized)
         \/ d = titled /\ drifted.event[e].status # "declined"
         \/ d = Enqueue(titled, e, Declined)
<1>1. \/ d = drifted /\ (w.event[e].status = "declined" => e \notin drifted.categorized)
      \/ e \in drifted.categorized /\ d \in OnChangedCategorized(drifted, e, old)
  BY DEF OnChangedEvent
<1>2. drifted.event = w.event
  BY DEF OnConfirmedSourceDrift, RaiseDrift
<1>3. ASSUME e \in drifted.categorized, d \in OnChangedCategorized(drifted, e, old)
      PROVE  \/ d = titled /\ drifted.event[e].status # "declined"
             \/ d = Enqueue(titled, e, Declined)
  <2>1. PriorDecision(drifted, e, Declined) # "drop_entry"
    BY <1>3 DEF CategorizedUndecided, PriorDecision
  <2> QED
    BY <1>3, <2>1 DEF OnChangedCategorized
<1> QED
  BY <1>1, <1>2, <1>3

(* So it stays in good order. *)
LEMMA ChangedEventOK ==
  ASSUME NEW w, DbOK(w), NEW e \in Events, w.event[e] \in Facts, w.event[e] # NoFact,
         NEW old \in Facts, NEW snap, NEW d \in OnChangedEvent(w, snap, e, old)
  PROVE  DbOK(d) /\ d.event = w.event /\ d.entries = w.entries
<1> DEFINE drifted == OnConfirmedSourceDrift(w, snap, e)
           c == TitleChanged(old.title, drifted.event[e].title)
           titled == IF drifted.event[e].title # old.title THEN Enqueue(drifted, e, c) ELSE drifted
<1>1. DbOK(drifted) /\ drifted.event = w.event /\ drifted.entries = w.entries
  BY RaiseDriftDb DEF OnConfirmedSourceDrift, Revisions
<1>2. c \in Conflicts
  <2> HIDE DEF drifted
  <2>1. old.title \in Titles /\ drifted.event[e].title \in Titles
    BY <1>1, FactsAssumption
  <2> QED
    BY <2>1 DEF Conflicts
<1>3. Declined \in Conflicts
  BY DEF Conflicts
<1>4. d \in {drifted, titled, Enqueue(titled, e, Declined)}
  BY <1>1, ChangedEventCases DEF DbOK
<1> HIDE DEF drifted, c
<1>5. DbOK(titled) /\ titled.event = w.event /\ titled.entries = w.entries
  BY <1>1, <1>2, EnqueueDb
<1> HIDE DEF titled
<1> QED
  BY <1>1, <1>3, <1>4, <1>5, EnqueueDb

(* An event the pull reports changed. *)
LEMMA MergeChangedStep ==
  ASSUME SyncInv, NEW e \in Events, MergeChanged(e)
  PROVE  SyncInv'
<1>1. Syncing /\ e \in sync.todo /\ sync.base[e] # NoFact /\ UNCHANGED db
  BY DEF MergeChanged
<1>2. PICK d \in OnChangedEvent(Upserted(e), sync.snap, e, sync.base[e]) :
        MergedTo(e, MaterializeDraft(d, sync.snap, e, MaterialChange(sync.base[e], sync.pull[e])))
  BY DEF MergeChanged
<1> DEFINE w == Upserted(e)
           old == sync.base[e]
<1>3. /\ DbOK(w) /\ w.event[e] \in Facts /\ w.event[e] # NoFact /\ w.entries = sync.work.entries
      /\ \A f \in Events \ {e} : w.event[f] = sync.work.event[f]
  BY <1>1, UpsertOK
<1>4. old \in Facts
  BY <1>1, SyncFacts DEF SyncType, Pulls
<1>5. d \in OnChangedEvent(w, sync.snap, e, old)
  BY <1>2
<1> HIDE DEF w, old
<1>6. \A s : \A m \in OnChangedEvent(w, s, e, old) :
        DbOK(m) /\ m.event = w.event /\ m.entries = w.entries
  BY <1>3, <1>4, ChangedEventOK
<1>7. DbOK(d) /\ d.event = w.event /\ d.entries = w.entries
  BY <1>5, <1>6
<1> QED
  BY <1>1, <1>2, <1>3, <1>7, MergeStep

(* A stored event the pull no longer has. *)
LEMMA MergeVanishedStep ==
  ASSUME SyncInv, NEW e \in Events, MergeVanished(e)
  PROVE  SyncInv'
<1> DEFINE w == sync.work
<1>1. Syncing /\ sync.todo = {} /\ e \in sync.vanish /\ UNCHANGED db
  BY DEF MergeVanished
<1>2. PICK d \in OnVanished(w, sync.snap, e) :
        sync' = [sync EXCEPT !.work = d, !.vanish = @ \ {e}]
  BY DEF MergeVanished, VanishedTo
<1>3. sync \in SyncType /\ DbOK(w) /\ sync.snap \in Tables /\ SnapOK(w.entries, sync.snap)
  BY <1>1, SyncFacts
<1>4. w.event[e] # NoFact
  BY <1>1 DEF SyncInv, BaseFaithful
<1>5. \/ d = w
      \/ d = Enqueue(w, e, Deleted)
      \/ d = RaiseDrift(w, e, DeletedRev)
      \/ d = DeleteEvent(w, e) /\ e \notin w.categorized
  <2>1. e \in w.categorized => PriorDecision(w, e, Deleted) \notin {"drop_entry", "keep_entry"}
    BY <1>3 DEF DbOK, CategorizedUndecided, PriorDecision
  <2> QED
    BY <1>2, <2>1 DEF OnVanished, OnVanishedCategorized
<1> HIDE DEF w
<1>6. /\ DbOK(d) /\ d.entries = w.entries
      /\ \A f \in Events \ {e} : d.event[f] = w.event[f]
  <2>1. CASE d = w
    BY <1>3, <2>1
  <2>2. CASE d = Enqueue(w, e, Deleted)
    <3>1. Deleted \in Conflicts
      BY DEF Conflicts
    <3> QED
      BY <1>3, <1>4, <2>2, <3>1, EnqueueDb
  <2>3. CASE d = RaiseDrift(w, e, DeletedRev)
    BY <1>3, <1>4, <2>3, RaiseDriftDb DEF Revisions
  <2>4. CASE d = DeleteEvent(w, e) /\ e \notin w.categorized
    <3> DEFINE none == [c \in Conflicts |-> NoItem]
    <3>1. none \in [Conflicts -> Items]
      BY DEF NoItem, Items, Actions, Revisions
    <3>2. w \in DatabaseType
      BY <1>3 DEF DbOK
    <3>3. d = [w EXCEPT !.event = [w.event EXCEPT ![e] = NoFact],
                        !.review = [w.review EXCEPT ![e] = none]]
      BY <2>4 DEF DeleteEvent
    <3> HIDE DEF none
    <3>4. /\ d \in DatabaseType /\ d.entries = w.entries /\ d.categorized = w.categorized
          /\ \A f \in Events \ {e} : d.event[f] = w.event[f] /\ d.review[f] = w.review[f]
          /\ d.review[e] = none
      BY <3>1, <3>2, <3>3 DEF DatabaseType
    <3>5. ItemsHaveEvents(d)
      BY <1>3, <3>4 DEF DbOK, ItemsHaveEvents, none
    <3>6. CategorizedUndecided(d)
      BY <1>3, <2>4, <3>2, <3>4 DEF DbOK, CategorizedUndecided, DatabaseType
    <3> QED
      BY <3>4, <3>5, <3>6 DEF DbOK
  <2> QED
    BY <1>5, <2>1, <2>2, <2>3, <2>4
<1>7. sync' = [work |-> d, base |-> sync.base, pull |-> sync.pull, snap |-> sync.snap,
               todo |-> sync.todo, vanish |-> sync.vanish \ {e}]
  BY <1>2, <1>3 DEF SyncType
<1>8. \A f \in sync.todo \cup (sync.vanish \ {e}) : d.event[f] = sync.work.event[f]
  BY <1>1, <1>3, <1>6 DEF SyncType, w
<1>9. SnapOK(d.entries, sync.snap)
  BY <1>3, <1>6
<1> QED
  BY <1>1, <1>3, <1>6, <1>7, <1>8, <1>9, WorkStep

(* A sync starts from a faithful copy. *)
LEMMA BeginStep ==
  ASSUME SyncInv, NEW pull \in Pulls, SyncBegin(pull)
  PROVE  SyncInv'
<1>1. /\ sync' = [work |-> db, base |-> db.event, pull |-> pull, snap |-> db.entries,
                  todo |-> {e \in Events : pull[e] # NoFact},
                  vanish |-> {e \in Events : db.event[e] # NoFact /\ pull[e] = NoFact}]
      /\ UNCHANGED db
  BY DEF SyncBegin
<1>2. DbOK(db) /\ db.entries \in Tables
  BY DbIsOK
<1>3. sync' \in SyncType
  BY <1>1, <1>2 DEF DbOK, DatabaseType, SyncType, Pulls, Snapshots, Tables
<1>4. SnapOK(db.entries, db.entries)
  <2>1. \A id \in EntryIds : db.entries[id] # NoRow => db.entries[id] \in Rows
    BY <1>2 DEF Tables
  <2>2. \A row \in Rows : row = [row EXCEPT !.rev = row.rev]
    BY DEF Rows
  <2> QED
    BY <2>1, <2>2 DEF SnapOK, RowFaithful
<1>5. SnapshotFaithful'
  BY <1>1, <1>4 DEF SnapshotFaithful, SnapOK
<1>6. BaseFaithful'
  BY <1>1 DEF BaseFaithful
<1>7. TypeOK'
  BY <1>1, <1>2, <1>3 DEF TypeOK, DbOK
<1> QED
  BY <1>1, <1>2, <1>5, <1>6, <1>7 DEF SyncInv, DbOK

(* The end of a sync. *)
LEMMA EndStep ==
  ASSUME SyncInv, SyncCommit \/ SyncAbort
  PROVE  SyncInv'
<1>1. Syncing /\ sync' = NoSync /\ (db' = sync.work \/ db' = db)
  BY DEF SyncCommit, Merged, SyncAbort
<1>2. DbOK(db')
  BY <1>1, SyncFacts, DbIsOK
<1> QED
  BY <1>1, <1>2 DEF SyncInv, DbOK, TypeOK, Syncing, SnapshotFaithful, BaseFaithful

-----------------------------------------------------------------------------
(* The empty tables. *)
LEMMA InitInv ==
  ASSUME Init
  PROVE  SyncInv
<1>1. db \in DatabaseType
  <2>1. NoItem \in Items
    BY DEF NoItem, Items, Actions, Revisions
  <2> QED
    BY <2>1 DEF Init, DatabaseType
<1>2. sync = NoSync
  BY DEF Init
<1>3. ItemsHaveEvents(db) /\ CategorizedUndecided(db)
  BY DEF Init, ItemsHaveEvents, CategorizedUndecided
<1> QED
  BY <1>1, <1>2, <1>3 DEF SyncInv, TypeOK, Syncing, SnapshotFaithful, BaseFaithful

(* Every step keeps the invariant. *)
LEMMA NextInv ==
  ASSUME SyncInv, [Next]_vars
  PROVE  SyncInv'
<1>1. ASSUME NEW pull \in Pulls, SyncBegin(pull) PROVE SyncInv'
  BY <1>1, BeginStep
<1>2. CASE SyncStep
  BY <1>2, MergeNewStep, MergeUnchangedStep, MergeChangedStep, MergeVanishedStep, EndStep DEF SyncStep
<1>3. CASE Decide
  BY <1>3, ResolveStep, ExcludeStep DEF Decide
<1>4. CASE EditEntries
  <2>1. ASSUME NEW id \in EntryIds, NEW resolution \in Resolutions, ConfirmTimeEntry(id, resolution)
        PROVE  SyncInv'
    BY <2>1, ConfirmStep
  <2>2. ASSUME NEW id \in EntryIds, RejectTimeEntry(id) \/ DeleteTimeEntry(id)
        PROVE  SyncInv'
    BY <2>2, RemoveStep
  <2>3. ASSUME NEW id \in EntryIds, NEW span \in UserSpans,
               \/ AdjustDraftTimeEntry(id, span) \/ UpdateTimeEntry(id, span)
               \/ SplitTimeEntry(id, span.end)
        PROVE  SyncInv'
    BY <2>3, EditStep
  <2>4. ASSUME NEW span \in UserSpans,
               CreateTimeEntry(span) \/ (\E e \in Events : ConvertAllDayEvent(e, span))
        PROVE  SyncInv'
    BY <2>4, InsertStep
  <2> QED
    BY <1>4, <2>1, <2>2, <2>3, <2>4 DEF EditEntries
<1>5. CASE UNCHANGED vars
  BY <1>5 DEF vars, SyncInv, TypeOK, Syncing, SnapshotFaithful, BaseFaithful,
             ItemsHaveEvents, CategorizedUndecided, RowFaithful
<1> QED
  BY <1>1, <1>2, <1>3, <1>4, <1>5 DEF Next

(* The invariant holds in every reachable state: no sync works on rows that *)
(* are not what it read of them, no review item outlives its event, and no *)
(* decision is ever replayed.                                              *)
THEOREM SyncInvariant == Spec => []SyncInv
<1>1. Init => SyncInv
  BY InitInv
<1>2. SyncInv /\ [Next]_vars => SyncInv'
  BY NextInv
<1> QED
  BY <1>1, <1>2, PTL DEF Spec

(* Every table and every read of a sync has its type. *)
THEOREM TypeCorrect == Spec => []TypeOK
<1>1. SyncInv => TypeOK
  BY DEF SyncInv
<1> QED
  BY <1>1, SyncInvariant, PTL

(* No sync loses, moves, demotes or promotes an entry the user attested,    *)
(* for any calendar, any reads and any earlier history.                    *)
THEOREM EntriesSurvive == Spec => []RowsSurviveSync
<1>1. SyncInv => RowsSurviveSync
  <2> SUFFICES ASSUME SyncInv, Syncing, NEW id \in RowIds(db.entries)
               PROVE  LET old == db.entries[id]
                          new == sync.work.entries[id]
                      IN /\ new # NoRow
                         /\ new.src = old.src
                         /\ old.att = "confirmed" => new = old
                         /\ old.att = "dismissed" => new = [old EXCEPT !.rev = new.rev]
    BY DEF RowsSurviveSync
  <2>1. id \in EntryIds /\ db.entries[id] # NoRow
    BY DEF RowIds
  <2>2. sync.snap[id] = db.entries[id] /\ RowFaithful(sync.snap[id], sync.work.entries[id])
    BY <2>1 DEF SyncInv, SnapshotFaithful
  <2> QED
    BY <2>1, <2>2 DEF RowFaithful
<1> QED
  BY <1>1, SyncInvariant, PTL

-----------------------------------------------------------------------------
(* Tables that differ in the rows of one event. *)

(* Rows of e may be changed and added; no other row is. *)
OnlyRowsOf(e, old, new) ==
  \A id \in EntryIds :
    \/ new[id] = old[id]
    \/ /\ new[id] # NoRow /\ new[id].src = e
       /\ old[id] # NoRow => old[id].src = e

(* The rows of any other event are the same. *)
LEMMA OtherRowsKept ==
  ASSUME NEW e, NEW old, NEW new, OnlyRowsOf(e, old, new), NEW f, f # e
  PROVE  /\ Linked(new, f) = Linked(old, f)
         /\ LinkedDrafts(new, f) = LinkedDrafts(old, f)
         /\ LinkedConfirmed(new, f) = LinkedConfirmed(old, f)
         /\ Live(new, f) = Live(old, f)
         /\ \A id \in Linked(new, f) : new[id] = old[id]
<1>1. \A id \in EntryIds : new[id] # NoRow /\ new[id].src = f => new[id] = old[id]
  BY DEF OnlyRowsOf
<1>2. \A id \in EntryIds : old[id] # NoRow /\ old[id].src = f => new[id] = old[id]
  BY DEF OnlyRowsOf
<1>3. Linked(new, f) = Linked(old, f)
  BY <1>1, <1>2 DEF Linked, RowIds
<1>4. \A id \in Linked(new, f) : new[id] = old[id]
  BY <1>1 DEF Linked, RowIds
<1> QED
  BY <1>3, <1>4 DEF LinkedDrafts, LinkedConfirmed, Live

(* The rows of an event are those of another table. *)
LEMMA SameRows ==
  ASSUME NEW e, NEW old, NEW new, Linked(new, e) = Linked(old, e),
         \A id \in Linked(new, e) : new[id] = old[id]
  PROVE  /\ LinkedDrafts(new, e) = LinkedDrafts(old, e)
         /\ LinkedConfirmed(new, e) = LinkedConfirmed(old, e)
         /\ Live(new, e) = Live(old, e)
BY DEF LinkedDrafts, LinkedConfirmed, Live

(* A sync sees the rows of the events it read. *)
LEMMA ReadRows ==
  ASSUME NEW entries, NEW snap, SnapOK(entries, snap), NEW e
  PROVE  /\ Linked(snap, e) = Linked(entries, e)
         /\ Linked(db.entries, e) \subseteq Linked(entries, e)
BY DEF SnapOK, RowFaithful, Linked, RowIds

-----------------------------------------------------------------------------
(* What MaterializeDraft does to an event whose rows are as the sync read   *)
(* them.                                                                   *)

SameOverlays(w, d) ==
  /\ d.event = w.event /\ d.review = w.review
  /\ d.categorized = w.categorized /\ d.excluded = w.excluded

Waiting(w, e) == w.event[e].status = "tentative" /\ IsOpen(w, e, Tentative)

ToPropose(w, e) == ~w.event[e].allDay /\ e \notin w.excluded /\ ~Waiting(w, e)

(* The rows of e in new, when they were those of old. *)
RowsSettled(w, e, material, old, new) ==
  /\ OnlyRowsOf(e, old, new)
  /\ ToPropose(w, e) =>
       /\ Linked(new, e) # {}
       /\ \A id \in LinkedDrafts(new, e) : new[id].rev = w.event[e]
       /\ Live(new, e) = {} => \A id \in Linked(new, e) : new[id].rev = w.event[e]
  /\ ~w.event[e].allDay /\ e \in w.excluded => LinkedDrafts(new, e) = {}
  /\ Live(old, e) # {} => LinkedDrafts(new, e) \subseteq LinkedDrafts(old, e)
  /\ Live(old, e) = {} /\ Linked(old, e) # {} /\ ~material => LinkedDrafts(new, e) = {}

(* The hypotheses of the lemmas of this section. *)
Reading(w, snap, e) ==
  /\ DbOK(w) /\ snap \in Tables /\ SnapOK(w.entries, snap)
  /\ e \in Events /\ w.event[e] # NoFact
  /\ \A id \in Linked(w.entries, e) : snap[id] = w.entries[id]

LEMMA ReadingFacts ==
  ASSUME NEW w, NEW snap, NEW e, Reading(w, snap, e)
  PROVE  /\ w \in DatabaseType /\ w.entries \in Tables /\ snap \in Tables
         /\ w.event[e] \in Facts /\ w.event[e] \in Revisions /\ w.event[e].span \in Interval
         /\ Linked(snap, e) = Linked(w.entries, e)
         /\ LinkedDrafts(snap, e) = LinkedDrafts(w.entries, e)
         /\ LinkedConfirmed(snap, e) = LinkedConfirmed(w.entries, e)
         /\ Live(snap, e) = Live(w.entries, e)
<1>1. w \in DatabaseType /\ w.entries \in Tables
  BY DEF Reading, DbOK, DatabaseType, Tables
<1>2. w.event[e] \in Facts /\ w.event[e] \in Revisions /\ w.event[e].span \in Interval
  BY FactType DEF Reading, Revisions
<1>3. Linked(snap, e) = Linked(w.entries, e)
  BY ReadRows DEF Reading
<1> QED
  BY <1>1, <1>2, <1>3, SameRows DEF Reading

(* Rows are left alone: of an event not proposed, nor one to hide. *)
LEMMA KeepSettles ==
  ASSUME NEW w, NEW e, w.event[e].allDay \/ (e \notin w.excluded /\ Waiting(w, e)), NEW material, NEW t
  PROVE  RowsSettled(w, e, material, t, t)
BY DEF RowsSettled, OnlyRowsOf, ToPropose, Live

(* Drafts are dismissed: of an event to hide. *)
LEMMA DismissSettles ==
  ASSUME NEW w, NEW snap, NEW e, Reading(w, snap, e), e \in w.excluded, NEW material,
         NEW d, d = DismissRows(w, LinkedDrafts(snap, e))
  PROVE  SameOverlays(w, d) /\ RowsSettled(w, e, material, w.entries, d.entries)
<1> DEFINE t == w.entries
           ids == LinkedDrafts(t, e)
           u == Attest(t, ids, "dismissed")
<1>1. /\ w \in DatabaseType /\ t \in Tables
      /\ d = [w EXCEPT !.entries = u]
  BY ReadingFacts DEF DismissRows
<1>2. SameOverlays(w, d) /\ d.entries = u
  BY <1>1 DEF SameOverlays, DatabaseType
<1>3. \A id \in ids : id \in EntryIds /\ t[id] # NoRow /\ t[id] \in Rows /\ t[id].src = e
  BY <1>1 DEF LinkedDrafts, Linked, RowIds, Tables
<1>4. \A id \in ids : /\ u[id] \in Rows /\ u[id] # NoRow
                      /\ u[id].src = e /\ u[id].att = "dismissed"
  <2> TAKE id \in ids
  <2>1. u[id] = [t[id] EXCEPT !.att = "dismissed"] /\ t[id] \in Rows /\ t[id].src = e
    BY <1>3 DEF Attest
  <2> HIDE DEF u, t
  <2> QED
    BY <2>1, NoRowAssumption DEF Rows, Attestations
<1>5. \A id \in EntryIds \ ids : u[id] = t[id]
  BY DEF Attest
<1> HIDE DEF u
<1>6. OnlyRowsOf(e, t, u)
  BY <1>3, <1>4, <1>5 DEF OnlyRowsOf
<1>7. LinkedDrafts(u, e) = {}
  BY <1>4, <1>5 DEF LinkedDrafts, Linked, RowIds
<1> QED
  BY <1>2, <1>6, <1>7 DEF RowsSettled, ToPropose

(* Drafts are refreshed: of an event with a live row. *)
LEMMA RefreshSettles ==
  ASSUME NEW w, NEW snap, NEW e, Reading(w, snap, e), e \notin w.excluded,
         Live(snap, e) # {}, NEW material, NEW d \in RefreshDrafts(w, snap, e)
  PROVE  SameOverlays(w, d) /\ RowsSettled(w, e, material, w.entries, d.entries)
<1> DEFINE t == w.entries
           f == w.event[e]
           stale == {id \in LinkedDrafts(snap, e) : snap[id].rev # f}
           u == [id \in EntryIds |-> IF id \in stale THEN [t[id] EXCEPT !.span = f.span, !.rev = f]
                                     ELSE t[id]]
<1>1. /\ w \in DatabaseType /\ t \in Tables /\ f \in Revisions /\ f.span \in Interval
      /\ LinkedDrafts(snap, e) = LinkedDrafts(t, e) /\ Live(snap, e) = Live(t, e)
      /\ d = [w EXCEPT !.entries = u]
  BY ReadingFacts DEF RefreshDrafts
<1>2. SameOverlays(w, d) /\ d.entries = u
  BY <1>1 DEF SameOverlays, DatabaseType
<1>3. \A id \in LinkedDrafts(t, e) :
        /\ id \in EntryIds /\ t[id] # NoRow /\ t[id] \in Rows /\ t[id].src = e
        /\ t[id].att = "draft" /\ snap[id] = t[id]
  BY <1>1 DEF LinkedDrafts, Linked, RowIds, Tables, Reading
<1>4. \A id \in stale : /\ u[id] \in Rows /\ u[id] # NoRow
                        /\ u[id].src = e /\ u[id].att = "draft" /\ u[id].rev = f
  <2> TAKE id \in stale
  <2>1. /\ u[id] = [t[id] EXCEPT !.span = f.span, !.rev = f]
        /\ t[id] \in Rows /\ t[id].src = e /\ t[id].att = "draft"
    BY <1>1, <1>3
  <2> HIDE DEF u, t, f
  <2> QED
    BY <1>1, <2>1, NoRowAssumption DEF Rows
<1>5. \A id \in EntryIds \ stale : u[id] = t[id]
  OBVIOUS
<1>6. stale \subseteq LinkedDrafts(t, e) /\ \A id \in LinkedDrafts(t, e) \ stale : t[id].rev = f
  BY <1>1, <1>3
<1> HIDE DEF u, stale
<1>7. OnlyRowsOf(e, t, u)
  BY <1>3, <1>4, <1>5, <1>6 DEF OnlyRowsOf
<1>8. LinkedDrafts(u, e) = LinkedDrafts(t, e) /\ LinkedConfirmed(u, e) = LinkedConfirmed(t, e)
  <2>1. \A id \in stale : id \in LinkedDrafts(u, e) /\ id \notin LinkedConfirmed(u, e)
                          /\ id \notin LinkedConfirmed(t, e)
    BY <1>3, <1>4, <1>6 DEF LinkedDrafts, LinkedConfirmed, Linked, RowIds
  <2>2. \A id \in EntryIds \ stale : /\ id \in LinkedDrafts(u, e) <=> id \in LinkedDrafts(t, e)
                                     /\ id \in LinkedConfirmed(u, e) <=> id \in LinkedConfirmed(t, e)
    BY <1>5 DEF LinkedDrafts, LinkedConfirmed, Linked, RowIds
  <2>3. \A x, id : id \in LinkedDrafts(x, e) \cup LinkedConfirmed(x, e) => id \in EntryIds
    BY DEF LinkedDrafts, LinkedConfirmed, Linked, RowIds
  <2> QED
    BY <1>6, <2>1, <2>2, <2>3
<1>9. \A id \in LinkedDrafts(u, e) : u[id].rev = f
  BY <1>3, <1>4, <1>5, <1>6, <1>8
<1>10. Live(u, e) # {} /\ Linked(u, e) # {} /\ Live(t, e) # {}
  BY <1>1, <1>8 DEF Live, LinkedDrafts, LinkedConfirmed
<1> QED
  BY <1>2, <1>7, <1>8, <1>9, <1>10 DEF RowsSettled

(* Dismissed rows get the new revision: of an event without a live row. *)
LEMMA BumpSettles ==
  ASSUME NEW w, NEW snap, NEW e, Reading(w, snap, e), e \notin w.excluded,
         Live(snap, e) = {}, Linked(snap, e) # {}, NEW material,
         NEW d, d = BumpRevisions(w, snap, e)
  PROVE  SameOverlays(w, d) /\ RowsSettled(w, e, material, w.entries, d.entries)
<1> DEFINE t == w.entries
           f == w.event[e]
           u == [id \in EntryIds |-> IF id \in Linked(snap, e) /\ t[id] # NoRow
                                     THEN [t[id] EXCEPT !.rev = f] ELSE t[id]]
<1>1. /\ w \in DatabaseType /\ t \in Tables /\ f \in Revisions
      /\ Linked(snap, e) = Linked(t, e) /\ Live(t, e) = {}
      /\ d = [w EXCEPT !.entries = u]
  BY ReadingFacts DEF BumpRevisions
<1>2. SameOverlays(w, d) /\ d.entries = u
  BY <1>1 DEF SameOverlays, DatabaseType
<1>3. \A id \in Linked(t, e) : /\ id \in EntryIds /\ t[id] # NoRow /\ t[id] \in Rows
                               /\ t[id].src = e /\ t[id].att \notin {"draft", "confirmed"}
  BY <1>1 DEF Live, LinkedDrafts, LinkedConfirmed, Linked, RowIds, Tables
<1>4. \A id \in Linked(t, e) : /\ u[id] \in Rows /\ u[id] # NoRow /\ u[id].src = e
                               /\ u[id].att = t[id].att /\ u[id].rev = f
  <2> TAKE id \in Linked(t, e)
  <2>1. u[id] = [t[id] EXCEPT !.rev = f] /\ t[id] \in Rows /\ t[id].src = e
    BY <1>1, <1>3
  <2> HIDE DEF u, t, f
  <2> QED
    BY <1>1, <2>1, NoRowAssumption DEF Rows
<1>5. \A id \in EntryIds \ Linked(t, e) : u[id] = t[id]
  BY <1>1
<1> HIDE DEF u
<1>6. OnlyRowsOf(e, t, u)
  BY <1>3, <1>4, <1>5 DEF OnlyRowsOf
<1>7. Linked(u, e) = Linked(t, e)
  BY <1>3, <1>4, <1>5 DEF Linked, RowIds
<1>8. LinkedDrafts(u, e) = {}
  BY <1>3, <1>4, <1>7 DEF LinkedDrafts
<1> QED
  BY <1>1, <1>2, <1>4, <1>6, <1>7, <1>8 DEF RowsSettled

(* A draft is added: to an event without a live row. *)
LEMMA CreateSettles ==
  ASSUME NEW w, NEW snap, NEW e, Reading(w, snap, e), e \notin w.excluded,
         Live(snap, e) = {}, NEW material, Linked(snap, e) = {} \/ material,
         NEW r \in CreateDraft(w, snap, e)
  PROVE  /\ SameOverlays(w, r.work) /\ RowsSettled(w, e, material, w.entries, r.work.entries)
         /\ OnlyRowsOf(e, snap, r.snap)
<1> DEFINE t == w.entries
           f == w.event[e]
           draft == [att |-> "draft", src |-> e, rev |-> f, span |-> f.span]
<1>1. /\ w \in DatabaseType /\ t \in Tables /\ snap \in Tables
      /\ f \in Revisions /\ f.span \in Interval /\ Live(t, e) = {}
      /\ Linked(snap, e) = Linked(t, e)
  BY ReadingFacts
<1>2. PICK id \in FreeIds(t) \cap FreeIds(snap) :
        r = [work |-> [w EXCEPT !.entries[id] = draft], snap |-> [snap EXCEPT ![id] = draft]]
  BY DEF CreateDraft
<1>3. id \in EntryIds /\ t[id] = NoRow /\ snap[id] = NoRow
  BY <1>2 DEF FreeIds, RowIds
<1>4. draft \in Rows /\ draft # NoRow /\ draft.src = e /\ draft.att = "draft" /\ draft.rev = f
  <2>1. draft \in Rows
    BY <1>1 DEF Rows, Attestations, Reading
  <2> QED
    BY <2>1, NoRowAssumption
<1> HIDE DEF draft
<1> DEFINE u == [t EXCEPT ![id] = draft]
<1>5. SameOverlays(w, r.work) /\ r.work.entries = u
  BY <1>1, <1>2 DEF SameOverlays, DatabaseType
<1>6. u[id] = draft /\ \A i \in EntryIds \ {id} : u[i] = t[i]
  BY <1>1, <1>3 DEF Tables
<1>7. OnlyRowsOf(e, t, u)
  BY <1>3, <1>4, <1>6 DEF OnlyRowsOf
<1>8. OnlyRowsOf(e, snap, r.snap)
  BY <1>1, <1>2, <1>3, <1>4 DEF OnlyRowsOf, Tables
<1> HIDE DEF u
<1>9. id \in LinkedDrafts(u, e)
  BY <1>3, <1>4, <1>6 DEF LinkedDrafts, Linked, RowIds
<1>10. \A i \in LinkedDrafts(u, e) : i = id
  BY <1>1, <1>6 DEF Live, LinkedDrafts, Linked, RowIds
<1>11. Linked(u, e) # {} /\ Live(u, e) # {}
  BY <1>9 DEF LinkedDrafts, Live
<1> QED
  BY <1>1, <1>4, <1>5, <1>6, <1>7, <1>8, <1>10, <1>11 DEF RowsSettled, ToPropose

(* Whatever MaterializeDraft decides, the rows of the event are settled. *)
LEMMA MaterializeSettles ==
  ASSUME NEW w, NEW snap, NEW e, Reading(w, snap, e), NEW material,
         NEW r \in MaterializeDraft(w, snap, e, material)
  PROVE  /\ SameOverlays(w, r.work) /\ RowsSettled(w, e, material, w.entries, r.work.entries)
         /\ OnlyRowsOf(e, snap, r.snap)
<1>0. OnlyRowsOf(e, snap, snap) /\ SameOverlays(w, w)
  BY DEF OnlyRowsOf, SameOverlays
<1>1. CASE /\ w.event[e].allDay \/ (e \notin w.excluded /\ Waiting(w, e))
           /\ r = [work |-> w, snap |-> snap]
  BY <1>0, <1>1, KeepSettles
<1>2. CASE e \in w.excluded /\ r = [work |-> DismissRows(w, LinkedDrafts(snap, e)), snap |-> snap]
  BY <1>0, <1>2, DismissSettles
<1>3. CASE e \notin w.excluded /\ Live(snap, e) # {} /\ r \in Unsnapped(RefreshDrafts(w, snap, e), snap)
  BY <1>0, <1>3, RefreshSettles DEF Unsnapped
<1>4. CASE /\ e \notin w.excluded /\ Live(snap, e) = {} /\ Linked(snap, e) # {}
           /\ r = [work |-> BumpRevisions(w, snap, e), snap |-> snap]
  BY <1>0, <1>4, BumpSettles
<1>5. CASE /\ e \notin w.excluded /\ Live(snap, e) = {} /\ (Linked(snap, e) = {} \/ material)
           /\ r \in CreateDraft(w, snap, e)
  BY <1>5, CreateSettles
<1> QED
  BY <1>1, <1>2, <1>3, <1>4, <1>5 DEF MaterializeDraft, Unsnapped, Waiting

-----------------------------------------------------------------------------
(* What a sync does to the review items of an event: it opens some. *)

ItemsGrow(w, d, e) ==
  /\ d.event = w.event /\ d.categorized = w.categorized
  /\ d.excluded = w.excluded /\ d.entries = w.entries
  /\ \A f \in Events \ {e} : d.review[f] = w.review[f]
  /\ \A c \in Conflicts :
       w.review[e][c].status # "none" =>
         d.review[e][c] = w.review[e][c] \/ (c = SourceDrift /\ d.review[e][c].status = "open")

(* An item put in the queue. *)
LEMMA EnqueueGrows ==
  ASSUME NEW w \in DatabaseType, NEW e \in Events, NEW c \in Conflicts
  PROVE  /\ ItemsGrow(w, Enqueue(w, e, c), e)
         /\ Enqueue(w, e, c).review[e][c] # NoItem
         /\ \A k \in Conflicts \ {c} : Enqueue(w, e, c).review[e][k] = w.review[e][k]
<1> DEFINE d == [w EXCEPT !.review[e][c] = OpenItem(NoFact)]
<1>1. NoItem.status = "none" /\ OpenItem(NoFact) # NoItem
  BY DEF NoItem, OpenItem
<1>2. /\ d.event = w.event /\ d.categorized = w.categorized
      /\ d.excluded = w.excluded /\ d.entries = w.entries
      /\ \A f \in Events \ {e} : d.review[f] = w.review[f]
      /\ \A k \in Conflicts \ {c} : d.review[e][k] = w.review[e][k]
      /\ d.review[e][c] = OpenItem(NoFact)
  BY DEF DatabaseType
<1>3. Enqueue(w, e, c) = IF w.review[e][c] = NoItem THEN d ELSE w
  BY DEF Enqueue
<1> HIDE DEF d
<1>4. CASE w.review[e][c] = NoItem
  BY <1>1, <1>2, <1>3, <1>4 DEF ItemsGrow
<1>5. CASE w.review[e][c] # NoItem
  BY <1>3, <1>5 DEF ItemsGrow
<1> QED
  BY <1>4, <1>5

(* A drift raised. *)
LEMMA RaiseDriftGrows ==
  ASSUME NEW w \in DatabaseType, NEW e \in Events, NEW rev
  PROVE  /\ ItemsGrow(w, RaiseDrift(w, e, rev), e)
         /\ RaiseDrift(w, e, rev).review[e][SourceDrift] = OpenItem(rev)
<1>1. SourceDrift \in Conflicts
  BY DEF Conflicts
<1> DEFINE d == [w EXCEPT !.review[e][SourceDrift] = OpenItem(rev)]
<1>2. /\ d.event = w.event /\ d.categorized = w.categorized
      /\ d.excluded = w.excluded /\ d.entries = w.entries
      /\ \A f \in Events \ {e} : d.review[f] = w.review[f]
      /\ \A k \in Conflicts \ {SourceDrift} : d.review[e][k] = w.review[e][k]
      /\ d.review[e][SourceDrift] = OpenItem(rev)
  BY <1>1 DEF DatabaseType
<1>3. OpenItem(rev).status = "open"
  BY DEF OpenItem
<1> QED
  BY <1>1, <1>2, <1>3 DEF ItemsGrow, RaiseDrift

(* One after another. *)
LEMMA ItemsGrowTwice ==
  ASSUME NEW w, NEW d, NEW x, NEW e, ItemsGrow(w, d, e), ItemsGrow(d, x, e)
  PROVE  ItemsGrow(w, x, e)
BY DEF ItemsGrow

(* A new event: at most one item. *)
LEMMA NewEventGrows ==
  ASSUME NEW w \in DatabaseType, NEW e \in Events, \A c \in Conflicts : w.review[e][c] = NoItem,
         NEW snap, NEW n \in OnNewEvent(w, snap, e)
  PROVE  ItemsGrow(w, n.work, e)
<1>1. n.work = w \/ (\E c \in {NewInGap, AllDay, Tentative} : n.work = Enqueue(w, e, c))
  BY NewEventCases
<1>2. {NewInGap, AllDay, Tentative} \subseteq Conflicts
  BY DEF Conflicts
<1>3. ItemsGrow(w, w, e)
  BY DEF ItemsGrow
<1> QED
  BY <1>1, <1>2, <1>3, EnqueueGrows

(* A changed event: its drift, its new title, its decline. *)
LEMMA ChangedEventGrows ==
  ASSUME NEW w, DbOK(w), NEW e \in Events, w.event[e] \in Facts, w.event[e] # NoFact,
         NEW old \in Facts, NEW snap, NEW d \in OnChangedEvent(w, snap, e, old)
  PROVE  /\ ItemsGrow(w, d, e)
         /\ (\E id \in LinkedConfirmed(snap, e) : snap[id].rev # w.event[e])
              => d.review[e][SourceDrift] = OpenItem(w.event[e])
         /\ (e \in w.categorized /\ w.event[e].status = "declined")
              => d.review[e][Declined] # NoItem
<1> DEFINE lags == \E id \in LinkedConfirmed(snap, e) : snap[id].rev # w.event[e]
           drifted == OnConfirmedSourceDrift(w, snap, e)
           c == TitleChanged(old.title, drifted.event[e].title)
           titled == IF drifted.event[e].title # old.title THEN Enqueue(drifted, e, c) ELSE drifted
<1>1. /\ DbOK(drifted) /\ drifted.event = w.event /\ drifted.categorized = w.categorized
      /\ drifted \in DatabaseType
  BY RaiseDriftDb DEF OnConfirmedSourceDrift, Revisions, DbOK
<1>2. ItemsGrow(w, drifted, e) /\ (lags => drifted.review[e][SourceDrift] = OpenItem(w.event[e]))
  <2>1. ItemsGrow(w, w, e) /\ w \in DatabaseType
    BY DEF ItemsGrow, DbOK
  <2> QED
    BY <2>1, RaiseDriftGrows DEF OnConfirmedSourceDrift
<1>3. d = drifted \/ d = titled \/ d = Enqueue(titled, e, Declined)
  BY <1>1, ChangedEventCases DEF DbOK
<1>4. (e \in w.categorized /\ w.event[e].status = "declined") => d = Enqueue(titled, e, Declined)
  BY <1>1, ChangedEventCases DEF DbOK
<1> HIDE DEF lags, drifted
<1>5. c \in Conflicts /\ c # SourceDrift
  <2>1. old.title \in Titles /\ drifted.event[e].title \in Titles
    BY <1>1, FactsAssumption
  <2>2. c \in Conflicts
    BY <2>1 DEF Conflicts
  <2> QED
    BY <2>2 DEF TitleChanged, SourceDrift
<1>6. Declined \in Conflicts /\ SourceDrift \in Conflicts /\ Declined # SourceDrift
  BY ConflictsDiffer DEF Conflicts
<1> HIDE DEF c
<1>7. /\ titled \in DatabaseType /\ ItemsGrow(drifted, titled, e)
      /\ titled.review[e][SourceDrift] = drifted.review[e][SourceDrift]
  <2>1. drifted.event[e] # NoFact
    BY <1>1
  <2>2. ItemsGrow(drifted, drifted, e)
    BY DEF ItemsGrow
  <2> QED
    BY <1>1, <1>5, <1>6, <2>1, <2>2, EnqueueGrows, EnqueueDb DEF DbOK
<1> HIDE DEF titled
<1>8. /\ ItemsGrow(titled, Enqueue(titled, e, Declined), e)
      /\ Enqueue(titled, e, Declined).review[e][Declined] # NoItem
      /\ Enqueue(titled, e, Declined).review[e][SourceDrift] = titled.review[e][SourceDrift]
  BY <1>6, <1>7, EnqueueGrows
<1>9. ItemsGrow(w, titled, e) /\ ItemsGrow(w, Enqueue(titled, e, Declined), e)
  BY <1>2, <1>7, <1>8, ItemsGrowTwice
<1>10. ItemsGrow(w, d, e)
  BY <1>2, <1>3, <1>9
<1>11. d.review[e][SourceDrift] = drifted.review[e][SourceDrift]
  BY <1>3, <1>7, <1>8
<1> QED
  BY <1>2, <1>4, <1>8, <1>10, <1>11 DEF lags

-----------------------------------------------------------------------------
(* The visits of a sync. *)

(* What MergeInv says of a sync, beside SyncInv. *)
LEMMA MergeFacts ==
  ASSUME MergeInv, Syncing
  PROVE  /\ SyncInv
         /\ sync \in SyncType /\ DbOK(sync.work) /\ sync.snap \in Tables
         /\ SnapOK(sync.work.entries, sync.snap)
         /\ sync.base = db.event /\ sync.work.excluded = db.excluded
BY SyncFacts DEF MergeInv

(* An event not yet visited has the rows it had, as the sync read them. *)
LEMMA UnvisitedRows ==
  ASSUME MergeInv, Syncing, NEW e, Unvisited(e)
  PROVE  /\ Linked(db.entries, e) = Linked(sync.work.entries, e)
         /\ LinkedDrafts(db.entries, e) = LinkedDrafts(sync.work.entries, e)
         /\ LinkedConfirmed(db.entries, e) = LinkedConfirmed(sync.work.entries, e)
         /\ Live(db.entries, e) = Live(sync.work.entries, e)
         /\ \A id \in Linked(db.entries, e) :
              db.entries[id] = sync.work.entries[id] /\ sync.snap[id] = sync.work.entries[id]
<1>1. Linked(db.entries, e) \subseteq Linked(sync.work.entries, e)
  BY MergeFacts, ReadRows
<1>2. \A id \in Linked(sync.work.entries, e) :
        sync.work.entries[id] = db.entries[id] /\ sync.snap[id] = db.entries[id]
  BY DEF Unvisited
<1>3. Linked(db.entries, e) = Linked(sync.work.entries, e)
  BY <1>1, <1>2 DEF Linked, RowIds
<1> QED
  BY <1>2, <1>3, SameRows

(* The sync after a visit of e: nothing of another event has changed. *)
VisitOf(e) ==
  /\ UNCHANGED db
  /\ sync'.base = sync.base /\ sync'.pull = sync.pull
  /\ sync'.todo = sync.todo \ {e} /\ sync'.vanish = sync.vanish \ {e}
  /\ sync'.work.excluded = sync.work.excluded
  /\ OnlyRowsOf(e, sync.work.entries, sync'.work.entries)
  /\ OnlyRowsOf(e, sync.snap, sync'.snap)
  /\ \A f \in Events \ {e} :
       /\ sync'.work.event[f] = sync.work.event[f]
       /\ sync'.work.review[f] = sync.work.review[f]
       /\ f \in sync'.work.categorized <=> f \in sync.work.categorized

(* So what was known of another event still is. *)
LEMMA OthersKept ==
  ASSUME NEW e, VisitOf(e), NEW f \in Events, f # e
  PROVE  /\ Unvisited(f) => Unvisited(f)'
         /\ Visited(f) => Visited(f)'
<1> DEFINE t == sync.work.entries
           u == sync'.work.entries
<1>1. /\ Linked(u, f) = Linked(t, f) /\ LinkedDrafts(u, f) = LinkedDrafts(t, f)
      /\ LinkedConfirmed(u, f) = LinkedConfirmed(t, f) /\ Live(u, f) = Live(t, f)
      /\ \A id \in Linked(u, f) : u[id] = t[id]
  BY OtherRowsKept DEF VisitOf
<1>2. \A id \in Linked(u, f) : sync.snap[id] = db.entries[id] /\ u[id] = db.entries[id]
                                 => sync'.snap[id] = db.entries[id]
  <2> TAKE id \in Linked(u, f)
  <2> HAVE sync.snap[id] = db.entries[id] /\ u[id] = db.entries[id]
  <2>1. id \in EntryIds /\ u[id] # NoRow /\ u[id].src = f
    BY DEF Linked, RowIds
  <2> QED
    BY <2>1 DEF VisitOf, OnlyRowsOf
<1>3. /\ db' = db /\ sync'.base = sync.base /\ sync'.pull = sync.pull
      /\ sync'.work.excluded = sync.work.excluded
      /\ sync'.work.event[f] = sync.work.event[f]
      /\ sync'.work.review[f] = sync.work.review[f]
      /\ f \in sync'.work.categorized <=> f \in sync.work.categorized
  BY DEF VisitOf
<1>4. Unvisited(f) => Unvisited(f)'
  BY <1>1, <1>2, <1>3 DEF Unvisited
<1>5. \A id \in LinkedDrafts(u, f) : u[id] = t[id]
  BY <1>1 DEF LinkedDrafts
<1>6. Proposed(f)' <=> Proposed(f)
  BY <1>3 DEF Proposed, IsOpen
<1>7. /\ RejectionKept(f) => RejectionKept(f)'
      /\ Accounted(f) => Accounted(f)'
      /\ Hidden(f) => Hidden(f)'
      /\ ProposedOnce(f) => ProposedOnce(f)'
      /\ DriftKnown(f) => DriftKnown(f)'
      /\ NotDropped(f) => NotDropped(f)'
      /\ ItemsKept(f) => ItemsKept(f)'
  <2> HIDE DEF t, u
  <2>1. RejectionKept(f) => RejectionKept(f)'
    BY <1>1, <1>3 DEF RejectionKept, t, u
  <2>2. Accounted(f) => Accounted(f)'
    BY <1>1, <1>3, <1>5, <1>6 DEF Accounted, t, u
  <2>3. Hidden(f) => Hidden(f)'
    BY <1>1, <1>3 DEF Hidden, t, u
  <2>4. ProposedOnce(f) => ProposedOnce(f)'
    BY <1>1, <1>3 DEF ProposedOnce, t, u
  <2>5. DriftKnown(f) => DriftKnown(f)'
    BY <1>3 DEF DriftKnown
  <2>6. NotDropped(f) => NotDropped(f)'
    BY <1>3 DEF NotDropped
  <2>7. ItemsKept(f) => ItemsKept(f)'
    BY <1>3 DEF ItemsKept
  <2> QED
    BY <2>1, <2>2, <2>3, <2>4, <2>5, <2>6, <2>7
<1>8. Merging(f) => Merging(f)'
  BY <1>1, <1>3, <1>6, <1>7 DEF Merging
<1>9. Losing(f) => Losing(f)'
  BY <1>1, <1>3 DEF Losing
<1> QED
  BY <1>3, <1>4, <1>7, <1>8, <1>9 DEF Visited

(* A visit that settles its event keeps the invariant. *)
LEMMA VisitStep ==
  ASSUME MergeInv, Syncing, NEW e, VisitOf(e), e \in sync.todo \cup sync.vanish,
         SyncInv', Visited(e)'
  PROVE  MergeInv'
<1>1. sync \in SyncType /\ SyncInv /\ sync.base = db.event /\ sync.work.excluded = db.excluded
  BY MergeFacts
<1>2. sync.pull[e] # NoFact \/ sync.base[e] # NoFact
  BY <1>1 DEF SyncInv, BaseFaithful, SyncType
<1>3. ASSUME NEW f \in Events
      PROVE  IF f \in sync'.todo \cup sync'.vanish \/ (sync'.pull[f] = NoFact /\ sync'.base[f] = NoFact)
             THEN Unvisited(f)' ELSE Visited(f)'
  <2>1. /\ sync'.base = sync.base /\ sync'.pull = sync.pull
        /\ sync'.todo = sync.todo \ {e} /\ sync'.vanish = sync.vanish \ {e}
    BY DEF VisitOf
  <2>2. CASE f = e
    BY <1>2, <2>1, <2>2
  <2>3. CASE f # e
    <3>1. (Unvisited(f) => Unvisited(f)') /\ (Visited(f) => Visited(f)')
      BY <2>3, OthersKept
    <3>2. IF f \in sync.todo \cup sync.vanish \/ (sync.pull[f] = NoFact /\ sync.base[f] = NoFact)
          THEN Unvisited(f) ELSE Visited(f)
      BY DEF MergeInv
    <3> QED
      BY <2>1, <2>3, <3>1, <3>2
  <2> QED
    BY <2>2, <2>3
<1>4. sync'.base = db'.event /\ sync'.work.excluded = db'.excluded
  BY <1>1 DEF VisitOf
<1> QED
  BY <1>3, <1>4 DEF MergeInv

-----------------------------------------------------------------------------
(* The steps of a sync. *)

(* What the handler of a pulled event leaves in the tables, before its      *)
(* rows are materialized.                                                  *)
Handled(v, e, material) ==
  /\ DbOK(v)
  /\ v.event[e] = sync.pull[e] /\ v.entries = sync.work.entries
  /\ v.excluded = sync.work.excluded
  /\ \A f \in Events \ {e} : /\ v.event[f] = sync.work.event[f]
                             /\ v.review[f] = sync.work.review[f]
                             /\ f \in v.categorized <=> f \in sync.work.categorized
  /\ e \in sync.work.categorized => e \in v.categorized
  /\ \A c \in Conflicts :
       sync.work.review[e][c].status # "none" =>
         v.review[e][c] = sync.work.review[e][c] \/ (c = SourceDrift /\ v.review[e][c].status = "open")
  /\ sync.base[e] \notin {NoFact, sync.pull[e]} =>
       /\ (\E id \in LinkedConfirmed(sync.snap, e) : sync.snap[id].rev # sync.pull[e])
            => v.review[e][SourceDrift] = OpenItem(sync.pull[e])
       /\ (e \in sync.work.categorized /\ sync.pull[e].status = "declined")
            => v.review[e][Declined] # NoItem
  /\ (sync.base[e] # NoFact =>
        /\ sync.base[e].title = sync.pull[e].title
        /\ sync.pull[e].status \in {"accepted", sync.base[e].status})
       => ~material

(* The visit of a pulled event settles it. *)
LEMMA PulledVisit ==
  ASSUME MergeInv, SyncInv', Syncing, NEW e \in sync.todo, NEW v, NEW material, Handled(v, e, material),
         MergedTo(e, MaterializeDraft(v, sync.snap, e, material)), UNCHANGED db
  PROVE  MergeInv'
<1> DEFINE t == sync.work.entries
           f == sync.pull[e]
<1>1. /\ SyncInv /\ sync \in SyncType /\ e \in Events /\ sync.snap \in Tables
      /\ SnapOK(t, sync.snap) /\ sync.base = db.event /\ sync.work.excluded = db.excluded
      /\ f # NoFact /\ e \notin sync.vanish /\ Unvisited(e)
  BY MergeFacts DEF MergeInv, SyncInv, BaseFaithful, SyncType
<1>2. PICK r \in MaterializeDraft(v, sync.snap, e, material) :
        sync' = [sync EXCEPT !.work = r.work, !.snap = r.snap, !.todo = @ \ {e}]
  BY DEF MergedTo
<1>3. /\ sync'.work = r.work /\ sync'.snap = r.snap /\ sync'.todo = sync.todo \ {e}
      /\ sync'.vanish = sync.vanish \ {e} /\ sync'.base = sync.base /\ sync'.pull = sync.pull
  BY <1>1, <1>2 DEF SyncType
<1>4. /\ Linked(db.entries, e) = Linked(t, e) /\ LinkedDrafts(db.entries, e) = LinkedDrafts(t, e)
      /\ LinkedConfirmed(db.entries, e) = LinkedConfirmed(t, e) /\ Live(db.entries, e) = Live(t, e)
      /\ \A id \in Linked(t, e) : db.entries[id] = t[id] /\ sync.snap[id] = t[id]
  BY <1>1, UnvisitedRows
<1>5. Reading(v, sync.snap, e)
  BY <1>1, <1>4 DEF Reading, Handled
<1>6. /\ SameOverlays(v, r.work) /\ RowsSettled(v, e, material, t, r.work.entries)
      /\ OnlyRowsOf(e, sync.snap, r.snap)
  BY <1>2, <1>5, MaterializeSettles DEF Handled
<1> DEFINE u == r.work.entries
<1>7. /\ r.work.event[e] = f /\ r.work.excluded = db.excluded /\ r.work.review = v.review
      /\ r.work.categorized = v.categorized
  BY <1>1, <1>6 DEF SameOverlays, Handled
<1>8. VisitOf(e)
  <2>1. OnlyRowsOf(e, t, u)
    BY <1>6 DEF RowsSettled
  <2> QED
    BY <1>1, <1>3, <1>6, <1>7, <2>1 DEF VisitOf, SameOverlays, Handled
<1>9. Visited(e)'
  <2>1. ProposedOnce(e)'
    BY <1>3, <1>4, <1>6 DEF ProposedOnce, RowsSettled, Live
  <2>2. DriftKnown(e)'
    <3>1. LinkedConfirmed(sync.snap, e) = LinkedConfirmed(db.entries, e)
      BY <1>4, <1>5, ReadingFacts DEF Handled
    <3>2. \A id \in LinkedConfirmed(db.entries, e) : sync.snap[id] = db.entries[id]
      BY <1>4 DEF LinkedConfirmed
    <3> QED
      BY <1>1, <1>3, <1>7, <3>1, <3>2 DEF DriftKnown, Handled
  <2>3. ItemsKept(e)'
    BY <1>1, <1>3, <1>7 DEF ItemsKept, Handled, Unvisited
  <2>4. e \in db.categorized => NotDropped(e)'
    BY <1>1, <1>3, <1>7 DEF NotDropped, Handled, Unvisited
  <2>5. Proposed(e)' <=> ToPropose(v, e)
    BY <1>1, <1>3, <1>6, <1>7 DEF Proposed, ToPropose, Waiting, IsOpen, SameOverlays, Handled
  <2>6. RejectionKept(e)'
    <3> SUFFICES ASSUME /\ Linked(db.entries, e) # {}
                        /\ \A id \in Linked(db.entries, e) : db.entries[id].att = "dismissed"
                        /\ sync.base[e] # NoFact =>
                             /\ sync.base[e].title = sync.pull[e].title
                             /\ sync.pull[e].status \in {"accepted", sync.base[e].status}
                 PROVE  LinkedDrafts(u, e) = {}
      BY <1>3 DEF RejectionKept
    <3>1. Live(t, e) = {} /\ Linked(t, e) # {}
      BY <1>4 DEF Live, LinkedDrafts, LinkedConfirmed
    <3>2. ~material
      BY DEF Handled
    <3> QED
      BY <1>6, <3>1, <3>2 DEF RowsSettled
  <2>7. Accounted(e)'
    BY <1>3, <1>6, <1>7, <2>5 DEF Accounted, RowsSettled, Handled
  <2>8. e \in sync'.work.excluded => Hidden(e)'
    BY <1>1, <1>3, <1>6, <1>7 DEF Hidden, RowsSettled, Handled
  <2>9. Proposed(e)' /\ Live(u, e) = {} => \A id \in Linked(u, e) : u[id].rev = f
    BY <1>6, <2>5 DEF RowsSettled, Handled
  <2>10. Merging(e)'
    BY <1>3, <1>7, <2>6, <2>7, <2>8, <2>9 DEF Merging
  <2> QED
    BY <1>1, <1>3, <2>1, <2>2, <2>3, <2>4, <2>10 DEF Visited
<1> QED
  BY <1>8, <1>9, VisitStep

(* The upsert of a pulled event leaves its items and overlays. *)
LEMMA UpsertedOverlays ==
  ASSUME MergeInv, Syncing, NEW e \in sync.todo
  PROVE  /\ Upserted(e).event[e] = sync.pull[e]
         /\ Upserted(e).categorized = sync.work.categorized
         /\ Upserted(e).excluded = sync.work.excluded
         /\ Upserted(e) \in DatabaseType
<1>1. sync.work \in DatabaseType /\ e \in Events /\ sync.pull[e] \in Facts
  BY MergeFacts DEF DbOK, MergeInv, SyncInv, BaseFaithful, SyncType, Pulls
<1> QED
  BY <1>1 DEF Upserted, DatabaseType

(* A new event. *)
LEMMA MergeNewVisit ==
  ASSUME MergeInv, SyncInv', NEW e \in Events, MergeNew(e)
  PROVE  MergeInv'
<1>1. Syncing /\ e \in sync.todo /\ sync.base[e] = NoFact /\ UNCHANGED db
  BY DEF MergeNew
<1> DEFINE w == Upserted(e)
<1>2. PICK n \in OnNewEvent(w, sync.snap, e) :
        \E categorized \in {n.work.categorized, n.work.categorized \cup {e}} :
          MergedTo(e, MaterializeDraft([n.work EXCEPT !.categorized = categorized], sync.snap, e, FALSE))
  BY DEF MergeNew
<1>3. PICK categorized \in {n.work.categorized, n.work.categorized \cup {e}} :
        MergedTo(e, MaterializeDraft([n.work EXCEPT !.categorized = categorized], sync.snap, e, FALSE))
  BY <1>2
<1>4. /\ DbOK(w) /\ w \in DatabaseType /\ w.event[e] = sync.pull[e] /\ w.event[e] # NoFact
      /\ w.entries = sync.work.entries /\ w.review = sync.work.review
      /\ w.categorized = sync.work.categorized /\ w.excluded = sync.work.excluded
      /\ \A f \in Events \ {e} : w.event[f] = sync.work.event[f]
  BY <1>1, UpsertOK, UpsertedOverlays, MergeFacts
<1>5. \A c \in Conflicts : w.review[e][c] = NoItem
  <2>1. sync.work.event[e] = NoFact
    BY <1>1, MergeFacts DEF SyncInv, BaseFaithful
  <2> QED
    BY <1>1, <1>4, <2>1, MergeFacts DEF DbOK, ItemsHaveEvents
<1> HIDE DEF w
<1>6. /\ DbOK(n.work) /\ ItemsGrow(w, n.work, e)
      /\ \A c \in Conflicts : n.work.review[e][c].action = ""
  <2>1. \A s : \A m \in OnNewEvent(w, s, e) :
          /\ DbOK(m.work) /\ ItemsGrow(w, m.work, e)
          /\ \A c \in Conflicts : m.work.review[e][c].action = ""
    <3>1. \A s : \A m \in OnNewEvent(w, s, e) :
            DbOK(m.work) /\ (\A c \in Conflicts : m.work.review[e][c].action = "")
      <4>1. w.event[e] # NoFact /\ DbOK(w) /\ e \in Events
        BY <1>4
      <4>2. \A c \in Conflicts : w.review[e][c] = NoItem
        BY <1>5
      <4> QED
        BY <4>1, <4>2, NewEventOK
    <3>2. \A s : \A m \in OnNewEvent(w, s, e) : ItemsGrow(w, m.work, e)
      BY <1>4, <1>5, NewEventGrows
    <3> QED
      BY <3>1, <3>2
  <2> QED
    BY <1>2, <2>1
<1> DEFINE v == [n.work EXCEPT !.categorized = categorized]
<1>7. /\ v \in DatabaseType /\ v.event = w.event /\ v.entries = w.entries
      /\ v.excluded = w.excluded /\ v.review = n.work.review /\ v.categorized = categorized
  BY <1>3, <1>6 DEF DbOK, DatabaseType, ItemsGrow
<1>8. DbOK(v)
  <2>1. ItemsHaveEvents(v)
    <3> HIDE DEF v, w
    <3>1. v.event = n.work.event /\ v.review = n.work.review
      BY <1>6, <1>7 DEF ItemsGrow
    <3>2. ItemsHaveEvents(n.work)
      BY <1>6 DEF DbOK
    <3> QED BY <3>1, <3>2 DEF ItemsHaveEvents
  <2>2. CategorizedUndecided(v)
    <3>1. Deleted \in Conflicts /\ Declined \in Conflicts
      BY DEF Conflicts
    <3> QED
      BY <1>3, <1>6, <1>7, <3>1 DEF DbOK, CategorizedUndecided
  <2> QED
    BY <1>7, <2>1, <2>2 DEF DbOK
<1> HIDE DEF v
<1>9. Handled(v, e, FALSE)
  BY <1>1, <1>3, <1>4, <1>6, <1>7, <1>8 DEF Handled, ItemsGrow
<1>10. MergedTo(e, MaterializeDraft(v, sync.snap, e, FALSE))
  BY <1>3 DEF v
<1> QED
  BY <1>1, <1>9, <1>10, PulledVisit

(* An event the pull reports as it is stored. *)
LEMMA MergeUnchangedVisit ==
  ASSUME MergeInv, SyncInv', NEW e \in Events, MergeUnchanged(e)
  PROVE  MergeInv'
<1>1. /\ Syncing /\ e \in sync.todo /\ sync.base[e] = sync.pull[e] /\ UNCHANGED db
      /\ MergedTo(e, MaterializeDraft(sync.work, sync.snap, e, FALSE))
  BY DEF MergeUnchanged
<1>2. DbOK(sync.work) /\ sync.work.event[e] = sync.pull[e]
  BY <1>1, MergeFacts DEF SyncInv, BaseFaithful
<1>3. Handled(sync.work, e, FALSE)
  BY <1>1, <1>2 DEF Handled
<1> QED
  BY <1>1, <1>3, PulledVisit

(* An event the pull reports changed. *)
LEMMA MergeChangedVisit ==
  ASSUME MergeInv, SyncInv', NEW e \in Events, MergeChanged(e)
  PROVE  MergeInv'
<1> DEFINE w == Upserted(e)
           old == sync.base[e]
           material == MaterialChange(sync.base[e], sync.pull[e])
<1>1. Syncing /\ e \in sync.todo /\ old \notin {NoFact, sync.pull[e]} /\ UNCHANGED db
  BY DEF MergeChanged
<1>2. PICK d \in OnChangedEvent(w, sync.snap, e, old) :
        MergedTo(e, MaterializeDraft(d, sync.snap, e, material))
  BY DEF MergeChanged
<1>3. /\ DbOK(w) /\ w \in DatabaseType /\ w.event[e] = sync.pull[e]
      /\ w.event[e] \in Facts /\ w.event[e] # NoFact
      /\ w.entries = sync.work.entries /\ w.review = sync.work.review
      /\ w.categorized = sync.work.categorized /\ w.excluded = sync.work.excluded
      /\ \A f \in Events \ {e} : w.event[f] = sync.work.event[f]
  BY <1>1, UpsertOK, UpsertedOverlays, MergeFacts
<1>4. old \in Facts
  BY <1>1, MergeFacts DEF SyncType, Pulls
<1> HIDE DEF w
<1>5. DbOK(d) /\ d.event = w.event /\ d.entries = w.entries
  BY <1>2, <1>3, <1>4, ChangedEventOK
<1>6. /\ ItemsGrow(w, d, e)
      /\ (\E id \in LinkedConfirmed(sync.snap, e) : sync.snap[id].rev # w.event[e])
           => d.review[e][SourceDrift] = OpenItem(w.event[e])
      /\ (e \in w.categorized /\ w.event[e].status = "declined")
           => d.review[e][Declined] # NoItem
  BY <1>2, <1>3, <1>4, ChangedEventGrows
<1>7. (/\ old.title = sync.pull[e].title
       /\ sync.pull[e].status \in {"accepted", old.status}) => ~material
  BY DEF MaterialChange
<1> HIDE DEF material
<1>8. Handled(d, e, material)
  BY <1>1, <1>3, <1>5, <1>6, <1>7 DEF Handled, ItemsGrow
<1> QED
  BY <1>1, <1>2, <1>8, PulledVisit

(* A stored event the pull no longer has. *)
LEMMA MergeVanishedVisit ==
  ASSUME MergeInv, SyncInv', NEW e \in Events, MergeVanished(e)
  PROVE  MergeInv'
<1> DEFINE w == sync.work
<1>1. Syncing /\ sync.todo = {} /\ e \in sync.vanish /\ UNCHANGED db
  BY DEF MergeVanished
<1>2. PICK d \in OnVanished(w, sync.snap, e) :
        sync' = [sync EXCEPT !.work = d, !.vanish = @ \ {e}]
  BY DEF MergeVanished, VanishedTo
<1>3. /\ SyncInv /\ sync \in SyncType /\ DbOK(w) /\ w \in DatabaseType /\ SnapOK(w.entries, sync.snap)
      /\ sync.base = db.event /\ w.excluded = db.excluded
      /\ sync.pull[e] = NoFact /\ sync.base[e] # NoFact /\ Unvisited(e)
  BY <1>1, MergeFacts DEF MergeInv, SyncInv, BaseFaithful, DbOK
<1>4. /\ Linked(db.entries, e) = Linked(w.entries, e)
      /\ LinkedConfirmed(db.entries, e) = LinkedConfirmed(w.entries, e)
      /\ LinkedConfirmed(sync.snap, e) = LinkedConfirmed(w.entries, e)
      /\ LinkedDrafts(db.entries, e) = LinkedDrafts(w.entries, e)
  BY <1>1, <1>3, UnvisitedRows, ReadRows, SameRows
<1>5. \/ d = w /\ e \in w.excluded
      \/ d = Enqueue(w, e, Deleted) /\ e \in w.categorized
      \/ d = RaiseDrift(w, e, DeletedRev) /\ e \notin w.categorized /\ LinkedConfirmed(w.entries, e) # {}
      \/ d = DeleteEvent(w, e) /\ e \notin w.categorized /\ LinkedConfirmed(w.entries, e) = {}
  <2>1. e \in w.categorized => PriorDecision(w, e, Deleted) \notin {"drop_entry", "keep_entry"}
    BY <1>3 DEF DbOK, CategorizedUndecided, PriorDecision
  <2> QED
    BY <1>2, <1>4, <2>1 DEF OnVanished, OnVanishedCategorized
<1>6. Deleted \in Conflicts /\ SourceDrift \in Conflicts
  BY DEF Conflicts
<1>7. /\ sync'.work = d /\ sync'.snap = sync.snap /\ sync'.todo = sync.todo \ {e}
      /\ sync'.vanish = sync.vanish \ {e} /\ sync'.base = sync.base /\ sync'.pull = sync.pull
  BY <1>1, <1>2, <1>3 DEF SyncType
<1> HIDE DEF w
<1>8. /\ d.entries = w.entries /\ d.excluded = w.excluded /\ d.categorized = w.categorized
      /\ \A f \in Events \ {e} : d.event[f] = w.event[f] /\ d.review[f] = w.review[f]
      /\ \/ ItemsGrow(w, d, e)
         \/ /\ d.event[e] = NoFact /\ e \notin w.categorized
            /\ LinkedConfirmed(w.entries, e) = {}
  <2>1. CASE d = w
    BY <2>1 DEF ItemsGrow
  <2>2. CASE d = Enqueue(w, e, Deleted)
    <3>1. ItemsGrow(w, d, e)
      BY <1>3, <1>6, <2>2, EnqueueGrows
    <3> QED
      BY <3>1 DEF ItemsGrow
  <2>3. CASE d = RaiseDrift(w, e, DeletedRev)
    <3>1. ItemsGrow(w, d, e)
      BY <1>3, <2>3, RaiseDriftGrows
    <3> QED
      BY <3>1 DEF ItemsGrow
  <2>4. CASE d = DeleteEvent(w, e) /\ e \notin w.categorized /\ LinkedConfirmed(w.entries, e) = {}
    BY <1>3, <2>4 DEF DeleteEvent, DatabaseType
  <2> QED
    BY <1>5, <2>1, <2>2, <2>3, <2>4
<1>9. VisitOf(e)
  BY <1>1, <1>7, <1>8 DEF VisitOf, OnlyRowsOf, w
<1>10. Visited(e)'
  <2>1. ProposedOnce(e)'
    BY <1>1, <1>4, <1>7, <1>8 DEF ProposedOnce, Live
  <2>2. DriftKnown(e)'
    <3>1. (LinkedConfirmed(db.entries, e) # {} /\ e \notin db.excluded \cup db.categorized)
            => d = RaiseDrift(w, e, DeletedRev)
      BY <1>3, <1>4, <1>5 DEF Unvisited, w
    <3>2. RaiseDrift(w, e, DeletedRev).review[e][SourceDrift] = OpenItem(DeletedRev)
      BY <1>3, RaiseDriftGrows
    <3> QED
      BY <1>1, <1>3, <1>7, <3>1, <3>2 DEF DriftKnown
  <2>3. ItemsKept(e)'
    BY <1>1, <1>3, <1>7, <1>8 DEF ItemsKept, ItemsGrow, Unvisited, w
  <2>4. e \in w.categorized /\ e \notin w.excluded => d.review[e][Deleted] # NoItem
    BY <1>3, <1>5, <1>6, EnqueueGrows
  <2>5. e \in w.categorized => d.event[e] # NoFact
    <3>1. w.event[e] # NoFact
      BY <1>1, <1>3 DEF SyncInv, BaseFaithful, w
    <3> QED
      BY <1>8, <3>1 DEF ItemsGrow
  <2>6. e \in db.categorized => NotDropped(e)'
    BY <1>1, <1>3, <1>7, <1>8, <2>4, <2>5 DEF NotDropped, Unvisited, w
  <2>7. Losing(e)'
    <3>1. CASE e \in w.excluded
      BY <1>7, <1>8, <3>1 DEF Losing
    <3>2. CASE e \notin w.excluded /\ e \in w.categorized
      BY <1>7, <1>8, <2>4, <3>2 DEF Losing
    <3>3. CASE d = RaiseDrift(w, e, DeletedRev) /\ e \notin w.categorized /\ LinkedConfirmed(w.entries, e) # {}
      BY <1>3, <1>7, <1>8, <3>3, RaiseDriftGrows DEF Losing
    <3>4. CASE d = DeleteEvent(w, e)
      <4>1. d.event[e] = NoFact
        BY <1>3, <3>4 DEF DeleteEvent, DatabaseType
      <4> QED
        BY <1>7, <4>1 DEF Losing
    <3> QED
      BY <1>5, <3>1, <3>2, <3>3, <3>4
  <2> QED
    BY <1>1, <1>3, <1>7, <2>1, <2>2, <2>3, <2>6, <2>7 DEF Visited
<1> QED
  BY <1>1, <1>9, <1>10, VisitStep

-----------------------------------------------------------------------------
(* A sync starts with no event visited. *)
LEMMA BeginMerge ==
  ASSUME MergeInv, SyncInv', NEW pull \in Pulls, SyncBegin(pull)
  PROVE  MergeInv'
<1>1. /\ sync' = [work |-> db, base |-> db.event, pull |-> pull, snap |-> db.entries,
                  todo |-> {e \in Events : pull[e] # NoFact},
                  vanish |-> {e \in Events : db.event[e] # NoFact /\ pull[e] = NoFact}]
      /\ db' = db
  BY DEF SyncBegin
<1>2. \A e \in Events : Unvisited(e)'
  BY <1>1 DEF Unvisited
<1>3. \A e \in Events : e \in sync'.todo \cup sync'.vanish \/ (sync'.pull[e] = NoFact /\ sync'.base[e] = NoFact)
  BY <1>1
<1> QED
  BY <1>1, <1>2, <1>3 DEF MergeInv

(* Without a sync there is nothing to keep. *)
LEMMA NoMerge ==
  ASSUME SyncInv', sync' = NoSync
  PROVE  MergeInv'
BY DEF MergeInv, Syncing

(* Every step keeps the invariant. *)
LEMMA NextMerge ==
  ASSUME MergeInv, [Next]_vars
  PROVE  MergeInv'
<1>0. SyncInv'
  BY NextInv DEF MergeInv
<1>1. ASSUME NEW pull \in Pulls, SyncBegin(pull) PROVE MergeInv'
  BY <1>0, <1>1, BeginMerge
<1>2. CASE SyncStep
  <2>1. CASE SyncCommit \/ SyncAbort
    BY <1>0, <2>1, NoMerge DEF SyncCommit, SyncAbort
  <2> QED
    BY <1>0, <1>2, <2>1, MergeNewVisit, MergeUnchangedVisit, MergeChangedVisit, MergeVanishedVisit
       DEF SyncStep
<1>3. CASE Decide
  <2>1. sync' = NoSync
    BY <1>3 DEF Decide, ResolveReviewDecision, ExcludeEvent, UserTo
  <2> QED
    BY <1>0, <2>1, NoMerge
<1>4. CASE EditEntries
  <2>1. sync' = NoSync
    BY <1>4 DEF EditEntries, ConvertAllDayEvent, CreateTimeEntry, ConfirmTimeEntry, RejectTimeEntry,
                AdjustDraftTimeEntry, UpdateTimeEntry, SplitTimeEntry, DeleteTimeEntry, EntriesTo, UserTo
  <2> QED
    BY <1>0, <2>1, NoMerge
<1>5. CASE UNCHANGED vars
  <2>1. db' = db /\ sync' = sync
    BY <1>5 DEF vars
  <2>2. \A e \in Events : (Unvisited(e)' <=> Unvisited(e)) /\ (Visited(e)' <=> Visited(e))
    BY <2>1 DEF Unvisited, Visited, ProposedOnce, DriftKnown, ItemsKept, NotDropped, Merging, Losing,
                RejectionKept, Accounted, Hidden, Proposed, IsOpen
  <2> QED
    BY <1>0, <2>1, <2>2 DEF MergeInv, Syncing
<1> QED
  BY <1>1, <1>2, <1>3, <1>4, <1>5 DEF Next

(* The invariant holds in every reachable state: until a sync visits an      *)
(* event it has touched nothing of it, and from then on it owes it nothing. *)
THEOREM MergeInvariant == Spec => []MergeInv
<1>1. Init => MergeInv
  BY InitInv DEF Init, MergeInv, Syncing
<1>2. MergeInv /\ [Next]_vars => MergeInv'
  BY NextMerge
<1> QED
  BY <1>1, <1>2, PTL DEF Spec

-----------------------------------------------------------------------------
(* What a sync promises. *)

(* While it runs, every event is as it was or has been visited. *)
LEMMA EventsVisited ==
  ASSUME MergeInv, Syncing, NEW e \in Events
  PROVE  /\ Unvisited(e) \/ Visited(e)
         /\ Merged => IF sync.pull[e] = NoFact /\ sync.base[e] = NoFact THEN Unvisited(e) ELSE Visited(e)
BY DEF MergeInv, Merged

(* An event neither pulled nor stored is not stored after the sync. *)
LEMMA AbsentEvent ==
  ASSUME MergeInv, Merged, NEW e \in Events, sync.pull[e] = NoFact, sync.base[e] = NoFact
  PROVE  /\ sync.work.event[e] = NoFact
         /\ e \in db.categorized => NotDropped(e)
         /\ DriftKnown(e) /\ ItemsKept(e)
<1>1. Syncing
  BY DEF Merged
<1>2. Unvisited(e) /\ sync.base = db.event
  BY <1>1, EventsVisited, MergeFacts
<1>3. sync.work.event[e] = NoFact
  BY <1>2 DEF Unvisited
<1> QED
  BY <1>2, <1>3 DEF Unvisited, NotDropped, DriftKnown, ItemsKept

(* No sync, for any calendar and any history, proposes an event twice, or   *)
(* next to an entry the user confirmed.                                    *)
THEOREM ProposesOnce == Spec => []NoDuplicateProposal
<1>1. MergeInv => NoDuplicateProposal
  <2> SUFFICES ASSUME MergeInv, Syncing, NEW e \in Events
               PROVE  ProposedOnce(e)
    BY DEF NoDuplicateProposal
  <2>1. Unvisited(e) => ProposedOnce(e)
    BY UnvisitedRows DEF ProposedOnce, Live
  <2> QED
    BY <2>1, EventsVisited DEF Visited
<1> QED
  BY <1>1, MergeInvariant, PTL

(* No sync takes an item out of the review queue or overturns a decision,   *)
(* at any point of it, unless the event itself is deleted.                 *)
THEOREM DecisionsSurvive == Spec => []DecisionsSurviveSync
<1>1. MergeInv => DecisionsSurviveSync
  <2> SUFFICES ASSUME MergeInv, Syncing
               PROVE  /\ db.excluded \subseteq sync.work.excluded
                      /\ \A e \in Events : ItemsKept(e)
    BY DEF DecisionsSurviveSync
  <2>1. \A e : Unvisited(e) => ItemsKept(e)
    BY DEF Unvisited, ItemsKept
  <2> QED
    BY <2>1, MergeFacts, EventsVisited DEF Visited
<1> QED
  BY <1>1, MergeInvariant, PTL

(* A sync that commits has left every rejected proposal rejected, unless    *)
(* the event was renamed or is no longer accepted.                         *)
THEOREM RejectionsStick == Spec => []RejectionSticks
<1>1. MergeInv => RejectionSticks
  <2> SUFFICES ASSUME MergeInv, Merged, NEW e \in Events, sync.pull[e] # NoFact
               PROVE  RejectionKept(e)
    BY DEF RejectionSticks, RejectionKept
  <2> QED
    BY EventsVisited DEF Merged, Visited, Merging
<1> QED
  BY <1>1, MergeInvariant, PTL

(* A sync that commits has an entry for every meeting it proposes and the   *)
(* user has not declined, and its live drafts say what the calendar says    *)
(* now.                                                                    *)
THEOREM MeetingsAreAccounted == Spec => []MeetingsAccounted
<1>1. MergeInv => MeetingsAccounted
  <2> SUFFICES ASSUME MergeInv, Merged, NEW e \in Events, sync.pull[e] # NoFact
               PROVE  Accounted(e)
    BY DEF MeetingsAccounted, Accounted, Proposed
  <2> QED
    BY EventsVisited DEF Merged, Visited, Merging
<1> QED
  BY <1>1, MergeInvariant, PTL

(* A sync that commits has left no live draft of an excluded event that it   *)
(* pulled.                                                                 *)
THEOREM ExcludedStaysHidden == Spec => []ExcludedHasNoDraft
<1>1. MergeInv => ExcludedHasNoDraft
  <2> SUFFICES ASSUME MergeInv, Merged, NEW e \in sync.work.excluded, sync.pull[e] # NoFact
               PROVE  Hidden(e)
    BY DEF ExcludedHasNoDraft, Hidden
  <2>1. e \in Events /\ Syncing
    BY MergeFacts DEF Merged, DbOK, DatabaseType
  <2> QED
    BY <2>1, EventsVisited DEF Visited, Merging
<1> QED
  BY <1>1, MergeInvariant, PTL

(* A sync that commits has raised the drift of every confirmed entry whose   *)
(* event it saw change or found lost.                                      *)
THEOREM DriftIsRaised == Spec => []DriftRaised
<1>1. MergeInv => DriftRaised
  <2> SUFFICES ASSUME MergeInv, Merged, NEW e \in Events
               PROVE  DriftKnown(e)
    BY DEF DriftRaised
  <2> QED
    BY EventsVisited, AbsentEvent DEF Merged, Visited
<1> QED
  BY <1>1, MergeInvariant, PTL

(* A sync that commits has kept every categorized event, and put its loss   *)
(* or decline before the user.                                             *)
THEOREM NothingCategorizedIsDropped == Spec => []NeverSilentlyDropped
<1>1. MergeInv => NeverSilentlyDropped
  <2> SUFFICES ASSUME MergeInv, Merged, NEW e \in db.categorized
               PROVE  NotDropped(e)
    BY DEF NeverSilentlyDropped
  <2>1. e \in Events /\ Syncing
    BY MergeFacts, DbIsOK DEF Merged, DbOK, DatabaseType
  <2> QED
    BY <2>1, EventsVisited, AbsentEvent DEF Visited
<1> QED
  BY <1>1, MergeInvariant, PTL

(* A table whose rows are each as they were is that table. *)
LEMMA SameTable ==
  ASSUME NEW w \in DatabaseType, NEW u, u = [id \in EntryIds |-> u[id]],
         \A id \in EntryIds : u[id] = w.entries[id]
  PROVE  [w EXCEPT !.entries = u] = w
<1>1. w.entries = [id \in EntryIds |-> w.entries[id]]
  BY DEF DatabaseType
<1>2. u = w.entries
  BY <1>1
<1> QED
  BY <1>2 DEF DatabaseType

(* A pulled event that has been merged is merged again without effect. *)
LEMMA MergedAgain ==
  ASSUME MergeInv, Merged, NEW e \in Events, sync.pull[e] # NoFact,
         NEW w, w = sync.work
  PROVE  MaterializeDraft(w, w.entries, e, FALSE) = {[work |-> w, snap |-> w.entries]}
<1> DEFINE t == w.entries
           f == w.event[e]
<1>1. Syncing /\ w \in DatabaseType /\ t \in Tables
  BY MergeFacts DEF Merged, DbOK, DatabaseType, Tables
<1>2. Merging(e) /\ f = sync.pull[e]
  BY <1>1, EventsVisited DEF Visited, Merging
<1>3. CASE f.allDay \/ (e \notin w.excluded /\ f.status = "tentative" /\ IsOpen(w, e, Tentative))
  BY <1>3 DEF MaterializeDraft
<1>4. CASE ~f.allDay /\ e \in w.excluded
  <2>1. LinkedDrafts(t, e) = {}
    BY <1>2, <1>4 DEF Merging, Hidden
  <2>2. DismissRows(w, {}) = w
    BY <1>1, SameTable DEF DismissRows, Attest
  <2> QED
    BY <1>4, <2>1, <2>2 DEF MaterializeDraft, Unsnapped
<1>5. CASE ~f.allDay /\ e \notin w.excluded /\ ~(f.status = "tentative" /\ IsOpen(w, e, Tentative))
  <2>1. Proposed(e)
    BY <1>2, <1>5 DEF Proposed
  <2>2. /\ Linked(t, e) # {}
        /\ \A id \in LinkedDrafts(t, e) : t[id].rev = f
        /\ Live(t, e) = {} => \A id \in Linked(t, e) : t[id].rev = f
    BY <1>2, <2>1 DEF Merging, Accounted
  <2>3. RefreshDrafts(w, t, e) = {w}
    <3> DEFINE stale == {id \in LinkedDrafts(t, e) : t[id].rev # f}
               u == [id \in EntryIds |-> IF id \in stale THEN [t[id] EXCEPT !.span = f.span, !.rev = f]
                                         ELSE t[id]]
    <3>1. stale = {}
      BY <2>2
    <3>2. [w EXCEPT !.entries = u] = w
      <4>1. (\A id \in EntryIds : u[id] = t[id]) /\ u = [id \in EntryIds |-> u[id]]
        BY <3>1
      <4> HIDE DEF u
      <4> QED
        BY <1>1, <4>1, SameTable
    <3>3. RefreshDrafts(w, t, e) = IF stale \subseteq LinkedDrafts(t, e) THEN {[w EXCEPT !.entries = u]} ELSE {}
      BY DEF RefreshDrafts
    <3> HIDE DEF stale, u
    <3> QED
      BY <3>1, <3>2, <3>3
  <2>4. Live(t, e) = {} => BumpRevisions(w, t, e) = w
    <3> DEFINE u == [id \in EntryIds |-> IF id \in Linked(t, e) /\ t[id] # NoRow
                                         THEN [t[id] EXCEPT !.rev = f] ELSE t[id]]
    <3> HAVE Live(t, e) = {}
    <3>1. \A id \in Linked(t, e) : t[id] \in Rows /\ t[id].rev = f
      BY <1>1, <2>2, LinkedRows
    <3>2. \A row \in Rows : row.rev = f => [row EXCEPT !.rev = f] = row
      BY DEF Rows
    <3>3. \A id \in EntryIds : u[id] = t[id]
      BY <3>1, <3>2
    <3>4. BumpRevisions(w, t, e) = [w EXCEPT !.entries = u]
      BY DEF BumpRevisions
    <3>5. u = [id \in EntryIds |-> u[id]]
      OBVIOUS
    <3> HIDE DEF u
    <3> QED
      BY <1>1, <3>3, <3>4, <3>5, SameTable
  <2> QED
    BY <1>5, <2>2, <2>3, <2>4 DEF MaterializeDraft, Unsnapped
<1> QED
  BY <1>3, <1>4, <1>5

(* A lost event that was kept is kept again without effect. *)
LEMMA LostAgain ==
  ASSUME MergeInv, Merged, NEW e \in Events, sync.pull[e] = NoFact,
         NEW w, w = sync.work, w.event[e] # NoFact
  PROVE  OnVanished(w, w.entries, e) = {w}
<1>1. Syncing /\ w \in DatabaseType /\ CategorizedUndecided(w)
  BY MergeFacts DEF Merged, DbOK
<1>2. Losing(e)
  BY <1>1, EventsVisited, AbsentEvent DEF Visited
<1>3. CASE e \in w.excluded
  BY <1>3 DEF OnVanished
<1>4. CASE e \notin w.excluded /\ e \in w.categorized /\ w.review[e][Deleted] # NoItem
  <2>1. PriorDecision(w, e, Deleted) \notin {"drop_entry", "keep_entry"}
    BY <1>1, <1>4 DEF CategorizedUndecided, PriorDecision
  <2>2. Enqueue(w, e, Deleted) = w
    BY <1>4 DEF Enqueue
  <2> QED
    BY <1>4, <2>1, <2>2 DEF OnVanished, OnVanishedCategorized
<1>5. CASE /\ e \notin w.excluded /\ e \notin w.categorized /\ LinkedConfirmed(w.entries, e) # {}
           /\ w.review[e][SourceDrift] = OpenItem(DeletedRev)
  <2>1. RaiseDrift(w, e, DeletedRev) = w
    <3>1. SourceDrift \in Conflicts
      BY DEF Conflicts
    <3> QED
      BY <1>1, <1>5, <3>1 DEF RaiseDrift, DatabaseType
  <2> QED
    BY <1>5, <2>1 DEF OnVanished
<1> QED
  BY <1>2, <1>3, <1>4, <1>5 DEF Losing

(* Syncing an unchanged calendar again changes nothing, whatever the        *)
(* calendar and the user have done before.                                 *)
THEOREM SyncAgainIsIdle == Spec => []SyncIsIdempotent
<1>1. MergeInv => SyncIsIdempotent
  BY MergedAgain, LostAgain DEF SyncIsIdempotent
<1> QED
  BY <1>1, MergeInvariant, PTL

(* Whatever happened to its event, an open item can be closed: its event is *)
(* stored, and one of the actions it offers asks for nothing more.         *)
THEOREM OpenItemsCanBeClosed == Spec => []OpenItemsCloseable
<1>1. SyncInv => OpenItemsCloseable
  <2> SUFFICES ASSUME SyncInv, NEW e \in Events, NEW c \in Conflicts, IsOpen(db, e, c)
               PROVE  \E action \in Offered(c) : Apply(db, e, c, action) # {}
    BY DEF OpenItemsCloseable
  <2>1. db.event[e] # NoFact
    <3>0. db.review[e][c].status = "open" /\ NoItem.status = "none"
      BY DEF IsOpen, NoItem
    <3>1. db.review[e][c] # NoItem
      BY <3>0
    <3> QED
      BY <3>1, DbIsOK DEF DbOK, ItemsHaveEvents
  <2>2. CASE c \in {Deleted, Declined}
    <3>1. "drop_entry" \in Offered(c) /\ Apply(db, e, c, "drop_entry") = ApplyDeleted(db, e, "drop_entry")
      BY <2>1, <2>2, ConflictsDiffer DEF Offered, Apply
    <3> QED
      BY <3>1 DEF ApplyDeleted
  <2>3. CASE c = NewInGap
    <3>1. "keep_gap" \in Offered(c) /\ Apply(db, e, c, "keep_gap") = ApplyNewInGap(db, e, "keep_gap")
      BY <2>1, <2>3, ConflictsDiffer DEF Offered, Apply
    <3> QED
      BY <3>1 DEF ApplyNewInGap
  <2>4. CASE c \in {Tentative, AllDay}
    <3>1. /\ "include" \in Offered(c)
          /\ Apply(db, e, c, "include") = ApplyIncludeExclude(db, e, c, "include")
      BY <2>1, <2>4, ConflictsDiffer DEF Offered, Apply
    <3> QED
      BY <3>1 DEF ApplyIncludeExclude
  <2>5. CASE c = SourceDrift
    <3>1. "dismiss" \in Offered(c) /\ Apply(db, e, c, "dismiss") = ApplySourceDrift(db, e, "dismiss")
      BY <2>1, <2>5, ConflictsDiffer DEF Offered, Apply
    <3> QED
      BY <3>1 DEF ApplySourceDrift
  <2>6. CASE c \notin {Deleted, Declined, NewInGap, Tentative, AllDay, SourceDrift}
    <3>1. "accept" \in Offered(c) /\ Apply(db, e, c, "accept") = {db}
      BY <2>1, <2>6 DEF Offered, Apply, ReadsEvent
    <3> QED
      BY <3>1
  <2> QED
    BY <2>2, <2>3, <2>4, <2>5, <2>6
<1> QED
  BY <1>1, SyncInvariant, PTL
=============================================================================
