----------------------------- MODULE SyncReview -----------------------------
(***************************************************************************)
(* SyncEvents, the re-sync of one period (internal/service/sync.go and     *)
(* sync_materialize.go), against the user's decisions about it.            *)
(*                                                                         *)
(* A sync is one transaction.  It reads the stored events and the time     *)
(* entries once, merges the pulled events one at a time, then visits the   *)
(* stored events the pull no longer has; each visit is a step here, so     *)
(* the rows the sync read at its start may be stale when it uses them.     *)
(* sync.work is what the transaction sees, db what everyone else sees.     *)
(* SQLite serialises writers: a user call that would write between two     *)
(* steps of a sync waits for it, and a sync that loses its snapshot to a   *)
(* user call fails as SyncAbort does.  Between syncs the user may resolve  *)
(* any open decision, exclude events, and create, edit, confirm, reject,   *)
(* split and delete entries, in any order.                                 *)
(***************************************************************************)
EXTENDS ReviewPolicy

CONSTANT NoSync

VARIABLES db, sync

vars == <<db, sync>>

(* The event rows a sync merges: base is the last import, pull the new one. *)
Pulls == [Events -> Facts \cup {NoFact}]

Snapshots == [EntryIds -> Rows \cup {NoRow}]

SyncType == [work : DatabaseType, base : Pulls, pull : Pulls, snap : Snapshots,
             todo : SUBSET Events, vanish : SUBSET Events]

ASSUME NoSyncAssumption == NoSync \notin SyncType

Init ==
  /\ db = [event |-> [e \in Events |-> NoFact], categorized |-> {}, excluded |-> {},
           entries |-> [id \in EntryIds |-> NoRow],
           review |-> [e \in Events |-> [c \in Conflicts |-> NoItem]]]
  /\ sync = NoSync

-----------------------------------------------------------------------------
(* Merging one pulled event. *)

(* OnNewEvent: at most one of new_in_gap, all_day and tentative is raised,  *)
(* and a prior decision about it is replayed.  skip: no auto-category.     *)
OnNewEvent(w, snap, e) ==
  LET f == w.event[e]
      inGap == ~f.allDay /\ \E id \in RowIds(snap) : Overlaps(f.span, snap[id].span)
      replay(c) == PriorDecision(w, e, c)
      applied(c, skip) == {[work |-> d, skip |-> skip] : d \in Apply(w, e, c, replay(c))}
      raised(c) == {[work |-> Enqueue(w, e, c), skip |-> FALSE]}
  IN IF inGap
     THEN IF replay(NewInGap) \in {"keep_gap", "use_event"}
          THEN applied(NewInGap, replay(NewInGap) = "keep_gap") ELSE raised(NewInGap)
     ELSE IF f.allDay THEN raised(AllDay)
     ELSE IF f.status = "tentative"
     THEN IF replay(Tentative) = "exclude"
          THEN applied(Tentative, TRUE) ELSE raised(Tentative)
     ELSE {[work |-> w, skip |-> FALSE]}

(* Mutant: raised once, as the other conflicts are. *)
OnConfirmedSourceDriftOnce(w, snap, e) ==
  IF \E id \in LinkedConfirmed(snap, e) : snap[id].rev # w.event[e]
  THEN Enqueue(w, e, SourceDrift) ELSE w

(* OnConfirmedSourceDrift: some confirmed row of e lags the new hash. *)
OnConfirmedSourceDrift(w, snap, e) ==
  IF \E id \in LinkedConfirmed(snap, e) : snap[id].rev # w.event[e]
  THEN RaiseDrift(w, e, w.event[e]) ELSE w

(* OnChangedCategorized *)
OnChangedCategorized(w, e, old) ==
  LET f == w.event[e]
      titled == IF f.title # old.title THEN Enqueue(w, e, TitleChanged(old.title, f.title)) ELSE w
  IN IF f.status # "declined" THEN {titled}
     ELSE IF PriorDecision(w, e, Declined) = "drop_entry"
     THEN Apply(titled, e, Declined, "drop_entry")
     ELSE {Enqueue(titled, e, Declined)}

(* handleChangedEvent: drift first; then the overlay conflicts of a         *)
(* categorized event, unless live drafts alone absorb a new title.         *)
OnChangedEvent(w, snap, e, old) ==
  LET drifted == OnConfirmedSourceDrift(w, snap, e)
      absorbed == /\ LinkedDrafts(snap, e) # {} /\ LinkedConfirmed(snap, e) = {}
                  /\ old.title # w.event[e].title /\ w.event[e].status # "declined"
  IN IF e \notin drifted.categorized \/ absorbed THEN {drifted}
     ELSE OnChangedCategorized(drifted, e, old)

(* Mutants: the revision is left behind; every linked row is refreshed. *)
RefreshSpans(w, snap, e) ==
  {[w EXCEPT !.entries = [id \in EntryIds |->
                            IF id \in LinkedDrafts(snap, e) THEN [w.entries[id] EXCEPT !.span = w.event[e].span]
                            ELSE w.entries[id]]]}

RefreshLinked(w, snap, e) ==
  {[w EXCEPT !.entries = [id \in EntryIds |->
                            IF id \in Linked(snap, e)
                            THEN [w.entries[id] EXCEPT !.span = w.event[e].span, !.rev = w.event[e]]
                            ELSE w.entries[id]]]}

(* refreshDraftFromEvent, on each live draft that lags: the full span of    *)
(* the event.  The guarded UPDATE fails on a row that is no draft any more. *)
RefreshDrafts(w, snap, e) ==
  LET stale == {id \in LinkedDrafts(snap, e) : snap[id].rev # w.event[e]}
  IN IF stale \subseteq LinkedDrafts(w.entries, e)
     THEN {[w EXCEPT !.entries = [id \in EntryIds |->
                                    IF id \in stale
                                    THEN [w.entries[id] EXCEPT !.span = w.event[e].span,
                                                               !.rev = w.event[e]]
                                    ELSE w.entries[id]]]}
     ELSE {}

(* UpdateTimeEntrySourceRevision, on each dismissed row. *)
BumpRevisions(w, snap, e) ==
  [w EXCEPT !.entries = [id \in EntryIds |->
                           IF id \in Linked(snap, e) /\ w.entries[id] # NoRow
                           THEN [w.entries[id] EXCEPT !.rev = w.event[e]]
                           ELSE w.entries[id]]]

Unsnapped(works, snap) == {[work |-> w, snap |-> snap] : w \in works}

(* Mutants: a draft without its revision; one the snapshot does not get. *)
CreateDraftUnstamped(w, snap, e) ==
  LET draft == [att |-> "draft", src |-> e, rev |-> NoFact, span |-> w.event[e].span]
  IN {[work |-> [w EXCEPT !.entries[id] = draft], snap |-> [snap EXCEPT ![id] = draft]] :
        id \in FreeIds(w.entries) \cap FreeIds(snap)}

CreateDraftUnread(w, snap, e) ==
  LET draft == [att |-> "draft", src |-> e, rev |-> w.event[e], span |-> w.event[e].span]
  IN {[work |-> [w EXCEPT !.entries[id] = draft], snap |-> snap] :
        id \in FreeIds(w.entries) \cap FreeIds(snap)}

(* createDraftFromEvent: a draft, in the table and in the snapshot. *)
CreateDraft(w, snap, e) ==
  LET draft == [att |-> "draft", src |-> e, rev |-> w.event[e], span |-> w.event[e].span]
  IN {[work |-> [w EXCEPT !.entries[id] = draft], snap |-> [snap EXCEPT ![id] = draft]] :
        id \in FreeIds(w.entries) \cap FreeIds(snap)}

(* materializeDraftForEvent *)
MaterializeDraft(w, snap, e, material) ==
  LET f == w.event[e]
      waiting == f.status = "tentative" /\ IsOpen(w, e, Tentative)
  IN IF f.allDay THEN {[work |-> w, snap |-> snap]}
     ELSE IF e \in w.excluded
     THEN IF LinkedDrafts(snap, e) \subseteq RowIds(w.entries)
          THEN Unsnapped({DismissRows(w, LinkedDrafts(snap, e))}, snap) ELSE {}
     ELSE IF waiting THEN {[work |-> w, snap |-> snap]}
     ELSE IF Live(snap, e) # {} THEN Unsnapped(RefreshDrafts(w, snap, e), snap)
     ELSE IF Linked(snap, e) # {} /\ ~material THEN Unsnapped({BumpRevisions(w, snap, e)}, snap)
     ELSE CreateDraft(w, snap, e)

(* Mutant: any change of the source hash is material. *)
AnyChange(old, new) == old # new

(* titleMaterialChange or scheduleIncludeDropped *)
MaterialChange(old, new) ==
  \/ old.title # new.title
  \/ old.status = "accepted" /\ new.status \in {"declined", "tentative"}
-----------------------------------------------------------------------------
(* The transaction of a sync, one step per event. *)

SyncBegin(pull) ==
  /\ sync = NoSync
  /\ sync' = [work |-> db, base |-> db.event, pull |-> pull, snap |-> db.entries,
              todo |-> {e \in Events : pull[e] # NoFact},
              vanish |-> {e \in Events : db.event[e] # NoFact /\ pull[e] = NoFact}]
  /\ UNCHANGED db

Syncing == sync # NoSync

(* UpsertEvent *)
Upserted(e) == [sync.work EXCEPT !.event[e] = sync.pull[e]]

MergedTo(e, results) ==
  \E r \in results :
    sync' = [sync EXCEPT !.work = r.work, !.snap = r.snap, !.todo = @ \ {e}]

(* handleNewEvent: unless a replayed decision excluded the event, memory,   *)
(* the calendar's default or the AI may categorize it.                     *)
MergeNew(e) ==
  /\ Syncing /\ e \in sync.todo /\ sync.base[e] = NoFact
  /\ \E n \in OnNewEvent(Upserted(e), sync.snap, e) :
     \E categorized \in {n.work.categorized}
                          \cup (IF n.skip THEN {} ELSE {n.work.categorized \cup {e}}) :
       MergedTo(e, MaterializeDraft([n.work EXCEPT !.categorized = categorized], sync.snap, e, FALSE))
  /\ UNCHANGED db

MergeUnchanged(e) ==
  /\ Syncing /\ e \in sync.todo /\ sync.base[e] = sync.pull[e]
  /\ MergedTo(e, MaterializeDraft(sync.work, sync.snap, e, FALSE))
  /\ UNCHANGED db

MergeChanged(e) ==
  /\ Syncing /\ e \in sync.todo /\ sync.base[e] \notin {NoFact, sync.pull[e]}
  /\ \E w \in OnChangedEvent(Upserted(e), sync.snap, e, sync.base[e]) :
       MergedTo(e, MaterializeDraft(w, sync.snap, e, MaterialChange(sync.base[e], sync.pull[e])))
  /\ UNCHANGED db

VanishedTo(e, works) ==
  \E w \in works : sync' = [sync EXCEPT !.work = w, !.vanish = @ \ {e}]

(* OnVanishedCategorized: queued, or a prior drop or keep replayed. *)
OnVanishedCategorized(w, e) ==
  IF PriorDecision(w, e, Deleted) \in {"drop_entry", "keep_entry"}
  THEN Apply(w, e, Deleted, PriorDecision(w, e, Deleted))
  ELSE {Enqueue(w, e, Deleted)}

(* Mutant: the review items stay. *)
DeleteEventOnly(w, e) == [w EXCEPT !.event[e] = NoFact]

(* DeleteEvent; its review items go with it (ON DELETE CASCADE). *)
DeleteEvent(w, e) ==
  [w EXCEPT !.event[e] = NoFact, !.review[e] = [c \in Conflicts |-> NoItem]]

(* Mutant: the category overlay does not hold the event. *)
OnVanishedUncategorized(w, snap, e) ==
  IF e \in w.excluded THEN {w}
  ELSE IF LinkedConfirmed(snap, e) # {} THEN {RaiseDrift(w, e, DeletedRev)}
  ELSE {DeleteEvent(w, e)}

(* A stored event the pull no longer has is kept when it is excluded, when  *)
(* it is categorized and when a confirmed row points at it.                *)
OnVanished(w, snap, e) ==
  IF e \in w.excluded THEN {w}
  ELSE IF e \in w.categorized THEN OnVanishedCategorized(w, e)
  ELSE IF LinkedConfirmed(snap, e) # {} THEN {RaiseDrift(w, e, DeletedRev)}
  ELSE {DeleteEvent(w, e)}

MergeVanished(e) ==
  /\ Syncing /\ sync.todo = {} /\ e \in sync.vanish
  /\ VanishedTo(e, OnVanished(sync.work, sync.snap, e))
  /\ UNCHANGED db

Merged == Syncing /\ sync.todo = {} /\ sync.vanish = {}

SyncCommit == Merged /\ db' = sync.work /\ sync' = NoSync

(* Any error, or a crash: the transaction is rolled back. *)
SyncAbort == Syncing /\ sync' = NoSync /\ UNCHANGED db

-----------------------------------------------------------------------------
(* The user's calls. *)

UserTo(databases) == sync = NoSync /\ db' \in databases /\ UNCHANGED sync

EntriesTo(tables) == UserTo({[db EXCEPT !.entries = table] : table \in tables})

ResolveReviewDecision(e, c, action) ==
  /\ IsOpen(db, e, c)
  /\ UserTo({[d EXCEPT !.review[e][c] = Decided(action)] : d \in Apply(db, e, c, action)})

ExcludeEvent(e) ==
  /\ db.event[e] # NoFact
  /\ UserTo({[MarkExcluded(DismissCalendarDrafts(DeleteCategoryOverlay(db, e), e), e) EXCEPT
                !.review[e] = [c \in Conflicts |->
                                 IF @[c].status = "open" THEN Decided("exclude") ELSE @[c]]]})

(* ConvertAllDayEvent: the user gives an all-day event an interval. *)
ConvertAllDayEvent(e, span) ==
  /\ db.event[e] # NoFact /\ db.event[e].allDay
  /\ e \notin db.excluded
  /\ Live(db.entries, e) = {}
  /\ UserTo(AddRow(db, [att |-> "draft", src |-> e, rev |-> db.event[e], span |-> span]))

(* ConfirmDraftResolution; "" is none given. *)
Resolutions == {"", "allow_parallel", "keep_theirs", "keep_mine", "split"}

(* ConfirmTimeEntry within a day: a draft that overlaps confirmed entries   *)
(* needs a resolution, another draft takes none.                           *)
ConfirmTimeEntry(id, resolution) ==
  LET overlaps == ConfirmedOverlaps(db.entries, id)
      confirmed(entries) == {Attest(entries, {id}, "confirmed")}
      dismissed == {Attest(db.entries, {id}, "dismissed")}
      left == Remainders(db.entries[id].span, {db.entries[o].span : o \in overlaps})
  IN /\ IsDraft(db.entries, id)
     /\ (overlaps = {}) <=> (resolution = "")
     /\ EntriesTo(CASE resolution \in {"", "allow_parallel"} -> confirmed(db.entries)
                     [] resolution = "keep_theirs" -> dismissed
                     [] resolution = "keep_mine" -> confirmed(DeleteRows(db.entries, overlaps))
                     [] resolution = "split" -> ReplaceByPieces(db.entries, id, left, "confirmed"))

RejectTimeEntry(id) ==
  IsDraft(db.entries, id) /\ EntriesTo({Attest(db.entries, {id}, "dismissed")})

(* SplitTimeEntry at one instant strictly inside the span. *)
SplitTimeEntry(id, cut) ==
  /\ IsDraft(db.entries, id)
  /\ LET span == db.entries[id].span IN
     /\ span.start < cut /\ cut < span.end
     /\ EntriesTo(ReplaceByPieces(db.entries, id, {Span(span.start, cut), Span(cut, span.end)}, "draft"))

AdjustDraftTimeEntry(id, span) ==
  IsDraft(db.entries, id) /\ EntriesTo({WithSpan(db.entries, id, span)})

UpdateTimeEntry(id, span) ==
  id \in RowIds(db.entries) /\ EntriesTo({WithSpan(db.entries, id, span)})

(* CreateTimeEntry and CreateGapTimeEntry *)
CreateTimeEntry(span) ==
  UserTo(AddRow(db, [att |-> "confirmed", src |-> Manual, rev |-> NoFact, span |-> span]))

DeleteTimeEntry(id) ==
  id \in RowIds(db.entries) /\ EntriesTo({DeleteRows(db.entries, {id})})

-----------------------------------------------------------------------------
SyncStep ==
  \/ \E e \in Events : MergeNew(e) \/ MergeUnchanged(e) \/ MergeChanged(e) \/ MergeVanished(e)
  \/ SyncCommit
  \/ SyncAbort

Decide ==
  \/ \E e \in Events, c \in Conflicts : \E action \in Offered(c) : ResolveReviewDecision(e, c, action)
  \/ \E e \in Events : ExcludeEvent(e)

EditEntries ==
  \/ \E e \in Events, span \in UserSpans : ConvertAllDayEvent(e, span)
  \/ \E span \in UserSpans : CreateTimeEntry(span)
  \/ \E id \in EntryIds :
       \/ \E resolution \in Resolutions : ConfirmTimeEntry(id, resolution)
       \/ RejectTimeEntry(id)
       \/ \E span \in UserSpans : AdjustDraftTimeEntry(id, span) \/ UpdateTimeEntry(id, span)
       \/ \E span \in UserSpans : SplitTimeEntry(id, span.end)
       \/ DeleteTimeEntry(id)

Next ==
  \/ \E pull \in Pulls : SyncBegin(pull)
  \/ SyncStep
  \/ Decide
  \/ EditEntries

Spec == Init /\ [][Next]_vars
-----------------------------------------------------------------------------
(* What the code promises of a sync. *)

(* Every table and every read of a sync has its type. *)
TypeOK == db \in DatabaseType /\ sync \in SyncType \cup {NoSync}

(* A row as a sync read it, and as it is when the sync uses what it read:   *)
(* the same row, of the same event; one read as confirmed is as it was, one *)
(* read as dismissed all but its revision, and one read as a draft is a     *)
(* draft or was dismissed by this sync.                                    *)
RowFaithful(read, row) ==
  /\ (read = NoRow) <=> (row = NoRow)
  /\ read # NoRow =>
       /\ row.src = read.src
       /\ read.att = "confirmed" => row = read
       /\ read.att = "dismissed" => row = [read EXCEPT !.rev = row.rev]
       /\ read.att = "draft" => row.att \in {"draft", "dismissed"}

(* What a sync read of the entries at its start is still good when it uses  *)
(* it (timeEntries, sync.go:85).                                           *)
SnapshotFaithful ==
  Syncing => \A id \in EntryIds :
    /\ RowFaithful(sync.snap[id], sync.work.entries[id])
    /\ db.entries[id] # NoRow => sync.snap[id] = db.entries[id]

(* The event rows a sync has still to visit are those it read.              *)
BaseFaithful ==
  Syncing => \A e \in Events :
    /\ e \in sync.todo => sync.pull[e] # NoFact
    /\ e \in sync.vanish => sync.pull[e] = NoFact /\ sync.base[e] # NoFact
    /\ e \in sync.todo \cup sync.vanish => sync.work.event[e] = sync.base[e]

(* The inductive invariant.  No sync ever replays a decision: a new event   *)
(* has no items, a categorized one no decided drop or keep.  So a sync     *)
(* only ever adds drafts, refreshes them or dismisses them.                *)
SyncInv ==
  /\ TypeOK
  /\ ItemsHaveEvents(db) /\ CategorizedUndecided(db)
  /\ Syncing => ItemsHaveEvents(sync.work) /\ CategorizedUndecided(sync.work)
  /\ SnapshotFaithful
  /\ BaseFaithful

(* A sync never loses, moves, demotes or promotes an entry the user has     *)
(* attested: a confirmed row is untouched, a dismissed one keeps all but   *)
(* its revision, and no row of any kind disappears (DESIGN.md:146).        *)
RowsSurviveSync ==
  Syncing => \A id \in RowIds(db.entries) :
    LET old == db.entries[id]
        new == sync.work.entries[id]
    IN /\ new # NoRow
       /\ new.src = old.src
       /\ old.att = "confirmed" => new = old
       /\ old.att = "dismissed" => new = [old EXCEPT !.rev = new.rev]

(* A rejected proposal stays rejected: when every row of an event was       *)
(* dismissed, a sync proposes it again only under a new title, or when it   *)
(* is no longer accepted.                                                  *)
RejectionKept(e) ==
  /\ sync.pull[e] # NoFact
  /\ Linked(db.entries, e) # {}
  /\ \A id \in Linked(db.entries, e) : db.entries[id].att = "dismissed"
  /\ sync.base[e] # NoFact =>
       /\ sync.base[e].title = sync.pull[e].title
       /\ sync.pull[e].status \in {"accepted", sync.base[e].status}
  => LinkedDrafts(sync.work.entries, e) = {}

RejectionSticks == Merged => \A e \in Events : RejectionKept(e)

(* The pulled events a sync proposes time for; draftEligible does not look  *)
(* at a declined response, so a declined meeting is among them.            *)
Proposed(e) ==
  /\ sync.pull[e] # NoFact /\ ~sync.pull[e].allDay
  /\ e \notin sync.work.excluded
  /\ ~(sync.pull[e].status = "tentative" /\ IsOpen(sync.work, e, Tentative))

(* There is some entry for a proposed event, and each live draft of it      *)
(* carries the revision just pulled.                                       *)
Accounted(e) ==
  Proposed(e) =>
    /\ Linked(sync.work.entries, e) # {}
    /\ \A id \in LinkedDrafts(sync.work.entries, e) : sync.work.entries[id].rev = sync.pull[e]

(* When a sync is done every meeting it proposes, and that the user has not *)
(* declined, is accounted for.  Nothing is promised of a declined one: it   *)
(* is to be excluded (DESIGN.md:40), and the code gives it a draft.         *)
Declines(e) == sync.pull[e] # NoFact /\ sync.pull[e].status = "declined"

MeetingsAccounted == Merged => \A e \in Events : ~Declines(e) => Accounted(e)

(* An event hidden from the schedule has no live draft after a sync that    *)
(* pulled it, whichever decision excluded it.                              *)
Hidden(e) ==
  sync.pull[e] # NoFact /\ ~sync.pull[e].allDay => LinkedDrafts(sync.work.entries, e) = {}

ExcludedHasNoDraft == Merged => \A e \in sync.work.excluded : Hidden(e)

(* A sync adds a draft only to an event without a live row: no proposal is  *)
(* made twice, and none next to a confirmed entry.                         *)
ProposedOnce(e) ==
  LinkedDrafts(db.entries, e) \cup LinkedConfirmed(db.entries, e) # {} =>
    LinkedDrafts(sync.work.entries, e) \subseteq LinkedDrafts(db.entries, e)

NoDuplicateProposal == Syncing => \A e \in Events : ProposedOnce(e)

(* A change or a loss of the event behind a confirmed entry is raised: the  *)
(* drift item is open, with the revision that was pulled.                  *)
DriftKnown(e) ==
  LET lag == {id \in LinkedConfirmed(db.entries, e) : db.entries[id].rev # sync.pull[e]}
      drift == sync.work.review[e][SourceDrift]
  IN /\ (sync.base[e] \notin {NoFact, sync.pull[e]} /\ sync.pull[e] # NoFact /\ lag # {})
          => drift = OpenItem(sync.pull[e])
     /\ (sync.base[e] # NoFact /\ sync.pull[e] = NoFact
           /\ LinkedConfirmed(db.entries, e) # {} /\ e \notin db.excluded \cup db.categorized)
          => drift = OpenItem(DeletedRev)

DriftRaised == Merged => \A e \in Events : DriftKnown(e)

(* A categorized event is never dropped in silence (DESIGN.md:153): its row *)
(* and category stay, and its loss or decline is in the review queue.      *)
NotDropped(e) ==
  /\ e \in sync.work.categorized
  /\ sync.base[e] # NoFact => sync.work.event[e] # NoFact
  /\ (sync.base[e] # NoFact /\ sync.pull[e] = NoFact /\ e \notin db.excluded)
       => sync.work.review[e][Deleted] # NoItem
  /\ (sync.base[e] \notin {NoFact, sync.pull[e]} /\ sync.pull[e] # NoFact
         /\ sync.pull[e].status = "declined")
       => sync.work.review[e][Declined] # NoItem

NeverSilentlyDropped == Merged => \A e \in db.categorized : NotDropped(e)

(* A sync takes nothing out of the review queue and overturns no decision:  *)
(* short of losing the event, an open item stays open, a decided one stays *)
(* decided (a drift may be raised again), an exclusion stays.              *)
ItemsKept(e) ==
  sync.work.event[e] # NoFact => \A c \in Conflicts :
    LET old == db.review[e][c]
        new == sync.work.review[e][c]
    IN old.status # "none" => \/ new = old
                              \/ c = SourceDrift /\ new.status = "open"

DecisionsSurviveSync ==
  Syncing => db.excluded \subseteq sync.work.excluded /\ \A e \in Events : ItemsKept(e)

(* Syncing the same calendar again changes nothing: the tables a sync is    *)
(* about to commit are a fixed point of every merge step.                  *)
SyncIsIdempotent ==
  Merged => \A e \in Events :
    LET w == sync.work IN
    /\ sync.pull[e] # NoFact =>
         MaterializeDraft(w, w.entries, e, FALSE) = {[work |-> w, snap |-> w.entries]}
    /\ sync.pull[e] = NoFact /\ w.event[e] # NoFact => OnVanished(w, w.entries, e) = {w}

-----------------------------------------------------------------------------
(* The inductive invariant behind these promises: what a sync owes an event *)
(* it owes from its visit of the event on, and until then it has left alone *)
(* all that the tables hold of it.                                         *)

Unvisited(e) ==
  /\ sync.work.event[e] = db.event[e]
  /\ sync.work.review[e] = db.review[e]
  /\ e \in sync.work.categorized <=> e \in db.categorized
  /\ \A id \in Linked(sync.work.entries, e) :
       sync.work.entries[id] = db.entries[id] /\ sync.snap[id] = db.entries[id]

(* A pulled event, visited: besides what is promised of it, a proposed      *)
(* event whose rows are all dismissed has them at the revision pulled.     *)
Merging(e) ==
  /\ sync.work.event[e] = sync.pull[e]
  /\ RejectionKept(e) /\ Accounted(e) /\ (e \in sync.work.excluded => Hidden(e))
  /\ Proposed(e) /\ Live(sync.work.entries, e) = {} =>
       \A id \in Linked(sync.work.entries, e) : sync.work.entries[id].rev = sync.pull[e]

(* A lost event, visited, is kept for a reason that is on record. *)
Losing(e) ==
  sync.work.event[e] # NoFact =>
    \/ e \in sync.work.excluded
    \/ e \in sync.work.categorized /\ sync.work.review[e][Deleted] # NoItem
    \/ /\ e \notin sync.work.categorized
       /\ LinkedConfirmed(sync.work.entries, e) # {}
       /\ sync.work.review[e][SourceDrift] = OpenItem(DeletedRev)

Visited(e) ==
  /\ ProposedOnce(e) /\ DriftKnown(e) /\ ItemsKept(e)
  /\ e \in db.categorized => NotDropped(e)
  /\ IF sync.pull[e] # NoFact THEN Merging(e) ELSE Losing(e)

MergeInv ==
  /\ SyncInv
  /\ Syncing =>
       /\ sync.base = db.event
       /\ sync.work.excluded = db.excluded
       /\ \A e \in Events :
            IF e \in sync.todo \cup sync.vanish \/ (sync.pull[e] = NoFact /\ sync.base[e] = NoFact)
            THEN Unvisited(e) ELSE Visited(e)

(* The queue cannot fill up with items no decision can close: whatever      *)
(* happened to its event, an open item has an action that succeeds.        *)
OpenItemsCloseable ==
  sync = NoSync => \A e \in Events, c \in Conflicts :
    IsOpen(db, e, c) => \E action \in Offered(c) : Apply(db, e, c, action) # {}

-----------------------------------------------------------------------------
(* What the docs and comments say, and the code does not do. *)

(* "re-sync never destroys a user decision" (DESIGN.md:146): a decided item *)
(* is still there after a sync.                                            *)
NoDecisionForgotten ==
  Merged => \A e \in Events, c \in Conflicts :
    db.review[e][c].status = "decided" => sync.work.review[e][c] # NoItem

(* "no silent double-counting" (DESIGN.md:42-43): a sync makes no two live  *)
(* drafts of one event overlap that did not before.                        *)
SplitDraftsStayApart ==
  Merged => \A e \in Events : \A a, b \in LinkedDrafts(db.entries, e) :
    a # b /\ Overlaps(sync.work.entries[a].span, sync.work.entries[b].span) =>
      Overlaps(db.entries[a].span, db.entries[b].span)
=============================================================================
