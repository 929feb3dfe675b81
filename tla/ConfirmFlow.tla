----------------------------- MODULE ConfirmFlow -----------------------------
(***************************************************************************)
(* The calls on time entries that read first and write afterwards:         *)
(* ConfirmTimeEntry, RejectTimeEntry, AdjustDraftTimeEntry, SplitTimeEntry.*)
(* Each statement, or transaction, is one step of its call, so a call can  *)
(* be interrupted between two of them and, with several Calls in flight,   *)
(* steps of the others come in between.  CreateTimeEntry, UpdateTimeEntry  *)
(* and DeleteTimeEntry are one statement each.  Spans may cross midnight.  *)
(***************************************************************************)
EXTENDS TimeEntries, FiniteSets

CONSTANTS Calls,       \* the calls that can be in flight at once
          NoCall,
          DayLength,   \* instants in a day
          DraftSpans,  \* spans of the drafts a sync proposes
          UserSpans,   \* spans the user types in
          CutPoints    \* instants the user cuts drafts at

Row == [att : Attestations, span : Interval]

Overnights == {"", "attribute_to_start", "split_at_midnight"}

Resolutions == {"", "allow_parallel", "keep_theirs", "keep_mine", "split"}

(* What a call was asked for, and what it has read: the draft's span, the  *)
(* entries to delete, and the spans of those that overlapped.              *)
Arguments ==
  {<<>>} \cup UserSpans \cup [cuts : SUBSET CutPoints]
    \cup [resolution : Resolutions, overnight : Overnights]

Request == [op : {"reject", "adjust", "split", "confirm", "decide"}, id : EntryIds,
            span : Interval, arg : Arguments, overlaps : SUBSET Interval, todo : SUBSET EntryIds]

ASSUME ConfirmFlowAssumption ==
  /\ NoRow \notin Row /\ NoCall \notin Request
  /\ DayLength \in Nat \ {0} /\ CutPoints \subseteq Nat
  /\ \A iv \in DraftSpans \cup UserSpans : iv \in Interval /\ NonEmpty(iv)
  /\ \A iv \in UserSpans : LocalDate(iv.start, DayLength) = LocalDate(iv.end - 1, DayLength)

VARIABLES entries,  \* the time_entry table
          call,     \* what each call has read and still has to do, or NoCall
          answer    \* how each call last ended

vars == <<entries, call, answer>>

(* The instants the rows of one attestation cover. *)
TimeOf(table, att) == Covered({table[id].span : id \in WithAttestation(table, att)})

(* The instants two confirmed rows claim. *)
DoubleBooked(table) ==
  LET confirmed == WithAttestation(table, "confirmed")
  IN UNION {Covered({table[b].span : b \in confirmed \ {a}}) \cap Points(table[a].span) : a \in confirmed}

Init ==
  /\ entries = [id \in EntryIds |-> NoRow]
  /\ call = [c \in Calls |-> NoCall]
  /\ answer = [c \in Calls |-> "none"]

(***************************************************************************)
(* Single statements.                                                      *)
(***************************************************************************)
Idle(c) == call[c] = NoCall

Insert(row) == \E table \in AddRows(entries, {row}) : entries' = table

(* createDraftFromEvent, in a sync of its own. *)
ProposeDraft(c, span) ==
  /\ Idle(c) /\ Insert([att |-> "draft", span |-> span])
  /\ UNCHANGED <<call, answer>>

CreateTimeEntry(c, span) ==
  /\ Idle(c) /\ Insert([att |-> "confirmed", span |-> span])
  /\ UNCHANGED <<call, answer>>

UpdateTimeEntry(c, id, span) ==
  /\ Idle(c) /\ id \in RowIds(entries)
  /\ entries' = WithSpan(entries, id, span)
  /\ UNCHANGED <<call, answer>>

DeleteTimeEntry(c, id) ==
  /\ Idle(c) /\ id \in RowIds(entries)
  /\ entries' = DeleteRows(entries, {id})
  /\ UNCHANGED <<call, answer>>

(***************************************************************************)
(* Calls that read the draft first.  A call that finds no draft is refused *)
(* and leaves nothing behind.                                              *)
(***************************************************************************)
Begin(c, op, id, arg) ==
  /\ Idle(c) /\ IsDraft(entries, id)
  /\ call' = [call EXCEPT ![c] = [op |-> op, id |-> id, span |-> entries[id].span, arg |-> arg,
                                 overlaps |-> {}, todo |-> {}]]
  /\ answer' = [answer EXCEPT ![c] = "none"]
  /\ UNCHANGED entries

End(c, how) ==
  /\ call' = [call EXCEPT ![c] = NoCall]
  /\ answer' = [answer EXCEPT ![c] = how]

(* An UPDATE ... RETURNING of a row that is gone is an error, on which the *)
(* transaction around it rolls back.                                       *)
Write(c, tables) ==
  IF call[c].id \in RowIds(entries)
  THEN entries' \in tables /\ End(c, "ok")
  ELSE End(c, "refused") /\ UNCHANGED entries

Running(c, op) == ~Idle(c) /\ call[c].op = op

(* The process dies, or the context is cancelled, before the next step. *)
Interrupt(c) == ~Idle(c) /\ End(c, "lost") /\ UNCHANGED entries

BeginReject(c, id) == Begin(c, "reject", id, <<>>)

RejectTimeEntry(c) ==
  /\ Running(c, "reject")
  /\ Write(c, {Attest(entries, {call[c].id}, "dismissed")})

BeginAdjust(c, id, span) == Begin(c, "adjust", id, span)

AdjustDraftTimeEntry(c) ==
  /\ Running(c, "adjust")
  /\ Write(c, {WithSpan(entries, call[c].id, call[c].arg)})

(* Cut points are strictly inside the span. *)
BeginSplit(c, id, cuts) ==
  /\ IsDraft(entries, id) /\ cuts # {}
  /\ cuts \subseteq Points(entries[id].span) \ {entries[id].span.start}
  /\ Begin(c, "split", id, [cuts |-> cuts])

(* Mutant: the last segment is not made. *)
BetweenCutsOnly(span, cuts) ==
  {iv \in {Span(a, b) : a \in {span.start} \cup cuts, b \in cuts} :
     NonEmpty(iv) /\ \A cut \in cuts : ~(iv.start < cut /\ cut < iv.end)}

(* The segments between adjacent bounds. *)
Between(span, cuts) ==
  {iv \in {Span(a, b) : a \in {span.start} \cup cuts, b \in cuts \cup {span.end}} :
     NonEmpty(iv) /\ \A cut \in cuts : ~(iv.start < cut /\ cut < iv.end)}

(* The transaction of the calls that replace a draft by pieces: a row per  *)
(* piece with what the call read of the draft, which is dismissed.         *)
Replace(c, pieces, att) ==
  Write(c, {Attest(table, {call[c].id}, "dismissed") :
              table \in AddRows(entries, {[att |-> att, span |-> p] : p \in pieces})})

SplitTimeEntry(c) ==
  /\ Running(c, "split")
  /\ Replace(c, Between(call[c].span, call[c].arg.cuts), "draft")

(***************************************************************************)
(* ConfirmTimeEntry                                                        *)
(***************************************************************************)
BeginConfirm(c, id, resolution, overnight) ==
  Begin(c, "confirm", id, [resolution |-> resolution, overnight |-> overnight])

(* overlappingConfirmed, the second read. *)
ListOverlaps(c) ==
  /\ Running(c, "confirm")
  /\ LET others == {o \in WithAttestation(entries, "confirmed") \ {call[c].id} :
                      Overlaps(entries[o].span, call[c].span)}
     IN  call' = [call EXCEPT ![c].op = "decide", ![c].todo = others,
                              ![c].overlaps = {entries[o].span : o \in others}]
  /\ UNCHANGED <<entries, answer>>

Deciding(c) == Running(c, "decide")

NoOverlaps(c) == call[c].overlaps = {}

KeepTheirs(c) ==
  /\ Deciding(c) /\ ~NoOverlaps(c) /\ call[c].arg.resolution = "keep_theirs"
  /\ Write(c, {Attest(entries, {call[c].id}, "dismissed")})

(* Mutant: the loop also runs for split. *)
DeleteTheirsFirst(c, other) ==
  /\ Deciding(c) /\ call[c].arg.resolution \in {"keep_mine", "split"} /\ other \in call[c].todo
  /\ entries' = DeleteRows(entries, {other})
  /\ call' = [call EXCEPT ![c].todo = @ \ {other}]
  /\ UNCHANGED answer

(* One DELETE of the loop; a row already gone is no error. *)
DeleteTheirs(c, other) ==
  /\ Deciding(c) /\ call[c].arg.resolution = "keep_mine" /\ other \in call[c].todo
  /\ entries' = DeleteRows(entries, {other})
  /\ call' = [call EXCEPT ![c].todo = @ \ {other}]
  /\ UNCHANGED answer

(* Mutant: the gate lets overlaps pass when no resolution is given. *)
PastOverlapGateUnasked(c) ==
  IF NoOverlaps(c)
  THEN call[c].arg.resolution = ""
  ELSE call[c].arg.resolution \in {"", "allow_parallel"}
         \/ (call[c].arg.resolution = "keep_mine" /\ call[c].todo = {})

(* The overlaps are dealt with and the whole draft is to be confirmed. *)
PastOverlapGate(c) ==
  IF NoOverlaps(c)
  THEN call[c].arg.resolution = ""
  ELSE call[c].arg.resolution = "allow_parallel"
         \/ (call[c].arg.resolution = "keep_mine" /\ call[c].todo = {})

CrossesMidnight(iv) == CrossesLocalMidnight(iv, DayLength)

Segments(iv) == SplitAtLocalMidnights(iv, DayLength)

(* confirmInPlace: within a day, or attributed to the day it starts on. *)
ConfirmInPlace(c) ==
  /\ Deciding(c) /\ PastOverlapGate(c)
  /\ call[c].arg.overnight = (IF CrossesMidnight(call[c].span) THEN "attribute_to_start" ELSE "")
  /\ Write(c, {Attest(entries, {call[c].id}, "confirmed")})

ConfirmSplitAtMidnight(c) ==
  /\ Deciding(c) /\ PastOverlapGate(c)
  /\ CrossesMidnight(call[c].span) /\ call[c].arg.overnight = "split_at_midnight"
  /\ Cardinality(Segments(call[c].span)) >= 2
  /\ Replace(c, Segments(call[c].span), "confirmed")

(* Mutant: remainders are not cut at midnight. *)
PiecesUncut(c, remainders) == remainders

(* What confirmDraftAroundOverlaps inserts for the remainders. *)
Pieces(c, remainders) ==
  IF call[c].arg.overnight = "split_at_midnight"
  THEN {iv \in remainders : ~CrossesMidnight(iv)}
         \cup UNION {Segments(iv) : iv \in {r \in remainders : CrossesMidnight(r)}}
  ELSE remainders

Around(c) == Remainders(call[c].span, call[c].overlaps)

OvernightGate(c) == call[c].arg.overnight # "" \/ \A iv \in Around(c) : ~CrossesMidnight(iv)

(* Nothing remains, and the draft is dismissed; or the remainders are      *)
(* confirmed in its place.                                                 *)
ConfirmAroundOverlaps(c) ==
  /\ Deciding(c) /\ ~NoOverlaps(c) /\ call[c].arg.resolution = "split" /\ OvernightGate(c)
  /\ Replace(c, Pieces(c, Around(c)), "confirmed")

(* Every other combination is an input error or a failed precondition. *)
RefuseConfirm(c) ==
  /\ Deciding(c)
  /\ \/ NoOverlaps(c) /\ call[c].arg.resolution # ""
     \/ ~NoOverlaps(c) /\ call[c].arg.resolution = ""
     \/ ~NoOverlaps(c) /\ call[c].arg.resolution = "split" /\ ~OvernightGate(c)
     \/ /\ PastOverlapGate(c)
        /\ IF CrossesMidnight(call[c].span)
           THEN \/ call[c].arg.overnight = ""
                \/ /\ call[c].arg.overnight = "split_at_midnight"
                   /\ Cardinality(Segments(call[c].span)) < 2
           ELSE call[c].arg.overnight # ""
  /\ End(c, "refused")
  /\ UNCHANGED entries

Next ==
  \E c \in Calls :
    \/ \E span \in DraftSpans : ProposeDraft(c, span)
    \/ \E span \in UserSpans : CreateTimeEntry(c, span)
    \/ \E id \in EntryIds :
         \/ DeleteTimeEntry(c, id)
         \/ BeginReject(c, id)
         \/ \E span \in UserSpans : UpdateTimeEntry(c, id, span) \/ BeginAdjust(c, id, span)
         \/ \E cuts \in SUBSET CutPoints : BeginSplit(c, id, cuts)
         \/ \E resolution \in Resolutions, overnight \in Overnights :
              BeginConfirm(c, id, resolution, overnight)
         \/ DeleteTheirs(c, id)
    \/ Interrupt(c) \/ RejectTimeEntry(c) \/ AdjustDraftTimeEntry(c) \/ SplitTimeEntry(c)
    \/ ListOverlaps(c) \/ KeepTheirs(c) \/ ConfirmInPlace(c) \/ ConfirmSplitAtMidnight(c)
    \/ ConfirmAroundOverlaps(c) \/ RefuseConfirm(c)

Spec == Init /\ [][Next]_vars

(***************************************************************************)
(* Properties                                                              *)
(***************************************************************************)
(* Every row and every request in flight is well formed, and no row is     *)
(* empty: an interval of the schedule has a length.                        *)
TypeOK ==
  /\ \A id \in RowIds(entries) : entries[id] \in Row /\ NonEmpty(entries[id].span)
  /\ DOMAIN entries = EntryIds /\ DOMAIN call = Calls
  /\ \A c \in Calls : Idle(c) \/ call[c] \in Request
  /\ answer \in [Calls -> {"none", "ok", "refused", "lost"}]

(* c takes the step. *)
StepOf(c) == ~Idle(c) /\ call'[c] # call[c]

Succeeds(c) == StepOf(c) /\ call'[c] = NoCall /\ answer'[c] = "ok"

Confirmed == WithAttestation(entries, "confirmed")

(* Confirming never makes two confirmed entries claim the same minute      *)
(* unless the call asks for allow_parallel: the overlap gate, the          *)
(* deletion, the remainders and the midnight cut together leave every      *)
(* minute to one entry (ConfirmTimeEntry, confirmDraftAroundOverlaps).     *)
BooksNothingTwice(c) ==
  StepOf(c) /\ Deciding(c) /\ call[c].arg.resolution # "allow_parallel" =>
    DoubleBooked(entries') \subseteq DoubleBooked(entries)

NoDoubleBooking == [][\A c \in Calls : BooksNothingTwice(c)]_vars

(* A draft that is confirmed is confirmed whole: afterwards all its time,  *)
(* and no other time than before, is confirmed, however it was cut up      *)
(* around other entries and at midnight; a split leaves all its time to    *)
(* drafts (confirmDraftAroundOverlaps, SplitTimeEntry).                    *)
KeepsDraftTime(c) ==
  Succeeds(c) =>
    /\ Deciding(c) /\ call[c].arg.resolution # "keep_theirs" =>
         TimeOf(entries', "confirmed") = TimeOf(entries, "confirmed") \cup Points(call[c].span)
    /\ call[c].op = "split" => TimeOf(entries', "draft") = TimeOf(entries, "draft")

DraftTimeKept == [][\A c \in Calls : KeepsDraftTime(c)]_vars

(* Wherever a call is interrupted, it has unconfirmed nothing, except that *)
(* keep_mine may have deleted entries that overlap its draft.              *)
KeepsConfirmedTime(c) ==
  StepOf(c) =>
    TimeOf(entries, "confirmed") \ TimeOf(entries', "confirmed") \subseteq
      (IF Deciding(c) /\ call[c].arg.resolution = "keep_mine" THEN Covered(call[c].overlaps) ELSE {})

ConfirmedTimeKept == [][\A c \in Calls : KeepsConfirmedTime(c)]_vars

(* Confirmed under split_at_midnight, no entry spans two work dates        *)
(* (confirmSplitAtMidnight, and per remainder confirmDraftAroundOverlaps). *)
CutsAtMidnight(c) ==
  Succeeds(c) /\ Deciding(c) /\ call[c].arg.overnight = "split_at_midnight" =>
    \A id \in WithAttestation(entries', "confirmed") \ Confirmed :
      Cardinality(Segments(entries'[id].span)) = 1

PiecesWithinDay == [][\A c \in Calls : CutsAtMidnight(c)]_vars

(* A refused keep_mine has deleted nothing: "deletes overlapping confirmed *)
(* entries, then confirms the draft" (time_entry_confirm.go:20).           *)
RefusalDeletesNothing ==
  [][\A c \in Calls :
       StepOf(c) /\ Deciding(c) /\ call'[c] = NoCall /\ answer'[c] = "refused" =>
         call[c].overlaps \subseteq {entries[id].span : id \in Confirmed}]_vars
=============================================================================
