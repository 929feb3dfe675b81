--------------------------- MODULE ConfirmFlowProofs ---------------------------
(***************************************************************************)
(* What ConfirmFlow promises of every set of rows, spans and cut points and *)
(* every length of the day.  TypedInv holds with any number of calls in     *)
(* flight; that a call finds what it read, FlowInv, with one at a time.     *)
(***************************************************************************)
EXTENDS ConfirmFlow, TimeEntriesProofs, FiniteSetTheorems

(* What the request of a call in flight carries. *)
RequestOK(r) ==
  /\ r \in Request
  /\ NonEmpty(r.span)
  /\ \A iv \in r.overlaps : NonEmpty(iv) /\ Overlaps(iv, r.span)
  /\ r.op = "adjust" => r.arg \in UserSpans
  /\ r.op = "split" => r.arg.cuts \subseteq (CutPoints \cap Points(r.span)) \ {r.span.start}

TypedInv == TypeOK /\ \A c \in Calls : ~Idle(c) => RequestOK(call[c])

(* The confirmed rows that overlap a span. *)
Rivals(table, span) == {o \in WithAttestation(table, "confirmed") : Overlaps(table[o].span, span)}

(* What a call read still holds, up to the entries it has deleted itself.   *)
StillHolds(table, r) ==
  /\ IsDraft(table, r.id) /\ table[r.id].span = r.span
  /\ r.op = "decide" =>
       /\ r.todo = Rivals(table, r.span)
       /\ \A o \in r.todo : table[o].span \in r.overlaps
       /\ r.arg.resolution # "keep_mine" => r.overlaps = {table[o].span : o \in r.todo}

OneAtATime == \A c, d \in Calls : c = d

FlowInv == TypedInv /\ \A c \in Calls : ~Idle(c) => StillHolds(entries, call[c])

-----------------------------------------------------------------------------
(* Time and double bookings of a table. *)

LEMMA InTime ==
  ASSUME NEW table, NEW att, NEW t
  PROVE  t \in TimeOf(table, att) <=>
           \E id \in EntryIds : table[id] # NoRow /\ table[id].att = att /\ t \in Points(table[id].span)
BY DEF TimeOf, Covered, WithAttestation, RowIds

LEMMA InDoubleBooked ==
  ASSUME NEW table, NEW t
  PROVE  t \in DoubleBooked(table) <=>
           \E a, b \in EntryIds :
             /\ a # b
             /\ table[a] # NoRow /\ table[a].att = "confirmed" /\ t \in Points(table[a].span)
             /\ table[b] # NoRow /\ table[b].att = "confirmed" /\ t \in Points(table[b].span)
<1> DEFINE confirmed == WithAttestation(table, "confirmed")
           others(a) == Covered({table[b].span : b \in confirmed \ {a}})
<1>0. DoubleBooked(table) = UNION {others(a) \cap Points(table[a].span) : a \in confirmed}
  BY DEF DoubleBooked
<1>2. \A a : t \in others(a) <=> \E b \in confirmed \ {a} : t \in Points(table[b].span)
  BY DEF Covered
<1> HIDE DEF others
<1>1. t \in DoubleBooked(table) <=>
        \E a \in confirmed : t \in Points(table[a].span) /\ t \in others(a)
  BY <1>0
<1>3. \A id : id \in confirmed <=> id \in EntryIds /\ table[id] # NoRow /\ table[id].att = "confirmed"
  BY DEF WithAttestation, RowIds
<1> HIDE DEF confirmed
<1> QED
  BY <1>1, <1>2, <1>3

(* A table whose confirmed rows were confirmed before, with the same spans, *)
(* confirms no more than before, and books nothing twice that was not.      *)
LEMMA NothingConfirmed ==
  ASSUME NEW old, NEW new,
         \A id \in EntryIds : new[id] # NoRow /\ new[id].att = "confirmed" =>
           old[id] # NoRow /\ old[id].att = "confirmed" /\ old[id].span = new[id].span
  PROVE  DoubleBooked(new) \subseteq DoubleBooked(old)
<1>1. \A t : t \in DoubleBooked(new) => t \in DoubleBooked(old)
  BY InDoubleBooked
<1> QED
  BY <1>1

-----------------------------------------------------------------------------
(* Well-formed tables. *)

TableOK(table) ==
  /\ DOMAIN table = EntryIds
  /\ \A id \in EntryIds : table[id] # NoRow => table[id] \in Row /\ NonEmpty(table[id].span)

LEMMA EntriesOK ==
  ASSUME TypedInv
  PROVE  TableOK(entries)
BY DEF TypedInv, TypeOK, TableOK, RowIds

(* A row of a table, as it was attested and as its span was moved.          *)
LEMMA RowOf ==
  ASSUME NEW row \in Row, NonEmpty(row.span)
  PROVE  /\ row.span \in Interval /\ row.att \in Attestations
         /\ \A att \in Attestations :
              /\ [row EXCEPT !.att = att] \in Row
              /\ [row EXCEPT !.att = att].span = row.span
              /\ [row EXCEPT !.att = att].att = att
              /\ [row EXCEPT !.att = att] # NoRow
         /\ \A iv \in Interval :
              /\ [row EXCEPT !.span = iv] \in Row
              /\ [row EXCEPT !.span = iv].span = iv
              /\ [row EXCEPT !.span = iv].att = row.att
              /\ [row EXCEPT !.span = iv] # NoRow
         /\ \A iv \in Interval, att \in Attestations :
              /\ [att |-> att, span |-> iv] \in Row /\ [att |-> att, span |-> iv] # NoRow
BY ConfirmFlowAssumption DEF Row

(* Tables that differ in one row at most. *)
SameBut(new, old, id) == \A x \in EntryIds : x # id => new[x] = old[x]

(* The table after one row was attested. *)
LEMMA AttestOne ==
  ASSUME NEW table, TableOK(table), NEW id \in RowIds(table), NEW att \in Attestations
  PROVE  LET new == Attest(table, {id}, att) IN
         /\ TableOK(new)
         /\ SameBut(new, table, id)
         /\ new[id] # NoRow /\ new[id].att = att /\ new[id].span = table[id].span
<1> DEFINE new == Attest(table, {id}, att)
<1>1. id \in EntryIds /\ table[id] \in Row /\ NonEmpty(table[id].span)
  BY DEF RowIds, TableOK
<1>2. /\ DOMAIN new = EntryIds /\ new[id] = [table[id] EXCEPT !.att = att]
      /\ \A x \in EntryIds : x # id => new[x] = table[x]
  BY <1>1 DEF Attest
<1> HIDE DEF new
<1>3. new[id] \in Row /\ new[id] # NoRow /\ new[id].att = att /\ new[id].span = table[id].span
  BY <1>1, <1>2, RowOf
<1>4. TableOK(new)
  BY <1>1, <1>2, <1>3 DEF TableOK
<1> QED
  BY <1>2, <1>3, <1>4 DEF new, SameBut

(* The table after one row was moved. *)
LEMMA MoveOne ==
  ASSUME NEW table, TableOK(table), NEW id \in RowIds(table),
         NEW iv \in Interval, NonEmpty(iv)
  PROVE  LET new == WithSpan(table, id, iv) IN
         /\ TableOK(new)
         /\ SameBut(new, table, id)
         /\ new[id] # NoRow /\ new[id].att = table[id].att /\ new[id].span = iv
<1> DEFINE new == WithSpan(table, id, iv)
<1>1. id \in EntryIds /\ table[id] \in Row /\ NonEmpty(table[id].span)
  BY DEF RowIds, TableOK
<1>2. /\ DOMAIN new = EntryIds /\ new[id] = [table[id] EXCEPT !.span = iv]
      /\ \A x \in EntryIds : x # id => new[x] = table[x]
  BY <1>1 DEF WithSpan, TableOK
<1>3. new[id] \in Row /\ new[id] # NoRow /\ new[id].span = iv /\ new[id].att = table[id].att
  BY <1>1, <1>2, RowOf
<1> HIDE DEF new
<1>4. TableOK(new)
  BY <1>1, <1>2, <1>3 DEF TableOK
<1> QED
  BY <1>2, <1>3, <1>4 DEF new, SameBut

LEMMA DeleteOne ==
  ASSUME NEW table, TableOK(table), NEW id
  PROVE  LET new == DeleteRows(table, {id}) IN
         /\ TableOK(new)
         /\ \A x \in EntryIds : new[x] = IF x = id THEN NoRow ELSE table[x]
BY DEF DeleteRows, TableOK

(* Rows of one attestation. *)
RowsFor(ivs, att) == {[att |-> att, span |-> iv] : iv \in ivs}

(* Every interval has become a row on a free id of its own. *)
Inserted(new, table, ivs, att) ==
  /\ \A x \in EntryIds :
       \/ new[x] = table[x]
       \/ table[x] = NoRow /\ \E iv \in ivs : new[x] = [att |-> att, span |-> iv]
  /\ \A iv \in ivs : \E x \in EntryIds : table[x] = NoRow /\ new[x] = [att |-> att, span |-> iv]
  /\ \A a, b \in EntryIds :
       table[a] = NoRow /\ table[b] = NoRow /\ new[a] # NoRow /\ new[a] = new[b] => a = b

Spans(ivs) == ivs \subseteq Interval /\ \A iv \in ivs : NonEmpty(iv)

(* The table after rows were inserted. *)
LEMMA InsertRows ==
  ASSUME NEW table, TableOK(table), NEW ivs, Spans(ivs), NEW att \in Attestations,
         NEW new \in AddRows(table, RowsFor(ivs, att))
  PROVE  TableOK(new) /\ Inserted(new, table, ivs, att)
<1> DEFINE rows == RowsFor(ivs, att)
<1>1. ASSUME NEW r \in rows PROVE r \in Row /\ r # NoRow /\ NonEmpty(r.span)
  <2>1. PICK iv \in ivs : r = [att |-> att, span |-> iv]
    BY DEF RowsFor
  <2>2. iv \in Interval /\ NonEmpty(iv)
    BY DEF Spans
  <2> QED BY <2>1, <2>2, ConfirmFlowAssumption DEF Row
<1>2. NoRow \notin rows
  BY <1>1
<1>3. \A iv \in ivs : [att |-> att, span |-> iv] \in rows
  BY DEF RowsFor
<1>4. \A r \in rows : \E iv \in ivs : r = [att |-> att, span |-> iv]
  BY DEF RowsFor
<1>5. new \in AddRows(table, rows)
  OBVIOUS
<1> HIDE DEF rows
<1>6. /\ DOMAIN new = EntryIds
      /\ \A id \in EntryIds : new[id] = table[id] \/ (table[id] = NoRow /\ new[id] \in rows)
      /\ \A r \in rows : \E id \in EntryIds : table[id] = NoRow /\ new[id] = r
      /\ \A a, b \in EntryIds : table[a] = NoRow /\ table[b] = NoRow /\ new[a] \in rows /\ new[a] = new[b] => a = b
  BY <1>2, <1>5, AddedRows
<1>7. TableOK(new)
  BY <1>1, <1>6 DEF TableOK
<1> QED
  BY <1>3, <1>4, <1>6, <1>7 DEF Inserted

(* A row is replaced by pieces: they are added and it is dismissed.         *)
Replaced(old, id, pieces, att) ==
  {Attest(table, {id}, "dismissed") : table \in AddRows(old, RowsFor(pieces, att))}

LEMMA ReplacedRows ==
  ASSUME NEW old, TableOK(old), NEW id \in RowIds(old), NEW pieces, Spans(pieces), NEW att \in Attestations, NEW new \in Replaced(old, id, pieces, att)
  PROVE  /\ TableOK(new)
         /\ new[id] # NoRow /\ new[id].att = "dismissed"
         /\ \A x \in EntryIds :
              \/ x = id
              \/ new[x] = old[x]
              \/ /\ old[x] = NoRow /\ new[x] # NoRow /\ new[x].att = att /\ new[x].span \in pieces
         /\ \A p \in pieces : \E x \in EntryIds :
              x # id /\ old[x] = NoRow /\ new[x] # NoRow /\ new[x].att = att /\ new[x].span = p
         /\ \A a, b \in EntryIds :
              /\ old[a] = NoRow /\ old[b] = NoRow /\ new[a] # NoRow /\ new[b] # NoRow
              /\ new[a].span = new[b].span
              => a = b
<1>1. PICK table \in AddRows(old, RowsFor(pieces, att)) :
        new = Attest(table, {id}, "dismissed")
  BY DEF Replaced
<1>2. TableOK(table) /\ Inserted(table, old, pieces, att)
  BY InsertRows
<1>3. id \in EntryIds /\ old[id] # NoRow /\ table[id] = old[id] /\ id \in RowIds(table)
  BY <1>2 DEF RowIds, Inserted
<1>4. TableOK(new) /\ SameBut(new, table, id) /\ new[id] # NoRow /\ new[id].att = "dismissed"
  <2>1. "dismissed" \in Attestations
    BY DEF Attestations
  <2> QED BY <1>1, <1>2, <1>3, <2>1, AttestOne
<1>5. \A p \in pieces : [att |-> att, span |-> p] # NoRow
  BY ConfirmFlowAssumption DEF Row, Spans
<1>6. ASSUME NEW x \in EntryIds, x # id, new[x] # old[x]
      PROVE  old[x] = NoRow /\ \E p \in pieces : new[x] = [att |-> att, span |-> p]
  BY <1>2, <1>4, <1>6 DEF Inserted, SameBut
<1>7. ASSUME NEW p \in pieces
      PROVE  \E x \in EntryIds : x # id /\ old[x] = NoRow /\ new[x] = [att |-> att, span |-> p]
  BY <1>2, <1>3, <1>4 DEF Inserted, SameBut
<1>8. ASSUME NEW a \in EntryIds, NEW b \in EntryIds, old[a] = NoRow, old[b] = NoRow,
             new[a] # NoRow, new[b] # NoRow, new[a].span = new[b].span
      PROVE  a = b
  <2>1. a # id /\ b # id
    BY <1>3, <1>8
  <2>2. PICK p \in pieces : new[a] = [att |-> att, span |-> p]
    BY <1>6, <1>8, <2>1
  <2>3. PICK q \in pieces : new[b] = [att |-> att, span |-> q]
    BY <1>6, <1>8, <2>1
  <2>4. new[a] = new[b]
    BY <1>8, <2>2, <2>3
  <2>5. table[a] = table[b] /\ table[a] # NoRow
    BY <1>4, <1>8, <2>1, <2>4 DEF SameBut
  <2> QED BY <1>2, <1>8, <2>5 DEF Inserted
<1>9. ASSUME NEW x \in EntryIds, x # id, new[x] # old[x]
      PROVE  old[x] = NoRow /\ new[x] # NoRow /\ new[x].att = att /\ new[x].span \in pieces
  <2>1. PICK p \in pieces : new[x] = [att |-> att, span |-> p]
    BY <1>6, <1>9
  <2> QED BY <1>5, <1>6, <1>9, <2>1
<1>10. ASSUME NEW p \in pieces
       PROVE  \E x \in EntryIds :
                x # id /\ old[x] = NoRow /\ new[x] # NoRow /\ new[x].att = att /\ new[x].span = p
  <2>1. PICK x \in EntryIds : x # id /\ old[x] = NoRow /\ new[x] = [att |-> att, span |-> p]
    BY <1>7
  <2>2. new[x] # NoRow /\ new[x].att = att /\ new[x].span = p
    BY <1>5, <2>1
  <2> QED BY <2>1, <2>2
<1> QED
  BY <1>4, <1>8, <1>9, <1>10

(* The time of the pieces is added to what their attestation covers; that   *)
(* of the row is taken from what its own covers, unless others have it too. *)
LEMMA ReplacedTime ==
  ASSUME NEW old, TableOK(old), NEW id, IsDraft(old, id), NEW pieces, Spans(pieces), NEW att \in {"draft", "confirmed"}, NEW new \in Replaced(old, id, pieces, att)
  PROVE  /\ att = "confirmed" => TimeOf(new, att) = TimeOf(old, att) \cup Covered(pieces)
         /\ att = "draft" /\ Covered(pieces) = Points(old[id].span) => TimeOf(new, att) = TimeOf(old, att)
         /\ att = "draft" => TimeOf(new, "confirmed") = TimeOf(old, "confirmed")
<1>1. id \in RowIds(old) /\ id \in EntryIds /\ old[id] # NoRow /\ old[id].att = "draft"
  BY DEF IsDraft, WithAttestation, RowIds
<1>2. /\ new[id] # NoRow /\ new[id].att = "dismissed"
      /\ \A x \in EntryIds :
           \/ x = id
           \/ new[x] = old[x]
           \/ old[x] = NoRow /\ new[x] # NoRow /\ new[x].att = att /\ new[x].span \in pieces
      /\ \A p \in pieces : \E x \in EntryIds :
           x # id /\ old[x] = NoRow /\ new[x] # NoRow /\ new[x].att = att /\ new[x].span = p
  BY <1>1, ReplacedRows DEF Attestations
<1>3. ASSUME NEW t
      PROVE  t \in TimeOf(new, att) <=>
               \/ t \in Covered(pieces)
               \/ \E x \in EntryIds : x # id /\ old[x] # NoRow /\ old[x].att = att /\ t \in Points(old[x].span)
  <2>1. ASSUME t \in TimeOf(new, att)
        PROVE  \/ t \in Covered(pieces)
               \/ \E x \in EntryIds : x # id /\ old[x] # NoRow /\ old[x].att = att /\ t \in Points(old[x].span)
    <3>1. PICK x \in EntryIds : new[x] # NoRow /\ new[x].att = att /\ t \in Points(new[x].span)
      BY <2>1, InTime
    <3>2. x # id
      BY <1>2, <3>1
    <3> QED BY <1>2, <3>1, <3>2, InCovered
  <2>2. ASSUME t \in Covered(pieces) PROVE t \in TimeOf(new, att)
    <3>1. PICK p \in pieces : t \in Points(p)
      BY <2>2, InCovered
    <3> QED BY <1>2, <3>1, InTime
  <2>3. ASSUME NEW x \in EntryIds, x # id, old[x] # NoRow, old[x].att = att, t \in Points(old[x].span)
        PROVE  t \in TimeOf(new, att)
    <3>1. new[x] = old[x]
      BY <1>2, <2>3
    <3> QED BY <2>3, <3>1, InTime
  <2> QED BY <2>1, <2>2, <2>3
<1>4. ASSUME att = "confirmed" PROVE TimeOf(new, att) = TimeOf(old, att) \cup Covered(pieces)
  <2>1. \A t : t \in TimeOf(new, att) <=> t \in TimeOf(old, att) \/ t \in Covered(pieces)
    BY <1>1, <1>3, <1>4, InTime
  <2> QED BY <2>1
<1>5. ASSUME att = "draft", Covered(pieces) = Points(old[id].span) PROVE TimeOf(new, att) = TimeOf(old, att)
  <2>1. \A t : t \in TimeOf(new, att) <=> t \in TimeOf(old, att)
    BY <1>1, <1>3, <1>5, InTime
  <2> QED BY <2>1
<1>6. ASSUME att = "draft" PROVE TimeOf(new, "confirmed") = TimeOf(old, "confirmed")
  <2>1. ASSUME NEW x \in EntryIds
        PROVE  (new[x] # NoRow /\ new[x].att = "confirmed") <=> (old[x] # NoRow /\ old[x].att = "confirmed")
    BY <1>1, <1>2, <1>6
  <2>2. ASSUME NEW x \in EntryIds, old[x] # NoRow, old[x].att = "confirmed"
        PROVE  new[x] = old[x]
    BY <1>1, <1>2, <2>2
  <2>3. \A t : t \in TimeOf(new, "confirmed") <=> t \in TimeOf(old, "confirmed")
    BY <2>1, <2>2, InTime
  <2> QED BY <2>3
<1> QED
  BY <1>4, <1>5, <1>6

-----------------------------------------------------------------------------
(* Pieces that replace a draft. *)

(* No instant is in two of the pieces. *)
Apart(ivs) == \A p, q \in ivs : \A t : t \in Points(p) /\ t \in Points(q) => p = q

(* No confirmed row has an instant of a piece. *)
Unclaimed(table, ivs) ==
  \A p \in ivs : \A t : t \in Points(p) => t \notin TimeOf(table, "confirmed")

(* Confirming pieces that are apart and unclaimed books nothing twice.      *)
LEMMA ReplacedBookings ==
  ASSUME NEW old, TableOK(old), NEW id, IsDraft(old, id), NEW pieces, Spans(pieces), Apart(pieces),
         Unclaimed(old, pieces), NEW new \in Replaced(old, id, pieces, "confirmed")
  PROVE  DoubleBooked(new) \subseteq DoubleBooked(old)
<1>1. id \in RowIds(old) /\ id \in EntryIds /\ old[id] # NoRow /\ old[id].att = "draft"
  BY DEF IsDraft, WithAttestation, RowIds
<1>2. /\ new[id] # NoRow /\ new[id].att = "dismissed"
      /\ \A x \in EntryIds :
           \/ x = id
           \/ new[x] = old[x]
           \/ old[x] = NoRow /\ new[x] # NoRow /\ new[x].att = "confirmed" /\ new[x].span \in pieces
      /\ \A a, b \in EntryIds :
           /\ old[a] = NoRow /\ old[b] = NoRow /\ new[a] # NoRow /\ new[b] # NoRow
           /\ new[a].span = new[b].span
           => a = b
  BY <1>1, ReplacedRows DEF Attestations
<1>3. ASSUME NEW t, NEW a \in EntryIds, NEW b \in EntryIds, a # b,
             new[a] # NoRow, new[a].att = "confirmed", t \in Points(new[a].span),
             new[b] # NoRow, new[b].att = "confirmed", t \in Points(new[b].span)
      PROVE  new[a] = old[a]
  <2> SUFFICES ASSUME new[a] # old[a] PROVE FALSE
    OBVIOUS
  <2>1. a # id /\ b # id
    BY <1>2, <1>3
  <2>2. old[a] = NoRow /\ new[a].span \in pieces
    BY <1>2, <2>1
  <2>3. CASE new[b] = old[b]
    <3>1. t \in TimeOf(old, "confirmed")
      BY <1>3, <2>3, InTime
    <3> QED BY <1>3, <2>2, <3>1 DEF Unclaimed
  <2>4. CASE new[b] # old[b]
    <3>1. old[b] = NoRow /\ new[b].span \in pieces
      BY <1>2, <2>1, <2>4
    <3>2. new[a].span = new[b].span
      BY <1>3, <2>2, <3>1 DEF Apart
    <3> QED BY <1>2, <1>3, <2>2, <3>1, <3>2
  <2> QED BY <2>3, <2>4
<1>4. ASSUME NEW t \in DoubleBooked(new) PROVE t \in DoubleBooked(old)
  <2>1. PICK a, b \in EntryIds :
          /\ a # b
          /\ new[a] # NoRow /\ new[a].att = "confirmed" /\ t \in Points(new[a].span)
          /\ new[b] # NoRow /\ new[b].att = "confirmed" /\ t \in Points(new[b].span)
    BY InDoubleBooked
  <2>2. new[a] = old[a] /\ new[b] = old[b]
    BY <1>3, <2>1
  <2> QED BY <2>1, <2>2, InDoubleBooked
<1> QED
  BY <1>4

(* The pieces of a span cut at midnight. *)
LEMMA SegmentPieces ==
  ASSUME NEW span \in Interval, NonEmpty(span)
  PROVE  /\ Spans(Segments(span)) /\ Apart(Segments(span))
         /\ Covered(Segments(span)) = Points(span)
         /\ \A p \in Segments(span) : Cardinality(Segments(p)) = 1
<1>1. DayLength \in Nat \ {0}
  BY ConfirmFlowAssumption
<1>2. Segments(span) = SplitAtLocalMidnights(span, DayLength)
  BY DEF Segments
<1>3. /\ Covered(Segments(span)) = Points(span)
      /\ \A p \in Segments(span) :
           p \in Interval /\ NonEmpty(p) /\ LocalDate(p.start, DayLength) = LocalDate(p.end - 1, DayLength)
      /\ \A p, q \in Segments(span) : \A t : t \in Points(p) /\ t \in Points(q) => p = q
  BY <1>1, <1>2, SegmentsOf
<1>4. ASSUME NEW p \in Segments(span) PROVE Cardinality(Segments(p)) = 1
  <2>1. Segments(p) = {DayPiece(p, DayLength, LocalDate(p.start, DayLength))}
    BY <1>1, <1>3, OneSegment DEF Segments
  <2> QED BY <2>1, FS_Singleton
<1> QED
  BY <1>3, <1>4 DEF Spans, Apart

(* A span that does not cross midnight is one piece. *)
LEMMA UncrossedIsOne ==
  ASSUME NEW iv \in Interval, NonEmpty(iv), ~CrossesMidnight(iv)
  PROVE  Cardinality(Segments(iv)) = 1
<1>1. DayLength \in Nat \ {0}
  BY ConfirmFlowAssumption
<1>2. iv.start \in Nat /\ iv.end \in Nat /\ iv.end - 1 \in Nat /\ iv.start <= iv.end - 1 /\ iv.end - 1 <= iv.end
  BY PointsOf DEF NonEmpty
<1>3. /\ LocalDate(iv.start, DayLength) <= LocalDate(iv.end - 1, DayLength)
      /\ LocalDate(iv.end - 1, DayLength) <= LocalDate(iv.end, DayLength)
      /\ LocalDate(iv.start, DayLength) \in Nat /\ LocalDate(iv.end - 1, DayLength) \in Nat
  BY <1>1, <1>2, DatesInOrder, DateOf
<1>4. LocalDate(iv.start, DayLength) = LocalDate(iv.end, DayLength)
  BY DEF CrossesMidnight, CrossesLocalMidnight
<1>5. LocalDate(iv.start, DayLength) = LocalDate(iv.end - 1, DayLength)
  BY <1>3, <1>4
<1>6. Segments(iv) = {DayPiece(iv, DayLength, LocalDate(iv.start, DayLength))}
  BY <1>1, <1>5, OneSegment DEF Segments
<1> QED
  BY <1>6, FS_Singleton

(* The pieces a draft is confirmed in around other entries. *)
LEMMA AroundPieces ==
  ASSUME NEW c, call[c].span \in Interval, call[c].overlaps \subseteq Interval,
         \A iv \in call[c].overlaps : NonEmpty(iv)
  PROVE  LET pieces == Pieces(c, Around(c)) IN
         /\ Spans(pieces) /\ Apart(pieces)
         /\ Covered(pieces) = Points(call[c].span) \ Covered(call[c].overlaps)
         /\ call[c].arg.overnight = "split_at_midnight" => \A p \in pieces : Cardinality(Segments(p)) = 1
<1> DEFINE rest == Around(c)
           pieces == Pieces(c, rest)
<1>1. /\ \A iv \in rest : iv \in Interval /\ NonEmpty(iv)
      /\ \A p, q \in rest : \A t : t \in Points(p) /\ t \in Points(q) => p = q
      /\ Covered(rest) = Points(call[c].span) \ Covered(call[c].overlaps)
  BY RemaindersType, RemaindersApart, RemaindersCover DEF Around
<1>2. CASE call[c].arg.overnight # "split_at_midnight"
  <2>1. pieces = rest
    BY <1>2 DEF Pieces
  <2> QED BY <1>1, <1>2, <2>1 DEF Spans, Apart
<1>3. CASE call[c].arg.overnight = "split_at_midnight"
  <2> HIDE DEF rest
  <2>1. \A p : p \in pieces <=> \/ p \in rest /\ ~CrossesMidnight(p)
                                \/ \E r \in rest : CrossesMidnight(r) /\ p \in Segments(r)
    BY <1>3 DEF Pieces
  <2> HIDE DEF pieces
  <2>2. ASSUME NEW r \in rest
        PROVE  /\ Spans(Segments(r)) /\ Apart(Segments(r))
               /\ Covered(Segments(r)) = Points(r)
               /\ \A p \in Segments(r) : Cardinality(Segments(p)) = 1
    BY <1>1, SegmentPieces
  <2>3. ASSUME NEW r \in rest, NEW p \in Segments(r)
        PROVE  p \in Interval /\ NonEmpty(p) /\ \A t : t \in Points(p) => t \in Points(r)
    BY <2>2, InCovered DEF Spans
  <2>4. Spans(pieces)
    BY <1>1, <2>1, <2>3 DEF Spans
  <2>5. \A p \in pieces : Cardinality(Segments(p)) = 1
    BY <1>1, <2>1, <2>2, UncrossedIsOne
  <2>6. Apart(pieces)
    <3>1. ASSUME NEW p \in pieces, NEW q \in pieces, NEW t, t \in Points(p), t \in Points(q) PROVE p = q
      <4>1. CASE p \in rest /\ ~CrossesMidnight(p)
        <5>1. CASE q \in rest
          BY <1>1, <3>1, <4>1, <5>1
        <5>2. CASE \E r \in rest : CrossesMidnight(r) /\ q \in Segments(r)
          BY <1>1, <2>3, <3>1, <4>1, <5>2
        <5> QED BY <2>1, <5>1, <5>2
      <4>2. ASSUME NEW r \in rest, CrossesMidnight(r), p \in Segments(r) PROVE p = q
        <5>1. CASE q \in rest /\ ~CrossesMidnight(q)
          BY <1>1, <2>3, <3>1, <4>2, <5>1
        <5>2. ASSUME NEW s \in rest, q \in Segments(s) PROVE p = q
          <6>1. r = s
            BY <1>1, <2>3, <3>1, <4>2, <5>2
          <6> QED BY <2>2, <3>1, <4>2, <5>2, <6>1 DEF Apart
        <5> QED BY <2>1, <5>1, <5>2
      <4> QED BY <2>1, <4>1, <4>2
    <3> QED BY <3>1 DEF Apart
  <2>7. Covered(pieces) = Covered(rest)
    <3>1. \A t : t \in Covered(pieces) <=> t \in Covered(rest)
      <4>1. ASSUME NEW t, NEW p \in pieces, t \in Points(p) PROVE \E r \in rest : t \in Points(r)
        BY <2>1, <2>3, <4>1
      <4>2. ASSUME NEW t, NEW r \in rest, t \in Points(r) PROVE \E p \in pieces : t \in Points(p)
        <5>1. CASE CrossesMidnight(r)
          <6>1. PICK p \in Segments(r) : t \in Points(p)
            BY <2>2, <4>2, InCovered
          <6> QED BY <2>1, <5>1, <6>1
        <5>2. CASE ~CrossesMidnight(r)
          BY <2>1, <4>2, <5>2
        <5> QED BY <5>1, <5>2
      <4> QED BY <4>1, <4>2, InCovered
    <3> QED BY <3>1
  <2> QED BY <1>1, <2>4, <2>5, <2>6, <2>7 DEF pieces, rest
<1> QED
  BY <1>2, <1>3

(* The segments of a split lose no instant. *)
LEMMA BetweenPieces ==
  ASSUME NEW span \in Interval, NonEmpty(span), NEW cuts, cuts \subseteq Points(span)
  PROVE  Spans(Between(span, cuts)) /\ Covered(Between(span, cuts)) = Points(span)
<1> DEFINE starts == {span.start} \cup cuts
           ends == cuts \cup {span.end}
<1>1. span.start \in Nat /\ span.end \in Nat /\ span.start < span.end
  BY PointsOf DEF NonEmpty
<1>2. \A x \in cuts : x \in Nat /\ span.start <= x /\ x < span.end
  BY PointsOf
<1>3. starts \subseteq Nat /\ ends \subseteq Nat
  BY <1>1, <1>2
<1>4. \A x \in starts : span.start <= x
  BY <1>1, <1>2
<1>5. \A x \in ends : x <= span.end
  BY <1>1, <1>2
<1>6. span.start \in starts /\ span.end \in ends /\ \A x \in cuts : x \in starts /\ x \in ends
  OBVIOUS
<1>7. Between(span, cuts) =
        {iv \in {Span(a, b) : a \in starts, b \in ends} :
           NonEmpty(iv) /\ \A cut \in cuts : ~(iv.start < cut /\ cut < iv.end)}
  BY DEF Between
<1> HIDE DEF starts, ends
<1>8. ASSUME NEW iv \in Between(span, cuts)
      PROVE  iv \in Interval /\ NonEmpty(iv) /\ span.start <= iv.start /\ iv.end <= span.end
  <2>1. PICK a \in starts, b \in ends : iv = Span(a, b)
    BY <1>7
  <2>2. a \in Nat /\ b \in Nat
    BY <1>3
  <2>3. iv \in Interval /\ iv.start = a /\ iv.end = b
    BY <2>1, <2>2, SpanOf
  <2> QED BY <1>4, <1>5, <1>7, <2>3
<1>9. ASSUME NEW t \in Points(span) PROVE \E iv \in Between(span, cuts) : t \in Points(iv)
  <2>1. t \in Nat /\ span.start <= t /\ t < span.end
    BY PointsOf
  <2>2. PICK a \in starts : a < t + 1 /\ \A n \in starts : n < t + 1 => n <= a
    <3>1. t + 1 \in Nat /\ span.start < t + 1
      BY <1>1, <2>1
    <3> QED BY <1>3, <1>6, <3>1, LastBelow
  <2>3. a <= t /\ \A n \in starts : n <= t => n <= a
    BY <1>3, <2>1, <2>2
  <2>4. PICK b \in ends : t < b /\ \A n \in ends : t < n => b <= n
    BY <1>3, <1>6, <2>1, NextAbove
  <2>5. a \in Nat /\ b \in Nat /\ Span(a, b) \in Interval /\ Span(a, b).start = a /\ Span(a, b).end = b
    BY <1>3, SpanOf
  <2>6. NonEmpty(Span(a, b)) /\ t \in Points(Span(a, b))
    BY <2>1, <2>3, <2>4, <2>5, PointsOf DEF NonEmpty
  <2>7. ASSUME NEW cut \in cuts, a < cut, cut < b PROVE FALSE
    <3>1. cut \in Nat /\ cut \in starts /\ cut \in ends
      BY <1>2, <1>6
    <3>2. CASE cut <= t
      BY <2>3, <2>5, <2>7, <3>1, <3>2
    <3>3. CASE t < cut
      BY <2>4, <2>5, <2>7, <3>1, <3>3
    <3> QED BY <2>1, <3>1, <3>2, <3>3
  <2> QED BY <1>7, <2>5, <2>6, <2>7
<1>10. Spans(Between(span, cuts))
  BY <1>8 DEF Spans
<1>11. \A t : t \in Covered(Between(span, cuts)) <=> t \in Points(span)
  <2>1. ASSUME NEW iv \in Between(span, cuts), NEW t \in Points(iv) PROVE t \in Points(span)
    BY <1>8, PointsOf
  <2> QED BY <1>9, <2>1, InCovered
<1> QED
  BY <1>10, <1>11

-----------------------------------------------------------------------------
(* Well-formed requests. *)

LEMMA TypedParts ==
  TypedInv <=>
    /\ TableOK(entries)
    /\ DOMAIN call = Calls
    /\ \A c \in Calls : Idle(c) \/ RequestOK(call[c])
    /\ answer \in [Calls -> {"none", "ok", "refused", "lost"}]
BY DEF TypedInv, TypeOK, TableOK, RowIds, RequestOK

LEMMA TypedPartsNext ==
  TypedInv' <=>
    /\ TableOK(entries')
    /\ DOMAIN call' = Calls
    /\ \A c \in Calls : call'[c] = NoCall \/ RequestOK(call'[c])
    /\ answer' \in [Calls -> {"none", "ok", "refused", "lost"}]
BY DEF TypedInv, TypeOK, TableOK, RowIds, RequestOK, Idle

(* A call of which one field after another is set. *)
LEMMA OthersUntouched ==
  ASSUME TypedInv, NEW c \in Calls, NEW r, call' = [call EXCEPT ![c] = r]
  PROVE  DOMAIN call' = Calls /\ call'[c] = r /\ \A d \in Calls : d # c => call'[d] = call[d]
BY DEF TypedInv, TypeOK

LEMMA EndTyped ==
  ASSUME TypedInv, NEW c \in Calls, NEW how \in {"ok", "refused", "lost"}, End(c, how), TableOK(entries')
  PROVE  TypedInv' /\ call'[c] = NoCall /\ \A d \in Calls : d # c => call'[d] = call[d]
<1>1. DOMAIN call' = Calls /\ call'[c] = NoCall /\ \A d \in Calls : d # c => call'[d] = call[d]
  BY OthersUntouched DEF End
<1>2. answer' \in [Calls -> {"none", "ok", "refused", "lost"}]
  BY TypedParts DEF End
<1>3. \A d \in Calls : call'[d] = NoCall \/ RequestOK(call'[d])
  BY <1>1, TypedParts DEF Idle
<1> QED
  BY <1>1, <1>2, <1>3, TypedPartsNext

(* The request of c names a row id. *)
LEMMA RequestOf ==
  ASSUME TypedInv, NEW c \in Calls, ~Idle(c)
  PROVE  /\ RequestOK(call[c])
         /\ call[c].id \in EntryIds /\ call[c].span \in Interval /\ NonEmpty(call[c].span)
         /\ call[c].overlaps \subseteq Interval
         /\ \A iv \in call[c].overlaps : NonEmpty(iv) /\ Overlaps(iv, call[c].span)
BY DEF TypedInv, RequestOK, Request

(* What a call writes is a table, or it writes nothing. *)
LEMMA WriteTyped ==
  ASSUME TypedInv, NEW c \in Calls, NEW tables, Write(c, tables),
         call[c].id \in RowIds(entries) => \A t \in tables : TableOK(t)
  PROVE  /\ TypedInv' /\ call'[c] = NoCall /\ \A d \in Calls : d # c => call'[d] = call[d]
         /\ \/ call[c].id \notin RowIds(entries) /\ entries' = entries
            \/ call[c].id \in RowIds(entries) /\ entries' \in tables
<1>1. CASE call[c].id \in RowIds(entries)
  <2>1. entries' \in tables /\ End(c, "ok")
    BY <1>1 DEF Write
  <2>2. TypedInv' /\ call'[c] = NoCall /\ \A d \in Calls : d # c => call'[d] = call[d]
    BY <1>1, <2>1, EndTyped
  <2> QED BY <1>1, <2>1, <2>2
<1>2. CASE call[c].id \notin RowIds(entries)
  <2>1. End(c, "refused") /\ entries' = entries
    BY <1>2 DEF Write
  <2>2. TypedInv' /\ call'[c] = NoCall /\ \A d \in Calls : d # c => call'[d] = call[d]
    BY <2>1, EntriesOK, EndTyped
  <2> QED BY <1>2, <2>1, <2>2
<1> QED
  BY <1>1, <1>2

-----------------------------------------------------------------------------
(* What each step leaves. *)

Frame(c) == \A d \in Calls : d # c => call'[d] = call[d]

LEMMA UserSpanOK ==
  \A iv \in DraftSpans \cup UserSpans : iv \in Interval /\ NonEmpty(iv)
BY ConfirmFlowAssumption

(* A statement that changes the table alone. *)
LEMMA StatementTyped ==
  ASSUME TypedInv, UNCHANGED <<call, answer>>, TableOK(entries')
  PROVE  TypedInv'
BY TypedParts, TypedPartsNext DEF Idle

LEMMA InsertTyped ==
  ASSUME TypedInv, NEW span \in DraftSpans \cup UserSpans, NEW att \in {"draft", "confirmed"},
         Insert([att |-> att, span |-> span]), UNCHANGED <<call, answer>>
  PROVE  TypedInv'
<1>1. entries' \in AddRows(entries, {[att |-> att, span |-> span]})
  BY DEF Insert
<1>2. {[att |-> att, span |-> span]} = RowsFor({span}, att)
  BY DEF RowsFor
<1>3. Spans({span}) /\ att \in Attestations
  BY UserSpanOK DEF Spans, Attestations
<1>4. TableOK(entries')
  BY <1>1, <1>2, <1>3, EntriesOK, InsertRows
<1> QED
  BY <1>4, StatementTyped

LEMMA BeginTyped ==
  ASSUME TypedInv, NEW c \in Calls, NEW op \in {"reject", "adjust", "split", "confirm"},
         NEW id \in EntryIds, NEW arg \in Arguments, Begin(c, op, id, arg),
         op = "adjust" => arg \in UserSpans,
         op = "split" => arg.cuts \subseteq (CutPoints \cap Points(entries[id].span)) \ {entries[id].span.start}
  PROVE  /\ TypedInv' /\ Frame(c) /\ Idle(c) /\ entries' = entries
         /\ IsDraft(entries, id)
         /\ call'[c] = [op |-> op, id |-> id, span |-> entries[id].span, arg |-> arg,
                        overlaps |-> {}, todo |-> {}]
<1> DEFINE r == [op |-> op, id |-> id, span |-> entries[id].span, arg |-> arg,
                 overlaps |-> {}, todo |-> {}]
<1>1. /\ Idle(c) /\ IsDraft(entries, id) /\ call' = [call EXCEPT ![c] = r]
      /\ answer' = [answer EXCEPT ![c] = "none"] /\ entries' = entries
  BY DEF Begin
<1>2. entries[id].span \in Interval /\ NonEmpty(entries[id].span)
  BY <1>1, EntriesOK DEF IsDraft, WithAttestation, RowIds, TableOK, Row
<1>3. RequestOK(r)
  BY <1>2 DEF RequestOK, Request
<1> HIDE DEF r
<1>4. DOMAIN call' = Calls /\ call'[c] = r /\ Frame(c)
  BY <1>1, OthersUntouched DEF Frame
<1>5. answer' \in [Calls -> {"none", "ok", "refused", "lost"}]
  BY <1>1, TypedParts
<1>6. \A d \in Calls : call'[d] = NoCall \/ RequestOK(call'[d])
  BY <1>3, <1>4, TypedParts DEF Frame, Idle
<1>7. TypedInv'
  BY <1>1, <1>4, <1>5, <1>6, EntriesOK, TypedPartsNext
<1> QED
  BY <1>1, <1>4, <1>7 DEF r

(* The steps of c between two calls of its. *)
IdleStep(c) ==
  \/ \E span \in DraftSpans : ProposeDraft(c, span)
  \/ \E span \in UserSpans : CreateTimeEntry(c, span)
  \/ \E id \in EntryIds :
       \/ DeleteTimeEntry(c, id)
       \/ \E span \in UserSpans : UpdateTimeEntry(c, id, span)

BeginStep(c) ==
  \E id \in EntryIds :
    \/ BeginReject(c, id)
    \/ \E span \in UserSpans : BeginAdjust(c, id, span)
    \/ \E cuts \in SUBSET CutPoints : BeginSplit(c, id, cuts)
    \/ \E resolution \in Resolutions, overnight \in Overnights :
         BeginConfirm(c, id, resolution, overnight)

(* The steps of its call in flight. *)
WriteStep(c) ==
  \/ RejectTimeEntry(c) \/ AdjustDraftTimeEntry(c) \/ SplitTimeEntry(c)
  \/ KeepTheirs(c) \/ ConfirmInPlace(c) \/ ConfirmSplitAtMidnight(c) \/ ConfirmAroundOverlaps(c)

FlightStep(c) ==
  \/ Interrupt(c) \/ ListOverlaps(c) \/ RefuseConfirm(c) \/ WriteStep(c)
  \/ \E id \in EntryIds : DeleteTheirs(c, id)

LEMMA NextSteps ==
  Next <=> \E c \in Calls : IdleStep(c) \/ BeginStep(c) \/ FlightStep(c)
BY DEF Next, IdleStep, BeginStep, FlightStep, WriteStep

LEMMA IdleTyped ==
  ASSUME TypedInv, NEW c \in Calls, IdleStep(c)
  PROVE  TypedInv' /\ Idle(c) /\ call' = call
<1>1. CASE \E span \in DraftSpans : ProposeDraft(c, span)
  BY <1>1, InsertTyped DEF ProposeDraft
<1>2. CASE \E span \in UserSpans : CreateTimeEntry(c, span)
  BY <1>2, InsertTyped DEF CreateTimeEntry
<1>3. ASSUME NEW id \in EntryIds, DeleteTimeEntry(c, id) PROVE TypedInv' /\ Idle(c) /\ call' = call
  <2>1. TableOK(entries')
    BY <1>3, EntriesOK, DeleteOne DEF DeleteTimeEntry
  <2> QED BY <1>3, <2>1, StatementTyped DEF DeleteTimeEntry
<1>4. ASSUME NEW id \in EntryIds, NEW span \in UserSpans, UpdateTimeEntry(c, id, span)
      PROVE  TypedInv' /\ Idle(c) /\ call' = call
  <2>1. TableOK(entries')
    BY <1>4, EntriesOK, UserSpanOK, MoveOne DEF UpdateTimeEntry
  <2> QED BY <1>4, <2>1, StatementTyped DEF UpdateTimeEntry
<1> QED
  BY <1>1, <1>2, <1>3, <1>4 DEF IdleStep

LEMMA BeginStepTyped ==
  ASSUME TypedInv, NEW c \in Calls, BeginStep(c)
  PROVE  /\ TypedInv' /\ Frame(c) /\ Idle(c) /\ entries' = entries
         /\ IsDraft(entries, call'[c].id) /\ entries[call'[c].id].span = call'[c].span
         /\ call'[c].op # "decide"
<1>1. PICK id \in EntryIds :
        \/ BeginReject(c, id)
        \/ \E span \in UserSpans : BeginAdjust(c, id, span)
        \/ \E cuts \in SUBSET CutPoints : BeginSplit(c, id, cuts)
        \/ \E resolution \in Resolutions, overnight \in Overnights :
             BeginConfirm(c, id, resolution, overnight)
  BY DEF BeginStep
<1>2. PICK op \in {"reject", "adjust", "split", "confirm"}, arg \in Arguments :
        /\ Begin(c, op, id, arg)
        /\ op = "adjust" => arg \in UserSpans
        /\ op = "split" => arg.cuts \subseteq (CutPoints \cap Points(entries[id].span)) \ {entries[id].span.start}
  <2>1. CASE BeginReject(c, id)
    <3>1. <<>> \in Arguments
      BY DEF Arguments
    <3> QED BY <2>1, <3>1 DEF BeginReject
  <2>2. ASSUME NEW span \in UserSpans, BeginAdjust(c, id, span)
        PROVE  Begin(c, "adjust", id, span) /\ span \in Arguments
    BY <2>2 DEF BeginAdjust, Arguments
  <2>3. ASSUME NEW cuts \in SUBSET CutPoints, BeginSplit(c, id, cuts)
        PROVE  /\ Begin(c, "split", id, [cuts |-> cuts]) /\ [cuts |-> cuts] \in Arguments
               /\ [cuts |-> cuts].cuts \subseteq (CutPoints \cap Points(entries[id].span)) \ {entries[id].span.start}
    BY <2>3 DEF BeginSplit, Arguments
  <2>4. ASSUME NEW resolution \in Resolutions, NEW overnight \in Overnights,
               BeginConfirm(c, id, resolution, overnight)
        PROVE  /\ Begin(c, "confirm", id, [resolution |-> resolution, overnight |-> overnight])
               /\ [resolution |-> resolution, overnight |-> overnight] \in Arguments
    BY <2>4 DEF BeginConfirm, Arguments
  <2> QED BY <1>1, <2>1, <2>2, <2>3, <2>4
<1>3. /\ TypedInv' /\ Frame(c) /\ Idle(c) /\ entries' = entries /\ IsDraft(entries, id)
      /\ call'[c] = [op |-> op, id |-> id, span |-> entries[id].span, arg |-> arg,
                     overlaps |-> {}, todo |-> {}]
  BY <1>2, BeginTyped
<1> QED
  BY <1>3

LEMMA ReplaceTyped ==
  ASSUME TypedInv, NEW c \in Calls, NEW pieces, Spans(pieces), NEW att \in Attestations, Replace(c, pieces, att)
  PROVE  /\ TypedInv' /\ call'[c] = NoCall /\ Frame(c)
         /\ \/ call[c].id \notin RowIds(entries) /\ entries' = entries
            \/ call[c].id \in RowIds(entries) /\ entries' \in Replaced(entries, call[c].id, pieces, att)
<1>1. Write(c, Replaced(entries, call[c].id, pieces, att))
  BY DEF Replace, Replaced, RowsFor
<1>2. ASSUME call[c].id \in RowIds(entries), NEW t \in Replaced(entries, call[c].id, pieces, att)
      PROVE  TableOK(t)
  BY <1>2, EntriesOK, ReplacedRows
<1> QED
  BY <1>1, <1>2, WriteTyped DEF Frame

LEMMA AttestTyped ==
  ASSUME TypedInv, NEW c \in Calls, NEW att \in Attestations,
         Write(c, {Attest(entries, {call[c].id}, att)})
  PROVE  /\ TypedInv' /\ call'[c] = NoCall /\ Frame(c)
         /\ \/ call[c].id \notin RowIds(entries) /\ entries' = entries
            \/ call[c].id \in RowIds(entries) /\ entries' = Attest(entries, {call[c].id}, att)
<1>1. call[c].id \in RowIds(entries) => TableOK(Attest(entries, {call[c].id}, att))
  BY EntriesOK, AttestOne
<1> QED
  BY <1>1, WriteTyped DEF Frame

LEMMA ListTyped ==
  ASSUME TypedInv, NEW c \in Calls, ListOverlaps(c)
  PROVE  /\ TypedInv' /\ Frame(c) /\ entries' = entries /\ ~Idle(c)
         /\ call[c].op = "confirm"
         /\ LET others == {o \in Confirmed \ {call[c].id} : Overlaps(entries[o].span, call[c].span)}
            IN  call'[c] = [call[c] EXCEPT !.op = "decide", !.todo = others,
                                           !.overlaps = {entries[o].span : o \in others}]
<1> DEFINE others == {o \in Confirmed \ {call[c].id} : Overlaps(entries[o].span, call[c].span)}
           r == [call[c] EXCEPT !.op = "decide", !.todo = others, !.overlaps = {entries[o].span : o \in others}]
<1>1. ~Idle(c) /\ call[c].op = "confirm" /\ entries' = entries /\ answer' = answer
  BY DEF ListOverlaps, Running
<1>2. RequestOK(call[c]) /\ call[c] \in Request
  BY <1>1, RequestOf DEF RequestOK
<1>3. \A o \in others : /\ o \in EntryIds /\ entries[o].span \in Interval /\ NonEmpty(entries[o].span)
                        /\ Overlaps(entries[o].span, call[c].span)
  BY EntriesOK DEF Confirmed, WithAttestation, RowIds, TableOK, Row
<1>4. call' = [call EXCEPT ![c] = r]
  BY <1>1, TypedParts DEF ListOverlaps, Confirmed
<1> HIDE DEF others
<1>5. RequestOK(r)
  <2>1. others \in SUBSET EntryIds /\ {entries[o].span : o \in others} \in SUBSET Interval
    BY <1>3
  <2>2. /\ r \in Request /\ r.span = call[c].span /\ r.op = "decide"
        /\ r.overlaps = {entries[o].span : o \in others}
    BY <1>2, <2>1 DEF Request
  <2> QED BY <1>2, <1>3, <2>2 DEF RequestOK
<1> HIDE DEF r
<1>6. DOMAIN call' = Calls /\ call'[c] = r /\ Frame(c)
  BY <1>4, OthersUntouched DEF Frame
<1>7. \A d \in Calls : call'[d] = NoCall \/ RequestOK(call'[d])
  BY <1>5, <1>6, TypedParts DEF Frame, Idle
<1>8. TypedInv'
  BY <1>1, <1>6, <1>7, TypedParts, TypedPartsNext
<1> QED
  BY <1>1, <1>6, <1>8 DEF r, others

LEMMA DeleteTyped ==
  ASSUME TypedInv, NEW c \in Calls, NEW other, DeleteTheirs(c, other)
  PROVE  /\ TypedInv' /\ Frame(c) /\ Deciding(c) /\ other \in call[c].todo
         /\ call[c].arg.resolution = "keep_mine"
         /\ entries' = DeleteRows(entries, {other})
         /\ call'[c] = [call[c] EXCEPT !.todo = @ \ {other}]
<1> DEFINE r == [call[c] EXCEPT !.todo = @ \ {other}]
<1>1. /\ Deciding(c) /\ other \in call[c].todo /\ call[c].arg.resolution = "keep_mine"
      /\ entries' = DeleteRows(entries, {other}) /\ answer' = answer /\ ~Idle(c)
  BY DEF DeleteTheirs, Deciding, Running
<1>2. RequestOK(call[c]) /\ call[c] \in Request
  BY <1>1, RequestOf DEF RequestOK
<1>3. call' = [call EXCEPT ![c] = r]
  BY TypedParts DEF DeleteTheirs
<1>4. RequestOK(r)
  <2>1. /\ r \in Request /\ r.span = call[c].span /\ r.op = call[c].op
        /\ r.overlaps = call[c].overlaps /\ r.arg = call[c].arg
    BY <1>2 DEF Request
  <2> HIDE DEF r
  <2> QED BY <1>2, <2>1 DEF RequestOK
<1> HIDE DEF r
<1>5. DOMAIN call' = Calls /\ call'[c] = r /\ Frame(c)
  BY <1>3, OthersUntouched DEF Frame
<1>6. \A d \in Calls : call'[d] = NoCall \/ RequestOK(call'[d])
  BY <1>4, <1>5, TypedParts DEF Frame, Idle
<1>7. TypedInv'
  BY <1>1, <1>5, <1>6, EntriesOK, DeleteOne, TypedParts, TypedPartsNext
<1> QED
  BY <1>1, <1>5, <1>7 DEF r

(* What the last step of a call writes, if the draft is still there. *)
Wrote(c) ==
  LET id == call[c].id IN
  /\ id \in RowIds(entries)
  /\ \/ /\ RejectTimeEntry(c) \/ KeepTheirs(c)
        /\ entries' = Attest(entries, {id}, "dismissed")
     \/ AdjustDraftTimeEntry(c) /\ entries' = WithSpan(entries, id, call[c].arg)
     \/ ConfirmInPlace(c) /\ entries' = Attest(entries, {id}, "confirmed")
     \/ /\ SplitTimeEntry(c)
        /\ entries' \in Replaced(entries, id, Between(call[c].span, call[c].arg.cuts), "draft")
     \/ /\ ConfirmSplitAtMidnight(c)
        /\ entries' \in Replaced(entries, id, Segments(call[c].span), "confirmed")
     \/ /\ ConfirmAroundOverlaps(c)
        /\ entries' \in Replaced(entries, id, Pieces(c, Around(c)), "confirmed")

LEMMA WriteStepTyped ==
  ASSUME TypedInv, NEW c \in Calls, WriteStep(c)
  PROVE  /\ TypedInv' /\ call'[c] = NoCall /\ Frame(c) /\ ~Idle(c)
         /\ Wrote(c) \/ (call[c].id \notin RowIds(entries) /\ entries' = entries)
<1>0. ~Idle(c)
  BY DEF WriteStep, RejectTimeEntry, AdjustDraftTimeEntry, SplitTimeEntry, KeepTheirs, ConfirmInPlace,
         ConfirmSplitAtMidnight, ConfirmAroundOverlaps, Deciding, Running
<1>1. /\ RequestOK(call[c]) /\ call[c].span \in Interval /\ NonEmpty(call[c].span)
      /\ call[c].overlaps \subseteq Interval /\ \A iv \in call[c].overlaps : NonEmpty(iv)
  BY <1>0, RequestOf
<1>2. "dismissed" \in Attestations /\ "confirmed" \in Attestations /\ "draft" \in Attestations
  BY DEF Attestations
<1>3. CASE RejectTimeEntry(c) \/ KeepTheirs(c)
  <2>1. Write(c, {Attest(entries, {call[c].id}, "dismissed")})
    BY <1>3 DEF RejectTimeEntry, KeepTheirs
  <2>2. /\ TypedInv' /\ call'[c] = NoCall /\ Frame(c)
        /\ \/ call[c].id \notin RowIds(entries) /\ entries' = entries
           \/ call[c].id \in RowIds(entries) /\ entries' = Attest(entries, {call[c].id}, "dismissed")
    BY <1>2, <2>1, AttestTyped
  <2> QED BY <1>0, <1>3, <2>2 DEF Wrote
<1>4. CASE ConfirmInPlace(c)
  <2>1. Write(c, {Attest(entries, {call[c].id}, "confirmed")})
    BY <1>4 DEF ConfirmInPlace
  <2>2. /\ TypedInv' /\ call'[c] = NoCall /\ Frame(c)
        /\ \/ call[c].id \notin RowIds(entries) /\ entries' = entries
           \/ call[c].id \in RowIds(entries) /\ entries' = Attest(entries, {call[c].id}, "confirmed")
    BY <1>2, <2>1, AttestTyped
  <2> QED BY <1>0, <1>4, <2>2 DEF Wrote
<1>5. CASE AdjustDraftTimeEntry(c)
  <2>1. Write(c, {WithSpan(entries, call[c].id, call[c].arg)}) /\ call[c].op = "adjust"
    BY <1>5 DEF AdjustDraftTimeEntry, Running
  <2>2. call[c].arg \in Interval /\ NonEmpty(call[c].arg)
    BY <1>1, <2>1, UserSpanOK DEF RequestOK
  <2>3. call[c].id \in RowIds(entries) => TableOK(WithSpan(entries, call[c].id, call[c].arg))
    BY <2>2, EntriesOK, MoveOne
  <2>4. /\ TypedInv' /\ call'[c] = NoCall /\ Frame(c)
        /\ \/ call[c].id \notin RowIds(entries) /\ entries' = entries
           \/ call[c].id \in RowIds(entries) /\ entries' = WithSpan(entries, call[c].id, call[c].arg)
    BY <2>1, <2>3, WriteTyped DEF Frame
  <2> QED BY <1>0, <1>5, <2>4 DEF Wrote
<1>6. CASE SplitTimeEntry(c)
  <2>1. Replace(c, Between(call[c].span, call[c].arg.cuts), "draft") /\ call[c].op = "split"
    BY <1>6 DEF SplitTimeEntry, Running
  <2>2. Spans(Between(call[c].span, call[c].arg.cuts))
    BY <1>1, <2>1, BetweenPieces DEF RequestOK
  <2> QED BY <1>0, <1>2, <1>6, <2>1, <2>2, ReplaceTyped DEF Wrote
<1>7. CASE ConfirmSplitAtMidnight(c)
  <2>1. Replace(c, Segments(call[c].span), "confirmed")
    BY <1>7 DEF ConfirmSplitAtMidnight
  <2>2. Spans(Segments(call[c].span))
    BY <1>1, SegmentPieces
  <2> QED BY <1>0, <1>2, <1>7, <2>1, <2>2, ReplaceTyped DEF Wrote
<1>8. CASE ConfirmAroundOverlaps(c)
  <2>1. Replace(c, Pieces(c, Around(c)), "confirmed")
    BY <1>8 DEF ConfirmAroundOverlaps
  <2>2. Spans(Pieces(c, Around(c)))
    BY <1>1, AroundPieces
  <2> QED BY <1>0, <1>2, <1>8, <2>1, <2>2, ReplaceTyped DEF Wrote
<1> QED
  BY <1>3, <1>4, <1>5, <1>6, <1>7, <1>8 DEF WriteStep

LEMMA FlightTyped ==
  ASSUME TypedInv, NEW c \in Calls, FlightStep(c)
  PROVE  TypedInv' /\ Frame(c) /\ ~Idle(c)
<1>1. CASE Interrupt(c) \/ RefuseConfirm(c)
  <2>1. ~Idle(c) /\ entries' = entries /\ \E how \in {"refused", "lost"} : End(c, how)
    BY <1>1 DEF Interrupt, RefuseConfirm, Deciding, Running
  <2> QED BY <2>1, EntriesOK, EndTyped DEF Frame
<1>2. CASE ListOverlaps(c)
  BY <1>2, ListTyped
<1>3. CASE WriteStep(c)
  BY <1>3, WriteStepTyped
<1>4. ASSUME NEW id \in EntryIds, DeleteTheirs(c, id) PROVE TypedInv' /\ Frame(c) /\ ~Idle(c)
  BY <1>4, DeleteTyped DEF Deciding, Running
<1> QED
  BY <1>1, <1>2, <1>3, <1>4 DEF FlightStep

LEMMA StutterTyped ==
  ASSUME TypedInv, UNCHANGED vars
  PROVE  TypedInv'
BY TypedParts, TypedPartsNext DEF vars, Idle

LEMMA InitTyped == Init => TypedInv
<1> SUFFICES ASSUME Init PROVE TypedInv
  OBVIOUS
<1>1. TableOK(entries)
  BY DEF Init, TableOK
<1> QED
  BY <1>1, TypedParts DEF Init, Idle

(* With any number of calls in flight every row keeps its type and a length *)
(* and every request what it was given (time_entry.go, time_entry_confirm.go).  *)
THEOREM FlowTyped == Spec => []TypedInv
<1>1. TypedInv /\ [Next]_vars => TypedInv'
  BY IdleTyped, BeginStepTyped, FlightTyped, StutterTyped, NextSteps
<1> QED
  BY InitTyped, <1>1, PTL DEF Spec

-----------------------------------------------------------------------------
(* One call at a time. *)

(* A step of c is one of its call in flight. *)
LEMMA StepsOf ==
  ASSUME TypedInv, Next, NEW c \in Calls, StepOf(c)
  PROVE  FlightStep(c)
<1>1. PICK d \in Calls : IdleStep(d) \/ BeginStep(d) \/ FlightStep(d)
  BY NextSteps
<1>2. ~Idle(c) /\ call'[c] # call[c]
  BY DEF StepOf
<1>3. ~IdleStep(d)
  BY <1>2, IdleTyped
<1>4. BeginStep(d) => d # c /\ Frame(d)
  BY <1>2, BeginStepTyped
<1>5. FlightStep(d) => Frame(d)
  BY FlightTyped
<1> QED
  BY <1>1, <1>2, <1>3, <1>4, <1>5 DEF Frame

LEMMA BeginHolds ==
  ASSUME TypedInv, NEW c \in Calls, BeginStep(c)
  PROVE  StillHolds(entries', call'[c])
BY BeginStepTyped DEF StillHolds

LEMMA ListHolds ==
  ASSUME TypedInv, NEW c \in Calls, ListOverlaps(c), StillHolds(entries, call[c])
  PROVE  StillHolds(entries', call'[c])
<1> DEFINE others == {o \in Confirmed \ {call[c].id} : Overlaps(entries[o].span, call[c].span)}
           r == [call[c] EXCEPT !.op = "decide", !.todo = others, !.overlaps = {entries[o].span : o \in others}]
<1>1. entries' = entries /\ call'[c] = r /\ ~Idle(c)
  BY ListTyped
<1>2. call[c] \in Request
  BY <1>1, RequestOf DEF RequestOK
<1>3. others = Rivals(entries, call[c].span)
  <2>1. call[c].id \notin Confirmed
    BY DEF StillHolds, IsDraft, Confirmed, WithAttestation
  <2> QED BY <2>1 DEF Rivals, Confirmed
<1> HIDE DEF others
<1>4. /\ r.id = call[c].id /\ r.span = call[c].span /\ r.op = "decide" /\ r.todo = others
      /\ r.overlaps = {entries[o].span : o \in others}
  BY <1>2 DEF Request
<1> HIDE DEF r
<1>5. \A o \in r.todo : entries[o].span \in r.overlaps
  BY <1>4
<1>6. r.overlaps = {entries[o].span : o \in r.todo}
  BY <1>4
<1> QED
  BY <1>1, <1>3, <1>4, <1>5, <1>6 DEF StillHolds

LEMMA DeleteHolds ==
  ASSUME TypedInv, NEW c \in Calls, NEW other, DeleteTheirs(c, other), StillHolds(entries, call[c])
  PROVE  StillHolds(entries', call'[c])
<1> DEFINE r == [call[c] EXCEPT !.todo = @ \ {other}]
<1>1. /\ Deciding(c) /\ other \in call[c].todo /\ call[c].arg.resolution = "keep_mine"
      /\ entries' = DeleteRows(entries, {other}) /\ call'[c] = r
  BY DeleteTyped
<1>2. call[c] \in Request /\ call[c].op = "decide"
  BY <1>1, RequestOf DEF RequestOK, Deciding, Running
<1>3. /\ r.id = call[c].id /\ r.span = call[c].span /\ r.op = "decide" /\ r.todo = call[c].todo \ {other}
      /\ r.overlaps = call[c].overlaps /\ r.arg = call[c].arg
  BY <1>2 DEF Request
<1> HIDE DEF r
<1>4. \A x \in EntryIds : entries'[x] = IF x = other THEN NoRow ELSE entries[x]
  BY <1>1, EntriesOK, DeleteOne
<1>5. call[c].todo = Rivals(entries, call[c].span) /\ \A o \in call[c].todo : entries[o].span \in call[c].overlaps
  BY <1>2 DEF StillHolds
<1>6. IsDraft(entries', r.id) /\ entries'[r.id].span = r.span
  BY ZenonT(40), <1>1, <1>3, <1>4, <1>5 DEF StillHolds, IsDraft, WithAttestation, RowIds, Rivals
<1>7. r.todo = Rivals(entries', r.span)
  BY <1>3, <1>4, <1>5 DEF Rivals, WithAttestation, RowIds
<1>8. \A o \in r.todo : entries'[o].span \in r.overlaps
  BY <1>3, <1>4, <1>5 DEF Rivals, WithAttestation, RowIds
<1> QED
  BY <1>1, <1>3, <1>6, <1>7, <1>8 DEF StillHolds

LEMMA FlowParts ==
  FlowInv' <=> TypedInv' /\ \A c \in Calls : call'[c] # NoCall => StillHolds(entries', call'[c])
BY DEF FlowInv, Idle, StillHolds, IsDraft, WithAttestation, RowIds, Rivals

LEMMA FlowStep ==
  ASSUME OneAtATime, FlowInv, Next
  PROVE  FlowInv'
<1>1. TypedInv
  BY DEF FlowInv
<1>2. PICK c \in Calls : IdleStep(c) \/ BeginStep(c) \/ FlightStep(c)
  BY NextSteps
<1>3. \A d \in Calls : d = c
  BY DEF OneAtATime
<1>4. CASE IdleStep(c)
  <2>1. TypedInv' /\ call'[c] = NoCall
    BY <1>1, <1>4, IdleTyped DEF Idle
  <2> QED BY <1>3, <2>1, FlowParts
<1>5. CASE BeginStep(c)
  <2>1. TypedInv' /\ StillHolds(entries', call'[c])
    BY <1>1, <1>5, BeginStepTyped, BeginHolds
  <2> QED BY <1>3, <2>1, FlowParts
<1>6. CASE FlightStep(c)
  <2>1. TypedInv' /\ ~Idle(c)
    BY <1>1, <1>6, FlightTyped
  <2>2. StillHolds(entries, call[c])
    BY <2>1 DEF FlowInv
  <2>3. CASE ListOverlaps(c)
    <3>1. StillHolds(entries', call'[c])
      BY <1>1, <2>2, <2>3, ListHolds
    <3> QED BY <1>3, <2>1, <3>1, FlowParts
  <2>4. ASSUME NEW id \in EntryIds, DeleteTheirs(c, id) PROVE FlowInv'
    <3>1. StillHolds(entries', call'[c])
      BY <1>1, <2>2, <2>4, DeleteHolds
    <3> QED BY <1>3, <2>1, <3>1, FlowParts
  <2>5. CASE Interrupt(c) \/ RefuseConfirm(c)
    <3>1. call'[c] = NoCall
      <4>1. \E how : End(c, how)
        BY <2>5 DEF Interrupt, RefuseConfirm
      <4> QED BY <1>1, <4>1, OthersUntouched DEF End
    <3> QED BY <1>3, <2>1, <3>1, FlowParts
  <2>6. CASE WriteStep(c)
    <3>1. call'[c] = NoCall
      BY <1>1, <2>6, WriteStepTyped
    <3> QED BY <1>3, <2>1, <3>1, FlowParts
  <2> QED BY <1>6, <2>3, <2>4, <2>5, <2>6 DEF FlightStep
<1> QED
  BY <1>2, <1>4, <1>5, <1>6

LEMMA FlowStutter ==
  ASSUME FlowInv, UNCHANGED vars
  PROVE  FlowInv'
<1>1. TypedInv'
  BY StutterTyped DEF FlowInv
<1>2. entries' = entries /\ call' = call
  BY DEF vars
<1> QED
  BY <1>1, <1>2, FlowParts DEF FlowInv, Idle

LEMMA InitFlow == Init => FlowInv
BY InitTyped DEF Init, FlowInv, Idle

(* One call at a time finds, at every step, what it read: the draft with    *)
(* its span, and the confirmed entries that overlap it, up to those it      *)
(* deleted itself (ConfirmTimeEntry reads the draft, then its overlaps).    *)
THEOREM FlowInvariant ==
  ASSUME OneAtATime
  PROVE  Spec => []FlowInv
<1>1. FlowInv /\ [Next]_vars => FlowInv'
  BY FlowStep, FlowStutter
<1> QED
  BY InitFlow, <1>1, PTL DEF Spec

-----------------------------------------------------------------------------
(* What the call's last step does to time already confirmed. *)

(* An instant of the span is confirmed by a row that overlaps the span.     *)
LEMMA RivalTime ==
  ASSUME TypedInv, NEW span \in Interval, NEW t \in Points(span)
  PROVE  t \in TimeOf(entries, "confirmed") <=>
           \E o \in Rivals(entries, span) : t \in Points(entries[o].span)
<1>1. ASSUME NEW o \in EntryIds, entries[o] # NoRow, entries[o].att = "confirmed", t \in Points(entries[o].span)
      PROVE  o \in Rivals(entries, span)
  <2>1. entries[o].span \in Interval
    BY <1>1, EntriesOK DEF TableOK, Row
  <2>2. Overlaps(entries[o].span, span)
    BY <1>1, <2>1, OverlapsMeet
  <2> QED BY <1>1, <2>2 DEF Rivals, WithAttestation, RowIds
<1>2. ASSUME NEW o \in Rivals(entries, span)
      PROVE  o \in EntryIds /\ entries[o] # NoRow /\ entries[o].att = "confirmed"
  BY DEF Rivals, WithAttestation, RowIds
<1> QED
  BY <1>1, <1>2, InTime

(* Past the gate, unless overlaps are allowed, the span is nobody's.        *)
LEMMA GateLeavesNobody ==
  ASSUME TypedInv, NEW c \in Calls, StillHolds(entries, call[c]), Deciding(c), PastOverlapGate(c),
         call[c].arg.resolution # "allow_parallel", NEW t \in Points(call[c].span)
  PROVE  t \notin TimeOf(entries, "confirmed")
<1>1. ~Idle(c) /\ call[c].op = "decide"
  BY DEF Deciding, Running
<1>2. /\ call[c].todo = Rivals(entries, call[c].span)
      /\ \A o \in call[c].todo : entries[o].span \in call[c].overlaps
  BY <1>1 DEF StillHolds
<1>3. call[c].todo = {}
  BY <1>2 DEF PastOverlapGate, NoOverlaps
<1> QED
  BY ZenonT(40), <1>1, <1>2, <1>3, RequestOf, RivalTime

(* What a call that did not delete read of the others is what they cover.   *)
LEMMA OverlapsCover ==
  ASSUME TypedInv, NEW c \in Calls, StillHolds(entries, call[c]), Deciding(c),
         call[c].arg.resolution = "split"
  PROVE  /\ Covered(call[c].overlaps) \subseteq TimeOf(entries, "confirmed")
         /\ \A t \in Points(call[c].span) :
              t \in TimeOf(entries, "confirmed") => t \in Covered(call[c].overlaps)
<1>1. ~Idle(c) /\ call[c].op = "decide"
  BY DEF Deciding, Running
<1>2. call[c].overlaps = {entries[o].span : o \in Rivals(entries, call[c].span)}
  BY <1>1 DEF StillHolds
<1>3. \A t : t \in Covered(call[c].overlaps) <=>
               \E o \in Rivals(entries, call[c].span) : t \in Points(entries[o].span)
  BY <1>2 DEF Covered
<1>4. \A o \in Rivals(entries, call[c].span) :
        o \in EntryIds /\ entries[o] # NoRow /\ entries[o].att = "confirmed"
  BY DEF Rivals, WithAttestation, RowIds
<1>5. Covered(call[c].overlaps) \subseteq TimeOf(entries, "confirmed")
  BY <1>3, <1>4, InTime
<1> QED
  BY <1>1, <1>3, <1>5, RequestOf, RivalTime

(* The step only changes a row that was a draft and is none confirmed.      *)
LEMMA DraftOnly ==
  ASSUME NEW old, NEW new, NEW id, IsDraft(old, id), SameBut(new, old, id),
         new[id] # NoRow, new[id].att # "confirmed"
  PROVE  /\ DoubleBooked(new) \subseteq DoubleBooked(old)
         /\ TimeOf(new, "confirmed") = TimeOf(old, "confirmed")
<1>1. id \in EntryIds /\ old[id] # NoRow /\ old[id].att = "draft"
  BY DEF IsDraft, WithAttestation, RowIds
<1>2. \A x \in EntryIds : new[x] # NoRow /\ new[x].att = "confirmed" =>
        old[x] # NoRow /\ old[x].att = "confirmed" /\ old[x].span = new[x].span
  BY DEF SameBut
<1>3. \A x \in EntryIds : old[x] # NoRow /\ old[x].att = "confirmed" => new[x] = old[x]
  BY <1>1 DEF SameBut
<1>4. \A t : t \in TimeOf(new, "confirmed") <=> t \in TimeOf(old, "confirmed")
  BY <1>2, <1>3, InTime
<1> QED
  BY <1>2, <1>4, NothingConfirmed

(* Confirming a draft where it is adds its time; nobody's time is not       *)
(* booked twice by it.                                                      *)
LEMMA InPlace ==
  ASSUME NEW old, NEW new, NEW id, IsDraft(old, id), SameBut(new, old, id),
         new[id] # NoRow, new[id].att = "confirmed", new[id].span = old[id].span
  PROVE  /\ TimeOf(new, "confirmed") = TimeOf(old, "confirmed") \cup Points(old[id].span)
         /\ (\A t \in Points(old[id].span) : t \notin TimeOf(old, "confirmed")) =>
              DoubleBooked(new) \subseteq DoubleBooked(old)
<1>1. id \in EntryIds /\ old[id] # NoRow /\ old[id].att = "draft"
  BY DEF IsDraft, WithAttestation, RowIds
<1>2. \A t : t \in TimeOf(new, "confirmed") <=>
               t \in TimeOf(old, "confirmed") \/ t \in Points(old[id].span)
  BY <1>1, InTime DEF SameBut
<1>3. ASSUME \A t \in Points(old[id].span) : t \notin TimeOf(old, "confirmed"), NEW t \in DoubleBooked(new)
      PROVE  t \in DoubleBooked(old)
  <2>1. PICK a, b \in EntryIds :
          /\ a # b
          /\ new[a] # NoRow /\ new[a].att = "confirmed" /\ t \in Points(new[a].span)
          /\ new[b] # NoRow /\ new[b].att = "confirmed" /\ t \in Points(new[b].span)
    BY InDoubleBooked
  <2>2. a # id /\ b # id
    BY <1>3, <2>1, InTime DEF SameBut
  <2>3. new[a] = old[a] /\ new[b] = old[b]
    BY <2>2 DEF SameBut
  <2> QED BY <2>1, <2>3, InDoubleBooked
<1> QED
  BY <1>2, <1>3

(* What a dismissal, a move and a split leave. *)
LEMMA NotConfirming ==
  ASSUME TypedInv, NEW c \in Calls, StillHolds(entries, call[c]), Wrote(c),
         RejectTimeEntry(c) \/ KeepTheirs(c) \/ AdjustDraftTimeEntry(c) \/ SplitTimeEntry(c)
  PROVE  /\ DoubleBooked(entries') \subseteq DoubleBooked(entries)
         /\ TimeOf(entries', "confirmed") = TimeOf(entries, "confirmed")
         /\ SplitTimeEntry(c) => TimeOf(entries', "draft") = TimeOf(entries, "draft")
<1> DEFINE id == call[c].id
<1>1. ~Idle(c) /\ ~ConfirmInPlace(c) /\ ~ConfirmSplitAtMidnight(c) /\ ~ConfirmAroundOverlaps(c)
  BY DEF RejectTimeEntry, KeepTheirs, AdjustDraftTimeEntry, SplitTimeEntry, ConfirmInPlace,
         ConfirmSplitAtMidnight, ConfirmAroundOverlaps, Deciding, Running, PastOverlapGate
<1>2. IsDraft(entries, id) /\ entries[id].span = call[c].span /\ id \in RowIds(entries) /\ TableOK(entries)
  BY EntriesOK DEF StillHolds, IsDraft, WithAttestation
<1>3. RequestOK(call[c]) /\ call[c].span \in Interval /\ NonEmpty(call[c].span)
  BY <1>1, RequestOf
<1>4. CASE (RejectTimeEntry(c) \/ KeepTheirs(c)) /\ entries' = Attest(entries, {id}, "dismissed")
  <2>0. ~SplitTimeEntry(c)
    BY <1>4 DEF RejectTimeEntry, KeepTheirs, SplitTimeEntry, Deciding, Running
  <2>1. /\ SameBut(entries', entries, id)
        /\ entries'[id] # NoRow /\ entries'[id].att = "dismissed"
    BY ZenonT(40), <1>2, <1>4, AttestOne DEF Attestations
  <2> QED BY <1>2, <2>0, <2>1, DraftOnly
<1>5. CASE AdjustDraftTimeEntry(c) /\ entries' = WithSpan(entries, id, call[c].arg)
  <2>1. call[c].op = "adjust" /\ ~SplitTimeEntry(c)
    BY <1>5 DEF AdjustDraftTimeEntry, SplitTimeEntry, Running
  <2>2. call[c].arg \in Interval /\ NonEmpty(call[c].arg)
    BY <1>3, <2>1, UserSpanOK DEF RequestOK
  <2>3. /\ SameBut(entries', entries, id)
        /\ entries'[id] # NoRow /\ entries'[id].att = entries[id].att
    BY <1>2, <1>5, <2>2, MoveOne
  <2>4. entries[id].att = "draft"
    BY <1>2 DEF IsDraft, WithAttestation
  <2> QED BY <1>2, <2>1, <2>3, <2>4, DraftOnly
<1>6. CASE /\ SplitTimeEntry(c)
           /\ entries' \in Replaced(entries, id, Between(call[c].span, call[c].arg.cuts), "draft")
  <2> DEFINE pieces == Between(call[c].span, call[c].arg.cuts)
  <2>1. call[c].op = "split"
    BY <1>6 DEF SplitTimeEntry, Running
  <2>2. call[c].arg.cuts \subseteq Points(call[c].span)
    BY <1>3, <2>1 DEF RequestOK
  <2>3. Spans(pieces) /\ Covered(pieces) = Points(call[c].span)
    BY <1>3, <2>2, BetweenPieces
  <2> HIDE DEF pieces
  <2>4. /\ TimeOf(entries', "draft") = TimeOf(entries, "draft")
        /\ TimeOf(entries', "confirmed") = TimeOf(entries, "confirmed")
    BY <1>2, <1>6, <2>3, ReplacedTime DEF pieces
  <2>5. /\ entries'[id] # NoRow /\ entries'[id].att = "dismissed"
        /\ \A x \in EntryIds :
              \/ x = id
              \/ entries'[x] = entries[x]
              \/ entries[x] = NoRow /\ entries'[x] # NoRow /\ entries'[x].att = "draft"
    BY <1>2, <1>6, <2>3, ReplacedRows DEF pieces, Attestations
  <2>6. DoubleBooked(entries') \subseteq DoubleBooked(entries)
    BY <2>5, NothingConfirmed
  <2> QED BY <2>4, <2>6
<1> QED
  BY <1>1, <1>4, <1>5, <1>6 DEF Wrote

(* Pieces that make up a time nobody has are confirmed as one row would be. *)
LEMMA PiecesConfirmed ==
  ASSUME TypedInv, NEW c \in Calls, StillHolds(entries, call[c]), NEW pieces, Spans(pieces), Apart(pieces),
         entries' \in Replaced(entries, call[c].id, pieces, "confirmed")
  PROVE  /\ TimeOf(entries', "confirmed") = TimeOf(entries, "confirmed") \cup Covered(pieces)
         /\ (\A t \in Covered(pieces) : t \notin TimeOf(entries, "confirmed")) =>
              DoubleBooked(entries') \subseteq DoubleBooked(entries)
<1>1. IsDraft(entries, call[c].id) /\ TableOK(entries)
  BY EntriesOK DEF StillHolds
<1>2. TimeOf(entries', "confirmed") = TimeOf(entries, "confirmed") \cup Covered(pieces)
  BY <1>1, ReplacedTime
<1>3. ASSUME \A t \in Covered(pieces) : t \notin TimeOf(entries, "confirmed")
      PROVE  DoubleBooked(entries') \subseteq DoubleBooked(entries)
  <2>1. Unclaimed(entries, pieces)
    BY <1>3, InCovered DEF Unclaimed
  <2> QED BY <1>1, <2>1, ReplacedBookings
<1> QED
  BY <1>2, <1>3

(* What a confirmation leaves: the draft's time is confirmed, and unless    *)
(* overlaps are allowed nothing is booked twice that was not.               *)
LEMMA Confirming ==
  ASSUME TypedInv, NEW c \in Calls, StillHolds(entries, call[c]), Wrote(c),
         ConfirmInPlace(c) \/ ConfirmSplitAtMidnight(c) \/ ConfirmAroundOverlaps(c)
  PROVE  /\ TimeOf(entries', "confirmed") = TimeOf(entries, "confirmed") \cup Points(call[c].span)
         /\ call[c].arg.resolution # "allow_parallel" => DoubleBooked(entries') \subseteq DoubleBooked(entries)
<1> DEFINE id == call[c].id
<1>1. /\ Deciding(c) /\ ~Idle(c) /\ ~RejectTimeEntry(c) /\ ~AdjustDraftTimeEntry(c) /\ ~SplitTimeEntry(c)
      /\ ~KeepTheirs(c)
  BY DEF RejectTimeEntry, KeepTheirs, AdjustDraftTimeEntry, SplitTimeEntry, ConfirmInPlace,
         ConfirmSplitAtMidnight, ConfirmAroundOverlaps, Deciding, Running, PastOverlapGate
<1>2. IsDraft(entries, id) /\ entries[id].span = call[c].span /\ id \in RowIds(entries) /\ TableOK(entries)
  BY EntriesOK DEF StillHolds, IsDraft, WithAttestation
<1>3. /\ call[c].span \in Interval /\ NonEmpty(call[c].span) /\ call[c].overlaps \subseteq Interval
      /\ \A iv \in call[c].overlaps : NonEmpty(iv)
  BY <1>1, RequestOf
<1>4. CASE ConfirmInPlace(c) /\ entries' = Attest(entries, {id}, "confirmed")
  <2>1. /\ SameBut(entries', entries, id)
        /\ entries'[id] # NoRow /\ entries'[id].att = "confirmed" /\ entries'[id].span = entries[id].span
    BY ZenonT(40), <1>2, <1>4, AttestOne DEF Attestations
  <2>2. call[c].arg.resolution # "allow_parallel" =>
          \A t \in Points(call[c].span) : t \notin TimeOf(entries, "confirmed")
    BY <1>1, <1>4, GateLeavesNobody DEF ConfirmInPlace
  <2> QED BY <1>2, <2>1, <2>2, InPlace
<1>5. CASE ConfirmSplitAtMidnight(c) /\ entries' \in Replaced(entries, id, Segments(call[c].span), "confirmed")
  <2>1. /\ Spans(Segments(call[c].span)) /\ Apart(Segments(call[c].span))
        /\ Covered(Segments(call[c].span)) = Points(call[c].span)
    BY <1>3, SegmentPieces
  <2>2. call[c].arg.resolution # "allow_parallel" =>
          \A t \in Points(call[c].span) : t \notin TimeOf(entries, "confirmed")
    BY <1>1, <1>5, GateLeavesNobody DEF ConfirmSplitAtMidnight
  <2> QED BY <1>5, <2>1, <2>2, PiecesConfirmed
<1>6. CASE ConfirmAroundOverlaps(c) /\ entries' \in Replaced(entries, id, Pieces(c, Around(c)), "confirmed")
  <2> DEFINE pieces == Pieces(c, Around(c))
  <2>1. /\ Spans(pieces) /\ Apart(pieces)
        /\ Covered(pieces) = Points(call[c].span) \ Covered(call[c].overlaps)
    BY <1>3, AroundPieces
  <2> HIDE DEF pieces
  <2>2. call[c].arg.resolution = "split"
    BY <1>6 DEF ConfirmAroundOverlaps
  <2>3. /\ Covered(call[c].overlaps) \subseteq TimeOf(entries, "confirmed")
        /\ \A t \in Points(call[c].span) :
             t \in TimeOf(entries, "confirmed") => t \in Covered(call[c].overlaps)
    BY <1>1, <2>2, OverlapsCover
  <2>4. /\ TimeOf(entries', "confirmed") = TimeOf(entries, "confirmed") \cup Covered(pieces)
        /\ (\A t \in Covered(pieces) : t \notin TimeOf(entries, "confirmed")) =>
             DoubleBooked(entries') \subseteq DoubleBooked(entries)
    BY <1>6, <2>1, PiecesConfirmed DEF pieces
  <2>5. \A t \in Covered(pieces) : t \notin TimeOf(entries, "confirmed")
    BY <2>1, <2>3
  <2>6. TimeOf(entries, "confirmed") \cup Covered(pieces) = TimeOf(entries, "confirmed") \cup Points(call[c].span)
    BY <2>1, <2>3
  <2> QED BY <2>4, <2>5, <2>6
<1> QED
  BY <1>1, <1>4, <1>5, <1>6 DEF Wrote

-----------------------------------------------------------------------------
(* The action properties. *)

(* A step of the call in flight deletes one of their entries, writes, or    *)
(* leaves the table alone.                                                  *)
LEMMA Kinds ==
  ASSUME FlowInv, Next, NEW c \in Calls, StepOf(c)
  PROVE  /\ TypedInv /\ ~Idle(c) /\ StillHolds(entries, call[c])
         /\ \/ \E other \in call[c].todo : DeleteTheirs(c, other)
            \/ WriteStep(c) /\ Wrote(c)
            \/ entries' = entries /\ ~Succeeds(c)
            \/ entries' = entries /\ call[c].op = "confirm"
<1>1. TypedInv /\ ~Idle(c) /\ StillHolds(entries, call[c])
  BY DEF FlowInv, StepOf
<1>2. FlightStep(c)
  BY <1>1, StepsOf
<1>3. CASE Interrupt(c) \/ RefuseConfirm(c)
  <2>1. entries' = entries /\ \E how \in {"refused", "lost"} : End(c, how)
    BY <1>3 DEF Interrupt, RefuseConfirm
  <2>2. answer'[c] # "ok"
    BY <1>1, <2>1, TypedParts DEF End
  <2> QED BY <1>1, <2>1, <2>2 DEF Succeeds
<1>4. CASE ListOverlaps(c)
  BY <1>1, <1>4, ListTyped
<1>5. CASE WriteStep(c)
  <2>1. call[c].id \in RowIds(entries)
    BY <1>1 DEF StillHolds, IsDraft, WithAttestation
  <2> QED BY <1>1, <1>5, <2>1, WriteStepTyped
<1>6. ASSUME NEW id \in EntryIds, DeleteTheirs(c, id) PROVE \E other \in call[c].todo : DeleteTheirs(c, other)
  BY <1>6 DEF DeleteTheirs
<1> QED
  BY <1>1, <1>2, <1>3, <1>4, <1>5, <1>6 DEF FlightStep

(* Deleting one of their entries uncovers at most what it overlapped.       *)
LEMMA Deleting ==
  ASSUME TypedInv, NEW c \in Calls, StillHolds(entries, call[c]), NEW other, DeleteTheirs(c, other)
  PROVE  /\ DoubleBooked(entries') \subseteq DoubleBooked(entries)
         /\ TimeOf(entries, "confirmed") \ TimeOf(entries', "confirmed") \subseteq Covered(call[c].overlaps)
         /\ Deciding(c) /\ call[c].arg.resolution = "keep_mine" /\ call'[c] # NoCall
<1>1. /\ Deciding(c) /\ other \in call[c].todo /\ call[c].arg.resolution = "keep_mine"
      /\ entries' = DeleteRows(entries, {other})
      /\ call'[c] = [call[c] EXCEPT !.todo = @ \ {other}]
  BY DeleteTyped
<1>2. \A x \in EntryIds : entries'[x] = IF x = other THEN NoRow ELSE entries[x]
  <2>1. entries' = DeleteRows(entries, {other})
    BY <1>1
  <2> QED BY <2>1, EntriesOK, DeleteOne
<1>3. DoubleBooked(entries') \subseteq DoubleBooked(entries)
  BY <1>2, NothingConfirmed
<1>4. entries[other].span \in call[c].overlaps
  BY <1>1 DEF StillHolds, Deciding, Running
<1>5. ASSUME NEW t \in TimeOf(entries, "confirmed"), t \notin TimeOf(entries', "confirmed")
      PROVE  t \in Covered(call[c].overlaps)
  <2>1. PICK x \in EntryIds : entries[x] # NoRow /\ entries[x].att = "confirmed" /\ t \in Points(entries[x].span)
    BY <1>5, InTime
  <2>2. x = other
    BY <1>2, <1>5, <2>1, InTime
  <2> QED BY <1>4, <2>1, <2>2, InCovered
<1>6. call'[c] # NoCall
  <2>1. call[c] \in Request
    BY <1>1, RequestOf DEF Deciding, Running, RequestOK
  <2>2. call'[c] \in Request
    BY <1>1, <2>1 DEF Request
  <2> QED BY <2>2, ConfirmFlowAssumption
<1> QED
  BY <1>1, <1>3, <1>5, <1>6

(* Nothing confirmed is booked twice by a step of a call. *)
LEMMA StepBooks ==
  ASSUME FlowInv, Next, NEW c \in Calls
  PROVE  BooksNothingTwice(c)
<1> SUFFICES ASSUME StepOf(c), Deciding(c), call[c].arg.resolution # "allow_parallel"
             PROVE  DoubleBooked(entries') \subseteq DoubleBooked(entries)
  BY DEF BooksNothingTwice
<1>1. CASE \E other \in call[c].todo : DeleteTheirs(c, other)
  BY <1>1, Kinds, Deleting
<1>2. CASE WriteStep(c) /\ Wrote(c)
  BY <1>2, Kinds, NotConfirming, Confirming DEF WriteStep
<1> QED
  BY <1>1, <1>2, Kinds

LEMMA StepKeepsConfirmed ==
  ASSUME FlowInv, Next, NEW c \in Calls
  PROVE  KeepsConfirmedTime(c)
<1> SUFFICES ASSUME StepOf(c)
             PROVE  TimeOf(entries, "confirmed") \ TimeOf(entries', "confirmed") \subseteq
                      (IF Deciding(c) /\ call[c].arg.resolution = "keep_mine" THEN Covered(call[c].overlaps) ELSE {})
  BY DEF KeepsConfirmedTime
<1>1. CASE \E other \in call[c].todo : DeleteTheirs(c, other)
  BY <1>1, Kinds, Deleting
<1>2. CASE WriteStep(c) /\ Wrote(c)
  <2>1. TimeOf(entries, "confirmed") \subseteq TimeOf(entries', "confirmed")
    BY <1>2, Kinds, NotConfirming, Confirming DEF WriteStep
  <2> QED BY <2>1
<1> QED
  BY <1>1, <1>2, Kinds

LEMMA StepKeepsDraft ==
  ASSUME FlowInv, Next, NEW c \in Calls
  PROVE  KeepsDraftTime(c)
<1> SUFFICES ASSUME Succeeds(c)
             PROVE  /\ Deciding(c) /\ call[c].arg.resolution # "keep_theirs" =>
                         TimeOf(entries', "confirmed") = TimeOf(entries, "confirmed") \cup Points(call[c].span)
                    /\ call[c].op = "split" => TimeOf(entries', "draft") = TimeOf(entries, "draft")
  BY DEF KeepsDraftTime
<1>1. StepOf(c) /\ call'[c] = NoCall
  BY DEF Succeeds
<1>2. ~ \E other \in call[c].todo : DeleteTheirs(c, other)
  BY <1>1, Kinds, Deleting
<1>3. CASE WriteStep(c) /\ Wrote(c)
  <2>1. CASE Deciding(c) /\ call[c].arg.resolution # "keep_theirs"
    <3>1. ~RejectTimeEntry(c) /\ ~AdjustDraftTimeEntry(c) /\ ~SplitTimeEntry(c) /\ ~KeepTheirs(c)
      BY <2>1 DEF RejectTimeEntry, AdjustDraftTimeEntry, SplitTimeEntry, KeepTheirs, Deciding, Running
    <3>2. call[c].op # "split"
      BY <2>1 DEF Deciding, Running
    <3> QED BY <1>1, <1>3, <3>1, <3>2, Kinds, Confirming DEF WriteStep
  <2>2. CASE call[c].op = "split"
    <3>1. SplitTimeEntry(c) /\ ~Deciding(c)
      BY <1>3, <2>2 DEF WriteStep, RejectTimeEntry, AdjustDraftTimeEntry, KeepTheirs, ConfirmInPlace,
            ConfirmSplitAtMidnight, ConfirmAroundOverlaps, Deciding, Running
    <3> QED BY <1>1, <1>3, <3>1, Kinds, NotConfirming
  <2> QED BY <2>1, <2>2
<1>4. CASE call[c].op = "confirm"
  BY <1>4 DEF Deciding, Running
<1> QED
  BY <1>1, <1>2, <1>3, <1>4, Kinds

(* One call at a time never makes two confirmed entries claim the same      *)
(* minute unless asked to, whatever else is in the table and wherever the   *)
(* draft crosses midnight (ConfirmTimeEntry, confirmDraftAroundOverlaps).   *)
THEOREM BooksOnce ==
  ASSUME OneAtATime
  PROVE  Spec => NoDoubleBooking
<1>1. FlowInv /\ [Next]_vars => [\A c \in Calls : BooksNothingTwice(c)]_vars
  BY StepBooks
<1> QED
  BY <1>1, FlowInvariant, PTL DEF Spec, NoDoubleBooking

(* The draft that is confirmed, or split, keeps all its time, and no other  *)
(* time is confirmed with it (confirmDraftAroundOverlaps, SplitTimeEntry).  *)
THEOREM ConfirmedWhole ==
  ASSUME OneAtATime
  PROVE  Spec => DraftTimeKept
<1>1. FlowInv /\ [Next]_vars => [\A c \in Calls : KeepsDraftTime(c)]_vars
  BY StepKeepsDraft
<1> QED
  BY <1>1, FlowInvariant, PTL DEF Spec, DraftTimeKept

(* Wherever a call is interrupted it has unconfirmed nothing but, with      *)
(* keep_mine, entries that overlap its draft (ConfirmTimeEntry).            *)
THEOREM NothingUnconfirmed ==
  ASSUME OneAtATime
  PROVE  Spec => ConfirmedTimeKept
<1>1. FlowInv /\ [Next]_vars => [\A c \in Calls : KeepsConfirmedTime(c)]_vars
  BY StepKeepsConfirmed
<1> QED
  BY <1>1, FlowInvariant, PTL DEF Spec, ConfirmedTimeKept

(* What a call under split_at_midnight confirms is one piece of a day. *)
LEMMA StepCuts ==
  ASSUME TypedInv, Next, NEW c \in Calls
  PROVE  CutsAtMidnight(c)
<1> SUFFICES ASSUME Succeeds(c), Deciding(c), call[c].arg.overnight = "split_at_midnight",
                    NEW x \in WithAttestation(entries', "confirmed") \ Confirmed
             PROVE  Cardinality(Segments(entries'[x].span)) = 1
  BY DEF CutsAtMidnight
<1> DEFINE id == call[c].id
<1>1. StepOf(c) /\ ~Idle(c) /\ FlightStep(c) /\ call[c].op = "decide"
  BY StepsOf DEF Succeeds, Deciding, Running
<1>2. /\ call[c].span \in Interval /\ NonEmpty(call[c].span) /\ call[c].overlaps \subseteq Interval
      /\ \A iv \in call[c].overlaps : NonEmpty(iv)
  BY <1>1, RequestOf
<1>3. /\ x \in EntryIds /\ entries'[x] # NoRow /\ entries'[x].att = "confirmed"
      /\ entries'[x] # entries[x]
  BY DEF Confirmed, WithAttestation, RowIds
<1>4. entries' # entries
  BY <1>3
<1>5. CASE \E other \in EntryIds : DeleteTheirs(c, other)
  <2>1. PICK other \in EntryIds : entries' = DeleteRows(entries, {other})
    BY <1>5 DEF DeleteTheirs
  <2>2. entries'[x] = IF x = other THEN NoRow ELSE entries[x]
    BY <1>3, <2>1, EntriesOK, DeleteOne
  <2> QED BY <1>3, <2>2
<1>6. CASE WriteStep(c) /\ Wrote(c)
  <2>1. id \in RowIds(entries) /\ TableOK(entries)
    BY <1>6, EntriesOK DEF Wrote
  <2>2. /\ ~RejectTimeEntry(c) /\ ~AdjustDraftTimeEntry(c) /\ ~SplitTimeEntry(c) /\ ~ConfirmInPlace(c)
    BY <1>1 DEF RejectTimeEntry, AdjustDraftTimeEntry, SplitTimeEntry, ConfirmInPlace, Running
  <2>3. CASE KeepTheirs(c) /\ entries' = Attest(entries, {id}, "dismissed")
    <3>1. SameBut(entries', entries, id) /\ entries'[id].att = "dismissed"
      BY <2>1, <2>3, AttestOne DEF Attestations
    <3> QED BY <1>3, <3>1 DEF SameBut
  <2>4. ASSUME NEW pieces, Spans(pieces), entries' \in Replaced(entries, id, pieces, "confirmed")
        PROVE  entries'[x].span \in pieces
    <3>1. /\ entries'[id].att = "dismissed"
          /\ x = id \/ entries'[x] = entries[x] \/ entries'[x].span \in pieces
      BY <1>3, <2>1, <2>4, ReplacedRows DEF Attestations
    <3> QED BY <1>3, <3>1
  <2>5. CASE entries' \in Replaced(entries, id, Segments(call[c].span), "confirmed")
    <3>1. Spans(Segments(call[c].span)) /\ \A p \in Segments(call[c].span) : Cardinality(Segments(p)) = 1
      BY <1>2, SegmentPieces
    <3> QED BY <2>4, <2>5, <3>1
  <2>6. CASE entries' \in Replaced(entries, id, Pieces(c, Around(c)), "confirmed")
    <3>1. Spans(Pieces(c, Around(c))) /\ \A p \in Pieces(c, Around(c)) : Cardinality(Segments(p)) = 1
      BY <1>2, AroundPieces
    <3> QED BY <2>4, <2>6, <3>1
  <2> QED BY <1>6, <2>2, <2>3, <2>5, <2>6 DEF Wrote
<1>7. CASE Interrupt(c) \/ RefuseConfirm(c) \/ ListOverlaps(c)
  BY <1>4, <1>7 DEF Interrupt, RefuseConfirm, ListOverlaps
<1>8. WriteStep(c) => Wrote(c)
  BY <1>4, WriteStepTyped
<1> QED
  BY <1>1, <1>5, <1>6, <1>7, <1>8 DEF FlightStep

(* However many calls are in flight, what one confirms under                *)
(* split_at_midnight lies within a work date (confirmSplitAtMidnight,       *)
(* confirmDraftAroundOverlaps).                                             *)
THEOREM WithinOneDay == Spec => PiecesWithinDay
<1>1. TypedInv /\ [Next]_vars => [\A c \in Calls : CutsAtMidnight(c)]_vars
  BY StepCuts
<1> QED
  BY <1>1, FlowTyped, PTL DEF Spec, PiecesWithinDay
=============================================================================
