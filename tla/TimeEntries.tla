----------------------------- MODULE TimeEntries -----------------------------
(***************************************************************************)
(* The time_entry table and what its statements do to it.  A table maps    *)
(* every row id to a row or to NoRow; a row has at least an attestation    *)
(* ("draft", "confirmed", "dismissed") and a span.  EntryIds bounds the    *)
(* number of rows that exist at once.                                      *)
(***************************************************************************)
EXTENDS Intervals, Functions

CONSTANTS EntryIds, NoRow

Attestations == {"draft", "confirmed", "dismissed"}

RowIds(entries) == {id \in EntryIds : entries[id] # NoRow}

FreeIds(entries) == EntryIds \ RowIds(entries)

WithAttestation(entries, att) == {id \in RowIds(entries) : entries[id].att = att}

IsDraft(entries, id) == id \in WithAttestation(entries, "draft")

(* UpdateTimeEntryAttestation, on each of several rows. *)
Attest(entries, ids, att) ==
  [id \in EntryIds |-> IF id \in ids THEN [entries[id] EXCEPT !.att = att] ELSE entries[id]]

(* UpdateTimeEntrySpan and the span of UpdateTimeEntry. *)
WithSpan(entries, id, span) == [entries EXCEPT ![id].span = span]

(* DeleteTimeEntry, on each of several rows. *)
DeleteRows(entries, ids) == [id \in EntryIds |-> IF id \in ids THEN NoRow ELSE entries[id]]

(* CreateTimeEntry, once per row: the tables with the rows at fresh ids. *)
AddRows(entries, rows) ==
  {[id \in EntryIds |-> IF \E r \in rows : at[r] = id
                        THEN CHOOSE r \in rows : at[r] = id
                        ELSE entries[id]] :
     at \in Injection(rows, FreeIds(entries))}

(* overlappingConfirmed *)
ConfirmedOverlaps(entries, id) ==
  {o \in WithAttestation(entries, "confirmed") \ {id} :
     Overlaps(entries[o].span, entries[id].span)}

(* The tail confirmSplitAtMidnight, confirmDraftAroundOverlaps and         *)
(* SplitTimeEntry share: a row per piece of the original, which is         *)
(* dismissed, in one transaction.                                          *)
ReplaceByPieces(entries, id, pieces, att) ==
  {Attest(table, {id}, "dismissed") :
     table \in AddRows(entries, {[entries[id] EXCEPT !.span = p, !.att = att] : p \in pieces})}
=============================================================================
