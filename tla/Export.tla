------------------------------- MODULE Export -------------------------------
(***************************************************************************)
(* The report of a period (internal/service/export.go and the renderers of  *)
(* export_tabular.go): what was confirmed, per entry, per day and category  *)
(* and over the period.  Instants are local minutes from the first midnight *)
(* on; a date is their day.  Every cell is kept in minutes.                 *)
(***************************************************************************)
EXTENDS Intervals, FiniteSets, Functions

CONSTANTS
  EntryIds, Categories,
  Keys, KeyOf,    \* the key of each category
  Unassigned,     \* no category; its key is the word itself
  DayLength, MinBlock,      \* 24 * 60 and 15
  FirstDate, LastDate,      \* of the period
  Spans,          \* bound: the spans an entry may have
  NoRow

Attestations == {"draft", "confirmed", "dismissed"}

ExportAssumption ==
  /\ Unassigned \notin Categories /\ KeyOf \in [Categories \cup {Unassigned} -> Keys]
  /\ DayLength \in Nat \ {0} /\ MinBlock \in 0 .. DayLength
  /\ FirstDate \in Nat /\ LastDate \in Nat /\ IsFiniteSet(EntryIds)
  /\ \A span \in Spans : span \in Interval /\ NonEmpty(span)

VARIABLES
  ledger,     \* time_entry
  category    \* rows of the category table

Init == ledger = [i \in EntryIds |-> NoRow] /\ category = Categories

(* Entries come by calendar or by hand and are attested or not; TimeEntries *)
(* and ConfirmFlow say how.                                                *)
Record(i, att, span, c) ==
  /\ ledger[i] = NoRow /\ c \in category \cup {Unassigned}
  /\ ledger' = [ledger EXCEPT ![i] = [att |-> att, span |-> span, category |-> c]]
  /\ UNCHANGED category

(* DELETE with ON DELETE SET NULL; a race lets it hit a category in use.    *)
DeleteCategory(c) ==
  /\ c \in category
  /\ category' = category \ {c}
  /\ ledger' = [i \in EntryIds |->
       IF ledger[i] # NoRow /\ ledger[i].category = c THEN [ledger[i] EXCEPT !.category = Unassigned]
       ELSE ledger[i]]

Next ==
  \/ \E i \in EntryIds, att \in Attestations, span \in Spans, c \in Categories \cup {Unassigned} :
       Record(i, att, span, c)
  \/ \E c \in Categories : DeleteCategory(c)

vars == <<ledger, category>>

Spec == Init /\ [][Next]_vars
-----------------------------------------------------------------------------
Confirmed == {i \in EntryIds : ledger[i] # NoRow /\ ledger[i].att = "confirmed"}

(* Mutant: an entry that ends on another date keeps its minute of the day.  *)
ExportedUnclipped(row) ==
  LET start == row.span.start % DayLength
      end == row.span.end % DayLength
  IN [day |-> LocalDate(row.span.start, DayLength), category |-> row.category,
      minutes |-> Later(start + MinBlock, end) - start]

(* timeEntryToExportEntry: up to midnight if it ends on another date, and   *)
(* never shorter than the least block.                                     *)
Exported(row) ==
  LET start == row.span.start % DayLength
      end == IF CrossesLocalMidnight(row.span, DayLength) THEN DayLength ELSE row.span.end % DayLength
  IN [day |-> LocalDate(row.span.start, DayLength), category |-> row.category,
      minutes |-> Later(start + MinBlock, end) - start]

Entry(i) == Exported(ledger[i])

(* categoryIdentity: keys are unique and never empty, but a user's category *)
(* may have the key of Unassigned.                                         *)
EntriesOf(key) == {i \in Confirmed : KeyOf[Entry(i).category] = key}

MinutesOf(ids) == SumFunction([i \in ids |-> Entry(i).minutes])

(* Mutant: the last date is not a day of the period.                        *)
PeriodDatesHalfOpen == FirstDate .. LastDate - 1

(* periodDateRange                                                          *)
PeriodDates == FirstDate .. LastDate

ActualMinutes == MinutesOf(Confirmed)

(* PeriodTotals: every entry, whatever its date.                            *)
PeriodTotals == [key \in {KeyOf[Entry(i).category] : i \in Confirmed} |-> MinutesOf(EntriesOf(key))]

(* DailyTotals: the entries of a day of the period.                         *)
DailyTotals ==
  [day \in PeriodDates |->
     LET today == {i \in Confirmed : Entry(i).day = day}
     IN [key \in {KeyOf[Entry(i).category] : i \in today} |-> MinutesOf(today \cap EntriesOf(key))]]

(* renderMatrixTabular: a row per category of the period, a cell per day,   *)
(* zero where the day has none of it; and the total of the row.            *)
MatrixCell(key, day) == IF key \in DOMAIN DailyTotals[day] THEN DailyTotals[day][key] ELSE 0

MatrixTotal(key) == SumFunction([day \in PeriodDates |-> MatrixCell(key, day)])

(* renderFlatRollupTabular: a line per day and category of the day.         *)
FlatLines == {l \in PeriodDates \X Keys : l[2] \in DOMAIN DailyTotals[l[1]]}

FlatTotal(lines) == SumFunction([l \in lines |-> DailyTotals[l[1]][l[2]]])

(* renderDetailTabular: a line per entry.                                   *)
DetailTotal(ids) == MinutesOf(ids)
-----------------------------------------------------------------------------
InPeriod(i) == FirstDate <= Entry(i).day /\ Entry(i).day <= LastDate

(* The three reports of a period agree on every category up to the entries  *)
(* dated outside it, which the detail report alone lists and the actual     *)
(* minutes count.                                                          *)
ReportsAgree ==
  /\ \A key \in DOMAIN PeriodTotals :
       LET listed == {i \in EntriesOf(key) : InPeriod(i)} IN
       /\ MatrixTotal(key) = DetailTotal(listed)
       /\ FlatTotal({l \in FlatLines : l[2] = key}) = DetailTotal(listed)
       /\ PeriodTotals[key] - MatrixTotal(key) = DetailTotal(EntriesOf(key) \ listed)
  /\ ActualMinutes = DetailTotal(Confirmed)

Lasts(i) == ledger[i].span.end - ledger[i].span.start

WithinOneDate(i) == LocalDate(ledger[i].span.start, DayLength) = LocalDate(ledger[i].span.end - 1, DayLength)

(* What was confirmed is reported to the minute, neither drafts nor less:   *)
(* each entry of at least the least block that stays within a date counts   *)
(* with its length, up to midnight too, whether its category is there or not.*)
AttestedIsReported ==
  LET whole == {i \in Confirmed : WithinOneDate(i) /\ Lasts(i) >= MinBlock}
  IN FlatTotal(FlatLines) - MinutesOf({i \in Confirmed \ whole : InPeriod(i)})
       = SumFunction([i \in {j \in whole : InPeriod(j)} |-> Lasts(i)])

(* "never silently clipped" (timesheet-domain-gap-analysis.md:89).          *)
NeverClipped == \A i \in Confirmed : Entry(i).minutes >= Lasts(i)
=============================================================================
