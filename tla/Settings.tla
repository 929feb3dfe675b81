------------------------------ MODULE Settings ------------------------------
(***************************************************************************)
(* What the settings pages keep: the catalog of categories and projects,    *)
(* the work schedule, the export templates, the periods that are opened     *)
(* under the cadence set, and the report such a period is exported as.  The *)
(* parts share no row; a step is a step of one.  (The categories of the     *)
(* report are its own: its entries refer to rows that may be gone.)         *)
(***************************************************************************)
EXTENDS Catalog, Integers

CONSTANTS
  MaxDate, WeekLength, DayLength, DayPlans, NoPlan, NoException,
  TemplateKeys, Candidates, CopyKey, Matrix, FlatDaily, DetailEntries, TextSummary, Bodies, NoTemplate,
  Days, MonthStart, MonthEnd, HalfMonth, Week, Cadences,
  EntryIds, WorkCategories, ReportKeys, KeyOf, Unassigned, MinutesPerDay, MinBlock, FirstDate, LastDate, Spans

VARIABLES versions, exception, table, periods, zoned, setting, periodCall, answer, ledger, category

Work == INSTANCE Schedule

Layouts == INSTANCE Templates WITH Keys <- TemplateKeys

Pay == INSTANCE Periods WITH call <- periodCall

Report == INSTANCE Export WITH Categories <- WorkCategories, Keys <- ReportKeys, DayLength <- MinutesPerDay

ASSUME SettingsAssumption ==
  /\ CatalogAssumption /\ Work!ScheduleAssumption
  /\ Layouts!TemplatesAssumption /\ Pay!PeriodsAssumption /\ Report!ExportAssumption

schedule == <<versions, exception>>
period == <<periods, zoned, setting, periodCall, answer>>
report == <<ledger, category>>
settings == <<vars, schedule, table, period, report>>

SettingsInit == Init /\ Work!Init /\ Layouts!Init /\ Pay!Init /\ Report!Init

CatalogStep == Next /\ UNCHANGED <<schedule, table, period, report>>
ScheduleStep == Work!Next /\ UNCHANGED <<vars, table, period, report>>
TemplatesStep == Layouts!Next /\ UNCHANGED <<vars, schedule, period, report>>
PeriodsStep == Pay!Next /\ UNCHANGED <<vars, schedule, table, report>>
ReportStep == Report!Next /\ UNCHANGED <<vars, schedule, table, period>>

SettingsNext == CatalogStep \/ ScheduleStep \/ TemplatesStep \/ PeriodsStep \/ ReportStep

SettingsSpec == SettingsInit /\ [][SettingsNext]_settings
-----------------------------------------------------------------------------
(* The versions keep the timetable: expected time of the past never changes *)
(* when the schedule is replaced, and every date from the first one on has  *)
(* exactly one plan.                                                       *)
KeepsTimetable == Work!KeepsTimetable

(* Every template renders, and columns are delimited as its format says,    *)
(* whatever formats and bodies it was given one after the other, but for    *)
(* texts whose actions fail on the report.                                  *)
Renderable == Layouts!Renderable

(* A copy renders as the template it was copied from, builtin or not, or    *)
(* fails as it does.                                                       *)
CopyRendersAlike == Layouts!CopyRendersAlike

(* No day is in two periods, whichever days the application is opened on,   *)
(* in whatever order, and however the cadence is changed between.           *)
PeriodsDisjoint == Pay!PeriodsDisjoint

(* The period returned contains the day asked for, and has a time zone even *)
(* if an earlier call stopped before giving it one.                         *)
ReturnedIsUsable == Pay!ReturnedIsUsable

(* The reports of a period agree.                                           *)
ReportsAgree == Report!ReportsAgree

(* What was confirmed is what is reported.                                  *)
AttestedIsReported == Report!AttestedIsReported
=============================================================================
