----------------------------- MODULE MCSettings -----------------------------
(***************************************************************************)
(* A small instance of Settings, one part at a time, as they share no row.  *)
(***************************************************************************)
EXTENDS Settings, TLC

(* Days of two instants; a day off, a whole day, and a day nobody may ask   *)
(* for.                                                                    *)
MCDayPlans ==
  {[minutes |-> 0, windows |-> {}],
   [minutes |-> 2, windows |-> {[start |-> 0, end |-> 2]}],
   [minutes |-> -1, windows |-> {[start |-> 1, end |-> 1]}]}

(* The builtin keys and two more, the second the numbered first.            *)
MCTemplateKeys == {"matrix_csv", "flat_daily_csv", "detail_entries_csv", "text_summary", "mine", "mine_2"}

MCCandidates ==
  [k \in MCTemplateKeys |->
    IF k = "mine" THEN <<"mine", "mine_2">> ELSE IF k = "mine_2" THEN <<"mine_2">> ELSE <<k, "mine">>]

MCCopyKey == [k \in MCTemplateKeys |-> IF k = "mine" THEN "mine_2" ELSE "mine"]

MCBodies ==
  {[grain |-> "blank"], [grain |-> "prose"], [grain |-> "torn"], [grain |-> "misused"],
   [grain |-> "rollup", layout |-> "matrix", delimiter |-> "tab", columns |-> <<"category_key", "total">>],
   [grain |-> "rollup", layout |-> "matrix", delimiter |-> "", columns |-> <<"total">>],
   [grain |-> "rollup", layout |-> "flat", delimiter |-> "", columns |-> <<"date", "hours">>],
   [grain |-> "rollup", layout |-> "flat", delimiter |-> "comma", columns |-> <<"date", "date">>],
   [grain |-> "detail", layout |-> "flat", delimiter |-> "semicolon", columns |-> <<"start">>],
   [grain |-> "detail", layout |-> "flat", delimiter |-> "comma", columns |-> <<"start", "hours">>]}

(* Two months of five and seven days, their first half three days long,     *)
(* and weeks of two.                                                       *)
MCDays == {0, 2, 3, 4, 5, 8, 11}

MCMonthStart == [d \in MCDays |-> IF d < 5 THEN 0 ELSE 5]

MCMonthEnd == [d \in MCDays |-> IF d < 5 THEN 4 ELSE 11]

(* A period of two days of four minutes, with the day after it; entries    *)
(* shorter than the least block, up to midnight and past it; a category     *)
(* with the key of Unassigned.                                             *)
MCKeyOf == [c \in {"work", "other", "none"} |-> IF c = "work" THEN "billed" ELSE "Unassigned"]

MCSpans ==
  {[start |-> 0, end |-> 2], [start |-> 1, end |-> 4], [start |-> 3, end |-> 4],
   [start |-> 3, end |-> 6], [start |-> 4, end |-> 7], [start |-> 8, end |-> 10]}

VARIABLE part

MCInit ==
  /\ part \in {"catalog", "schedule", "templates", "periods", "report"}
  /\ Init /\ Work!Init /\ Pay!Init /\ Report!Init
  /\ IF part = "templates" THEN Layouts!Init ELSE table = [k \in TemplateKeys |-> NoTemplate]

MCNext ==
  /\ UNCHANGED part
  /\ \/ part = "catalog" /\ CatalogStep
     \/ part = "schedule" /\ ScheduleStep
     \/ part = "templates" /\ TemplatesStep
     \/ part = "periods" /\ PeriodsStep
     \/ part = "report" /\ ReportStep

MCSpec == MCInit /\ [][MCNext]_<<part, settings>>

(* The categories of the catalog, or its keys, may be exchanged.            *)
Symmetry == Permutations(Categories) \cup Permutations(Keys)
=============================================================================
