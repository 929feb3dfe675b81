------------------------------ MODULE Templates ------------------------------
(***************************************************************************)
(* Export templates (internal/service/export_template_crud.go and           *)
(* export_tabular.go): named layouts for the report of a period.  Builtin   *)
(* ones can be copied but not changed.  A template body is kept apart from  *)
(* its format, and each of them says how columns are delimited.             *)
(***************************************************************************)
EXTENDS Naturals, Sequences, SequencesExt, Functions

CONSTANTS
  Keys,
  Candidates,    \* the keys tried for a wanted key: itself, then numbered
  CopyKey,       \* the slug of a key and "_copy"
  Matrix, FlatDaily, DetailEntries, TextSummary,   \* the builtin keys
  Bodies,        \* bound: the bodies a user may send
  NoTemplate

TabularBuiltins == {Matrix, FlatDaily, DetailEntries}

Builtins == TabularBuiltins \cup {TextSummary}

(* A body that is no tabular spec: blank, text without a spec in it, text   *)
(* in which an action is left open, or text whose actions are well formed   *)
(* but fail on a report: a field it does not have, a function given the     *)
(* wrong kind of value.                                                    *)
Blank == [grain |-> "blank"]
Prose == [grain |-> "prose"]
Torn == [grain |-> "torn"]
Misused == [grain |-> "misused"]

Tabular(grain, layout, delimiter, columns) ==
  [grain |-> grain, layout |-> layout, delimiter |-> delimiter, columns |-> columns]

IsSpec(body) == body \notin {Blank, Prose, Torn, Misused}

TemplatesAssumption ==
  /\ Builtins \subseteq Keys /\ TextSummary \notin TabularBuiltins /\ Matrix # DetailEntries
  /\ Candidates \in [Keys -> Seq(Keys)] /\ CopyKey \in [Keys -> Keys]
  /\ \A body \in Bodies : IsSpec(body) => body = Tabular(body.grain, body.layout, body.delimiter, body.columns)

VARIABLE table   \* export_template, by key
-----------------------------------------------------------------------------
FieldCatalog(grain, layout) ==
  IF grain = "detail"
  THEN {"date", "start", "end", "category_name", "category_key", "hours", "minutes", "title", "description",
        "source", "work_type", "project_name", "project_key", "billable_status"}
  ELSE IF layout = "matrix" THEN {"category_name", "category_key", "total"}
  ELSE {"date", "category_name", "category_key", "hours", "minutes", "day_actual_hours", "day_target_hours"}

ValidGrainLayout(grain, layout) ==
  /\ grain \in {"rollup", "detail"} /\ layout \in {"matrix", "flat"}
  /\ grain = "detail" => layout = "flat"

ValidTabularSpec(spec) ==
  /\ ValidGrainLayout(spec.grain, spec.layout)
  /\ spec.columns # <<>>
  /\ ToSet(spec.columns) \subseteq FieldCatalog(spec.grain, spec.layout)
  /\ IsInjective(spec.columns)
  /\ spec.layout = "matrix" => ToSet(spec.columns) \cap {"category_name", "category_key"} # {}
  /\ spec.delimiter \in {"", "comma", "tab"}

(* parseTabularSpec succeeds; what it returns has a delimiter.              *)
Parses(body) == IsSpec(body) /\ ValidTabularSpec(body)

Normalized(spec) == IF spec.delimiter = "" THEN [spec EXCEPT !.delimiter = "comma"] ELSE spec

DefaultTabularSpec(grain, layout) ==
  Tabular(grain, layout, "comma",
       IF grain = "detail"
       THEN <<"start", "end", "category_name", "category_key", "hours", "title", "description",
              "work_type", "project_name", "project_key", "billable_status">>
       ELSE IF layout = "matrix" THEN <<"category_name", "total">>
       ELSE <<"date", "category_name", "category_key", "hours">>)

BuiltinTabularSpec(key) ==
  DefaultTabularSpec(IF key = DetailEntries THEN "detail" ELSE "rollup",
                     IF key = Matrix THEN "matrix" ELSE "flat")

(* Mutant: a tab in the body outlives a change of format to csv.            *)
DelimitedAsSent(spec, format) == IF format = "tsv" THEN [spec EXCEPT !.delimiter = "tab"] ELSE spec

(* "Format wins": tabs for tsv, never tabs for csv.                         *)
Delimited(spec, format) ==
  IF format = "tsv" THEN [spec EXCEPT !.delimiter = "tab"]
  ELSE IF spec.delimiter = "tab" THEN [spec EXCEPT !.delimiter = "comma"] ELSE spec

(* The bodies normalizeExportBody accepts, and what is stored of one: text  *)
(* is parsed, and not executed.                                            *)
ValidBody(body, format) == IF format = "text" THEN body \notin {Blank, Torn} ELSE Parses(body)

Stored(body, format) == IF format = "text" THEN body ELSE Delimited(Normalized(body), format)

-----------------------------------------------------------------------------
Row(builtin, format, body) == [builtin |-> builtin, format |-> format, body |-> body]

(* As the migrations leave it; an older database has builtin templates with *)
(* no body.                                                                *)
Init ==
  \E old \in SUBSET Builtins :
    table = [k \in Keys |->
      IF k \in TabularBuiltins THEN Row(TRUE, "csv", IF k \in old THEN Blank ELSE BuiltinTabularSpec(k))
      ELSE IF k = TextSummary THEN Row(TRUE, "text", IF k \in old THEN Blank ELSE Prose)
      ELSE NoTemplate]

Existing == {k \in Keys : table[k] # NoTemplate}

Tried(key) == ToSet(Candidates[key])

(* uniqueExportTemplateKey: the first candidate that is free, if any.       *)
UniqueKey(key) == Candidates[key][SelectInSeq(Candidates[key], LAMBDA k : k \notin Existing)]

CreateExportTemplate(key, format, body) ==
  /\ ValidBody(body, format)
  /\ Tried(key) \ Existing # {}
  /\ table' = [table EXCEPT ![UniqueKey(key)] = Row(FALSE, format, Stored(body, format))]

UpdateExportTemplate(key, format, body) ==
  /\ key \in Existing /\ ~table[key].builtin
  /\ ValidBody(body, format)
  /\ table' = [table EXCEPT ![key] = Row(FALSE, format, Stored(body, format))]

DeleteExportTemplate(key) ==
  /\ key \in Existing /\ ~table[key].builtin
  /\ table' = [table EXCEPT ![key] = NoTemplate]

(* Mutant: every builtin without a body is copied as the matrix.            *)
BodyToCopyMatrix(key) ==
  IF table[key].body # Blank THEN table[key].body
  ELSE IF table[key].format = "text" THEN Prose ELSE BuiltinTabularSpec(Matrix)

(* What a copy starts from: a builtin without a body has the default one.   *)
BodyToCopy(key) ==
  IF table[key].body # Blank THEN table[key].body
  ELSE IF table[key].format = "text" THEN Prose
  ELSE IF key \in TabularBuiltins THEN BuiltinTabularSpec(key) ELSE Blank

DuplicateExportTemplate(key) ==
  /\ key \in Existing
  /\ ValidBody(BodyToCopy(key), table[key].format)
  /\ Tried(CopyKey[key]) \ Existing # {}
  /\ table' = [table EXCEPT ![UniqueKey(CopyKey[key])] =
       Row(FALSE, table[key].format, Stored(BodyToCopy(key), table[key].format))]

Next ==
  \E key \in Keys :
    \/ \E format \in {"csv", "tsv", "text"}, body \in Bodies :
         CreateExportTemplate(key, format, body) \/ UpdateExportTemplate(key, format, body)
    \/ DeleteExportTemplate(key) \/ DuplicateExportTemplate(key)

Spec == Init /\ [][Next]_table
-----------------------------------------------------------------------------
Fails == [grain |-> "fails"]

(* renderExportTemplate of a row: the layout it is rendered with.  A text   *)
(* is parsed and executed, and either can fail; a builtin spec that does    *)
(* not parse falls back to its default.                                     *)
Rendered(key, row) ==
  IF row.format = "text"
  THEN IF row.body \in {Torn, Misused} THEN Fails
       ELSE IF row.body # Blank THEN row.body
       ELSE IF key = TextSummary THEN Prose ELSE Fails
  ELSE IF Parses(row.body) THEN Normalized(row.body)
  ELSE IF key \in TabularBuiltins THEN Delimited(BuiltinTabularSpec(key), row.format)
  ELSE Fails

(* Every template renders, and columns are delimited as its format says,    *)
(* whatever formats and bodies it was given one after the other.  The one   *)
(* exception is a text whose actions fail on the report: it is accepted     *)
(* when it is saved, as saving parses it only, and fails whenever a report  *)
(* is exported with it.                                                    *)
Renderable ==
  \A k \in Existing :
    /\ Rendered(k, table[k]) # Fails \/ (table[k].format = "text" /\ table[k].body = Misused)
    /\ table[k].format = "csv" => Rendered(k, table[k]).delimiter = "comma"
    /\ table[k].format = "tsv" => Rendered(k, table[k]).delimiter = "tab"

(* A copy renders as the template it was copied from, builtin or not, or    *)
(* fails as it does.                                                       *)
CopyRendersAlike ==
  [][\A n \in Existing' \ Existing : \A k \in Existing :
       DuplicateExportTemplate(k) => Rendered(n, table'[n]) = Rendered(k, table[k])]_table
=============================================================================
