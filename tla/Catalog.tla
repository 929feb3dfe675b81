------------------------------- MODULE Catalog -------------------------------
(***************************************************************************)
(* Categories and projects, and what refers to them (internal/service/      *)
(* category.go, project.go).  Creating and updating a category is one       *)
(* transaction; deleting and archiving read first and write later, with     *)
(* nothing held in between, while a sync or an edit may assign what is      *)
(* about to go.  The settings page lets one of its own calls run at a time. *)
(* A key stands for the name too: both are unique.                          *)
(***************************************************************************)
EXTENDS FiniteSets, Sequences

CONSTANTS Categories, Projects, Keys, NoRow, NoCall

Items == Categories \cup Projects

Rows == [key : Keys, gap : BOOLEAN, archived : BOOLEAN]

CatalogAssumption == Categories \cap Projects = {} /\ NoRow \notin Rows

(* What holds a category_id or a project_id: a category decision, what was  *)
(* learned for a title, a calendar's default, a time entry.                 *)
Kinds == {"overlay", "memory", "calendar", "entry"}

Holders(i) == IF i \in Categories THEN Kinds ELSE {"entry"}

VARIABLES
  row,    \* the category and project tables
  refs,   \* for each item, the kinds of row that refer to it
  call    \* the delete or archive in progress

vars == <<row, refs, call>>

Calls ==
  [op : {"delete", "archive"}, item : Items, unread : Seq(Kinds), since : SUBSET Kinds]

Init ==
  /\ row = [i \in Items |-> NoRow]
  /\ refs = [i \in Items |-> {}]
  /\ call = NoCall

Existing == {i \in Items : row[i] # NoRow}

(* The category that is_default_gap is set on: what a new choice clears.    *)
Flagged == {i \in Existing : row[i].gap}

(* GetDefaultGapCategory: an archived category is not the default gap.      *)
DefaultGap == {i \in Flagged : ~row[i].archived}

Table(i) == IF i \in Categories THEN Categories ELSE Projects

(* UNIQUE (name) and UNIQUE (key) of one table.                             *)
KeyFree(i, key) == \A j \in (Existing \cap Table(i)) \ {i} : row[j].key # key

(* Mutant: a statement of its own, ahead of the insert.                     *)
CreatedOutside(c, key, gap) ==
  LET cleared == [i \in Items |-> IF gap /\ i \in Flagged THEN [row[i] EXCEPT !.gap = FALSE] ELSE row[i]]
  IN IF KeyFree(c, key)
     THEN [cleared EXCEPT ![c] = [key |-> key, gap |-> gap, archived |-> FALSE]] ELSE cleared

(* ClearDefaultGap and the insert, undone together when the key is taken.   *)
Created(c, key, gap) ==
  LET cleared == [i \in Items |-> IF gap /\ i \in Flagged THEN [row[i] EXCEPT !.gap = FALSE] ELSE row[i]]
  IN IF KeyFree(c, key)
     THEN [cleared EXCEPT ![c] = [key |-> key, gap |-> gap, archived |-> FALSE]] ELSE row

CreateCategory(c, key, gap) ==
  /\ call = NoCall /\ c \in Categories \ Existing
  /\ row' = Created(c, key, gap)
  /\ UNCHANGED <<refs, call>>

(* The default gap moves, to an archived category too, or stays; the flag   *)
(* cannot be taken away.                                                   *)
UpdateCategory(c, key, gap) ==
  /\ call = NoCall /\ c \in Categories \cap Existing
  /\ KeyFree(c, key)
  /\ gap \/ ~row[c].gap
  /\ row' = [i \in Items |->
               IF i = c THEN [row[c] EXCEPT !.key = key, !.gap = gap]
               ELSE IF gap /\ i \in Flagged THEN [row[i] EXCEPT !.gap = FALSE] ELSE row[i]]
  /\ UNCHANGED <<refs, call>>

CreateProject(p, key) ==
  /\ call = NoCall /\ p \in Projects \ Existing
  /\ KeyFree(p, key)
  /\ row' = [row EXCEPT ![p] = [key |-> key, gap |-> FALSE, archived |-> FALSE]]
  /\ UNCHANGED <<refs, call>>

UpdateProject(p, key) ==
  /\ call = NoCall /\ p \in Projects \cap Existing
  /\ KeyFree(p, key)
  /\ row' = [row EXCEPT ![p].key = key]
  /\ UNCHANGED <<refs, call>>

-----------------------------------------------------------------------------
(* Mutant: what was learned for titles is not counted.                      *)
CountedButMemory(i) ==
  IF i \in Categories THEN <<"overlay", "calendar", "entry">> ELSE <<"entry">>

(* categoryInUse and projectInUse count the holders one query at a time.    *)
Counted(i) ==
  IF i \in Categories THEN <<"overlay", "memory", "calendar", "entry">> ELSE <<"entry">>

(* DeleteCategory and DeleteProject, the first read.                        *)
DeleteBegins(i) ==
  /\ call = NoCall /\ i \in Existing /\ ~row[i].gap
  /\ call' = [op |-> "delete", item |-> i, unread |-> Counted(i), since |-> {}]
  /\ UNCHANGED <<row, refs>>

(* Mutant: whether it is the default gap is not asked.                      *)
ArchiveBeginsAny(i) ==
  /\ call = NoCall /\ i \in Existing /\ ~row[i].archived
  /\ call' = [op |-> "archive", item |-> i, unread |-> <<>>, since |-> {}]
  /\ UNCHANGED <<row, refs>>

(* ArchiveCategory and ArchiveProject, the first read.                      *)
ArchiveBegins(i) ==
  /\ call = NoCall /\ i \in Existing /\ ~row[i].gap /\ ~row[i].archived
  /\ call' = [op |-> "archive", item |-> i, unread |-> <<>>, since |-> {}]
  /\ UNCHANGED <<row, refs>>

Under(op) == call # NoCall /\ call.op = op

(* One count: in use, and the delete is refused.                            *)
CountReferences ==
  /\ Under("delete") /\ call.unread # <<>>
  /\ call' = IF Head(call.unread) \in refs[call.item] THEN NoCall
             ELSE [call EXCEPT !.unread = Tail(@)]
  /\ UNCHANGED <<row, refs>>

(* The DELETE; whatever refers to the row loses it (ON DELETE SET NULL, and *)
(* CASCADE for what was learned).                                          *)
DeleteWrites ==
  /\ Under("delete") /\ call.unread = <<>>
  /\ row' = [row EXCEPT ![call.item] = NoRow]
  /\ refs' = [refs EXCEPT ![call.item] = {}]
  /\ call' = NoCall

(* The UPDATE of a category also clears its default gap.                    *)
ArchiveWrites ==
  /\ Under("archive")
  /\ row' = [row EXCEPT ![call.item].archived = TRUE, ![call.item].gap = FALSE]
  /\ call' = NoCall
  /\ UNCHANGED refs

CallFails == call # NoCall /\ call' = NoCall /\ UNCHANGED <<row, refs>>

(* A sync, a decision or an edit refers to an item, archived or not; or no  *)
(* longer does.                                                            *)
Assign(i, kind) ==
  /\ i \in Existing /\ kind \in Holders(i) \ refs[i]
  /\ refs' = [refs EXCEPT ![i] = @ \cup {kind}]
  /\ call' = IF call # NoCall /\ call.item = i THEN [call EXCEPT !.since = @ \cup {kind}] ELSE call
  /\ UNCHANGED row

Release(i, kind) ==
  /\ kind \in refs[i]
  /\ refs' = [refs EXCEPT ![i] = @ \ {kind}]
  /\ UNCHANGED <<row, call>>

CategoryCalls ==
  \E c \in Categories, key \in Keys, gap \in BOOLEAN :
    CreateCategory(c, key, gap) \/ UpdateCategory(c, key, gap)

ProjectCalls == \E p \in Projects, key \in Keys : CreateProject(p, key) \/ UpdateProject(p, key)

Next ==
  \/ CategoryCalls \/ ProjectCalls
  \/ \E i \in Items :
       \/ DeleteBegins(i) \/ ArchiveBegins(i)
       \/ \E kind \in Kinds : Assign(i, kind) \/ Release(i, kind)
  \/ CountReferences \/ DeleteWrites \/ ArchiveWrites \/ CallFails

Spec == Init /\ [][Next]_vars
-----------------------------------------------------------------------------
TypeOK ==
  /\ row \in [Items -> Rows \cup {NoRow}]
  /\ refs \in [Items -> SUBSET Kinds]
  /\ call \in Calls \cup {NoCall}

(* "Exactly one default-gap category is required" (category.go:131): once a *)
(* category is the default gap exactly one is, through every create,        *)
(* update, delete and archive, refused, failed or whole; until an update    *)
(* makes an archived category the default, which the code lets it do and    *)
(* which leaves none.  The flag, once set, is always on exactly one.        *)
DefaultGapStays ==
  [][/\ DefaultGap # {} => \/ Cardinality(DefaultGap') = 1
                           \/ \E i \in Flagged' \ Flagged : row[i] # NoRow /\ row[i].archived
     /\ Flagged # {} => Cardinality(Flagged') = 1]_vars

(* A delete strips nothing of its category or project but what was given    *)
(* it while the delete was counting.                                        *)
DeleteStripsNothing == [][\A i \in Existing \ Existing' : refs[i] \subseteq call.since]_vars
=============================================================================
