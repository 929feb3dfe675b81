----------------------------- MODULE SettingsProofs -----------------------------
(***************************************************************************)
(* What the settings keep, for every catalog, calendar, week, set of        *)
(* templates and days: the default gap and what a delete has counted, the   *)
(* timetable under the schedule versions, templates that render, periods    *)
(* that are apart, and reports of a period that agree.  Each part has its   *)
(* inductive invariant, and the last section joins them for the composed    *)
(* specification.                                                          *)
(***************************************************************************)
EXTENDS Settings, FiniteSetTheorems, SequenceTheorems, TLAPS

(* What is known of intervals, dates and sums over finite sets.            *)
Entries == INSTANCE TimeEntriesProofs

(***************************************************************************)
(* The catalog of categories and projects.                                 *)
(***************************************************************************)

OneFlagged == \A i, j \in Flagged : i = j

(* What a delete or an archive has checked still holds when it writes.      *)
CheckedStillHolds == call # NoCall => call.item \in Existing /\ ~row[call.item].gap

Unread == {call.unread[n] : n \in DOMAIN call.unread}

(* What refers to an item about to be deleted is still to be counted, or    *)
(* came after the delete began.                                            *)
Accounted == Under("delete") => refs[call.item] \subseteq Unread \cup call.since

HoldersOnly == \A i \in Items : refs[i] \subseteq Holders(i)

CatalogInv ==
  CatalogAssumption /\ TypeOK /\ OneFlagged /\ CheckedStillHolds /\ HoldersOnly /\ Accounted

-----------------------------------------------------------------------------
LEMMA RowIsRow == ASSUME CatalogInv, NEW i \in Existing PROVE row[i] \in Rows /\ i \in Items
  BY DEF CatalogInv, TypeOK, Existing

LEMMA InitCatalog == ASSUME CatalogAssumption, Init PROVE CatalogInv
  BY DEF Init, CatalogInv, TypeOK, OneFlagged, Flagged, Existing, CheckedStillHolds, HoldersOnly,
         Accounted, Under, Kinds, CatalogAssumption

LEMMA CreateCatalog ==
  ASSUME CatalogInv, NEW c \in Categories, NEW key \in Keys, NEW gap \in BOOLEAN,
         CreateCategory(c, key, gap)
  PROVE  CatalogInv' /\ (Flagged' = Flagged \/ Flagged' = {c})
<1>1. row' = Created(c, key, gap) /\ c \in Items /\ row[c] = NoRow /\ call = NoCall /\ UNCHANGED <<refs, call>>
  BY DEF CreateCategory, Items, Existing
<1> DEFINE cleared ==
      [i \in Items |-> IF gap /\ i \in Flagged THEN [row[i] EXCEPT !.gap = FALSE] ELSE row[i]]
    new == [key |-> key, gap |-> gap, archived |-> FALSE]
<1>2. \A i \in Flagged : [row[i] EXCEPT !.gap = FALSE] \in Rows
  BY RowIsRow DEF Flagged, Rows
<1>3. cleared \in [Items -> Rows \cup {NoRow}] /\ new \in Rows
  BY <1>2 DEF CatalogInv, TypeOK, Rows
<1>4. NoRow \notin Rows
  BY DEF CatalogInv, CatalogAssumption
<1>5. CASE ~KeyFree(c, key)
  <2>1. row' = row
    BY <1>1, <1>5 DEF Created
  <2> QED BY <1>1, <2>1 DEF CatalogInv, CatalogAssumption, TypeOK, OneFlagged, Flagged, Existing,
             CheckedStillHolds, HoldersOnly, Accounted, Under, Unread
<1>6. CASE KeyFree(c, key)
  <2>1. row' = [cleared EXCEPT ![c] = new]
    BY <1>1, <1>6 DEF Created
  <2>2. TypeOK'
    BY <1>1, <1>3, <2>1 DEF CatalogInv, TypeOK
  <2>3. Flagged' = IF gap THEN {c} ELSE Flagged
    <3>1. row'[c] = new /\ \A i \in Items \ {c} : row'[i] = cleared[i]
      BY <1>1, <1>3, <2>1
    <3>2. ASSUME NEW i \in Items \ {c}
          PROVE  i \in Flagged' <=> (~gap /\ i \in Flagged)
      <4>1. CASE gap /\ i \in Flagged
        <5>1. row'[i] = [row[i] EXCEPT !.gap = FALSE]
          BY <3>1, <3>2, <4>1
        <5>2. ~row'[i].gap
          BY <5>1, <4>1, RowIsRow DEF Flagged, Rows
        <5> QED BY <4>1, <5>2 DEF Flagged
      <4>2. CASE ~(gap /\ i \in Flagged)
        BY <3>1, <3>2, <4>2 DEF Flagged, Existing
      <4> QED BY <4>1, <4>2
    <3>3. c \in Flagged' <=> gap
      BY <3>1, <1>1, <1>3, <1>4 DEF Flagged, Existing
    <3>4. Flagged \subseteq Items /\ Flagged' \subseteq Items /\ c \notin Flagged
      BY <1>1 DEF Flagged, Existing
    <3> QED BY <3>2, <3>3, <3>4
  <2> QED BY <1>1, <2>2, <2>3 DEF CatalogInv, CatalogAssumption, OneFlagged, CheckedStillHolds,
             HoldersOnly, Accounted, Under
<1> QED BY <1>5, <1>6

LEMMA UpdateCatalog ==
  ASSUME CatalogInv, NEW c \in Categories, NEW key \in Keys, NEW gap \in BOOLEAN,
         UpdateCategory(c, key, gap)
  PROVE  CatalogInv' /\ (Flagged' = Flagged \/ Flagged' = {c})
<1>1. /\ c \in Existing /\ c \in Items /\ call = NoCall /\ UNCHANGED <<refs, call>> /\ (gap \/ ~row[c].gap)
      /\ row' = [i \in Items |->
                   IF i = c THEN [row[c] EXCEPT !.key = key, !.gap = gap]
                   ELSE IF gap /\ i \in Flagged THEN [row[i] EXCEPT !.gap = FALSE] ELSE row[i]]
  BY DEF UpdateCategory, Items
<1>2. \A i \in Flagged : [row[i] EXCEPT !.gap = FALSE] \in Rows /\ ~[row[i] EXCEPT !.gap = FALSE].gap
  BY RowIsRow DEF Flagged, Rows
<1>3. /\ [row[c] EXCEPT !.key = key, !.gap = gap] \in Rows
      /\ [row[c] EXCEPT !.key = key, !.gap = gap].gap = gap
  BY <1>1, RowIsRow DEF Rows
<1>4. NoRow \notin Rows
  BY DEF CatalogInv, CatalogAssumption
<1>5. TypeOK'
  BY <1>1, <1>2, <1>3 DEF CatalogInv, TypeOK
<1>6. Flagged' = IF gap THEN {c} ELSE Flagged
  <2>1. ASSUME NEW i \in Items \ {c}
        PROVE  i \in Flagged' <=> (~gap /\ i \in Flagged)
    <3>1. CASE gap /\ i \in Flagged
      <4>1. row'[i] = [row[i] EXCEPT !.gap = FALSE]
        BY <1>1, <2>1, <3>1
      <4> QED BY <4>1, <1>2, <3>1 DEF Flagged
    <3>2. CASE ~(gap /\ i \in Flagged)
      BY <1>1, <2>1, <3>2 DEF Flagged, Existing
    <3> QED BY <3>1, <3>2
  <2>2. c \in Flagged' <=> gap
    BY <1>1, <1>3, <1>4 DEF Flagged, Existing
  <2>3. Flagged \subseteq Items /\ Flagged' \subseteq Items /\ (c \in Flagged => gap)
    BY <1>1 DEF Flagged, Existing
  <2> QED BY <2>1, <2>2, <2>3, <1>1
<1> QED BY <1>1, <1>5, <1>6 DEF CatalogInv, CatalogAssumption, OneFlagged, CheckedStillHolds,
           HoldersOnly, Accounted, Under

LEMMA ProjectsCatalog ==
  ASSUME CatalogInv, NEW p \in Projects, NEW key \in Keys,
         CreateProject(p, key) \/ UpdateProject(p, key)
  PROVE  CatalogInv' /\ Flagged' = Flagged
<1> DEFINE new == IF p \in Existing THEN [row[p] EXCEPT !.key = key]
                  ELSE [key |-> key, gap |-> FALSE, archived |-> FALSE]
<1>1. p \in Items /\ call = NoCall /\ UNCHANGED <<refs, call>> /\ row' = [row EXCEPT ![p] = new]
  BY DEF CreateProject, UpdateProject, Items
<1>2. new \in Rows /\ (new.gap <=> p \in Flagged)
  <2>1. CASE p \in Existing
    BY <2>1, RowIsRow DEF Rows, Flagged
  <2>2. CASE p \notin Existing
    BY <2>2 DEF Rows, Flagged
  <2> QED BY <2>1, <2>2
<1>3. NoRow \notin Rows
  BY DEF CatalogInv, CatalogAssumption
<1> HIDE DEF new
<1>4. TypeOK'
  BY <1>1, <1>2 DEF CatalogInv, TypeOK
<1>5. Flagged' = Flagged
  BY <1>1, <1>2, <1>3 DEF CatalogInv, TypeOK, Flagged, Existing
<1> QED BY <1>1, <1>4, <1>5 DEF CatalogInv, CatalogAssumption, OneFlagged, CheckedStillHolds,
           HoldersOnly, Accounted, Under

-----------------------------------------------------------------------------
(* Nothing refers to an item but what is counted before it is deleted.      *)
LEMMA AllCounted ==
  ASSUME NEW i \in Items
  PROVE  Counted(i) \in Seq(Kinds) /\ Holders(i) \subseteq {Counted(i)[n] : n \in DOMAIN Counted(i)}
<1>1. CASE i \in Categories
  <2>1. Counted(i) = <<"overlay", "memory", "calendar", "entry">> /\ Holders(i) = Kinds
    BY <1>1 DEF Counted, Holders
  <2> QED BY <2>1 DEF Kinds
<1>2. CASE i \notin Categories
  <2>1. Counted(i) = <<"entry">> /\ Holders(i) = {"entry"}
    BY <1>2 DEF Counted, Holders
  <2> QED BY <2>1 DEF Kinds
<1> QED BY <1>1, <1>2

LEMMA BeginCatalog ==
  ASSUME CatalogInv, NEW i \in Items, DeleteBegins(i) \/ ArchiveBegins(i)
  PROVE  CatalogInv' /\ Flagged' = Flagged
<1>1. i \in Existing /\ ~row[i].gap /\ UNCHANGED <<row, refs>>
  BY DEF DeleteBegins, ArchiveBegins
<1>2. \/ call' = [op |-> "delete", item |-> i, unread |-> Counted(i), since |-> {}]
      \/ call' = [op |-> "archive", item |-> i, unread |-> <<>>, since |-> {}]
  BY DEF DeleteBegins, ArchiveBegins
<1>3. TypeOK'
  <2>1. Counted(i) \in Seq(Kinds) /\ <<>> \in Seq(Kinds)
    BY AllCounted, EmptySeq
  <2>2. /\ [op |-> "delete", item |-> i, unread |-> Counted(i), since |-> {}] \in Calls
        /\ [op |-> "archive", item |-> i, unread |-> <<>>, since |-> {}] \in Calls
    <3>1. {} \in SUBSET Kinds
      OBVIOUS
    <3> QED BY <2>1, <3>1 DEF Calls
  <2> QED BY <1>1, <1>2, <2>2 DEF CatalogInv, TypeOK
<1>4. Accounted'
  BY <1>1, <1>2, AllCounted DEF CatalogInv, HoldersOnly, Accounted, Under, Unread
<1> QED BY <1>1, <1>2, <1>3, <1>4 DEF CatalogInv, CatalogAssumption, OneFlagged, Flagged, Existing,
           CheckedStillHolds, HoldersOnly

LEMMA CountCatalog == ASSUME CatalogInv, CountReferences PROVE CatalogInv' /\ Flagged' = Flagged
<1>1. Under("delete") /\ call.unread # <<>> /\ UNCHANGED <<row, refs>>
  BY DEF CountReferences
<1>2. call \in Calls /\ call.unread \in Seq(Kinds)
  BY <1>1 DEF CatalogInv, TypeOK, Under, Calls
<1>3. CASE Head(call.unread) \in refs[call.item]
  <2>1. call' = NoCall
    BY <1>3 DEF CountReferences
  <2> QED BY <1>1, <2>1 DEF CatalogInv, CatalogAssumption, TypeOK, OneFlagged, Flagged, Existing,
             CheckedStillHolds, HoldersOnly, Accounted, Under
<1>4. CASE Head(call.unread) \notin refs[call.item]
  <2>1. call' = [call EXCEPT !.unread = Tail(@)]
    BY <1>4 DEF CountReferences
  <2>2. /\ call' \in Calls /\ call'.item = call.item
        /\ call'.since = call.since /\ call'.unread = Tail(call.unread)
    <3>1. Tail(call.unread) \in Seq(Kinds)
      BY <1>1, <1>2, HeadTailProperties
    <3> QED BY <1>2, <2>1, <3>1 DEF Calls
  <2>3. ASSUME NEW kind \in Unread PROVE kind = Head(call.unread) \/ kind \in Unread'
    <3>1. PICK n \in 1 .. Len(call.unread) : kind = call.unread[n]
      BY <1>2, <2>3 DEF Unread
    <3>2. CASE n = 1
      BY <1>1, <1>2, <3>1, <3>2
    <3>3. CASE n # 1
      <4>1. n - 1 \in 1 .. Len(Tail(call.unread)) /\ Tail(call.unread)[n - 1] = call.unread[n]
        BY <1>1, <1>2, <3>3
      <4>2. n - 1 \in DOMAIN call'.unread /\ call'.unread[n - 1] = kind
        BY <1>1, <1>2, <2>2, <3>1, <4>1
      <4> QED BY <4>2 DEF Unread
    <3> QED BY <3>2, <3>3
  <2>4. Accounted'
    BY <1>1, <1>4, <2>2, <2>3 DEF CatalogInv, Accounted, Under
  <2> QED BY <1>1, <2>2, <2>4 DEF CatalogInv, CatalogAssumption, TypeOK, OneFlagged, Flagged,
             Existing, CheckedStillHolds, HoldersOnly, Under
<1> QED BY <1>3, <1>4

LEMMA DeleteCatalog == ASSUME CatalogInv, DeleteWrites PROVE CatalogInv' /\ Flagged' = Flagged
<1>1. /\ Under("delete") /\ call' = NoCall
      /\ row' = [row EXCEPT ![call.item] = NoRow] /\ refs' = [refs EXCEPT ![call.item] = {}]
  BY DEF DeleteWrites
<1>2. call.item \in Items /\ call.item \notin Flagged
  BY <1>1 DEF CatalogInv, TypeOK, CheckedStillHolds, Under, Calls, Flagged
<1>3. TypeOK' /\ HoldersOnly'
  BY <1>1, <1>2 DEF CatalogInv, TypeOK, HoldersOnly
<1>4. Flagged' = Flagged
  BY <1>1, <1>2 DEF CatalogInv, TypeOK, Flagged, Existing
<1> QED BY <1>1, <1>3, <1>4 DEF CatalogInv, CatalogAssumption, OneFlagged, CheckedStillHolds, Accounted,
                                Under

LEMMA ArchiveCatalog == ASSUME CatalogInv, ArchiveWrites PROVE CatalogInv' /\ Flagged' = Flagged
<1> DEFINE written == [row[call.item] EXCEPT !.archived = TRUE, !.gap = FALSE]
<1>1. call # NoCall /\ call' = NoCall /\ UNCHANGED refs
  BY DEF ArchiveWrites, Under
<1>2. call.item \in Items /\ call.item \in Existing /\ call.item \notin Flagged
  BY <1>1 DEF CatalogInv, TypeOK, CheckedStillHolds, Calls, Flagged
<1>3. written \in Rows /\ ~written.gap
  BY <1>2, RowIsRow DEF Rows
<1>4. row' = [row EXCEPT ![call.item] = written]
  BY <1>2 DEF ArchiveWrites, CatalogInv, TypeOK
<1> HIDE DEF written
<1>5. TypeOK'
  BY <1>1, <1>2, <1>3, <1>4 DEF CatalogInv, TypeOK
<1>6. Flagged' = Flagged
  BY <1>2, <1>3, <1>4 DEF CatalogInv, TypeOK, Flagged, Existing
<1> QED BY <1>1, <1>5, <1>6 DEF CatalogInv, CatalogAssumption, OneFlagged, CheckedStillHolds,
           HoldersOnly, Accounted, Under

LEMMA ReferCatalog ==
  ASSUME CatalogInv, NEW i \in Items, NEW kind \in Kinds, Assign(i, kind) \/ Release(i, kind)
  PROVE  CatalogInv' /\ Flagged' = Flagged
<1>1. CASE Assign(i, kind)
  <2>1. /\ row' = row /\ refs' = [refs EXCEPT ![i] = @ \cup {kind}] /\ kind \in Holders(i)
        /\ call' = IF call # NoCall /\ call.item = i THEN [call EXCEPT !.since = @ \cup {kind}] ELSE call
    BY <1>1 DEF Assign
  <2>2. HoldersOnly' /\ refs' \in [Items -> SUBSET Kinds]
    BY <2>1 DEF CatalogInv, TypeOK, HoldersOnly
  <2>3. CASE call # NoCall /\ call.item = i
    <3>1. /\ call' \in Calls /\ call'.op = call.op /\ call'.item = i /\ call'.unread = call.unread
          /\ call'.since = call.since \cup {kind}
      BY <2>1, <2>3 DEF CatalogInv, TypeOK, Calls
    <3> QED BY <2>1, <2>2, <2>3, <3>1 DEF CatalogInv, CatalogAssumption, TypeOK, OneFlagged, Flagged,
               Existing, CheckedStillHolds, Accounted, Under, Unread
  <2>4. CASE ~(call # NoCall /\ call.item = i)
    <3>1. call' = call /\ \A j \in Items \ {i} : refs'[j] = refs[j]
      BY <2>1, <2>4 DEF CatalogInv, TypeOK
    <3>2. call # NoCall => call.item \in Items \ {i}
      BY <2>4 DEF CatalogInv, TypeOK, Calls
    <3> QED BY <2>1, <2>2, <3>1, <3>2 DEF CatalogInv, CatalogAssumption, TypeOK, OneFlagged, Flagged,
               Existing, CheckedStillHolds, Accounted, Under, Unread
  <2> QED BY <2>3, <2>4
<1>2. CASE Release(i, kind)
  <2>1. row' = row /\ call' = call /\ refs' = [refs EXCEPT ![i] = @ \ {kind}]
    BY <1>2 DEF Release
  <2>2. TypeOK' /\ \A j \in Items : refs'[j] \subseteq refs[j]
    BY <2>1 DEF CatalogInv, TypeOK
  <2>3. call # NoCall => call.item \in Items
    BY DEF CatalogInv, TypeOK, Calls
  <2> QED BY <2>1, <2>2, <2>3 DEF CatalogInv, CatalogAssumption, OneFlagged, Flagged, Existing,
             CheckedStillHolds, HoldersOnly, Accounted, Under, Unread
<1> QED BY <1>1, <1>2

LEMMA OthersCatalog ==
  ASSUME CatalogInv, CallFails \/ UNCHANGED vars
  PROVE  CatalogInv' /\ Flagged' = Flagged
  BY DEF CallFails, vars, CatalogInv, CatalogAssumption, TypeOK, OneFlagged, Flagged, Existing,
         CheckedStillHolds, HoldersOnly, Accounted, Under, Unread

LEMMA NextCatalog ==
  ASSUME CatalogInv, [Next]_vars
  PROVE  CatalogInv' /\ (Flagged' = Flagged \/ \E c \in Categories : Flagged' = {c})
  BY CreateCatalog, UpdateCatalog, ProjectsCatalog, BeginCatalog, CountCatalog, DeleteCatalog,
     ArchiveCatalog, ReferCatalog, OthersCatalog
  DEF Next, CategoryCalls, ProjectCalls

(* Only an archived category becomes an archived default.                   *)
LEMMA FlaggedKeepsArchived ==
  ASSUME CatalogInv, [Next]_vars, NEW i \in Flagged', row'[i].archived
  PROVE  i \in Existing /\ row[i].archived
<1>1. i \in Items /\ row'[i] # NoRow /\ row'[i].gap
  BY DEF Flagged, Existing
<1>2. CASE row'[i] = row[i]
  BY <1>1, <1>2 DEF Existing
<1>3. row[i] # NoRow => row[i] \in Rows
  BY <1>1, RowIsRow DEF Existing
<1>4. ASSUME NEW c \in Categories, NEW key \in Keys, NEW gap \in BOOLEAN, CreateCategory(c, key, gap)
      PROVE  row'[i] = row[i]
  <2> DEFINE new == [key |-> key, gap |-> gap, archived |-> FALSE]
  <2>1. \/ row'[i] = row[i] \/ row'[i] = new
        \/ i \in Flagged /\ row'[i] = [row[i] EXCEPT !.gap = FALSE]
    BY <1>1, <1>4 DEF CreateCategory, Created, Items
  <2> QED BY <1>1, <1>3, <2>1 DEF Flagged, Existing, Rows
<1>5. ASSUME NEW c \in Categories, NEW key \in Keys, NEW gap \in BOOLEAN, UpdateCategory(c, key, gap)
      PROVE  i \in Existing /\ row[i].archived
  <2>1. CASE i = c
    <3>1. i \in Existing /\ row'[i] = [row[i] EXCEPT !.key = key, !.gap = gap]
      BY <1>1, <1>5, <2>1 DEF UpdateCategory
    <3> QED BY <1>3, <3>1 DEF Existing, Rows
  <2>2. CASE i # c
    <3>1. row'[i] = row[i] \/ (i \in Flagged /\ row'[i] = [row[i] EXCEPT !.gap = FALSE])
      BY <1>1, <1>5, <2>2 DEF UpdateCategory
    <3> QED BY <1>1, <1>2, <1>3, <3>1 DEF Flagged, Existing, Rows
  <2> QED BY <2>1, <2>2
<1>6. ASSUME NEW p \in Projects, NEW key \in Keys, CreateProject(p, key) \/ UpdateProject(p, key)
      PROVE  i \in Existing /\ row[i].archived
  <2>1. \/ row'[i] = row[i] \/ row'[i] = [key |-> key, gap |-> FALSE, archived |-> FALSE]
        \/ i \in Existing /\ row'[i] = [row[i] EXCEPT !.key = key]
    BY <1>1, <1>6 DEF CreateProject, UpdateProject, CatalogInv, TypeOK
  <2> QED BY <1>1, <1>2, <1>3, <2>1 DEF Existing, Rows
<1>7. CASE DeleteWrites
  BY <1>1, <1>2, <1>7 DEF DeleteWrites, CatalogInv, TypeOK
<1>8. CASE ArchiveWrites
  <2>1. call.item \in Existing
    BY <1>8 DEF ArchiveWrites, Under, CatalogInv, CheckedStillHolds
  <2>2. row' = [row EXCEPT ![call.item] = [row[call.item] EXCEPT !.archived = TRUE, !.gap = FALSE]]
    BY <1>8, <2>1 DEF ArchiveWrites, CatalogInv, TypeOK, Existing
  <2>3. ~[row[call.item] EXCEPT !.archived = TRUE, !.gap = FALSE].gap
    BY <2>1, RowIsRow DEF Rows
  <2> QED BY <1>1, <1>2, <2>1, <2>2, <2>3 DEF CatalogInv, TypeOK, Existing
<1>9. CASE UNCHANGED row
  BY <1>2, <1>9
<1> QED BY <1>2, <1>4, <1>5, <1>6, <1>7, <1>8, <1>9
    DEF Next, CategoryCalls, ProjectCalls, DeleteBegins, ArchiveBegins, Assign, Release, CountReferences,
        CallFails, vars

LEMMA OnlyDeletesRemove ==
  ASSUME CatalogInv, Next, NEW i \in Existing \ Existing'
  PROVE  DeleteWrites /\ i = call.item
<1>1. i \in Items /\ row[i] \in Rows /\ row'[i] = NoRow /\ NoRow \notin Rows
  BY RowIsRow DEF Existing, CatalogInv, CatalogAssumption
<1>2. ASSUME NEW c \in Categories, NEW key \in Keys, NEW gap \in BOOLEAN, CreateCategory(c, key, gap)
      PROVE  FALSE
  <2>1. i # c
    BY <1>1, <1>2 DEF CreateCategory
  <2>2. row'[i] = row[i] \/ row'[i] = [row[i] EXCEPT !.gap = FALSE]
    BY <1>1, <1>2, <2>1 DEF CreateCategory, Created
  <2> QED BY <1>1, <2>2 DEF Rows
<1>3. ASSUME NEW c \in Categories, NEW key \in Keys, NEW gap \in BOOLEAN, UpdateCategory(c, key, gap)
      PROVE  FALSE
  <2>1. \/ row'[i] = row[i] \/ row'[i] = [row[i] EXCEPT !.gap = FALSE]
        \/ row'[i] = [row[i] EXCEPT !.key = key, !.gap = gap]
    BY <1>1, <1>3 DEF UpdateCategory
  <2> QED BY <1>1, <2>1 DEF Rows
<1>4. ASSUME NEW p \in Projects, NEW key \in Keys, CreateProject(p, key) \/ UpdateProject(p, key)
      PROVE  FALSE
  <2>1. \/ row'[i] = row[i] \/ row'[i] = [key |-> key, gap |-> FALSE, archived |-> FALSE]
        \/ row'[i] = [row[i] EXCEPT !.key = key]
    BY <1>1, <1>4 DEF CreateProject, UpdateProject, CatalogInv, TypeOK
  <2>2. [row[i] EXCEPT !.key = key] \in Rows
    BY <1>1 DEF Rows
  <2>3. [key |-> key, gap |-> FALSE, archived |-> FALSE] \in Rows
    BY DEF Rows
  <2> QED BY <1>1, <2>1, <2>2, <2>3
<1>5. ASSUME ArchiveWrites PROVE FALSE
  <2>1. row'[i] = row[i] \/ row'[i] = [row[i] EXCEPT !.archived = TRUE, !.gap = FALSE]
    BY <1>1, <1>5 DEF ArchiveWrites, CatalogInv, TypeOK
  <2>2. [row[i] EXCEPT !.archived = TRUE, !.gap = FALSE] \in Rows
    BY <1>1 DEF Rows
  <2> QED BY <1>1, <2>1, <2>2
<1>6. DeleteWrites
  BY <1>1, <1>2, <1>3, <1>4, <1>5
  DEF Next, CategoryCalls, ProjectCalls, DeleteBegins, ArchiveBegins, CountReferences, CallFails, Assign,
      Release
<1>7. i = call.item
  BY <1>1, <1>6 DEF DeleteWrites, CatalogInv, TypeOK
<1> QED BY <1>6, <1>7

-----------------------------------------------------------------------------
(***************************************************************************)
(* The work schedule.                                                      *)
(***************************************************************************)

Versions == [from : Work!Dates, to : Work!Dates \cup {Work!Open}, week : [Work!Weekdays -> Work!ValidDays]]

ScheduleInv ==
  /\ Work!ScheduleAssumption
  /\ versions \subseteq Versions /\ Work!Disjoint(versions)
  /\ \A v \in versions : v.from < v.to
  /\ exception \in [Work!Dates -> [kind : Work!Kinds, day : Work!ValidDays] \cup {NoException}]

-----------------------------------------------------------------------------
(* The plan of a date is that of any version in force then.                 *)
LEMMA OneInForce ==
  ASSUME ScheduleInv, NEW d \in Work!Dates, NEW v \in Work!InForce(d)
  PROVE  Work!InForce(d) = {v} /\ Work!PlanFor(d) = v.week[d % WeekLength]
<1>1. ASSUME NEW u \in Work!InForce(d), u # v PROVE FALSE
  <2>1. u \in versions /\ v \in versions /\ u.from <= d /\ d < u.to /\ v.from <= d /\ d < v.to
    BY <1>1 DEF Work!InForce
  <2>2. u.to <= v.from \/ v.to <= u.from
    BY <1>1, <2>1 DEF ScheduleInv, Work!Disjoint
  <2>3. {d, u.from, u.to, v.from, v.to} \subseteq Int
    BY <2>1 DEF ScheduleInv, Work!ScheduleAssumption, Versions, Work!Dates, Work!Open
  <2> QED BY <2>1, <2>2, <2>3
<1> QED BY <1>1 DEF Work!PlanFor

LEMMA InitSchedule == ASSUME Work!ScheduleAssumption, Work!Init PROVE ScheduleInv /\ Work!Kept!Init
<1>1. \A d \in Work!Dates : Work!InForce(d) = {} /\ Work!PlanFor(d) = NoPlan
  BY DEF Work!Init, Work!InForce, Work!PlanFor
<1>2. \A d \in Work!Dates : Work!ExpectedTimeForDate(d) = [minutes |-> 0, windows |-> {}]
  BY <1>1 DEF Work!ExpectedTimeForDate
<1> QED BY <1>1, <1>2 DEF Work!Init, ScheduleInv, Work!Disjoint, Work!Kept!Init, Work!Kept!Nothing

(* Versions end where the new one begins, and lose nothing before it.       *)
LEMMA ReplacedVersions ==
  ASSUME ScheduleInv, NEW days \in SUBSET Work!Weekdays, NEW from \in Work!Dates,
         NEW week \in [days -> DayPlans],
         Work!ReplaceActiveWorkSchedule(week, from)
  PROVE  /\ ScheduleInv' /\ week \in [Work!Weekdays -> Work!ValidDays]
         /\ \A d \in Work!Dates : Work!PlanFor(d)' = IF d >= from THEN week[d % WeekLength] ELSE Work!PlanFor(d)
<1> DEFINE created == [from |-> from, to |-> Work!Open, week |-> week]
<1>1. /\ versions' = {Work!Closed(v, from) : v \in versions} \cup {created}
      /\ \A v \in versions : v.to > from => v.from < from
      /\ Work!Disjoint(versions') /\ exception' = exception
  BY DEF Work!ReplaceActiveWorkSchedule
<1>2. week \in [Work!Weekdays -> Work!ValidDays]
  BY DEF Work!ReplaceActiveWorkSchedule, Work!ValidWeek, Work!ValidDays
<1>3. MaxDate \in Nat /\ from \in Work!Dates /\ Work!Open = MaxDate + 1 /\ Work!Dates = 0 .. MaxDate
  BY DEF ScheduleInv, Work!ScheduleAssumption, Work!Open, Work!Dates
<1>4. /\ created \in Versions /\ created.from = from /\ created.to = Work!Open /\ created.week = week
      /\ from < Work!Open
  BY <1>2, <1>3 DEF Versions
<1> HIDE DEF created
<1>5. ASSUME NEW v \in versions
      PROVE  /\ Work!Closed(v, from) \in Versions
             /\ Work!Closed(v, from).from = v.from /\ Work!Closed(v, from).week = v.week
             /\ Work!Closed(v, from).to = (IF v.to > from THEN from ELSE v.to)
             /\ v.from \in Int /\ v.to \in Int
             /\ Work!Closed(v, from).from < Work!Closed(v, from).to
  <2>1. v \in Versions /\ v.from < v.to
    BY DEF ScheduleInv
  <2>2. v.from \in Int /\ v.to \in Int
    BY <1>3, <2>1 DEF Versions
  <2>3. CASE v.to > from
    <3>1. Work!Closed(v, from) = [v EXCEPT !.to = from] /\ v.from < from
      BY <1>1, <2>3 DEF Work!Closed
    <3> QED BY <1>3, <2>1, <2>2, <2>3, <3>1 DEF Versions
  <2>4. CASE ~(v.to > from)
    <3>1. Work!Closed(v, from) = v
      BY <2>4 DEF Work!Closed
    <3> QED BY <2>1, <2>2, <2>4, <3>1
  <2> QED BY <2>3, <2>4
<1>6. ScheduleInv'
  <2>1. \A v \in versions' : v \in Versions /\ v.from < v.to
    BY <1>1, <1>4, <1>5
  <2> QED BY <1>1, <2>1 DEF ScheduleInv, Work!ScheduleAssumption
<1>7. ASSUME NEW d \in Work!Dates, d >= from PROVE Work!PlanFor(d)' = week[d % WeekLength]
  <2>1. created \in Work!InForce(d)'
    BY <1>1, <1>3, <1>4, <1>7 DEF Work!InForce
  <2>2. \A x \in Work!InForce(d)' : x = created
    <3>1. ASSUME NEW x \in Work!InForce(d)', x # created PROVE FALSE
      <4>1. x \in versions' /\ x.from <= d /\ d < x.to /\ (x.to <= from \/ Work!Open <= x.from)
        BY <1>1, <1>4, <2>1, <3>1 DEF Work!InForce, Work!Disjoint
      <4>2. x.from \in Int /\ x.to \in Int
        BY <1>3, <1>6, <4>1 DEF ScheduleInv, Versions
      <4> QED BY <1>3, <1>7, <4>1, <4>2
    <3> QED BY <3>1
  <2> QED BY <1>4, <2>1, <2>2 DEF Work!PlanFor
<1>8. ASSUME NEW d \in Work!Dates, d < from PROVE Work!PlanFor(d)' = Work!PlanFor(d)
  <2>1. ASSUME NEW v \in Work!InForce(d)
        PROVE  Work!Closed(v, from) \in Work!InForce(d)'
    BY <1>1, <1>3, <1>5, <1>8, <2>1 DEF Work!InForce
  <2>2. ASSUME NEW x \in Work!InForce(d)'
        PROVE  \E v \in Work!InForce(d) : x = Work!Closed(v, from)
    <3>1. x \in versions' /\ x.from <= d /\ d < x.to
      BY <2>2 DEF Work!InForce
    <3>2. x # created
      BY <1>3, <1>4, <1>8, <3>1
    <3>3. PICK v \in versions : x = Work!Closed(v, from)
      BY <1>1, <3>1, <3>2
    <3>4. v.from <= d /\ d < v.to
      BY <1>3, <1>5, <1>8, <3>1, <3>3
    <3> QED BY <3>3, <3>4 DEF Work!InForce
  <2>3. CASE Work!InForce(d) = {}
    <3>1. Work!InForce(d)' = {}
      BY <2>2, <2>3
    <3> QED BY <2>3, <3>1 DEF Work!PlanFor
  <2>4. CASE Work!InForce(d) # {}
    <3>1. PICK v : v \in Work!InForce(d)
      BY <2>4
    <3>2. Work!InForce(d) = {v} /\ Work!PlanFor(d) = v.week[d % WeekLength]
      BY <3>1, OneInForce
    <3>3. Work!InForce(d)' = {Work!Closed(v, from)}
      BY <2>1, <2>2, <3>2
    <3>4. Work!PlanFor(d)' = Work!Closed(v, from).week[d % WeekLength]
      BY <3>3 DEF Work!PlanFor
    <3>5. v \in versions
      BY <3>1 DEF Work!InForce
    <3> QED BY <1>5, <3>2, <3>4, <3>5
  <2> QED BY <2>3, <2>4
<1> QED BY <1>2, <1>3, <1>6, <1>7, <1>8

-----------------------------------------------------------------------------
(* What is expected is what the timetable answers.                          *)
LEMMA ExpectedAnswers ==
  /\ [d \in Work!Dates |-> Work!ExpectedTimeForDate(d)] =
       Work!Kept!Answers([d \in Work!Dates |-> Work!PlanFor(d)], exception)
  /\ [d \in Work!Dates |-> Work!ExpectedTimeForDate(d)]' =
       Work!Kept!Answers([d \in Work!Dates |-> Work!PlanFor(d)'], exception')
  BY DEF Work!ExpectedTimeForDate, Work!Kept!Answers, Work!Kept!Nothing

LEMMA ReplaceKeeps ==
  ASSUME ScheduleInv, NEW days \in SUBSET Work!Weekdays, NEW from \in Work!Dates,
         NEW week \in [days -> DayPlans],
         Work!ReplaceActiveWorkSchedule(week, from)
  PROVE  ScheduleInv' /\ [Work!Kept!Next]_(Work!Kept!timetable)
<1>1. ScheduleInv' /\ week \in [Work!Weekdays -> Work!ValidDays] /\ exception' = exception
  BY ReplacedVersions DEF Work!ReplaceActiveWorkSchedule
<1>2. \A d \in Work!Dates : Work!PlanFor(d)' = IF d >= from THEN week[d % WeekLength] ELSE Work!PlanFor(d)
  BY ReplacedVersions
<1>3. Work!Kept!Adopt(week, from)
  BY <1>1, <1>2 DEF Work!Kept!Adopt
<1> QED BY <1>1, <1>3, ExpectedAnswers DEF Work!Kept!Next, Work!Kept!timetable

LEMMA ExceptionKeeps ==
  ASSUME ScheduleInv, NEW d \in Work!Dates,
         \/ \E kind \in Work!Kinds, day \in DayPlans : Work!UpsertScheduleException(d, kind, day)
         \/ Work!DeleteScheduleException(d)
  PROVE  ScheduleInv' /\ [Work!Kept!Next]_(Work!Kept!timetable)
<1>1. PICK to \in [kind : Work!Kinds, day : Work!ValidDays] \cup {NoException} :
        exception' = [exception EXCEPT ![d] = to] /\ versions' = versions
  BY DEF Work!UpsertScheduleException, Work!DeleteScheduleException, Work!ValidDays
<1>2. ScheduleInv'
  BY <1>1 DEF ScheduleInv, Work!ScheduleAssumption
<1>3. \A e \in Work!Dates : Work!PlanFor(e)' = Work!PlanFor(e)
  BY <1>1 DEF Work!PlanFor, Work!InForce
<1>4. Work!Kept!Except(d, to)
  BY <1>1, <1>3 DEF Work!Kept!Except
<1> QED BY <1>1, <1>2, <1>4, ExpectedAnswers DEF Work!Kept!Next, Work!Kept!timetable

LEMMA StutterKeeps ==
  ASSUME ScheduleInv, UNCHANGED Work!vars
  PROVE  ScheduleInv' /\ UNCHANGED Work!Kept!timetable
  BY DEF Work!vars, ScheduleInv, Work!ScheduleAssumption, Work!Kept!timetable, Work!PlanFor, Work!InForce,
         Work!ExpectedTimeForDate

-----------------------------------------------------------------------------
(***************************************************************************)
(* The export templates.                                                   *)
(***************************************************************************)

(* A body is a tabular spec. *)
Formed(body) ==
  body = Layouts!Tabular(body.grain, body.layout, body.delimiter, body.columns)

(* What is stored for a tabular format: a valid spec, delimited as the      *)
(* format says.                                                             *)
StoredSpec(body, format) ==
  /\ Formed(body) /\ Layouts!ValidTabularSpec(body)
  /\ body.delimiter = IF format = "tsv" THEN "tab" ELSE "comma"

(* A row as the migrations or an edit leave it.                             *)
SoundRow(k, t) ==
  \/ t.format = "text" /\ (t.body \in {Layouts!Prose, Layouts!Misused} \/ Formed(t.body))
  \/ t.format = "text" /\ t.body = Layouts!Blank /\ k = TextSummary
  \/ t.format \in {"csv", "tsv"} /\ StoredSpec(t.body, t.format)
  \/ t.format = "csv" /\ t.body = Layouts!Blank /\ k \in Layouts!TabularBuiltins

TemplatesInv ==
  /\ DOMAIN table = TemplateKeys
  /\ \A k \in Layouts!Existing : SoundRow(k, table[k])

LEMMA FormedIsNone ==
  /\ Layouts!Blank # Layouts!Prose /\ Layouts!Blank # Layouts!Torn /\ Layouts!Prose # Layouts!Torn
  /\ Layouts!Misused \notin {Layouts!Blank, Layouts!Prose, Layouts!Torn}
  /\ Layouts!Fails \notin {Layouts!Blank, Layouts!Prose, Layouts!Torn, Layouts!Misused}
  /\ \A b : Formed(b) => b # Layouts!Fails /\ Layouts!IsSpec(b)
<1>1. Layouts!Blank.grain = "blank" /\ Layouts!Prose.grain = "prose" /\ Layouts!Torn.grain = "torn"
      /\ Layouts!Misused.grain = "misused" /\ Layouts!Fails.grain = "fails"
  BY DEF Layouts!Blank, Layouts!Prose, Layouts!Torn, Layouts!Misused, Layouts!Fails
<1>2. \A b : Formed(b) => "layout" \in DOMAIN b
  <2>1. \A g, l, d, c : "layout" \in DOMAIN Layouts!Tabular(g, l, d, c)
    BY DEF Layouts!Tabular
  <2> QED BY <2>1 DEF Formed
<1>3. \A b \in {Layouts!Blank, Layouts!Prose, Layouts!Torn, Layouts!Misused, Layouts!Fails} :
        "layout" \notin DOMAIN b
  BY DEF Layouts!Blank, Layouts!Prose, Layouts!Torn, Layouts!Misused, Layouts!Fails
<1> QED
  BY <1>1, <1>2, <1>3 DEF Layouts!IsSpec

(* The columns a spec has by default are named once, and in the catalog.    *)
LEMMA DefaultColumns ==
  ASSUME NEW grain \in {"rollup", "detail"}, NEW layout \in {"matrix", "flat"},
         grain = "detail" => layout = "flat"
  PROVE  LET columns == Layouts!DefaultTabularSpec(grain, layout).columns
         IN  /\ columns # <<>>
             /\ \A i \in DOMAIN columns : columns[i] \in Layouts!FieldCatalog(grain, layout)
             /\ \A i, j \in DOMAIN columns : columns[i] = columns[j] => i = j
             /\ layout = "matrix" => 1 \in DOMAIN columns /\ columns[1] = "category_name"
<1>1. CASE grain = "detail"
  BY <1>1 DEF Layouts!DefaultTabularSpec, Layouts!FieldCatalog, Layouts!Tabular
<1>2. CASE grain = "rollup" /\ layout = "matrix"
  BY <1>2 DEF Layouts!DefaultTabularSpec, Layouts!FieldCatalog, Layouts!Tabular
<1>3. CASE grain = "rollup" /\ layout = "flat"
  BY <1>3 DEF Layouts!DefaultTabularSpec, Layouts!FieldCatalog, Layouts!Tabular
<1> QED BY <1>1, <1>2, <1>3
LEMMA BuiltinStored ==
  ASSUME NEW k \in Layouts!TabularBuiltins
  PROVE  StoredSpec(Layouts!BuiltinTabularSpec(k), "csv")
<1> DEFINE grain == IF k = DetailEntries THEN "detail" ELSE "rollup"
           layout == IF k = Matrix THEN "matrix" ELSE "flat"
           spec == Layouts!DefaultTabularSpec(grain, layout)
<1>1. grain \in {"rollup", "detail"} /\ layout \in {"matrix", "flat"} /\ (grain = "detail" => layout = "flat")
  BY SettingsAssumption DEF Layouts!TemplatesAssumption
<1>2. Layouts!BuiltinTabularSpec(k) = spec
  BY DEF Layouts!BuiltinTabularSpec
<1> HIDE DEF grain, layout
<1>3. /\ spec = Layouts!Tabular(grain, layout, "comma", spec.columns)
      /\ spec.grain = grain /\ spec.layout = layout /\ spec.delimiter = "comma"
  BY DEF Layouts!DefaultTabularSpec, Layouts!Tabular
<1>4. /\ spec.columns # <<>>
      /\ \A i \in DOMAIN spec.columns : spec.columns[i] \in Layouts!FieldCatalog(grain, layout)
      /\ \A i, j \in DOMAIN spec.columns : spec.columns[i] = spec.columns[j] => i = j
      /\ layout = "matrix" => 1 \in DOMAIN spec.columns /\ spec.columns[1] = "category_name"
  BY <1>1, DefaultColumns
<1> HIDE DEF spec
<1>5. Layouts!ValidTabularSpec(spec)
  BY <1>1, <1>3, <1>4 DEF Layouts!ValidTabularSpec, Layouts!ValidGrainLayout, Layouts!ToSet,
                          Layouts!IsInjective
<1>6. Formed(spec)
  BY <1>3 DEF Formed
<1> QED
  BY <1>2, <1>3, <1>5, <1>6 DEF StoredSpec

(* Whatever valid spec is sent, what is stored is valid and delimited as    *)
(* the format says; and a stored spec stays as it is.                       *)
LEMMA DelimitedAsFormat ==
  ASSUME NEW body, Formed(body), Layouts!ValidTabularSpec(body), NEW format \in {"csv", "tsv"}
  PROVE  StoredSpec(Layouts!Stored(body, format), format)
<1> DEFINE stored == Layouts!Stored(body, format)
<1>1. body.delimiter \in {"", "comma", "tab"}
  BY DEF Layouts!ValidTabularSpec
<1>2. /\ stored = Layouts!Tabular(body.grain, body.layout, stored.delimiter, body.columns)
      /\ stored.delimiter = IF format = "tsv" THEN "tab" ELSE "comma"
      /\ stored.grain = body.grain /\ stored.layout = body.layout /\ stored.columns = body.columns
  BY <1>1 DEF Formed, Layouts!Tabular, Layouts!Stored, Layouts!Delimited, Layouts!Normalized
<1> HIDE DEF stored
<1>3. Layouts!ValidTabularSpec(stored)
  BY <1>2 DEF Layouts!ValidTabularSpec, Layouts!ValidGrainLayout
<1> QED
  BY <1>2, <1>3 DEF StoredSpec, Formed, stored

LEMMA StoredStays ==
  ASSUME NEW body, NEW format \in {"csv", "tsv"}, StoredSpec(body, format)
  PROVE  /\ Layouts!Parses(body) /\ Layouts!Normalized(body) = body
         /\ Layouts!Stored(body, format) = body /\ Layouts!Delimited(body, format) = body
BY FormedIsNone DEF StoredSpec, Formed, Layouts!Tabular, Layouts!Parses, Layouts!Normalized, Layouts!Stored,
   Layouts!Delimited

(* A row written with a body that was accepted. *)
LEMMA AcceptedIsSound ==
  ASSUME NEW body, Formed(body) \/ ~Layouts!IsSpec(body), NEW format \in {"csv", "tsv", "text"},
         Layouts!ValidBody(body, format), NEW k
  PROVE  SoundRow(k, Layouts!Row(FALSE, format, Layouts!Stored(body, format)))
<1> DEFINE t == Layouts!Row(FALSE, format, Layouts!Stored(body, format))
<1>1. t.format = format /\ t.body = Layouts!Stored(body, format)
  BY DEF Layouts!Row
<1> HIDE DEF t
<1>2. CASE format = "text"
  <2>1. t.body = body /\ body \notin {Layouts!Blank, Layouts!Torn}
    BY <1>1, <1>2 DEF Layouts!ValidBody, Layouts!Stored
  <2> QED BY <1>1, <1>2, <2>1 DEF SoundRow, Layouts!IsSpec, t
<1>3. CASE format # "text"
  <2>1. Formed(body) /\ Layouts!ValidTabularSpec(body)
    BY <1>3 DEF Layouts!ValidBody, Layouts!Parses
  <2>2. StoredSpec(t.body, format)
    BY <1>1, <1>3, <2>1, DelimitedAsFormat
  <2> QED BY <1>1, <1>3, <2>2 DEF SoundRow, t
<1> QED
  BY <1>2, <1>3

(* What a copy starts from is a body. *)
LEMMA CopiedBody ==
  ASSUME TemplatesInv, NEW k \in Layouts!Existing
  PROVE  /\ Formed(Layouts!BodyToCopy(k)) \/ ~Layouts!IsSpec(Layouts!BodyToCopy(k))
         /\ table[k].format \in {"csv", "tsv", "text"}
<1>1. SoundRow(k, table[k])
  BY DEF TemplatesInv
<1>2. k \in Layouts!TabularBuiltins => Formed(Layouts!BuiltinTabularSpec(k))
  BY BuiltinStored DEF StoredSpec
<1>3. ~Layouts!IsSpec(Layouts!Blank) /\ ~Layouts!IsSpec(Layouts!Prose) /\ ~Layouts!IsSpec(Layouts!Misused)
  BY DEF Layouts!IsSpec
<1> QED
  BY <1>1, <1>2, <1>3, FormedIsNone DEF SoundRow, StoredSpec, Layouts!BodyToCopy

-----------------------------------------------------------------------------
LEMMA InitTemplates == ASSUME Layouts!Init PROVE TemplatesInv
<1>1. PICK old \in SUBSET Layouts!Builtins :
        table = [k \in TemplateKeys |->
          IF k \in Layouts!TabularBuiltins
          THEN Layouts!Row(TRUE, "csv", IF k \in old THEN Layouts!Blank ELSE Layouts!BuiltinTabularSpec(k))
          ELSE IF k = TextSummary
          THEN Layouts!Row(TRUE, "text", IF k \in old THEN Layouts!Blank ELSE Layouts!Prose)
          ELSE NoTemplate]
  BY DEF Layouts!Init
<1>2. ASSUME NEW k \in Layouts!Existing PROVE SoundRow(k, table[k])
  <2>1. k \in TemplateKeys /\ table[k] # NoTemplate
    BY DEF Layouts!Existing
  <2>2. CASE k \in Layouts!TabularBuiltins
    <3>1. /\ table[k].format = "csv"
          /\ table[k].body = Layouts!Blank \/ table[k].body = Layouts!BuiltinTabularSpec(k)
      BY <1>1, <2>1, <2>2 DEF Layouts!Row
    <3> QED BY <2>2, <3>1, BuiltinStored DEF SoundRow
  <2>3. CASE k \notin Layouts!TabularBuiltins
    <3>1. /\ k = TextSummary /\ table[k].format = "text"
          /\ table[k].body = Layouts!Blank \/ table[k].body = Layouts!Prose
      BY <1>1, <2>1, <2>3 DEF Layouts!Row
    <3> QED BY <3>1 DEF SoundRow
  <2> QED BY <2>2, <2>3
<1> QED BY <1>1, <1>2 DEF TemplatesInv

LEMMA SetRow ==
  ASSUME TemplatesInv, NEW k, NEW t, SoundRow(k, t) \/ t = NoTemplate, table' = [table EXCEPT ![k] = t]
  PROVE  TemplatesInv'
<1>1. DOMAIN table' = TemplateKeys
  BY DEF TemplatesInv
<1>2. ASSUME NEW x \in TemplateKeys, table'[x] # NoTemplate PROVE SoundRow(x, table'[x])
  BY <1>2 DEF TemplatesInv, Layouts!Existing
<1> QED BY <1>1, <1>2 DEF TemplatesInv, Layouts!Existing, SoundRow

LEMMA BodyOf ==
  ASSUME NEW body \in Bodies
  PROVE  Formed(body) \/ ~Layouts!IsSpec(body)
BY SettingsAssumption DEF Formed, Layouts!TemplatesAssumption

LEMMA TemplatesStepKeeps ==
  ASSUME TemplatesInv, Layouts!Next
  PROVE  TemplatesInv'
<1>1. PICK key \in TemplateKeys :
        \/ \E format \in {"csv", "tsv", "text"}, body \in Bodies :
             Layouts!CreateExportTemplate(key, format, body) \/ Layouts!UpdateExportTemplate(key, format, body)
        \/ Layouts!DeleteExportTemplate(key) \/ Layouts!DuplicateExportTemplate(key)
  BY DEF Layouts!Next
<1>2. ASSUME NEW format \in {"csv", "tsv", "text"}, NEW body \in Bodies,
             Layouts!CreateExportTemplate(key, format, body) \/ Layouts!UpdateExportTemplate(key, format, body)
      PROVE  TemplatesInv'
  <2>1. /\ Layouts!ValidBody(body, format)
        /\ \E k : table' = [table EXCEPT ![k] = Layouts!Row(FALSE, format, Layouts!Stored(body, format))]
    BY <1>2 DEF Layouts!CreateExportTemplate, Layouts!UpdateExportTemplate
  <2> QED BY <2>1, AcceptedIsSound, BodyOf, SetRow
<1>3. CASE Layouts!DeleteExportTemplate(key)
  BY <1>3, SetRow DEF Layouts!DeleteExportTemplate
<1>4. CASE Layouts!DuplicateExportTemplate(key)
  <2> DEFINE body == Layouts!BodyToCopy(key)
             format == table[key].format
  <2>1. /\ Layouts!ValidBody(body, format) /\ key \in Layouts!Existing
        /\ \E k : table' = [table EXCEPT ![k] = Layouts!Row(FALSE, format, Layouts!Stored(body, format))]
    BY <1>4 DEF Layouts!DuplicateExportTemplate
  <2>2. (Formed(body) \/ ~Layouts!IsSpec(body)) /\ format \in {"csv", "tsv", "text"}
    BY <2>1, CopiedBody
  <2> HIDE DEF body, format
  <2> QED BY <2>1, <2>2, AcceptedIsSound, SetRow
<1> QED BY <1>1, <1>2, <1>3, <1>4

(* A sound row renders, delimited as its format says, unless it is a text   *)
(* whose actions fail.                                                     *)
LEMMA SoundRenders ==
  ASSUME NEW k, NEW t, SoundRow(k, t)
  PROVE  /\ Layouts!Rendered(k, t) # Layouts!Fails \/ (t.format = "text" /\ t.body = Layouts!Misused)
         /\ t.format \in {"csv", "tsv"} =>
              Layouts!Rendered(k, t).delimiter = IF t.format = "tsv" THEN "tab" ELSE "comma"
<1>1. CASE t.format = "text"
  BY <1>1, FormedIsNone DEF SoundRow, Layouts!Rendered, Layouts!IsSpec
<1>2. CASE t.format \in {"csv", "tsv"} /\ StoredSpec(t.body, t.format)
  <2>1. Layouts!Rendered(k, t) = t.body
    BY <1>2, StoredStays DEF Layouts!Rendered
  <2> QED BY <1>2, <2>1, FormedIsNone DEF StoredSpec
<1>3. CASE t.format = "csv" /\ t.body = Layouts!Blank /\ k \in Layouts!TabularBuiltins
  <2>1. Layouts!Rendered(k, t) = Layouts!Delimited(Layouts!BuiltinTabularSpec(k), "csv")
    BY <1>3 DEF Layouts!Rendered, Layouts!Parses, Layouts!IsSpec
  <2>2. StoredSpec(Layouts!BuiltinTabularSpec(k), "csv")
    BY <1>3, BuiltinStored
  <2>3. Layouts!Rendered(k, t) = Layouts!BuiltinTabularSpec(k)
    BY <2>1, <2>2, StoredStays
  <2> QED BY <1>3, <2>2, <2>3, FormedIsNone DEF StoredSpec
<1> QED BY <1>1, <1>2, <1>3 DEF SoundRow

LEMMA InvRenders == TemplatesInv => Layouts!Renderable
  BY SoundRenders DEF TemplatesInv, Layouts!Renderable

(* A copy is written with what its original renders with. *)
LEMMA CopyAlike ==
  ASSUME TemplatesInv, NEW k \in Layouts!Existing, Layouts!DuplicateExportTemplate(k),
         NEW n \in Layouts!Existing' \ Layouts!Existing
  PROVE  Layouts!Rendered(n, table'[n]) = Layouts!Rendered(k, table[k])
<1> DEFINE t == table[k]
           copy == Layouts!Row(FALSE, t.format, Layouts!Stored(Layouts!BodyToCopy(k), t.format))
<1>1. table'[n] = copy
  <2>1. PICK x : table' = [table EXCEPT ![x] = copy]
    BY DEF Layouts!DuplicateExportTemplate
  <2>2. n \in TemplateKeys /\ table'[n] # NoTemplate /\ table[n] = NoTemplate
    BY DEF Layouts!Existing
  <2> QED BY <2>1, <2>2 DEF TemplatesInv
<1>2. SoundRow(k, t) /\ Layouts!ValidBody(Layouts!BodyToCopy(k), t.format)
  BY DEF TemplatesInv, Layouts!DuplicateExportTemplate
<1>3. copy.format = t.format /\ copy.body = Layouts!Stored(Layouts!BodyToCopy(k), t.format)
  BY DEF Layouts!Row
<1> HIDE DEF t, copy
<1>4. CASE t.format = "text"
  <2>1. copy.body = Layouts!BodyToCopy(k) /\ copy.body \notin {Layouts!Blank, Layouts!Torn}
    BY <1>2, <1>3, <1>4 DEF Layouts!ValidBody, Layouts!Stored
  <2>2. Layouts!Rendered(n, copy) = IF copy.body = Layouts!Misused THEN Layouts!Fails ELSE copy.body
    BY <1>3, <1>4, <2>1 DEF Layouts!Rendered
  <2>3. t.body = Layouts!Blank => Layouts!BodyToCopy(k) = Layouts!Prose /\ k = TextSummary
    BY <1>2, <1>4, FormedIsNone DEF SoundRow, Layouts!BodyToCopy, t, Layouts!IsSpec
  <2>4. t.body # Layouts!Blank => Layouts!BodyToCopy(k) = t.body
    BY DEF Layouts!BodyToCopy, t
  <2>5. Layouts!Rendered(k, t) =
          IF Layouts!BodyToCopy(k) = Layouts!Misused THEN Layouts!Fails ELSE Layouts!BodyToCopy(k)
    BY <1>4, <2>1, <2>3, <2>4, FormedIsNone DEF Layouts!Rendered
  <2> QED BY <1>1, <2>1, <2>2, <2>5 DEF t
<1>5. CASE t.format \in {"csv", "tsv"}
  <2>1. StoredSpec(Layouts!BodyToCopy(k), t.format) /\ Layouts!Rendered(k, t) = Layouts!BodyToCopy(k)
    <3>1. CASE StoredSpec(t.body, t.format)
      <4>1. t.body # Layouts!Blank
        BY <3>1, FormedIsNone DEF StoredSpec, Layouts!IsSpec
      <4>2. Layouts!BodyToCopy(k) = t.body
        BY <4>1 DEF Layouts!BodyToCopy, t
      <4> QED BY <1>5, <3>1, <4>2, StoredStays DEF Layouts!Rendered
    <3>2. CASE t.format = "csv" /\ t.body = Layouts!Blank /\ k \in Layouts!TabularBuiltins
      <4>1. Layouts!BodyToCopy(k) = Layouts!BuiltinTabularSpec(k)
        BY <3>2 DEF Layouts!BodyToCopy, t
      <4>2. Layouts!Rendered(k, t) = Layouts!Delimited(Layouts!BuiltinTabularSpec(k), "csv")
        BY <3>2 DEF Layouts!Rendered, Layouts!Parses, Layouts!IsSpec
      <4>3. StoredSpec(Layouts!BuiltinTabularSpec(k), "csv")
        BY <3>2, BuiltinStored
      <4> QED BY <3>2, <4>1, <4>2, <4>3, StoredStays
    <3> QED BY <1>2, <1>5, <3>1, <3>2 DEF SoundRow
  <2>2. copy.body = Layouts!BodyToCopy(k)
    BY <1>3, <1>5, <2>1, StoredStays
  <2>3. Layouts!Rendered(n, copy) = copy.body
    BY <1>3, <1>5, <2>1, <2>2, StoredStays DEF Layouts!Rendered
  <2> QED BY <1>1, <2>1, <2>2, <2>3 DEF t
<1> QED BY <1>2, <1>4, <1>5 DEF SoundRow

-----------------------------------------------------------------------------
(***************************************************************************)
(* The periods.                                                            *)
(***************************************************************************)

(* A range of the grid that a cadence lays over the days.                   *)
OnGrid(p, anchor, length) ==
  /\ \E k \in Int : p.start = anchor + length * k
  /\ p.end = p.start + length - 1

OnCadence(p) ==
  CASE p.cadence = "weekly" -> OnGrid(p, p.anchor, Week)
    [] p.cadence = "semi-monthly" ->
         \E d \in Days : p.start = Pay!HalfMonthRange(d).start /\ p.end = Pay!HalfMonthRange(d).end
    [] p.cadence = "monthly" ->
         \E d \in Days : p.start = Pay!MonthRange(d).start /\ p.end = Pay!MonthRange(d).end
    [] OTHER -> OnGrid(p, p.anchor, 2 * Week)

IsRow(p) ==
  /\ p = [start |-> p.start, end |-> p.end, cadence |-> p.cadence, anchor |-> p.anchor]
  /\ p.start \in Int /\ p.end \in Int /\ p.anchor \in Int
  /\ OnCadence(p)

Alike(p, q) == p.cadence = q.cadence /\ p.anchor = q.anchor

(* The first period decides: all have its cadence and its anchor.           *)
OfOneCadence == (\A p \in periods : IsRow(p)) /\ \A p, q \in periods : Alike(p, q)

(* There is a latest period.                                               *)
HasLatest == periods # {} => \E p \in periods : \A q \in periods : q.start <= p.start

CallIsOfToday == periodCall # NoCall => Pay!Contains(periodCall.period, periodCall.today)

PeriodsInv == Pay!PeriodsAssumption /\ OfOneCadence /\ HasLatest /\ CallIsOfToday /\ Pay!ReturnedIsUsable

-----------------------------------------------------------------------------
LEMMA DivisionAlgorithm ==
  ASSUME NEW b \in Nat, NEW n \in Nat \ {0}
  PROVE  \E k, r \in Int : r = b % n /\ b = n * k + r /\ 0 <= r /\ r < n
<1>1. b % n \in Int /\ b \div n \in Int
  BY SMT
<1>2. ASSUME NEW q \in Int, NEW r \in Int, q = b \div n, r = b % n
      PROVE  b = n * q + r /\ 0 <= r /\ r < n
  BY <1>2, SMT
<1> QED BY <1>1, <1>2, Zenon

LEMMA RemainderBounds ==
  ASSUME NEW a \in Int, NEW n \in Nat \ {0}
  PROVE  \E k, r \in Int : r = Pay!Remainder(a, n) /\ a = n * k + r /\ -n < r /\ r < n
<1>1. CASE a >= 0
  <2>1. a \in Nat /\ Pay!Remainder(a, n) = a % n
    BY <1>1 DEF Pay!Remainder
  <2>2. PICK k, r \in Int : r = a % n /\ a = n * k + r /\ 0 <= r /\ r < n
    BY <2>1, DivisionAlgorithm
  <2>3. -n < r
    BY <2>2
  <2> QED BY <2>1, <2>2, <2>3, Zenon
<1>2. CASE a < 0
  <2>1. -a \in Nat /\ Pay!Remainder(a, n) = -((-a) % n)
    BY <1>2 DEF Pay!Remainder
  <2>2. PICK k, r \in Int : r = (-a) % n /\ -a = n * k + r /\ 0 <= r /\ r < n
    BY <2>1, DivisionAlgorithm
  <2>3. -k \in Int /\ -r \in Int /\ -n < -r /\ -r < n
    BY <2>2
  <2>4. ASSUME NEW m \in Int, m = n * k, -a = m + r PROVE a = -m + -r
    BY <2>4
  <2>5. n * k \in Int /\ n * (-k) = -(n * k)
    OBVIOUS
  <2>6. a = n * (-k) + -r
    BY <2>2, <2>4, <2>5
  <2>7. -r = Pay!Remainder(a, n)
    BY <2>1, <2>2, Zenon
  <2> QED BY <2>3, <2>6, <2>7, Zenon
<1> QED BY <1>1, <1>2

LEMMA FixedDayRange ==
  ASSUME NEW today \in Int, NEW anchor \in Int, NEW n \in Nat \ {0}
  PROVE  LET r == Pay!FixedDayPeriodRange(today, anchor, n)
         IN  r.start \in Int /\ r.end \in Int /\ Pay!Contains(r, today) /\ OnGrid(r, anchor, n)
<1> DEFINE rest == Pay!Remainder(today - anchor, n)
           offset == IF rest < 0 THEN rest + n ELSE rest
           r == Pay!FixedDayPeriodRange(today, anchor, n)
<1>1. today - anchor \in Int
  OBVIOUS
<1>2. PICK k, x \in Int : x = rest /\ today - anchor = n * k + x /\ -n < x /\ x < n
  BY <1>1, RemainderBounds, Zenon
<1>3. offset = IF x < 0 THEN x + n ELSE x
  BY <1>2, Zenon
<1>4. r.start = today - offset /\ r.end = today - offset + n - 1
  BY DEF Pay!FixedDayPeriodRange
<1> HIDE DEF offset, rest, r
<1>5. offset \in 0 .. n - 1
  BY <1>2, <1>3
<1>6. \E j \in Int : today - offset = anchor + n * j
  <2>1. CASE x < 0
    <3>1. n * (k - 1) = n * k - n /\ n * k \in Int /\ k - 1 \in Int
      OBVIOUS
    <3>2. today - offset = anchor + n * (k - 1)
      BY <1>2, <1>3, <2>1, <3>1
    <3> QED BY <3>1, <3>2, Zenon
  <2>2. CASE x >= 0
    <3>1. today - offset = anchor + n * k
      BY <1>2, <1>3, <2>2
    <3> QED BY <3>1
  <2> QED BY <2>1, <2>2
<1> QED BY <1>4, <1>5, <1>6 DEF Pay!Contains, OnGrid, r

(* Two ranges of one grid are the same or apart.                           *)
LEMMA GridApart ==
  ASSUME NEW anchor \in Int, NEW n \in Nat \ {0}, NEW p, NEW q, p.start \in Int, q.start \in Int,
         OnGrid(p, anchor, n), OnGrid(q, anchor, n)
  PROVE  (p.start = q.start /\ p.end = q.end) \/ p.end < q.start \/ q.end < p.start
<1>1. PICK j \in Int : p.start = anchor + n * j
  BY DEF OnGrid
<1>2. PICK k \in Int : q.start = anchor + n * k
  BY DEF OnGrid
<1>3. p.end = p.start + n - 1 /\ q.end = q.start + n - 1
  BY DEF OnGrid
<1>4. ASSUME NEW a \in Int, NEW b \in Int, a < b PROVE n * a + n <= n * b /\ n * a \in Int /\ n * b \in Int
  <2>1. PICK c \in Nat : b = a + 1 + c
    <3>1. b - a - 1 \in Nat /\ b = a + 1 + (b - a - 1)
      BY <1>4
    <3> QED BY <3>1
  <2>2. n * c \in Nat /\ n * b = n * a + n + n * c /\ n * a \in Int
    BY <2>1
  <2> QED BY <2>2
<1>5. CASE j = k
  BY <1>1, <1>2, <1>3, <1>5
<1>6. CASE j < k
  <2>1. n * j + n <= n * k /\ n * j \in Int /\ n * k \in Int
    BY <1>4, <1>6
  <2> QED BY <1>1, <1>2, <1>3, <2>1
<1>7. CASE k < j
  <2>1. n * k + n <= n * j /\ n * j \in Int /\ n * k \in Int
    BY <1>4, <1>7
  <2> QED BY <1>1, <1>2, <1>3, <2>1
<1> QED BY <1>5, <1>6, <1>7

(* The same for the months and the halves of them.                          *)
LEMMA MonthsApart ==
  ASSUME Pay!PeriodsAssumption, NEW d \in Days, NEW e \in Days
  PROVE  LET p == Pay!MonthRange(d)
             q == Pay!MonthRange(e)
         IN  (p.start = q.start /\ p.end = q.end) \/ p.end < q.start \/ q.end < p.start
<1>1. /\ Pay!MonthRange(d).start = MonthStart[d] /\ Pay!MonthRange(d).end = MonthEnd[d]
      /\ Pay!MonthRange(e).start = MonthStart[e] /\ Pay!MonthRange(e).end = MonthEnd[e]
  BY DEF Pay!MonthRange
<1> QED BY <1>1 DEF Pay!PeriodsAssumption

LEMMA HalfMonthsApart ==
  ASSUME Pay!PeriodsAssumption, NEW d \in Days, NEW e \in Days
  PROVE  LET p == Pay!HalfMonthRange(d)
             q == Pay!HalfMonthRange(e)
         IN  (p.start = q.start /\ p.end = q.end) \/ p.end < q.start \/ q.end < p.start
<1> DEFINE half(x) ==
      \/ /\ Pay!HalfMonthRange(x).start = MonthStart[x]
         /\ Pay!HalfMonthRange(x).end = MonthStart[x] + HalfMonth - 1
      \/ Pay!HalfMonthRange(x).start = MonthStart[x] + HalfMonth /\ Pay!HalfMonthRange(x).end = MonthEnd[x]
<1>1. /\ MonthStart[d] \in Int /\ MonthStart[e] \in Int /\ MonthEnd[d] \in Int /\ MonthEnd[e] \in Int
      /\ HalfMonth \in Nat
      /\ MonthStart[d] + HalfMonth <= MonthEnd[d] /\ MonthStart[e] + HalfMonth <= MonthEnd[e]
      /\ \/ MonthStart[d] = MonthStart[e] /\ MonthEnd[d] = MonthEnd[e]
         \/ MonthEnd[d] < MonthStart[e] \/ MonthEnd[e] < MonthStart[d]
  BY DEF Pay!PeriodsAssumption
<1>2. half(d) /\ half(e)
  <2>1. ASSUME NEW x \in Days PROVE half(x)
    <3>1. MonthStart[x] \in Int /\ HalfMonth \in Nat
      BY DEF Pay!PeriodsAssumption
    <3>2. MonthStart[x] + HalfMonth - 1 + 1 = MonthStart[x] + HalfMonth
      BY <3>1
    <3> QED BY <3>2 DEF Pay!HalfMonthRange
  <2> QED BY <2>1
<1> QED BY <1>1, <1>2

(* Two periods of one cadence and one anchor are the same or apart.         *)
LEMMA PeriodsApart ==
  ASSUME Pay!PeriodsAssumption, NEW p, NEW q, IsRow(p), IsRow(q), Alike(p, q)
  PROVE  p = q \/ p.end < q.start \/ q.end < p.start
<1>1. (p.start = q.start /\ p.end = q.end) \/ p.end < q.start \/ q.end < p.start
  <2>1. p.start \in Int /\ q.start \in Int /\ p.anchor \in Int /\ p.anchor = q.anchor /\ p.cadence = q.cadence
    BY DEF IsRow, Alike
  <2>2. Week \in Nat \ {0} /\ 2 * Week \in Nat \ {0}
    BY DEF Pay!PeriodsAssumption
  <2>3. OnCadence(p) /\ OnCadence(q)
    BY DEF IsRow
  <2>4. CASE p.cadence = "weekly"
    <3>1. OnGrid(p, p.anchor, Week) /\ OnGrid(q, p.anchor, Week)
      BY <2>1, <2>3, <2>4 DEF OnCadence
    <3> QED BY <2>1, <2>2, <3>1, GridApart
  <2>5. CASE p.cadence = "semi-monthly"
    BY <2>1, <2>3, <2>5, HalfMonthsApart DEF OnCadence
  <2>6. CASE p.cadence = "monthly"
    BY <2>1, <2>3, <2>6, MonthsApart DEF OnCadence
  <2>7. CASE p.cadence \notin {"weekly", "semi-monthly", "monthly"}
    <3>1. OnGrid(p, p.anchor, 2 * Week) /\ OnGrid(q, p.anchor, 2 * Week)
      BY <2>1, <2>3, <2>7 DEF OnCadence
    <3> QED BY <2>1, <2>2, <3>1, GridApart
  <2> QED BY <2>4, <2>5, <2>6, <2>7
<1> QED BY <1>1 DEF IsRow, Alike

-----------------------------------------------------------------------------
LEMMA RangeOfToday ==
  ASSUME Pay!PeriodsAssumption, NEW today \in Days, NEW anchor \in Int, NEW cadence
  PROVE  LET range == Pay!CurrentPeriodRange(today, anchor, cadence)
             p == [start |-> range.start, end |-> range.end, cadence |-> cadence, anchor |-> anchor]
         IN  IsRow(p) /\ Pay!Contains(p, today)
<1> DEFINE range == Pay!CurrentPeriodRange(today, anchor, cadence)
           p == [start |-> range.start, end |-> range.end, cadence |-> cadence, anchor |-> anchor]
<1>1. today \in Int /\ Week \in Nat \ {0} /\ 2 * Week \in Nat \ {0} /\ HalfMonth \in Nat
  BY DEF Pay!PeriodsAssumption
<1>2. MonthStart[today] \in Int /\ MonthEnd[today] \in Int /\ MonthStart[today] <= today /\ today <= MonthEnd[today]
  BY DEF Pay!PeriodsAssumption
<1>3. p.start = range.start /\ p.end = range.end /\ p.cadence = cadence /\ p.anchor = anchor
  OBVIOUS
<1> SUFFICES range.start \in Int /\ range.end \in Int /\ OnCadence(p) /\ range.start <= today /\ today <= range.end
  BY <1>3 DEF IsRow, Pay!Contains
<1>4. CASE cadence = "weekly"
  <2>1. range = Pay!FixedDayPeriodRange(today, anchor, Week)
    BY <1>4 DEF Pay!CurrentPeriodRange
  <2>2. /\ range.start \in Int /\ range.end \in Int
        /\ Pay!Contains(range, today) /\ OnGrid(range, anchor, Week)
    BY <1>1, <2>1, FixedDayRange
  <2>3. OnGrid(p, anchor, Week)
    BY <1>3, <2>2 DEF OnGrid
  <2> QED BY <1>3, <1>4, <2>2, <2>3 DEF OnCadence, Pay!Contains
<1>5. CASE cadence = "semi-monthly"
  <2>1. range = Pay!HalfMonthRange(today)
    BY <1>5 DEF Pay!CurrentPeriodRange
  <2>2. OnCadence(p)
    BY <1>3, <1>5, <2>1 DEF OnCadence
  <2> QED BY <1>1, <1>2, <2>1, <2>2 DEF Pay!HalfMonthRange
<1>6. CASE cadence = "monthly"
  <2>1. range = Pay!MonthRange(today)
    BY <1>6 DEF Pay!CurrentPeriodRange
  <2>2. OnCadence(p)
    BY <1>3, <1>6, <2>1 DEF OnCadence
  <2> QED BY <1>2, <2>1, <2>2 DEF Pay!MonthRange
<1>7. CASE cadence \notin {"weekly", "semi-monthly", "monthly"}
  <2>1. range = Pay!FixedDayPeriodRange(today, anchor, 2 * Week)
    BY <1>7 DEF Pay!CurrentPeriodRange
  <2>2. /\ range.start \in Int /\ range.end \in Int
        /\ Pay!Contains(range, today) /\ OnGrid(range, anchor, 2 * Week)
    BY <1>1, <2>1, FixedDayRange
  <2>3. OnGrid(p, anchor, 2 * Week)
    BY <1>3, <2>2 DEF OnGrid
  <2> QED BY <1>3, <1>7, <2>2, <2>3 DEF OnCadence, Pay!Contains
<1> QED BY <1>4, <1>5, <1>6, <1>7

LEMMA CreatedFits ==
  ASSUME PeriodsInv, NEW today \in Days
  PROVE  IsRow(Pay!Created(today)) /\ Pay!Contains(Pay!Created(today), today) /\ \A q \in periods : Alike(Pay!Created(today), q)
<1>1. Pay!Created(today) =
        [start |-> Pay!CurrentPeriodRange(today, Pay!PeriodAnchor(today), Pay!PeriodCadence).start,
         end |-> Pay!CurrentPeriodRange(today, Pay!PeriodAnchor(today), Pay!PeriodCadence).end,
         cadence |-> Pay!PeriodCadence, anchor |-> Pay!PeriodAnchor(today)]
  BY DEF Pay!Created
<1>2. periods # {} => Pay!Latest \in periods
  BY DEF PeriodsInv, HasLatest, Pay!Latest
<1>3. Pay!PeriodAnchor(today) \in Int
  BY <1>2 DEF Pay!PeriodAnchor, PeriodsInv, OfOneCadence, IsRow, Pay!PeriodsAssumption
<1>4. IsRow(Pay!Created(today)) /\ Pay!Contains(Pay!Created(today), today)
  BY <1>1, <1>3, RangeOfToday DEF PeriodsInv
<1>5. ASSUME NEW q \in periods PROVE Alike(Pay!Created(today), q)
  <2>1. Pay!PeriodCadence = Pay!Latest.cadence /\ Pay!PeriodAnchor(today) = Pay!Latest.anchor /\ Pay!Latest \in periods
    BY <1>2, <1>5 DEF Pay!PeriodCadence, Pay!PeriodAnchor
  <2> QED BY <1>1, <2>1 DEF Alike, PeriodsInv, OfOneCadence
<1> QED BY <1>4, <1>5

-----------------------------------------------------------------------------
LEMMA InitPeriods == ASSUME Pay!PeriodsAssumption, Pay!Init PROVE PeriodsInv
  BY DEF Pay!Init, PeriodsInv, OfOneCadence, HasLatest, CallIsOfToday, Pay!ReturnedIsUsable

LEMMA EnsurePeriods ==
  ASSUME PeriodsInv, NEW today \in Days, Pay!EnsureCurrentPeriod(today)
  PROVE  PeriodsInv'
<1>1. PICK p : /\ (p \in periods /\ Pay!Contains(p, today)) \/ p = Pay!Created(today)
               /\ periods' = periods \cup {p} /\ periodCall' = [today |-> today, period |-> p]
  BY DEF Pay!EnsureCurrentPeriod
<1>2. UNCHANGED <<zoned, answer>>
  BY DEF Pay!EnsureCurrentPeriod
<1>3. IsRow(p) /\ Pay!Contains(p, today) /\ \A q \in periods : Alike(p, q) /\ Alike(q, p)
  BY <1>1, CreatedFits DEF PeriodsInv, OfOneCadence, Alike
<1>4. OfOneCadence'
  BY <1>1, <1>3 DEF PeriodsInv, OfOneCadence, Alike
<1>5. HasLatest'
  <2>1. p.start \in Int /\ \A q \in periods : q.start \in Int
    BY <1>3 DEF IsRow, PeriodsInv, OfOneCadence
  <2>2. CASE periods = {}
    BY <1>1, <2>1, <2>2 DEF HasLatest
  <2>3. CASE periods # {}
    <3>1. PICK m \in periods : \A q \in periods : q.start <= m.start
      BY <2>3 DEF PeriodsInv, HasLatest
    <3>2. CASE p.start <= m.start
      BY <1>1, <3>1, <3>2 DEF HasLatest
    <3>3. CASE m.start < p.start
      BY <1>1, <2>1, <3>1, <3>3 DEF HasLatest
    <3> QED BY <2>1, <3>1, <3>2, <3>3
  <2> QED BY <2>2, <2>3
<1> QED BY <1>1, <1>2, <1>3, <1>4, <1>5 DEF PeriodsInv, Pay!PeriodsAssumption, CallIsOfToday,
                                            Pay!ReturnedIsUsable

LEMMA OthersPeriods ==
  ASSUME PeriodsInv,
         Pay!EnsurePeriodTzSegment \/ Pay!CallFails \/ (\E c \in Cadences : Pay!SetCadence(c)) \/ UNCHANGED Pay!vars
  PROVE  PeriodsInv'
<1>1. UNCHANGED periods
  BY DEF Pay!EnsurePeriodTzSegment, Pay!CallFails, Pay!SetCadence, Pay!vars
<1> QED BY <1>1 DEF Pay!EnsurePeriodTzSegment, Pay!CallFails, Pay!SetCadence, Pay!vars, PeriodsInv,
                    Pay!PeriodsAssumption,
           OfOneCadence, HasLatest, CallIsOfToday, Pay!ReturnedIsUsable

-----------------------------------------------------------------------------

(***************************************************************************)
(* The report.                                                             *)
(***************************************************************************)

ReportRows == [att : Report!Attestations, span : Spans, category : WorkCategories \cup {Unassigned}]

ReportInv ==
  /\ Report!ExportAssumption
  /\ ledger \in [EntryIds -> ReportRows \cup {NoRow}] /\ category \subseteq WorkCategories

LEMMA InitReport == ASSUME Report!ExportAssumption, Report!Init PROVE ReportInv
  BY DEF ReportInv, Report!Init

LEMMA ReportStepKeeps == ASSUME ReportInv, [Report!Next]_report PROVE ReportInv'
<1>1. CASE UNCHANGED report
  BY <1>1 DEF ReportInv, report, Report!ExportAssumption
<1>2. ASSUME NEW i \in EntryIds, NEW att \in Report!Attestations, NEW span \in Spans,
             NEW c \in WorkCategories \cup {Unassigned}, Report!Record(i, att, span, c)
      PROVE  ReportInv'
  <2>1. [att |-> att, span |-> span, category |-> c] \in ReportRows
    BY DEF ReportRows
  <2> QED BY <1>2, <2>1 DEF ReportInv, Report!Record, Report!ExportAssumption
<1>3. ASSUME NEW c \in WorkCategories, Report!DeleteCategory(c) PROVE ReportInv'
  <2>1. ASSUME NEW i \in EntryIds, ledger[i] # NoRow
        PROVE  [ledger[i] EXCEPT !.category = Unassigned] \in ReportRows
    <3>1. ledger[i] \in ReportRows
      BY <2>1 DEF ReportInv
    <3> QED BY <3>1 DEF ReportRows
  <2>2. ASSUME NEW i \in EntryIds PROVE ledger'[i] \in ReportRows \cup {NoRow}
    BY <1>3, <2>1 DEF ReportInv, Report!DeleteCategory
  <2>3. ledger' = [i \in EntryIds |-> ledger'[i]]
    BY <1>3 DEF Report!DeleteCategory
  <2> QED BY <1>3, <2>2, <2>3 DEF ReportInv, Report!DeleteCategory, Report!ExportAssumption
<1> QED BY <1>1, <1>2, <1>3 DEF Report!Next

-----------------------------------------------------------------------------
(* The minutes of an entry, with its day and the key of its category.       *)
Minutes == [i \in Report!Confirmed |-> Report!Entry(i).minutes]
KeyAt == [i \in Report!Confirmed |-> KeyOf[Report!Entry(i).category]]
DayAt == [i \in Report!Confirmed |-> Report!Entry(i).day]
LineAt == [i \in Report!Confirmed |-> <<DayAt[i], KeyAt[i]>>]

SumOf(ids) == Entries!SumFunctionOnSet(Minutes, ids)

(* Finiteness and sums are the same seen from either module.                *)
LEMMA SameFinite ==
  ASSUME NEW S
  PROVE  (IsFiniteSet(S) <=> Entries!IsFiniteSet(S)) /\ (IsFiniteSet(S) <=> Report!IsFiniteSet(S))
BY DEF IsFiniteSet, Entries!IsFiniteSet, Report!IsFiniteSet

LEMMA SameSum ==
  ASSUME NEW f
  PROVE  Report!SumFunction(f) = Entries!SumFunctionOnSet(f, DOMAIN f)
BY DEF Report!SumFunction, Report!SumFunctionOnSet, Report!FoldFunctionOnSet, Report!MapThenFoldSet,
       Entries!SumFunctionOnSet, Entries!FoldFunctionOnSet, Entries!MapThenFoldSet

LEMMA ReportEntry ==
  ASSUME ReportInv, NEW i \in Report!Confirmed
  PROVE  /\ i \in EntryIds /\ ledger[i] \in ReportRows /\ ledger[i].span \in Entries!Interval
         /\ ledger[i].span.start < ledger[i].span.end
         /\ ledger[i].span.start \in Nat /\ ledger[i].span.end \in Nat
<1>1. i \in EntryIds /\ ledger[i] \in ReportRows
  BY DEF ReportInv, Report!Confirmed
<1>2. ledger[i].span \in Spans
  BY <1>1 DEF ReportRows
<1>3. ledger[i].span \in Report!Interval /\ Report!NonEmpty(ledger[i].span)
  BY <1>2 DEF ReportInv, Report!ExportAssumption
<1>4. ledger[i].span \in Entries!Interval
  BY <1>3 DEF Report!Interval, Entries!Interval
<1> QED BY <1>1, <1>3, <1>4 DEF Report!NonEmpty, Entries!Interval

LEMMA MinutesAreInt ==
  ASSUME ReportInv, NEW i \in Report!Confirmed
  PROVE  Minutes[i] \in Int /\ DayAt[i] \in Int /\ KeyAt[i] \in ReportKeys
<1> DEFINE start == ledger[i].span.start % MinutesPerDay
           end == IF Report!CrossesLocalMidnight(ledger[i].span, MinutesPerDay) THEN MinutesPerDay
                  ELSE ledger[i].span.end % MinutesPerDay
<1>1. MinutesPerDay \in Nat \ {0} /\ MinBlock \in Int
  BY DEF ReportInv, Report!ExportAssumption
<1>2. start \in Int /\ end \in Int
  BY <1>1, ReportEntry
<1>3. Report!Entry(i) = [day |-> Report!LocalDate(ledger[i].span.start, MinutesPerDay), category |-> ledger[i].category,
                         minutes |-> Report!Later(start + MinBlock, end) - start]
  BY DEF Report!Entry, Report!Exported
<1>4. Report!LocalDate(ledger[i].span.start, MinutesPerDay) \in Int
  BY <1>1, ReportEntry DEF Report!LocalDate
<1>5. KeyOf[ledger[i].category] \in ReportKeys
  BY ReportEntry DEF ReportInv, ReportRows, Report!ExportAssumption
<1> HIDE DEF start, end
<1>6. Report!Later(start + MinBlock, end) - start \in Int
  BY <1>1, <1>2 DEF Report!Later
<1> QED BY <1>3, <1>4, <1>5, <1>6 DEF Minutes, DayAt, KeyAt

LEMMA ConfirmedFinite ==
  ASSUME ReportInv PROVE IsFiniteSet(Report!Confirmed) /\ IsFiniteSet(Report!PeriodDates)
<1>1. Report!Confirmed \in SUBSET EntryIds /\ IsFiniteSet(EntryIds)
  BY SameFinite DEF ReportInv, Report!ExportAssumption, Report!Confirmed
<1>2. FirstDate \in Int /\ LastDate \in Int
  BY DEF ReportInv, Report!ExportAssumption
<1> QED BY <1>1, <1>2, FS_Subset, FS_Interval DEF Report!PeriodDates

LEMMA MinutesSum ==
  ASSUME ReportInv, NEW ids \in SUBSET Report!Confirmed
  PROVE  Report!MinutesOf(ids) = SumOf(ids) /\ SumOf(ids) \in Int
<1> DEFINE m == [i \in ids |-> Report!Entry(i).minutes]
<1>1. \A i \in Report!Confirmed : Minutes[i] \in Int
  BY MinutesAreInt
<1>2. IsFiniteSet(Report!Confirmed)
  BY ConfirmedFinite
<1>3. IsFiniteSet(ids)
  BY <1>2, FS_Subset
<1>4. Report!MinutesOf(ids) = Entries!SumFunctionOnSet(m, ids)
  BY SameSum DEF Report!MinutesOf
<1>5. \A i \in ids : Minutes[i] \in Int /\ m[i] = Minutes[i]
  BY <1>1 DEF Minutes
<1> HIDE DEF m
<1>6. Entries!SumFunctionOnSet(Minutes, ids) = Entries!SumFunctionOnSet(m, ids)
  BY <1>3, <1>5, SameFinite, Entries!SumSame
<1>7. Entries!SumsUp(Minutes, Report!Confirmed)
  BY <1>1, <1>2, SameFinite, Entries!SumTake
<1> QED BY <1>4, <1>6, <1>7 DEF SumOf, Entries!SumsUp

LEMMA SumApart ==
  ASSUME ReportInv, NEW A \in SUBSET Report!Confirmed, NEW B \in SUBSET Report!Confirmed, A \cap B = {}
  PROVE  SumOf(A \cup B) = SumOf(A) + SumOf(B)
<1>1. \A i \in Report!Confirmed : Minutes[i] \in Int
  BY MinutesAreInt
<1> QED BY <1>1, ConfirmedFinite, SameFinite, Entries!SumUnion DEF SumOf

(* What is added up over the days or the lines of a report is the sum of    *)
(* the entries on them.                                                    *)
LEMMA SumsOfParts ==
  ASSUME ReportInv, NEW ids \in SUBSET Report!Confirmed, NEW D, IsFiniteSet(D), NEW g, \A i \in ids : g[i] \in D,
         NEW cell, DOMAIN cell = D, \A d \in D : cell[d] = SumOf({i \in ids : g[i] = d}), cell = [d \in D |-> cell[d]]
  PROVE  Report!SumFunction(cell) = SumOf(ids)
<1>1. \A i \in ids : Minutes[i] \in Int
  BY MinutesAreInt
<1>2. IsFiniteSet(ids)
  BY ConfirmedFinite, FS_Subset
<1>3. Entries!SumFunction(Entries!PartSums(Minutes, ids, g, D)) = SumOf(ids)
  BY <1>1, <1>2, SameFinite, Entries!SumParts DEF SumOf
<1>4. cell = Entries!PartSums(Minutes, ids, g, D)
  BY DEF Entries!PartSums, Entries!PartOf, SumOf
<1> QED BY <1>3, <1>4, SameSum DEF Entries!SumFunction

-----------------------------------------------------------------------------
(* A day of the report: the keys of its entries, each with their minutes.   *)
LEMMA DayTotals ==
  ASSUME ReportInv, NEW day \in Report!PeriodDates
  PROVE  /\ DOMAIN Report!DailyTotals[day] = {KeyAt[i] : i \in {j \in Report!Confirmed : DayAt[j] = day}}
         /\ \A key \in DOMAIN Report!DailyTotals[day] :
              Report!DailyTotals[day][key] = SumOf({i \in Report!Confirmed : DayAt[i] = day /\ KeyAt[i] = key})
<1> DEFINE today == {i \in Report!Confirmed : Report!Entry(i).day = day}
<1>1. Report!DailyTotals[day] =
        [key \in {KeyOf[Report!Entry(i).category] : i \in today} |-> Report!MinutesOf(today \cap Report!EntriesOf(key))]
  BY DEF Report!DailyTotals
<1>2. today = {j \in Report!Confirmed : DayAt[j] = day}
  BY DEF DayAt
<1>3. {KeyOf[Report!Entry(i).category] : i \in today} = {KeyAt[i] : i \in today}
  BY DEF KeyAt
<1>4. ASSUME NEW key
      PROVE  today \cap Report!EntriesOf(key) = {i \in Report!Confirmed : DayAt[i] = day /\ KeyAt[i] = key}
  BY DEF Report!EntriesOf, DayAt, KeyAt
<1>5. ASSUME NEW key
      PROVE  Report!MinutesOf(today \cap Report!EntriesOf(key))
               = SumOf({i \in Report!Confirmed : DayAt[i] = day /\ KeyAt[i] = key})
  <2>1. {i \in Report!Confirmed : DayAt[i] = day /\ KeyAt[i] = key} \in SUBSET Report!Confirmed
    OBVIOUS
  <2> QED BY <1>4, <2>1, MinutesSum
<1> HIDE DEF today
<1> QED BY <1>1, <1>2, <1>3, <1>5

LEMMA Listed ==
  ASSUME ReportInv
  PROVE  \A i \in Report!Confirmed :
           /\ Report!InPeriod(i) <=> DayAt[i] \in Report!PeriodDates
           /\ \A key : i \in Report!EntriesOf(key) <=> KeyAt[i] = key
BY MinutesAreInt DEF ReportInv, Report!ExportAssumption, Report!InPeriod, Report!PeriodDates, DayAt, Report!EntriesOf, KeyAt

(* The matrix report of a category is the sum of its entries in the period. *)
LEMMA MatrixOf ==
  ASSUME ReportInv, NEW key
  PROVE  Report!MatrixTotal(key) = SumOf({i \in Report!EntriesOf(key) : Report!InPeriod(i)})
<1> DEFINE listed == {i \in Report!EntriesOf(key) : Report!InPeriod(i)}
           cell == [day \in Report!PeriodDates |-> Report!MatrixCell(key, day)]
<1>1. listed = {i \in Report!Confirmed : KeyAt[i] = key /\ DayAt[i] \in Report!PeriodDates}
  BY Listed DEF Report!EntriesOf
<1>2. ASSUME NEW day \in Report!PeriodDates PROVE cell[day] = SumOf({i \in listed : DayAt[i] = day})
  <2>1. {i \in listed : DayAt[i] = day} = {i \in Report!Confirmed : DayAt[i] = day /\ KeyAt[i] = key}
    BY <1>1
  <2>2. CASE key \in DOMAIN Report!DailyTotals[day]
    BY <2>1, <2>2, DayTotals DEF Report!MatrixCell
  <2>3. CASE key \notin DOMAIN Report!DailyTotals[day]
    <3>1. {i \in listed : DayAt[i] = day} = {}
      BY <2>1, <2>3, DayTotals
    <3>2. Entries!SumsUp(Minutes, Report!Confirmed)
      BY MinutesAreInt, ConfirmedFinite, SameFinite, Entries!SumTake
    <3>3. SumOf({}) = 0
      BY <3>2 DEF SumOf, Entries!SumsUp
    <3>4. cell[day] = 0
      BY <2>3 DEF Report!MatrixCell
    <3> QED BY <3>1, <3>3, <3>4
  <2> QED BY <2>2, <2>3
<1>3. listed \in SUBSET Report!Confirmed /\ \A i \in listed : DayAt[i] \in Report!PeriodDates
  BY <1>1
<1>4. DOMAIN cell = Report!PeriodDates /\ cell = [day \in Report!PeriodDates |-> cell[day]]
  OBVIOUS
<1>5. Report!MatrixTotal(key) = Report!SumFunction(cell)
  BY DEF Report!MatrixTotal
<1>6. IsFiniteSet(Report!PeriodDates)
  BY ConfirmedFinite
<1> HIDE DEF listed, cell
<1>7. Report!SumFunction(cell) = SumOf(listed)
  BY <1>2, <1>3, <1>4, <1>6, SumsOfParts
<1> QED BY <1>5, <1>7 DEF listed

(* The lines of the flat report are the days and keys of entries; any of    *)
(* them add up to the entries on them.                                     *)
LEMMA LinesOf ==
  ASSUME ReportInv
  PROVE  /\ \A i \in Report!Confirmed : LineAt[i] \in Report!FlatLines <=> Report!InPeriod(i)
         /\ \A l \in Report!FlatLines : l[1] \in Report!PeriodDates /\ l[2] \in DOMAIN Report!DailyTotals[l[1]]
                                        /\ l = <<l[1], l[2]>>
         /\ IsFiniteSet(Report!FlatLines)
<1>1. ASSUME NEW i \in Report!Confirmed PROVE LineAt[i] \in Report!FlatLines <=> Report!InPeriod(i)
  <2>1. LineAt[i] = <<DayAt[i], KeyAt[i]>> /\ KeyAt[i] \in ReportKeys
    BY MinutesAreInt DEF LineAt
  <2>2. DayAt[i] \in Report!PeriodDates => KeyAt[i] \in DOMAIN Report!DailyTotals[DayAt[i]]
    BY DayTotals
  <2> QED BY <2>1, <2>2, Listed DEF Report!FlatLines
<1>2. ASSUME NEW l \in Report!FlatLines
      PROVE  /\ l[1] \in Report!PeriodDates /\ l[2] \in DOMAIN Report!DailyTotals[l[1]] /\ l = <<l[1], l[2]>>
             /\ \E i \in Report!Confirmed : LineAt[i] = l
  <2>1. l[1] \in Report!PeriodDates /\ l[2] \in DOMAIN Report!DailyTotals[l[1]] /\ l = <<l[1], l[2]>>
    BY DEF Report!FlatLines
  <2>2. PICK i \in Report!Confirmed : DayAt[i] = l[1] /\ KeyAt[i] = l[2]
    BY <2>1, DayTotals
  <2> QED BY <2>1, <2>2 DEF LineAt
<1>3. IsFiniteSet({LineAt[i] : i \in Report!Confirmed})
  <2> DEFINE T == {LineAt[i] : i \in Report!Confirmed}
  <2>1. LineAt \in Surjection(Report!Confirmed, T)
    BY DEF Surjection, LineAt
  <2> QED BY <2>1, ConfirmedFinite, FS_Surjection
<1>4. Report!FlatLines \in SUBSET {LineAt[i] : i \in Report!Confirmed}
  BY <1>2
<1> QED BY <1>1, <1>2, <1>3, <1>4, FS_Subset

LEMMA FlatOf ==
  ASSUME ReportInv, NEW lines \in SUBSET Report!FlatLines
  PROVE  Report!FlatTotal(lines) = SumOf({i \in Report!Confirmed : LineAt[i] \in lines})
<1> DEFINE ids == {i \in Report!Confirmed : LineAt[i] \in lines}
           cell == [l \in lines |-> Report!DailyTotals[l[1]][l[2]]]
<1>1. ASSUME NEW l \in lines PROVE cell[l] = SumOf({i \in ids : LineAt[i] = l})
  <2>1. l \in Report!FlatLines
    OBVIOUS
  <2>2. l[1] \in Report!PeriodDates /\ l[2] \in DOMAIN Report!DailyTotals[l[1]] /\ l = <<l[1], l[2]>>
    BY <2>1, LinesOf
  <2>3. Report!DailyTotals[l[1]][l[2]] = SumOf({i \in Report!Confirmed : DayAt[i] = l[1] /\ KeyAt[i] = l[2]})
    BY <2>2, DayTotals
  <2>4. ASSUME NEW i \in Report!Confirmed PROVE LineAt[i] = l <=> DayAt[i] = l[1] /\ KeyAt[i] = l[2]
    BY <2>2 DEF LineAt
  <2>5. {i \in ids : LineAt[i] = l} = {i \in Report!Confirmed : DayAt[i] = l[1] /\ KeyAt[i] = l[2]}
    BY <2>4
  <2> QED BY <2>3, <2>5
<1>2. ids \in SUBSET Report!Confirmed /\ \A i \in ids : LineAt[i] \in lines
  OBVIOUS
<1>3. DOMAIN cell = lines /\ cell = [l \in lines |-> cell[l]]
  OBVIOUS
<1>4. Report!FlatTotal(lines) = Report!SumFunction(cell)
  BY DEF Report!FlatTotal
<1>5. IsFiniteSet(lines)
  BY LinesOf, FS_Subset
<1> HIDE DEF ids, cell
<1>6. Report!SumFunction(cell) = SumOf(ids)
  BY <1>1, <1>2, <1>3, <1>5, SumsOfParts
<1> QED BY <1>4, <1>6 DEF ids

(* Of any ledger the three reports agree.                                   *)
LEMMA InvAgrees == ASSUME ReportInv PROVE Report!ReportsAgree
<1>1. ASSUME NEW key \in DOMAIN Report!PeriodTotals, NEW listed, listed = {i \in Report!EntriesOf(key) : Report!InPeriod(i)}
      PROVE  /\ Report!MatrixTotal(key) = Report!DetailTotal(listed)
             /\ Report!FlatTotal({l \in Report!FlatLines : l[2] = key}) = Report!DetailTotal(listed)
             /\ Report!PeriodTotals[key] - Report!MatrixTotal(key)
                  = Report!DetailTotal(Report!EntriesOf(key) \ listed)
  <2> DEFINE all == Report!EntriesOf(key)
             rest == all \ listed
             lines == {l \in Report!FlatLines : l[2] = key}
  <2>1. /\ all \in SUBSET Report!Confirmed /\ listed \in SUBSET Report!Confirmed
        /\ rest \in SUBSET Report!Confirmed /\ listed \cap rest = {} /\ listed \cup rest = all
    BY <1>1 DEF Report!EntriesOf
  <2>2. Report!MatrixTotal(key) = SumOf(listed)
    BY <1>1, MatrixOf
  <2>3. listed = {i \in Report!Confirmed : LineAt[i] \in lines}
    <3>1. ASSUME NEW i \in Report!Confirmed PROVE LineAt[i] \in lines <=> i \in all /\ Report!InPeriod(i)
      <4>1. LineAt[i][2] = KeyAt[i]
        BY DEF LineAt
      <4> QED BY <4>1, LinesOf, Listed
    <3> QED BY <2>1, <3>1, <1>1
  <2>4. Report!FlatTotal(lines) = SumOf(listed)
    <3>1. lines \in SUBSET Report!FlatLines
      OBVIOUS
    <3> HIDE DEF lines
    <3> QED BY <2>3, <3>1, FlatOf
  <2>5. Report!PeriodTotals[key] = Report!MinutesOf(all)
    BY DEF Report!PeriodTotals
  <2> HIDE DEF all, rest, lines
  <2>6. SumOf(all) = SumOf(listed) + SumOf(rest)
    BY <2>1, SumApart
  <2>7. /\ Report!MinutesOf(all) = SumOf(all) /\ Report!MinutesOf(listed) = SumOf(listed)
        /\ Report!MinutesOf(rest) = SumOf(rest) /\ SumOf(listed) \in Int /\ SumOf(rest) \in Int
    BY <2>1, MinutesSum
  <2>8. Report!PeriodTotals[key] - Report!MatrixTotal(key) = Report!MinutesOf(rest)
    BY <2>2, <2>5, <2>6, <2>7
  <2> QED BY <2>2, <2>4, <2>7, <2>8 DEF Report!DetailTotal, all, rest, lines
<1> QED BY <1>1 DEF Report!ReportsAgree, Report!ActualMinutes, Report!DetailTotal

-----------------------------------------------------------------------------
(* An instant is its date and its minute of the day.                        *)
LEMMA MinuteOf ==
  ASSUME NEW L \in Nat \ {0}, NEW t \in Nat
  PROVE  \E q, r \in Nat : q = t \div L /\ r = t % L /\ t = L * q + r /\ r < L
<1>1. t \div L \in Nat /\ t % L \in Nat
  BY SMT
<1>2. ASSUME NEW q \in Nat, NEW r \in Nat, q = t \div L, r = t % L
      PROVE  t = L * q + r /\ r < L
  BY <1>2, SMT
<1> QED BY <1>1, <1>2, Zenon

(* An entry of at least the least block within a date counts its length.    *)
MinutesBetween(s, e, L, block) ==
  Report!Later((s % L) + block, IF s \div L # e \div L THEN L ELSE e % L) - (s % L)

LEMMA WholeMinutes ==
  ASSUME NEW L \in Nat \ {0}, NEW block \in Nat, NEW s \in Nat, NEW e \in Nat, s < e,
         s \div L = (e - 1) \div L, e - s >= block
  PROVE  MinutesBetween(s, e, L, block) = e - s
<1>1. PICK q, r \in Nat : q = s \div L /\ r = s % L /\ s = L * q + r /\ r < L
  BY MinuteOf
<1>2. e - 1 \in Nat
  OBVIOUS
<1>3. PICK q2, r2 \in Nat : q2 = (e - 1) \div L /\ r2 = (e - 1) % L /\ e - 1 = L * q2 + r2 /\ r2 < L
  BY <1>2, MinuteOf
<1>4. PICK q3, r3 \in Nat : q3 = e \div L /\ r3 = e % L /\ e = L * q3 + r3 /\ r3 < L
  BY MinuteOf
<1>5. q2 = q
  BY <1>1, <1>3
<1>6. PICK p \in Nat : p = L * q /\ p = q * L
  <2>1. L * q \in Nat /\ L * q = q * L
    OBVIOUS
  <2> QED BY <2>1
<1>7. s = p + r /\ e = p + r2 + 1
  BY <1>1, <1>3, <1>5, <1>6
<1>8. CASE q3 = q
  <2>1. e = p + r3
    BY <1>4, <1>6, <1>8
  <2>2. MinutesBetween(s, e, L, block) = Report!Later(r + block, r3) - r
    BY <1>1, <1>4, <1>8 DEF MinutesBetween
  <2>3. Report!Later(r + block, r3) - r = e - s
    BY <1>7, <2>1 DEF Report!Later
  <2> QED BY <2>2, <2>3
<1>9. CASE q3 # q
  <2>1. (q + 1) * L = p + L
    BY <1>6
  <2>2. ~(r2 + 1 < L)
    <3> SUFFICES ASSUME r2 + 1 < L PROVE FALSE
      OBVIOUS
    <3>1. q * L <= e /\ e < (q + 1) * L
      BY <1>6, <1>7, <2>1
    <3>2. Entries!LocalDate(e, L) = q
      BY <3>1, Entries!DateIs
    <3> QED BY <3>2, <1>4, <1>9 DEF Entries!LocalDate
  <2>3. e = p + L
    BY <1>3, <1>7, <2>2
  <2>4. Report!Later(r + block, L) - r = e - s
    BY <1>1, <1>7, <2>3 DEF Report!Later
  <2>5. MinutesBetween(s, e, L, block) = Report!Later(r + block, L) - r
    BY <1>1, <1>4, <1>9 DEF MinutesBetween
  <2> QED BY <2>4, <2>5
<1> QED BY <1>8, <1>9

(* Of any ledger what was confirmed is what is reported.                    *)
LEMMA InvReported == ASSUME ReportInv PROVE Report!AttestedIsReported
<1> DEFINE whole == {i \in Report!Confirmed : Report!WithinOneDate(i) /\ Report!Lasts(i) >= MinBlock}
           in == {i \in Report!Confirmed : Report!InPeriod(i)}
           kept == {i \in whole : Report!InPeriod(i)}
           cut == {i \in Report!Confirmed \ whole : Report!InPeriod(i)}
           lasts == [i \in kept |-> Report!Lasts(i)]
<1>1. /\ in \in SUBSET Report!Confirmed /\ kept \in SUBSET Report!Confirmed /\ cut \in SUBSET Report!Confirmed
      /\ kept \cap cut = {} /\ kept \cup cut = in
  OBVIOUS
<1>2. Report!FlatTotal(Report!FlatLines) = SumOf(in)
  <2>1. in = {i \in Report!Confirmed : LineAt[i] \in Report!FlatLines}
    BY LinesOf
  <2> QED BY <2>1, FlatOf
<1>3. ASSUME NEW i \in kept PROVE lasts[i] = Minutes[i] /\ Minutes[i] \in Int
  <2>1. /\ MinutesPerDay \in Nat \ {0} /\ MinBlock \in Nat
    BY DEF ReportInv, Report!ExportAssumption
  <2> DEFINE s == ledger[i].span.start
             e == ledger[i].span.end
  <2>2. /\ i \in Report!Confirmed /\ Report!WithinOneDate(i) /\ Report!Lasts(i) >= MinBlock
    OBVIOUS
  <2>3. s \in Nat /\ e \in Nat /\ s < e
    BY <2>2, ReportEntry
  <2>4. s \div MinutesPerDay = (e - 1) \div MinutesPerDay /\ e - s >= MinBlock
    BY <2>2 DEF Report!WithinOneDate, Report!Lasts, Report!LocalDate
  <2>5. Report!Entry(i).minutes = MinutesBetween(s, e, MinutesPerDay, MinBlock)
    BY DEF MinutesBetween, Report!Entry, Report!Exported, Report!CrossesLocalMidnight, Report!LocalDate
  <2>6. lasts[i] = e - s
    BY DEF Report!Lasts
  <2>7. Minutes[i] = Report!Entry(i).minutes
    BY <2>2 DEF Minutes
  <2> HIDE DEF s, e
  <2>8. Report!Entry(i).minutes = e - s
    BY <2>1, <2>3, <2>4, <2>5, WholeMinutes
  <2> QED BY <2>3, <2>6, <2>7, <2>8
<1>4. Report!SumFunction(lasts) = SumOf(kept)
  <2>1. DOMAIN lasts = kept
    OBVIOUS
  <2>2. IsFiniteSet(kept)
    BY <1>1, ConfirmedFinite, FS_Subset
  <2> HIDE DEF lasts, kept
  <2>3. Entries!SumFunctionOnSet(Minutes, kept) = Entries!SumFunctionOnSet(lasts, kept)
    BY <2>2, <1>3, SameFinite, Entries!SumSame
  <2> QED BY <2>1, <2>3, SameSum DEF SumOf
<1> HIDE DEF in, kept, cut
<1>5. /\ SumOf(in) = SumOf(kept) + SumOf(cut) /\ Report!MinutesOf(cut) = SumOf(cut)
      /\ SumOf(kept) \in Int /\ SumOf(cut) \in Int
  BY <1>1, SumApart, MinutesSum
<1>6. Report!FlatTotal(Report!FlatLines) - Report!MinutesOf(cut) = Report!SumFunction(lasts)
  BY <1>2, <1>4, <1>5
<1> QED BY <1>6 DEF Report!AttestedIsReported, kept, cut

-----------------------------------------------------------------------------

(***************************************************************************)
(* The composition.                                                        *)
(***************************************************************************)

SettingsInv == CatalogInv /\ ScheduleInv /\ TemplatesInv /\ PeriodsInv /\ ReportInv

LEMMA InitSettings == ASSUME SettingsInit PROVE SettingsInv /\ Work!Kept!Init
  BY InitCatalog, InitSchedule, InitTemplates, InitPeriods, InitReport, SettingsAssumption DEF SettingsInit, SettingsInv

LEMMA CatalogSteps ==
  ASSUME CatalogInv, [SettingsNext]_settings
  PROVE  CatalogInv' /\ [Next]_vars
<1>1. [Next]_vars
  BY DEF SettingsNext, CatalogStep, ScheduleStep, TemplatesStep, PeriodsStep, ReportStep, settings
<1> QED BY <1>1, NextCatalog

LEMMA ScheduleSteps ==
  ASSUME ScheduleInv, [SettingsNext]_settings
  PROVE  ScheduleInv' /\ [Work!Kept!Next]_(Work!Kept!timetable)
<1>1. [Work!Next]_(Work!vars)
  BY DEF SettingsNext, CatalogStep, ScheduleStep, TemplatesStep, PeriodsStep, ReportStep, settings, schedule, Work!vars
<1> QED BY <1>1, ReplaceKeeps, ExceptionKeeps, StutterKeeps DEF Work!Next

LEMMA TemplatesSteps ==
  ASSUME TemplatesInv, [SettingsNext]_settings
  PROVE  TemplatesInv' /\ [Layouts!Next]_table
<1>1. [Layouts!Next]_table
  BY DEF SettingsNext, CatalogStep, ScheduleStep, TemplatesStep, PeriodsStep, ReportStep, settings
<1>2. CASE table' = table
  BY <1>2 DEF TemplatesInv, Layouts!Existing
<1> QED BY <1>1, <1>2, TemplatesStepKeeps

LEMMA PeriodsSteps ==
  ASSUME PeriodsInv, [SettingsNext]_settings
  PROVE  PeriodsInv'
<1>1. [Pay!Next]_(Pay!vars)
  BY DEF SettingsNext, CatalogStep, ScheduleStep, TemplatesStep, PeriodsStep, ReportStep, settings, period, Pay!vars
<1> QED BY <1>1, EnsurePeriods, OthersPeriods DEF Pay!Next

LEMMA ReportSteps ==
  ASSUME ReportInv, [SettingsNext]_settings
  PROVE  ReportInv'
<1>1. [Report!Next]_report
  BY DEF SettingsNext, CatalogStep, ScheduleStep, TemplatesStep, PeriodsStep, ReportStep, settings
<1> QED BY <1>1, ReportStepKeeps

(* The inductive invariant of the settings: what a delete or an archive has *)
(* checked still holds when it writes, the schedule versions are apart,     *)
(* every stored template is delimited as its format says, and all periods   *)
(* lie on the grid of the first (category.go, work_schedule.go,             *)
(* export_template_crud.go, period.go).                                     *)
THEOREM SettingsInvariant == SettingsSpec => []SettingsInv
<1>1. SettingsInit => SettingsInv
  BY InitSettings
<1>2. SettingsInv /\ [SettingsNext]_settings => SettingsInv'
  BY CatalogSteps, ScheduleSteps, TemplatesSteps, PeriodsSteps, ReportSteps DEF SettingsInv
<1> QED BY <1>1, <1>2, PTL DEF SettingsSpec

(* Once there is a default gap there is exactly one, through every create,  *)
(* update, delete and archive, until an update makes an archived category   *)
(* the default; and the flag stays on exactly one category (category.go,    *)
(* and GetDefaultGapCategory).                                             *)
THEOREM DefaultGapKept == SettingsSpec => DefaultGapStays
<1>1. SettingsInv /\ [SettingsNext]_settings =>
        [/\ DefaultGap # {} => \/ Cardinality(DefaultGap') = 1
                               \/ \E i \in Flagged' \ Flagged : row[i] # NoRow /\ row[i].archived
         /\ Flagged # {} => Cardinality(Flagged') = 1]_vars
  <2> SUFFICES ASSUME CatalogInv, [Next]_vars, Flagged # {}
               PROVE  /\ DefaultGap # {} =>
                           \/ Cardinality(DefaultGap') = 1
                           \/ \E i \in Flagged' \ Flagged : row[i] # NoRow /\ row[i].archived
                      /\ Cardinality(Flagged') = 1
    BY CatalogSteps DEF SettingsInv, DefaultGap
  <2>1. PICK c : Flagged = {c}
    BY DEF CatalogInv, OneFlagged
  <2>2. PICK d : Flagged' = {d}
    BY <2>1, NextCatalog
  <2>3. CASE ~row'[d].archived
    <3>1. DefaultGap' = {d}
      BY <2>2, <2>3 DEF DefaultGap
    <3> QED BY <2>2, <3>1, FS_Singleton
  <2>4. CASE row'[d].archived
    <3>1. d \in Existing /\ row[d].archived
      BY <2>2, <2>4, FlaggedKeepsArchived
    <3>2. ASSUME DefaultGap # {} PROVE d \notin Flagged
      BY <2>1, <3>1, <3>2 DEF DefaultGap
    <3> QED BY <2>2, <3>1, <3>2, FS_Singleton DEF Existing
  <2> QED BY <2>3, <2>4
<1> QED BY SettingsInvariant, <1>1, PTL DEF SettingsSpec, DefaultGapStays

(* A delete strips only what was assigned while it counted                  *)
(* (DeleteCategory, DeleteProject).                                        *)
THEOREM DeleteStripsNoCounted == SettingsSpec => DeleteStripsNothing
<1>1. SettingsInv /\ [SettingsNext]_settings =>
        [\A i \in Existing \ Existing' : refs[i] \subseteq call.since]_vars
  <2> SUFFICES ASSUME CatalogInv, Next, NEW i \in Existing \ Existing'
               PROVE  refs[i] \subseteq call.since
    BY CatalogSteps DEF SettingsInv, vars
  <2>1. DeleteWrites /\ i = call.item
    BY OnlyDeletesRemove
  <2>2. Under("delete") /\ Unread = {}
    BY <2>1 DEF DeleteWrites, Unread
  <2> QED BY <2>1, <2>2 DEF CatalogInv, Accounted
<1> QED BY SettingsInvariant, <1>1, PTL DEF SettingsSpec, DeleteStripsNothing

(* The schedule implements the timetable: replacing it leaves the expected  *)
(* time of every earlier date as it was and gives every later one the day   *)
(* of the new week (ReplaceActiveWorkSchedule, ExpectedTimeForDate).        *)
THEOREM TimetableKept == SettingsSpec => KeepsTimetable
<1>1. SettingsInit => Work!Kept!Init
  BY InitSettings
<1>2. SettingsInv /\ [SettingsNext]_settings => [Work!Kept!Next]_(Work!Kept!timetable)
  BY ScheduleSteps DEF SettingsInv
<1> QED BY SettingsInvariant, <1>1, <1>2, PTL
        DEF SettingsSpec, KeepsTimetable, Work!KeepsTimetable, Work!Kept!Spec

(* Every template renders, delimited as its format says, whatever formats   *)
(* and bodies it was given and copied with, but for texts that are accepted *)
(* though their actions fail on a report (renderExportTemplate,             *)
(* renderTextSummary, normalizeExportBody).                                *)
THEOREM TemplatesRender == SettingsSpec => []Renderable
<1>1. SettingsInv => Renderable
  BY InvRenders DEF SettingsInv, Renderable
<1> QED BY SettingsInvariant, <1>1, PTL

(* A copy of a template renders as its original, or fails as it does        *)
(* (DuplicateExportTemplate).                                              *)
THEOREM CopiesRenderAlike == SettingsSpec => CopyRendersAlike
<1>1. SettingsInv /\ [SettingsNext]_settings =>
        [\A n \in Layouts!Existing' \ Layouts!Existing : \A k \in Layouts!Existing :
           Layouts!DuplicateExportTemplate(k) =>
             Layouts!Rendered(n, table'[n]) = Layouts!Rendered(k, table[k])]_table
  BY CopyAlike DEF SettingsInv
<1> QED BY SettingsInvariant, <1>1, PTL DEF SettingsSpec, CopyRendersAlike, Layouts!CopyRendersAlike

(* Whatever the days on which periods are created and the cadence set       *)
(* between, no day is in two of them (EnsureCurrentPeriod).                 *)
THEOREM PeriodsAreDisjoint == SettingsSpec => []PeriodsDisjoint
<1>1. SettingsInv => PeriodsDisjoint
  BY PeriodsApart DEF SettingsInv, PeriodsInv, OfOneCadence, PeriodsDisjoint, Pay!PeriodsDisjoint
<1> QED BY SettingsInvariant, <1>1, PTL

(* The period returned is that of the day asked for, and has a time zone    *)
(* (EnsureCurrentPeriod, ensurePeriodTzSegment).                            *)
THEOREM ReturnedUsable == SettingsSpec => []ReturnedIsUsable
<1>1. SettingsInv => ReturnedIsUsable
  BY DEF SettingsInv, PeriodsInv, ReturnedIsUsable
<1> QED BY SettingsInvariant, <1>1, PTL

(* The matrix, the flat and the detail report of a period give a category   *)
(* the same time, up to the entries dated outside the period                *)
(* (renderMatrixTabular, renderFlatRollupTabular, renderDetailTabular).     *)
THEOREM ReportsOfPeriodAgree == SettingsSpec => []ReportsAgree
<1>1. SettingsInv => ReportsAgree
  BY InvAgrees DEF SettingsInv, ReportsAgree
<1> QED BY SettingsInvariant, <1>1, PTL

(* What was confirmed is reported to the minute: each entry of at least the *)
(* least block that stays within a date counts with its length              *)
(* (timeEntryToExportEntry, BuildPeriodExport).                             *)
THEOREM ConfirmedIsReported == SettingsSpec => []AttestedIsReported
<1>1. SettingsInv => AttestedIsReported
  BY InvReported DEF SettingsInv, AttestedIsReported
<1> QED BY SettingsInvariant, <1>1, PTL
=============================================================================
