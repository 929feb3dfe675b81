# clockr: a verification development

clockr is a desktop timesheet. It pulls calendar events of a pay period, proposes a
draft time entry for each meeting, lets the user confirm, reject, split and edit entries,
flags what it cannot decide in a review queue, and exports the confirmed time. A small
hosted broker does the OAuth exchanges that need a client secret. The modules here model
its core logic in TLA+; TLC checks them on small instances, TLAPS proves what matters most
for every instance. Source paths below are relative to `src/internal/` unless they start
with `src/`.

## Inventory

| component | state | operations | what makes it correct | module |
|---|---|---|---|---|
| calendar sync merge (`service/sync.go`, `sync_materialize.go`) | tables `event`, `time_entry`, `review_item`, overlays | `SyncEvents` | never loses an attested entry, a category or a decision; proposes each meeting once; idempotent | SyncReview |
| review policy (`service/review_policy.go`, `review.go`, `exclude_event.go`, `all_day_convert.go`) | `review_item`, `event_status_overlay`, `event_category` | enqueue, replay, resolve, exclude, convert | every open item can be closed; a decision is applied once | ReviewPolicy |
| time entries (`service/time_entry.go`, `time_entry_confirm.go`) | `time_entry` | create, update, delete, confirm, reject, adjust, split | attestation moves draft to confirmed or dismissed only; no minute confirmed twice unless asked | TimeEntries, ConfirmFlow |
| interval algebra (`splitAround`, `subtractInterval`, `splitAtLocalMidnights`) | none | pure | partitions of instants | Intervals |
| gaps (`service/gaps.go`) | none | `ComputeGaps` | gaps are the uncovered working instants, each counted once | Gaps |
| calendar pull and selection (`service/calendar_sync.go`) | `calendar`, `event.active` | `SyncPeriod`, `SetCalendarSelected` | what was there to see is stored; what is selected is shown | CalendarPull |
| pay periods (`service/period.go`) | `period`, `tz_segment`, the cadence setting | `EnsureCurrentPeriod` | no day is in two periods | Periods |
| work schedules (`service/work_schedule.go`, `expected_time.go`) | `work_schedule` with days and windows, `schedule_exception` | replace, except, `ExpectedTimeForDate` | the past keeps its plan, each later date has one | Schedule |
| categories and projects (`service/category.go`, `project.go`) | their tables, and references to them | create, update, delete, archive | one default gap, unless an archived one is chosen; nothing in use is deleted | Catalog |
| export templates (`service/export_template_crud.go`, `export_tabular.go`) | `export_template` | create, update, delete, duplicate, render | every stored template renders in its format, unless its text misuses the report | Templates |
| period report (`service/export.go`, `export_tabular.go`) | none | `BuildPeriodExport`, three renderers | the groupings agree, with each other and with what was confirmed | Export |
| hosted broker (`broker/httpapi`, `broker/store`) | OAuth states, handoffs, audit rows | start, callback, exchange, refresh, revoke | a handoff is given out once, to the client that began it | OAuthBroker |
| desktop OAuth (`integration/oauth`) | a loopback listener, channels, handlers | `BrokerFlow.Authorize`, `Flow.Authorize` | the attempt ends, with its own tokens or none, unless a request of it hangs | OAuthBroker, LocalFlow |
| connections and tokens (`integration/connection`, `httpclient`, `secrets`, four providers) | keychain, `integration_connection`, resources | connect, disconnect, list, select, fetch, refresh | the three stores agree; every request ends | Connections |
| evidence providers | none | `FetchEvidence` | a failure touches nothing else | Connections (as calls) |
| rate limiter, AI client, configuration, logging, app bindings, schema, frontend | buckets, caches | calls out, formatting | see *Not modelled* | |

How they interact: the frontend calls the service through the application bindings, each
call on its own goroutine. Every service call is one SQLite transaction or a sequence of
single statements; SQLite admits one writer. `SyncPeriod` fetches from the provider with no
transaction open and hands the events to `SyncEvents`, whose whole merge is one
transaction. Providers get tokens from the keychain through the HTTP client, which
refreshes an expired token at the broker or the provider. The broker keeps OAuth states and
handoffs in its own SQLite file, and the desktop collects a handoff once the browser
redirected back. The report reads the confirmed entries of a period, with the categories
and templates of the settings pages.

What is hard to test is listed, each at its line, under `hazards` in `PROJECT.json`:
decisions that interact over several syncs, rows read once and used during a merge that
rewrites them, cascading deletes, statement interleavings of two calls, one-shot handoffs
and retries, two refreshes at once, a refresh racing a disconnect, a selection racing a
pull, half-open boundaries of instants, dates and periods.

## Modules

```
Intervals ─┬─ Gaps ── MCDay
           ├─ TimeEntries ─┬─ ReviewPolicy ── SyncReview ── MCSyncReview
           │               └─ ConfirmFlow ──┐
           └─ Export ───────────────────────┴─ MCConfirmFlow

OAuthBroker (implements OneShotHandoff) ─┬─ MCHandoff
LocalFlow ───────────────────────────────┘

Connections ── MCConnections          CalendarPull ── MCCalendarPull

Catalog, Templates, Periods, Export,
Schedule (implements Timetable) ── Settings ── MCSettings

TimeEntriesProofs ── SyncReviewProofs, ConfirmFlowProofs, DayProofs, SettingsProofs
OAuthBrokerProofs, ConnectionsProofs, CalendarPullProofs
```

**Intervals** is the half-open interval with the service's pure operations on it. An
optional interval of the code (a nil pointer) is a set of at most one interval.

**Gaps** is `ComputeGaps` for one day. Its state is the input of the computation: windows
chosen at the start and spans of events and entries added in every order. `Timeline`
follows the code: the windows are united, the spans clipped to each of them and united, and
each window is walked with a cursor. `Merge` and `Walk` are the bodies of the two loops and
the steps of folds, the first over the intervals in the order of their starts; `GapsOf` is
the loop over the windows. (The fold over a set takes the interval that starts last, adds it
to what the others came to, and so goes through them from the first on.)

**TimeEntries** is the `time_entry` table as a function from row ids to rows, and the
statements that change it. Row ids are interchangeable and reused; their number bounds the
rows that exist at once.

**ReviewPolicy** adds the event table, the two overlays and the review queue, in one record
`d` for a database. Each operation of `review_policy.go` is an operator on databases; one
that inserts rows or can fail gives the set of databases it may lead to, and the empty set
for an error, on which the caller's transaction rolls back. A *fact* is what the calendar
says of an event (title, response, all-day, span); its source hash is the fact itself, as
`sourceHash` covers all of these fields. A conflict key is the triple of a review kind and
what the kind adds to it.

**SyncReview** is the system: `db` is the committed database, `sync` the running sync or
`NoSync`. `SyncBegin` takes the reads at the head of `SyncEvents` (stored events and time
entries) and an arbitrary pull. `MergeNew`, `MergeUnchanged`, `MergeChanged` are the three
branches for a pulled event and include the draft materialisation each ends in;
`MergeVanished` is the loop over stored events the pull does not have. Events are merged in
any order. `SyncCommit` publishes, `SyncAbort` is any error or a crash. The snapshot
`sync.snap` is the slice of entries the code keeps during the merge, to which
`createDraftFromEvent` appends. The user's calls are one action each, with all side effects;
they happen when no sync runs, since a writer waits for the sync's transaction, and a sync
that has read but not yet written when a user writes loses its snapshot (SQLITE_BUSY), which
is `SyncAbort` followed by the call.

**ConfirmFlow** is the time entry service by itself, at a finer grain. `entries` is the
table; `call` holds, per call in flight, what it has read (the draft's span, later the spans
of the overlapping confirmed rows) and the rows `keep_mine` has yet to delete; `answer` is
how each call last ended. `Begin` is the read every call starts with, `ListOverlaps` the
second read of `ConfirmTimeEntry`; after it one of `KeepTheirs`, `ConfirmAroundOverlaps`,
`ConfirmInPlace`, `ConfirmSplitAtMidnight` or `RefuseConfirm` applies, and `DeleteTheirs` is
one round of the loop before them. What the code runs in one transaction is one step
(`Replace`), what it runs as single statements is one step each, and `Interrupt` may come
between any two. A write to a row that has gone fails and rolls back, as the statement
returns no row. Days are `DayLength` instants long, so drafts cross midnight.

**OneShotHandoff** says what the broker promises: a grant is opened by one attempt, consented
to, sealed, and released at most once, to that attempt; at any time before its release it may
lapse; an answer may get lost.

**OAuthBroker** is how that is brought about. `attempt` is each `BrokerFlow.Authorize`: its
phase, its loopback port, the state it expects, the contents of `codeCh` and `errCh`, and
the tokens it was given. `states` and `handoffs` are the broker's two tables, `working` the
callbacks that have consumed a state and not yet saved a handoff, `pages` and `links` what
the browser may load, at any time and any number of times. `StartAuthorization` and
`StartReturns` are apart because the listener is open, and takes any state, before the
start response names one. `ConsumeOAuthState` and `ConsumeHandoff` are transactions in the
code and one step here. A port is taken again when its listener is gone, so an old link can
reach a later attempt. `StageOf` maps the two tables to the stages of `OneShotHandoff`.

**LocalFlow** is the same for credentials of the user's own (`flow.go`): no broker, but one
goroutine per redirect and one around the server, all of which talk to `Authorize` over
channels of one element. A send to a full channel blocks (`SendError`, `SendCode`,
`SendServeError` are not enabled), except where the code has a `default`
(`SendCallbackResult`). The first of the time limit, an error and a code that the `select`
comes upon decides.

**Connections** is one account of one of the four providers. `keychain`, `row` and
`known`/`selected` are the three stores; `grants` is what the provider remembers: the last
access token issued, which of them have run out, the refresh token it accepts, whether the
user withdrew the grant, and, as a history, whether an answer with a new refresh token was lost. A call is the list of the steps it has left. Each operation of each
provider is such a list, in the order of its code, and each step is one action: a keychain
access, a statement, a request. `Fail` is what the operation does about a failed step
(`Recovery`): take the token out again, disconnect, go on, or return. A request runs through
`LoadToken`, `Send`, `RefreshToken`, `PersistToken` and `MarkNeedsReauth`, which are
`httpclient.Client.Do`; refresh tokens rotate or not, and Google's local token source hands
back a token that has not run out. `Exchange` is the provider's side of a refresh, and says
whether its answer arrives: one that does not is a failure like any other to the client, while
the provider has acted. `Fault` is a failed write, `Restart` ends the application
between any two steps and may start it in the other `auth_mode`.

**CalendarPull** is `SyncPeriod` request by request: for each account its list of
calendars, the selection read anew, one fetch per selected calendar, then `SyncEvents` as
one step and the stamp. Of an event it knows whether it is stored, shown, and kept by a
category, an entry or an exclusion. `SetCalendarSelected` is its two UPDATEs. `steady`,
`torn` and `raced` are history: what was there to see since the pull began, and which
toggles were cut short or overlapped a pull.

**Catalog** is categories and projects. `Flagged` is the category with `is_default_gap` set,
`DefaultGap` what `GetDefaultGapCategory` finds: the same, unless it is archived. Creating and updating are transactions and one step;
deleting and archiving read first (`DeleteBegins`, one `CountReferences` per query,
`ArchiveBegins`) and write later, while a sync or an edit may `Assign`. One call of the
settings page runs at a time, as the page disables its buttons meanwhile
(`CategorySettings.tsx:187-191`, `ProjectSettings.tsx:144-147`).

**Timetable** says what a work schedule promises: each date has a plan and perhaps an
exception, a new week leaves every earlier date alone. **Schedule** is how it is kept, as a
set of versions over half-open ranges of dates; `Closed` is
`UpdateWorkScheduleEffectiveTo`, `Disjoint` the triggers of the table.

**Templates** is the table of export templates by key. A body is a member of a small set:
blank, prose, text with an open action, text whose actions fail on a report, or a tabular
spec, good and bad ones. `ValidBody` is what `normalizeExportBody` accepts, which parses a
text, and `Stored` what it makes of a body; `Rendered` is the layout a row is rendered with,
with the fallback of builtin templates, or `Fails`, as a text is parsed and executed.

**Periods** is `EnsureCurrentPeriod` in its two halves, the row and the time zone. Days are
numbers; the months are given. `Remainder` is Go's, with the sign of the dividend.

**Settings** puts Catalog, Schedule, Templates, Periods and the report side by side: a call
of the settings pages changes one of them at a time, and they share no row.

**Export** is the report: `Exported` is `timeEntryToExportEntry`, in minutes, and
`PeriodTotals`, `DailyTotals`, `MatrixCell` and `FlatLines` are the aggregates and the cells
that the renderers print.

Definitions headed *Mutant* are variants of the definition that follows them with a
plausible bug. No specification uses them; the checks put them in place of the original
to see that a property notices.

### What is abstracted

- Time is a handful of instants. Titles are opaque; `normalizeTitle` is part of the pull.
- `tentative` also stands for `needsAction`; the code treats both alike.
- `resolved` and `dismissed` review items are one status, *decided*: nothing tells them apart.
- Whether memory, a calendar default or the AI categorizes a new event is a free choice.
- The fingerprint in a `new_in_gap` key is left out. Items are looked up by key only for new
  events, and a new event has no items (`ON DELETE CASCADE`), whatever the key is.
- One period, one timezone, no daylight saving; the same event is not listed twice in a pull.
- In `SyncReview`, `ConvertAllDayEvent`, which runs outside a transaction, and
  `ConfirmTimeEntry` are one step; `ConfirmFlow` has the latter statement by statement.
- In `OAuthBroker`, random values (session, verifier, state, handoff code) never collide, and
  the session and the challenge are told by the attempt. One provider. Kill switches, rate
  limits and every other refusal before a handler touches a table are `StartFails` or
  `ExchangeFails`. Time is a flag per row that turns on at some point.

- In `Connections`, an access token is the generation of its grant it was issued with. A
  kind of resource stands for all rows of that kind. Calls to the provider made with a token
  that is still good may fail for any other reason (`Unanswered`).
- In `CalendarPull`, whether an event is in the period is part of what Google has, and the
  merge is what it does to presence and visibility; the rest of it is `SyncReview`.
- In `Catalog` a key stands for the name as well, as both are unique; colours, descriptions
  and sort orders are left out, as are time zones in `Schedule`, text templates beyond
  whether they parse and execute, and columns and escaping in `Export`.

## Checks

| run | instance | shows |
|---|---|---|
| `day` | 6 instants, two windows (any, also overlapping or empty), up to 3 spans | gaps are the rest, hours add up, filling opens no gap; `splitAround`, `subtractInterval` and `splitAtLocalMidnights` partition instants, into pieces that are not empty but for one (`CutsPartition`) |
| `sync` | one event in six scenarios (below), up to 3 rows | the inductive invariant, attested rows survive, each proposed meeting that is not declined is accounted for with the pulled revision, drift is raised, open items are closable, rejection sticks, nothing is proposed twice, excluded events have no draft, a second sync changes nothing, a categorized event is never dropped in silence, decisions survive |
| `sync_forgets_decision` | an event that is answered this way and that, 1 row | violated: `DESIGN.md:146` |
| `sync_rejoins_split` | a moving event, 3 rows | violated: `DESIGN.md:42-43` |
| `confirm` | 4 rows, two days of 3 instants, drafts within a day and across midnight, 1 call | no minute is confirmed twice unless asked, drafts are confirmed whole, an interrupted call unconfirms nothing else, pieces stay within their day |
| `confirm_refused` | as `confirm` | violated: `time_entry_confirm.go:20` |
| `report_clips_overnight` | as `confirm`, with its ledger reported | violated: `timesheet-domain-gap-analysis.md:89` |
| `handoff` | 2 attempts, states, codes and ports; or one local attempt with 3 redirects | the inductive invariant, tokens are in one place, only the owner spends a handoff, `OneShotHandoff` is implemented, every attempt of either flow ends unless a request of it hangs |
| `connections` | 2 calls, 2 grants of 2 access tokens, 1 retry, 1 fault, each provider and mode | the stores agree, the refresh token is kept up to answers that are lost, the selection is the user's, every call ends |
| `calendars` | 2 calendars (one primary) with an event each, 2 accounts | what was there to see is stored, what is selected is shown |
| `deselect_deletes` | as `calendars` | violated: `calendar_sync.go:127` |
| `settings` | 2 categories, 1 project, 2 keys; 3 dates in weeks of 2; 6 template keys, 10 bodies; 7 days in 2 months; 2 entries in a report of 2 days | one default gap unless an archived category is chosen, deletes strip nothing, the timetable is kept, templates render (but texts that misuse the report) and copies alike, periods are disjoint, the period returned is usable, reports agree and show what was confirmed |

`sync` checks the inductive invariant of the proofs, `MergeInv`, and `handoff` that of the
broker; the other inductive invariants are in the proof modules.

Bounds. The policy looks at one event at a time, through its own rows, overlays and items,
and at other rows only for overlap; user entries provide those. So one event is enough for
the properties, and each scenario of `sync` (`Scenarios` in MCSyncReview, chosen once in the
initial state) varies one aspect of it: *changed* moves the event and makes it all-day,
*answered* runs through the responses, *undecided* and *declined* through two of them with
a second row, *renamed* renames and declines it, *cut* sets it amid
user entries. One row holds a draft through its life; two let a confirmed or dismissed row
stand beside a new draft; three let a draft be replaced by two pieces. Every interval
relation that `Overlaps` and `SplitAround` distinguish occurs in *cut*. In `day` six instants
hold two windows and three spans in every relative position, touching and nested included.

In `confirm` four rows hold a draft, an entry on either side and the pieces that replace the
draft when it is cut once and then at midnight; a confirmation that needs more rows than are
left can only be interrupted. The draft across midnight ends inside the second day, so it is
cut around entries before, at and after the midnight. One call is in flight at a time. In
`handoff` two attempts are enough for one to take the other's port, link or place; two states
and two codes let each of them finish. Three redirects fill both channels of the local flow
and leave one that is stuck.

In `connections` two calls make every race there is between two requests, or between a
request and a connect or disconnect; a second grant lets the account be reconnected while an
old token is in use; a second generation is a refresh, and two calls that both want it
compete for it. `maxRateRetries` is 1 instead of 3: a request then still sees a retry, a
refresh, both, and the end of its rounds. Where a Bitbucket token came from is nothing the
code looks at, so it is checked in one `auth_mode`. In `calendars` the second account lets
one pass and the other fail, the second calendar be toggled while the first is read. In
`settings` the parts share no row, so each is checked with the others at rest. Two categories
compete for the default gap and one key; three dates in weeks of two hold two replacements
and a weekday that comes twice; among the templates are all builtins, a chain of two numbered
keys and a body of each kind and fault; the days lie before, on and after the first, in both
halves of two months; the entries of the report are shorter than a block, end at midnight,
cross it and lie outside the period. Row ids, calls, accounts, categories and catalog keys
are symmetric in the runs that say so.

Fairness. `SyncReview`, `Gaps`, `ConfirmFlow`, `CalendarPull` and the parts of `settings`
assume none: what is stated of them is safety, and a sync or a call may end at any point.
`OAuthBroker` assumes that an attempt that waits stops waiting (`WF` of `WaitFails \/
WaitGetsCode`), since the wait has a limit (`brokerAuthTimeout`) and the desktop keeps running.
Nothing is assumed of its two requests to the broker: both run under the context of the caller
and the default HTTP client, neither of which has a deadline, so `AuthorizeReturns` says that
an attempt ends or is in a request for ever. `LocalFlow` assumes that `Authorize` goes on
while it is not exchanging its code, and that a goroutine whose send or receive is possible
makes it, as the Go scheduler does; its exchange may hang too. `Connections` assumes none:
`CallsEnd` is an action property, a measure that every step of a call lowers, so that a call
whose requests end returns. Nothing is assumed of the user, the browser, the provider, the
broker's callback or the clock.

`day` stops when it has `MaxSpans` spans, `handoff` when all attempts have ended and all rows
are used up, the report of `settings` when its entries are recorded; every other run checks
deadlock.

### What the violated runs show

- *A decision can be forgotten.* A decided event without a category that leaves the pull is
  deleted, and the cascade takes its review items; when it returns it is asked about again.
- *A split is undone into an overlap.* The pieces of a split draft both keep the event as
  source, and its next change gives both the whole span.
- *A refused confirmation has deleted.* `keep_mine` removes the overlapping confirmed
  entries, one statement each, before the overnight policy is looked at; when that is missing
  (or given where none is due) the call is refused and the entries are gone.
- *Deselecting deletes.* The next pull no longer asks for a deselected calendar and takes its
  events for vanished; those without a category, entry or exclusion are deleted, and
  reselecting has nothing to restore.
- *Overnight work is clipped.* A draft confirmed across midnight with `attribute_to_start` is
  reported up to midnight only; what came after it is in no total.

### Observed while modelling, with no run of their own

Entries and review. Two calls at once are outside what the repository promises: a
confirmation whose overlaps were read before another entry was confirmed confirms the same
minute twice, and a reject that read a draft dismisses the entry another call has confirmed
since, as no write repeats the check of the attestation. A declined meeting gets a draft
(`draftEligible` and `OnNewEvent` do not look at `declined`; compare `DESIGN.md:40`, "Declined
→ excluded"); `MeetingsAccounted` asks nothing about declined meetings. A
confirmed meeting that becomes an all-day event opens `source_drift`, whose first two actions
then fail (compare `review_decision_test.go:190`). `splitAround` returns an empty overlap
portion for a gap that ends where the event starts (`review_policy.go:850`), though its
comment says that each portion is non-empty (`review_policy.go:844-845`): `CutsPartition`
says that this one piece is empty, in this one case; a span that ends
exactly at midnight is asked for an overnight policy (`time_entry_confirm.go:349`); a draft
confirmed after its event became all-day lags it and no later sync says so
(`review_policy.go:260`); dismissed rows still cover gaps (`gaps.go:40`); a drift answered
about a vanished event is reopened by every later sync.

Requests and tokens. `client.go:48-49` says that a 401 is followed by one refresh and one
retry; a 401 in the last round is refreshed, and its token stored, but not retried. Any
failure of a refresh, a broker that is down included, flags the account `needs_reauth`; so
does a request that read the old token before the account was reconnected, or that lost the
race for a rotated refresh token. When the provider has rotated the refresh token and the
answer is lost, the keychain keeps the spent one though no write has failed
(`httpclient/client.go:108-118`, `bitbucket/broker_flow.go:74-77`): the request flags the
account, and only connecting again helps (`RefreshTokenKept` excepts it). A connect that
writes its row after such a refresh of the token it has just stored leaves the account
"connected" with the spent token. A refresh that is answered after a disconnect stores its
token again, without a row (`StoresAgree` excepts it). Revocation of a Google token goes by
the mode the application runs in, not by where the token came from as
`secrets/store.go:18-19` intends. The requests for the user of a new token, and those to the
broker, have no timeout of their own.

Connecting. GitHub, Slack and Bitbucket disconnect when their resources cannot be listed, so
that a reconnect that gets that far and fails takes the account and its selection with it; a
failed `Upsert` on a reconnect deletes the token and leaves the old row "connected". Google
leaves the token and the row as they are. With two Google accounts each one's token is used
for all selected calendars, so a calendar that one of them cannot read fails the whole pull.
In the local flow one redirect with another state ends the attempt, and handlers blocked on
a full channel outlive it.

Calendars. A pull that fetched a calendar before it was deselected and merges afterwards
leaves its new events shown (`raced`).

Settings and report. The cadence setting is ignored once a period exists (`period.go:94`,
compare the description at `GeneralSettings.tsx:136`). `UpdateCategory` makes an archived category
the default gap when asked (`category.go:123-129`), as the settings page lets the user do
(`CategorySettings.tsx:356-365`): `GetDefaultGapCategory` then finds none, though
`category.go:131` says "exactly one default-gap category is required" (`DefaultGapStays`
excepts that step). A text template whose actions fail on a report, such as one that names a
field the report does not have, is accepted when it is saved
(`export_template_crud.go:263-272`, which parses it) and fails at every export
(`export.go:293-295`, which executes it); `Renderable` excepts it. Two calls at once, which the settings page prevents, could leave none. An
exception is ignored on a date without a schedule in force. Entries shorter than a block are
reported as 15 minutes; entries dated outside the period count in `ActualMinutes` and
`PeriodTotals` but on no day; a user's category with the key `Unassigned` merges with the
unassigned entries in every rollup.

## Proofs

Each proof module has one lemma per operation or action, and one that puts them together.
What is proved holds for every value of the constants that the named assumptions allow:

- `FactsAssumption`, `SpansAssumption`, `NullsAssumption`, `NoRowAssumption`,
  `NoSyncAssumption`, `NamesAssumption`, `BrokerAssumption`, `ConnectionsAssumption`,
  `CalendarsAssumption`: the types of the constants, and that a null value is none of the
  values it stands beside.
- `GapsAssumption`, `DayAssumption`: a day has a length, the horizon is a number.
- `ConfirmFlowAssumption`: spans are not empty, and those the user types in are within a
  day, as `timeEntrySpan` insists (`time_entry.go:162-171`).
- `SettingsAssumption` joins those of the five parts: months contain their days, do not
  overlap and are longer than their first half; a week has days; the builtin templates are
  among the keys; the entries of a report are finitely many and none is empty, as
  `timeEntrySpan` insists.

TLC evaluates every one of them in a run.

**TimeEntriesProofs** has what the others share. An interval less a set of others
(`Remainders`) has exactly the instants that none of them has, in pieces that are not empty
and do not meet; the pieces of an interval at the midnights likewise, each within a date. The
definition of `Remainders` picks its pieces by their bounds; to find the piece of an instant
one needs the last cut that ends before it and the first that begins after it, which is what
`LeastOf` and its mirror image are for. A second group of lemmas says what inserting,
attesting, moving and deleting rows makes of a table.

The third is about loops. The prover takes no lemma with an operator for a parameter, so what
is proved by induction is given as the *set* of what has the property (`NatInduct`,
`SetInduct`), and the step of a fold as a function. `FoldExists` shows that the recursive
equation by which the community modules define a fold has a solution, of the type of its
base and steps; without it nothing at all follows from the definition. `SumsUp` is the
equation of a sum, with any element taken out first (`SumTake`: the order does not matter);
`SumUnion` and `SumParts` add up over disjoint parts, one or many.

**SyncReviewProofs**, for every set of events, titles, facts, spans and rows. First, every
operation of `ReviewPolicy` takes a good database (`DbOK`) to good databases: well typed, no
review item without its event, and no decided drop or keep on an event that still has a
category. Then two invariants:

- `SyncInvariant`: `Spec => []SyncInv`. `TypeOK` is not inductive: that a sync never works on
  rows that are not what it read needs `SnapshotFaithful`, and that needs to know that no
  merge step rewrites rows other than its own drafts, hence that no replayed decision deletes
  or trims rows behind the snapshot. That in turn is `ItemsHaveEvents` (a new event has no
  items, so there is no decision to replay) and `CategorizedUndecided`. So the replay branches
  of `OnNewEvent`, `OnChangedCategorized` and `OnVanishedCategorized` are unreachable; the
  proof depends on the cascade in migration 00025 and on both decisions removing the category.
- `MergeInvariant`: `Spec => []MergeInv`. What a sync promises is about its end, so the
  invariant says for each event what the merge has left behind if it has visited it
  (`Visited`) and that everything is as it was read if it has not (`Unvisited`). It is
  preserved because a visit of an event changes the rows, items and overlays of that event
  alone (`OnlyRowsOf`, `SameOverlays`, `ItemsGrow`), so that visits neither undo nor
  anticipate one another, in whatever order they come.

From these: `TypeCorrect`, `EntriesSurvive` (`RowsSurviveSync`), `ProposesOnce`
(`NoDuplicateProposal`), `MeetingsAreAccounted` (`MeetingsAccounted`), `RejectionsStick`
(`RejectionSticks`), `ExcludedStaysHidden` (`ExcludedHasNoDraft`), `DriftIsRaised`
(`DriftRaised`), `NothingCategorizedIsDropped` (`NeverSilentlyDropped`), `DecisionsSurvive`
(`DecisionsSurviveSync`) and `SyncAgainIsIdle` (`SyncIsIdempotent`). `OpenItemsCanBeClosed`
(`OpenItemsCloseable`) is a case for each kind of item, and uses of the user's calls only
that they keep `DbOK`.

**ConfirmFlowProofs**, for every set of rows, spans and cut points and every length of the
day. `FlowTyped` (`TypedInv`: rows, calls and what their requests carry) holds with any
number of calls in flight. That a call still finds what it has read (`StillHolds`: its draft
where it was, the overlaps it listed, the part of them it has not yet deleted) is
`FlowInvariant`, and needs that one call runs at a time: the theorem has `OneAtATime` as its
hypothesis, since two confirmations at once do double-book (see *Observed*). It is what the
run assumes too. From it:

- `BooksOnce` (`NoDoubleBooking`): the pieces that are confirmed meet no confirmed entry and
  not one another, by `Remainders` for the overlaps and the midnight lemmas for the rest.
- `ConfirmedWhole` (`DraftTimeKept`) and `NothingUnconfirmed` (`ConfirmedTimeKept`): the
  instants confirmed before and after a step, computed from the rows it replaces.
- `WithinOneDay` (`PiecesWithinDay`), from `TypedInv` alone.

**DayProofs**, for days of every length, with any number of windows and spans in every
position. `CutsArePartitions`, `Spec => []CutsPartition`: the pieces of `splitAround` are not
empty but for the overlap of a gap that ends where the event starts; `CutOnce` shows that
`subtractInterval`, applied to one cut after the other, leaves the `Remainders` of all of
them, which is what lets the other modules say `Remainders` where the code has a loop. Then
`ComputeGaps`, loop by loop. For each, a lemma gives the fold as a run of its steps
(`UnionEquation`, `WalkRun`, `GapsRun`, `TotalRun`), one says what a step keeps, and induction
over the run joins them:

- `union` (`MergeKeeps`, `UnionMerges`): the result is a *chain*, intervals in order with time
  between them, of the same instants. That it meets the last interval only is enough because
  every start so far is at or before the next.
- `subtract` (`WalkKeeps`, `SubtractFromIs`): behind the cursor the pieces are what the
  occupied intervals so far leave of the window, ahead of it those take nothing
  (`FreeBehind`, `NothingAhead`). Each piece reaches to the end of the window or to the start of
  something occupied (`GapIn`). An interval away from the window is skipped; one that
  only touches it is not, and takes nothing.
- the loop over the windows (`GapsKeep`, `GapsOfIs`): windows are a chain themselves, so the
  pieces of one are apart from those of another.
- `totalHours` (`TotalIs`): of a chain it is the number of its instants.

From `TimelineIs`, which puts these together for windows and spans as a day has them
(`DayInv`, the invariant): `GapsAreFreeTime` (`GapsAreTheRest`), `HoursOfDayAddUp`
(`HoursAddUp`), since the working instants are the disjoint union of the other two, and
`FillingKeepsGaps` (`FillingOpensNoGap`), since a gap of the day with one span fewer that ended
inside a gap would end at the end of a window, and the next does not begin there, or where
something is occupied.

**OAuthBrokerProofs**, for every set of attempts, states, codes and ports:

- `BrokerInvariant`: `Spec => []BrokerInv`. `TypeOK` is part of it; the rest relates the
  parts: a callback at work has consumed its state and minted nothing (`WorkingConsumed`), a
  handoff comes from a consumed state, bound to its session, and is the only one
  (`HandoffsFromStates`), a session is of the one attempt its state answered
  (`OwnersBegan`), links lead to handoffs (`LinksLead`), and an answer was released from the
  attempt's own handoff (`AnswersReleased`). `OnlyOwnerSpends` completes it.
- `KeepsPromise`: `Spec => HandoffPromise`, step by step: `startAuthorization` is `Open`,
  the callback `Consent` and, when it saves, `Seal`, the exchange `Release`; expiry and
  failures are `Lapse` where the grant still could be released and stutter where not; an
  `Authorize` that fails is `Lose`. `HandoffsFromStates` is what makes `StageOf` a function
  of one row, and `OwnersBegan` what keeps an attempt from opening a second grant.
- `TokensOnce`, `OwnerSpends`, `BrokerTypeCorrect`, from the invariant.

**ConnectionsProofs**, for every number of calls, retries, grants and tokens:

- `CallsComeToEnd`: `Spec => CallsEnd`, with any faults. `Distance` is read as a triple: the
  steps ahead, the rounds left, the phase. Each step of a call lowers the first (it is done,
  fails, or is given up; what a failing connect rolls back is already counted), or keeps it
  and uses up a round, or keeps both and moves on in the phases. `Lexicographic` shows that
  the number orders calls as the triple does. The invariant `CallsInShape` says that a call
  in progress has steps left and is within its rounds.
- `SelectionSurvives`: `Spec => SelectionKept`, from the actions alone.
- `AccountInvariant`: `Spec => []AccountInv`, which holds until the first failed write. The
  stores disagree in the middle of every connect and disconnect, so the invariant has to know
  where each call is: `CallsPlanned`, that what a call has left to do is the rest of one of
  its provider's plans, with its steps in order, and that one call at a time is on the
  account (`IntegrationConnectShell.tsx` disables the rest). `StoresInv` then says which steps still ahead
  excuse which disagreement: a token without a row is one whose row is about to be written,
  or was stored by a refresh; a row without a token is about to be deleted; resources without
  a row are about to be cleared. `TokensInv` follows the refresh tokens: where they rotate,
  the accepted one is held by the keychain or by a call on its way to `PersistToken`, and by
  nobody else (`AloneFresh`, `AloneGranted`), unless an answer that carried it was lost
  (`Settled`); where not, every copy is the accepted one.
- `StoresInAgreement` (`StoresAgree`), `RefreshTokenStays` (`RefreshTokenKept`), from it.

**CalendarPullProofs**, for every set of calendars, accounts and events:

- `PullInvariant`: `SeenIsStored` is about the end of a pull, so `SteadyIsOnItsWay` follows
  what was there to see through its phases: in the calendars still asked for, then among what
  was read, then stored. `ShownWhileSelected` needs `NothingUnasked`, that a pull brings
  nothing of a calendar that was deselected while no pull was under way, and `ToggleIsTorn`.
- `StampedWithAllSeen`, `SelectedIsShown`, from the invariant.

**SettingsProofs**: `SettingsInvariant`, `SettingsSpec => []SettingsInv`, joins the
invariants of the five parts, each of which the others' steps leave alone:

- `CatalogInv`, for every set of categories, projects and keys: at most one category with
  the flag (`OneFlagged`); the item of a delete or archive is still there and not the default when
  it writes (`CheckedStillHolds`: no other call of the page runs meanwhile); what refers to
  it is yet to be counted or came after the delete began (`Accounted`), for which `Counted`
  has to name every kind of holder. `DefaultGapKept` (`DefaultGapStays`), with
  `FlaggedKeepsArchived`: only an archived category becomes an archived default;
  `DeleteStripsNoCounted` (`DeleteStripsNothing`).
- `ScheduleInv`, for every length of the calendar, week and day and every set of day plans:
  the versions are disjoint and not empty, so a date has at most one in force (`OneInForce`),
  which makes the plan a function of the date; `ReplacedVersions` computes it after a
  replacement, an exception changes no plan. `TimetableKept`: `Schedule` implements
  `Timetable`.
- `TemplatesInv`, for every set of keys and bodies: every row is sound (`SoundRow`), its
  body formed as `normalizeExportBody` leaves it for the row's format (`StoredSpec`).
  `Renderable` alone is not inductive: a copy stores what its original holds, or what the
  original is rendered with, so what is stored has to be known, format by format. `TemplatesRender`,
  `CopiesRenderAlike` (`CopyRendersAlike`).
- `PeriodsInv`, for every set of days, division into months, and length of the week: the
  first period decides, for all later ones, the cadence and the anchor (`OfOneCadence`), and
  each lies on the grid of the two. `GridApart`, `MonthsApart` and `HalfMonthsApart` show
  that ranges of one grid are equal or disjoint, `RemainderBounds` that the correction of
  Go's remainder finds the right one before the anchor too. `PeriodsAreDisjoint`,
  `ReturnedUsable`.
- `ReportInv`, for every set of entries, categories and keys, every period, length of the day
  and least block: the types of the two tables. The rest is sums. An entry has one day and
  one key, so the period's total by key, the matrix by day and key, and the flat lines are
  the sum of the same minutes over parts of the same set, which `SumParts` equates;
  a cell without a line is a sum over nothing. `ReportsOfPeriodAgree` (`ReportsAgree`).
  `ConfirmedIsReported` (`AttestedIsReported`): an entry within its day lasts
  as long as it is reported, up to the least block, by the remainders of its ends
  (`DateIs`).

Model-checked only: `AuthorizeReturns` and `LocalAuthorizeReturns`, that the two connection
flows end or hang in a request. They are liveness under fairness and rest on `ENABLED`, which is out of the
prover's reach. Every other property a passing run checks is a theorem, with the hypothesis
named above for `ConfirmFlow` (one call at a time) and, for `Connections`, in the properties
themselves (up to the first failed write; `RefreshTokenKept` up to lost answers).

## Not modelled

- *Rate limiter* (`broker/ratelimit`): a map under one mutex with a fixed window; where it
  refuses, the models have a call that fails.
- *`PurgeExpired`* of the broker's store has no caller; the audit log and the kill switches
  decide nothing but refusals.
- *AI client, gap notes, evidence contents*: calls out whose answers are shown, or are a
  category for a new event, which is a free choice in `MergeNew`.
- *Configuration, logging, application bindings, schema and migrations, generated queries,
  frontend*: read once, forwarding, presentation; the constraints and triggers that the
  modelled operations run into are part of them.
- *Daylight saving and several time zones*: instants are local. The service computes local
  dates with the time zone database, which is not part of the repository.

## Plan

1. *(done)* Intervals, Gaps, TimeEntries, ReviewPolicy, SyncReview and their runs; the
   inductive invariant of SyncReview and two theorems from it.
2. *(done)* ConfirmFlow: confirm, reject, adjust, split, create and delete, statement by
   statement, over midnight.
3. *(done)* OAuthBroker with the abstract OneShotHandoff, and the proof that it implements it.
4. *(done)* Connections, CalendarPull, LocalFlow; the theorems of the first two.
5. *(done)* Catalog, Schedule with the abstract Timetable, Periods, Templates, Export,
   joined in Settings.
6. *(done)* Theorems for all that a run checks of SyncReview, ConfirmFlow, Connections,
   Settings and the cuts of a day.
7. *(done)* Induction, folds and sums; the theorems about the gaps of a day and the report
   of a period.
8. Left: the hazards without a property, two confirmations at once and `ConvertAllDayEvent`
   statement by statement beside a sync.
