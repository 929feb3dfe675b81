---------------------------- MODULE CalendarPull ----------------------------
(***************************************************************************)
(* SyncPeriod, which pulls the events of the selected calendars and hands   *)
(* them to SyncEvents, against the user who selects and deselects calendars *)
(* meanwhile (internal/service/calendar_sync.go).  A pull is a list of      *)
(* requests to Google, one transaction and one UPDATE; a selection is two   *)
(* UPDATEs; neither holds anything while the other runs.  Of an event this  *)
(* module knows whether it is stored, whether it is shown, and whether a    *)
(* category, a confirmed entry or an exclusion keeps it; what the merge     *)
(* does to it beyond that is SyncReview's matter.                          *)
(***************************************************************************)
EXTENDS FiniteSets

CONSTANTS
  Calendars, Accounts,
  Primary,      \* the calendars Google marks as primary
  Events,
  CalendarOf,   \* the calendar of each event
  NoPull, NoToggle

ASSUME CalendarsAssumption == Primary \subseteq Calendars /\ CalendarOf \in [Events -> Calendars]

VARIABLES
  known,      \* calendar rows
  selected,   \* those with selected = 1
  stored,     \* event rows of the period
  active,     \* those with active = 1
  kept,       \* events a category, a confirmed entry or an exclusion holds
  remote,     \* what Google has
  pull,       \* the SyncPeriod in progress
  toggle,     \* the SetCalendarSelected between its two UPDATEs
  torn,       \* calendars whose last toggle was cut short
  raced       \* calendars whose last toggle overlapped a pull

vars == <<known, selected, stored, active, kept, remote, pull, toggle, torn, raced>>

tables == <<known, selected, stored, active, kept>>

(* steady: what was at Google, in a selected calendar, ever since the pull  *)
(* began.                                                                  *)
Pulls ==
  [phase : {"list", "fetch", "merge", "touch"}, todo : SUBSET Accounts, ask : SUBSET Calendars,
   incoming : SUBSET Events, steady : SUBSET Events]

Toggles == [calendar : Calendars, on : BOOLEAN]

EventsOf(calendars) == {e \in Events : CalendarOf[e] \in calendars}

Init ==
  /\ known \in SUBSET Calendars /\ selected = known \cap Primary
  /\ stored = {} /\ active = {} /\ kept = {}
  /\ remote = Events
  /\ pull = NoPull /\ toggle = NoToggle
  /\ torn = {} /\ raced = {}

Pulling == pull # NoPull
-----------------------------------------------------------------------------
(* SyncPeriod with at least one connected account.  With no calendar        *)
(* selected it only stamps the period.                                     *)
SyncPeriod(usable) ==
  /\ ~Pulling /\ usable # {}
  /\ pull' = [phase |-> IF selected = {} THEN "touch" ELSE "list", todo |-> usable, ask |-> {},
              incoming |-> {}, steady |-> EventsOf(selected) \cap remote]
  /\ UNCHANGED <<tables, remote, toggle, torn, raced>>

(* filterGoogleCalendars of the selection read anew, after every list.      *)
NextAccount(todo) == IF todo = {} THEN "merge" ELSE "list"

(* SyncCalendars: what the account lists is upserted, one row at a time; a  *)
(* new row is selected if primary, a known one keeps its selection.  Then   *)
(* the selection is read again.                                            *)
SyncCalendars(account, listed) ==
  /\ Pulling /\ pull.phase = "list" /\ account \in pull.todo
  /\ known' = known \cup listed
  /\ selected' = selected \cup ((listed \ known) \cap Primary)
  /\ LET todo == pull.todo \ {account} IN
     pull' = [pull EXCEPT !.phase = IF selected' = {} THEN NextAccount(todo) ELSE "fetch",
                          !.todo = todo, !.ask = selected']
  /\ UNCHANGED <<stored, active, kept, remote, toggle, torn, raced>>

(* Mutant: a calendar that cannot be read is passed over.                   *)
FetchEventsSkipping(c) ==
  \E events \in {EventsOf({c}) \cap remote, {}} :
    pull' = [pull EXCEPT !.incoming = @ \cup events, !.ask = @ \ {c},
                         !.phase = IF pull.ask = {c} THEN NextAccount(pull.todo) ELSE @]

FetchEvents(c) ==
  pull' = [pull EXCEPT !.incoming = @ \cup (EventsOf({c}) \cap remote), !.ask = @ \ {c},
                       !.phase = IF pull.ask = {c} THEN NextAccount(pull.todo) ELSE @]

FetchCalendar(c) ==
  /\ Pulling /\ pull.phase = "fetch" /\ c \in pull.ask
  /\ FetchEvents(c)
  /\ UNCHANGED <<tables, remote, toggle, torn, raced>>

(* SyncEvents: what was pulled is stored, a new row shown and an old one as *)
(* it was; a stored event that was not pulled is deleted unless it is kept. *)
(* A new event may be categorized at once.                                 *)
SyncEvents ==
  /\ Pulling /\ pull.phase = "merge"
  /\ LET new == pull.incoming \ stored
         gone == stored \ (pull.incoming \cup kept)
     IN /\ stored' = (stored \cup new) \ gone
        /\ active' = (active \cup new) \ gone
        /\ kept' \in {kept \cup categorized : categorized \in SUBSET new}
  /\ pull' = [pull EXCEPT !.phase = "touch"]
  /\ UNCHANGED <<known, selected, remote, toggle, torn, raced>>

TouchPeriodSynced ==
  /\ Pulling /\ pull.phase = "touch"
  /\ pull' = NoPull
  /\ UNCHANGED <<tables, remote, toggle, torn, raced>>

(* Any request or statement fails, or the application stops.                *)
PullFails ==
  /\ Pulling
  /\ pull' = NoPull
  /\ UNCHANGED <<tables, remote, toggle, torn, raced>>

-----------------------------------------------------------------------------
Unsteady(events) == IF Pulling THEN [pull EXCEPT !.steady = @ \ events] ELSE pull

(* SetCalendarSelected, its first UPDATE.                                   *)
SetCalendarSelected(c, on) ==
  /\ toggle = NoToggle /\ c \in known
  /\ selected' = IF on THEN selected \cup {c} ELSE selected \ {c}
  /\ toggle' = [calendar |-> c, on |-> on]
  /\ pull' = IF on THEN pull ELSE Unsteady(EventsOf({c}))
  /\ torn' = torn \cup {c}
  /\ UNCHANGED <<known, stored, active, kept, remote, raced>>

(* Mutant: reselecting shows nothing again.                                 *)
HideOnly(c, on) == active' = IF on THEN active ELSE active \ EventsOf({c})

SetActive(c, on) ==
  active' = IF on THEN active \cup (EventsOf({c}) \cap stored) ELSE active \ EventsOf({c})

SetEventActiveByCalendar ==
  /\ toggle # NoToggle
  /\ SetActive(toggle.calendar, toggle.on)
  /\ toggle' = NoToggle
  /\ torn' = torn \ {toggle.calendar}
  /\ raced' = IF Pulling THEN raced \cup {toggle.calendar} ELSE raced \ {toggle.calendar}
  /\ UNCHANGED <<known, selected, stored, kept, remote, pull>>

(* The second UPDATE fails, or the application stops before it.             *)
ToggleCut ==
  /\ toggle # NoToggle
  /\ toggle' = NoToggle
  /\ UNCHANGED <<tables, remote, pull, torn, raced>>

(* The user categorizes, confirms or excludes an event.                     *)
Keep(e) ==
  /\ e \in stored \ kept
  /\ kept' = kept \cup {e}
  /\ UNCHANGED <<known, selected, stored, active, remote, pull, toggle, torn, raced>>

(* Somebody adds or cancels an event at Google.                             *)
RemoteChange(e) ==
  /\ remote' = IF e \in remote THEN remote \ {e} ELSE remote \cup {e}
  /\ pull' = Unsteady({e})
  /\ UNCHANGED <<tables, toggle, torn, raced>>

Next ==
  \/ \E usable \in SUBSET Accounts : SyncPeriod(usable)
  \/ \E account \in Accounts, listed \in SUBSET Calendars : SyncCalendars(account, listed)
  \/ \E c \in Calendars : FetchCalendar(c) \/ \E on \in BOOLEAN : SetCalendarSelected(c, on)
  \/ SyncEvents \/ TouchPeriodSynced \/ PullFails
  \/ SetEventActiveByCalendar \/ ToggleCut
  \/ \E e \in Events : Keep(e) \/ RemoteChange(e)

Spec == Init /\ [][Next]_vars
-----------------------------------------------------------------------------
TypeOK ==
  /\ selected \subseteq known /\ known \subseteq Calendars
  /\ active \subseteq stored /\ stored \subseteq Events /\ kept \subseteq Events
  /\ remote \subseteq Events
  /\ pull \in Pulls \cup {NoPull} /\ toggle \in Toggles \cup {NoToggle}
  /\ torn \subseteq Calendars /\ raced \subseteq Calendars

(* A period is stamped as synced only with everything in it that was there  *)
(* to see: an event that Google had, in a calendar selected all the while,  *)
(* is stored, whatever lists, selections and failures came in between.      *)
SeenIsStored == Pulling /\ pull.phase = "touch" => pull.steady \subseteq stored

(* Unless its last toggle was cut short or ran beside a pull, a calendar    *)
(* shows its stored events exactly while it is selected; one that was       *)
(* reselected shows them even so ("reselecting restores them").             *)
ShownWhileSelected ==
  toggle = NoToggle => \A c \in known \ torn :
    /\ c \in selected => EventsOf({c}) \cap stored \subseteq active
    /\ c \notin selected \cup raced => EventsOf({c}) \cap active = {}

(* "Deselecting soft-hides existing events from that calendar; reselecting  *)
(* restores them" (calendar_sync.go:127): no pull deletes what is hidden.   *)
DeselectOnlyHides == [][\A e \in stored \ stored' : CalendarOf[e] \in selected]_vars
=============================================================================
