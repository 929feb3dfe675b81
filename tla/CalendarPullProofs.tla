-------------------------- MODULE CalendarPullProofs --------------------------
(***************************************************************************)
(* A pull never takes a calendar it could not read for one whose events are *)
(* gone, and a calendar shows its events while it is selected: for every    *)
(* set of calendars, accounts and events.                                  *)
(***************************************************************************)
EXTENDS CalendarPull, TLAPS

(* What is stored, pulled or asked for is of a calendar that is known.      *)
OfKnown ==
  /\ stored \subseteq EventsOf(known)
  /\ Pulling => pull.incoming \subseteq EventsOf(known) /\ pull.ask \subseteq known
  /\ toggle # NoToggle => toggle.calendar \in known

(* What has been there to see since the pull began is of a selected         *)
(* calendar, and still to be read, read, or stored.                        *)
SteadyIsOnItsWay ==
  Pulling =>
    /\ pull.steady \subseteq EventsOf(selected) \cap remote
    /\ pull.phase = "fetch" => pull.steady \subseteq pull.incoming \cup EventsOf(pull.ask)
    /\ pull.phase = "merge" => pull.steady \subseteq pull.incoming
    /\ pull.phase = "touch" => pull.steady \subseteq stored

(* A toggle in progress is that of a torn calendar, and has its selection.  *)
ToggleIsTorn ==
  toggle # NoToggle =>
    toggle.calendar \in torn /\ (toggle.on <=> toggle.calendar \in selected)

(* A pull brings nothing of a calendar that was deselected in peace.        *)
NothingUnasked ==
  Pulling => \A c \in known \ (selected \cup raced \cup torn) :
               c \notin pull.ask /\ EventsOf({c}) \cap pull.incoming = {}

ShownUnlessTorn ==
  \A c \in known \ torn :
    /\ c \in selected => EventsOf({c}) \cap stored \subseteq active
    /\ c \notin selected \cup raced => EventsOf({c}) \cap active = {}

PullInv ==
  TypeOK /\ OfKnown /\ SteadyIsOnItsWay /\ ToggleIsTorn /\ NothingUnasked /\ ShownUnlessTorn

-----------------------------------------------------------------------------
LEMMA InitPull == Init => PullInv
  BY CalendarsAssumption
  DEF Init, PullInv, TypeOK, OfKnown, SteadyIsOnItsWay, ToggleIsTorn, NothingUnasked, ShownUnlessTorn,
      EventsOf, Pulling

LEMMA SyncPeriodPull ==
  ASSUME PullInv, NEW usable \in SUBSET Accounts, SyncPeriod(usable)
  PROVE  PullInv'
  BY CalendarsAssumption
  DEF SyncPeriod, PullInv, TypeOK, OfKnown, SteadyIsOnItsWay, ToggleIsTorn, NothingUnasked,
      ShownUnlessTorn, EventsOf, Pulling, Pulls, tables

LEMMA SyncCalendarsPull ==
  ASSUME PullInv, NEW account \in Accounts, NEW listed \in SUBSET Calendars,
         SyncCalendars(account, listed)
  PROVE  PullInv'
<1>1. pull \in Pulls /\ pull' \in Pulls
  BY CalendarsAssumption DEF SyncCalendars, PullInv, TypeOK, Pulling, Pulls, NextAccount
<1>2. TypeOK'
  BY CalendarsAssumption, <1>1 DEF SyncCalendars, PullInv, TypeOK
<1>3. OfKnown'
  BY CalendarsAssumption, <1>1 DEF SyncCalendars, PullInv, TypeOK, OfKnown, EventsOf, Pulling, Pulls
<1>4. SteadyIsOnItsWay'
  <2>1. pull'.steady = pull.steady /\ pull'.incoming = pull.incoming /\ pull'.ask = selected'
    BY <1>1 DEF SyncCalendars, Pulls
  <2>2. pull'.phase # "touch" /\ (pull'.phase # "fetch" => selected' = {})
    BY <1>1 DEF SyncCalendars, Pulls, NextAccount
  <2>3. pull.steady \subseteq EventsOf(selected') \cap remote'
    BY CalendarsAssumption DEF SyncCalendars, PullInv, SteadyIsOnItsWay, EventsOf
  <2> QED BY <2>1, <2>2, <2>3 DEF SteadyIsOnItsWay, EventsOf
<1>5. ToggleIsTorn'
  BY DEF SyncCalendars, PullInv, ToggleIsTorn, OfKnown
<1>6. NothingUnasked'
  <2>1. pull'.incoming = pull.incoming /\ pull'.ask = selected'
    BY <1>1 DEF SyncCalendars, Pulls
  <2>2. Pulling /\ known' = known \cup listed /\ selected \subseteq selected' /\ UNCHANGED <<torn, raced>>
    BY DEF SyncCalendars
  <2>3. ASSUME NEW c \in known' \ (selected' \cup raced' \cup torn')
        PROVE  EventsOf({c}) \cap pull'.incoming = {}
    <3>1. CASE c \in known
      BY <2>1, <2>2, <2>3, <3>1 DEF PullInv, NothingUnasked
    <3>2. CASE c \notin known
      BY <2>1, <2>2, <3>2 DEF PullInv, OfKnown, EventsOf
    <3> QED BY <3>1, <3>2
  <2> QED BY <2>1, <2>3 DEF NothingUnasked
<1>7. ShownUnlessTorn'
  BY DEF SyncCalendars, PullInv, TypeOK, OfKnown, ShownUnlessTorn, EventsOf
<1> QED BY <1>2, <1>3, <1>4, <1>5, <1>6, <1>7 DEF PullInv

LEMMA FetchCalendarPull ==
  ASSUME PullInv, NEW c \in Calendars, FetchCalendar(c)
  PROVE  PullInv'
<1>1. pull \in Pulls /\ pull' \in Pulls
  BY CalendarsAssumption DEF FetchCalendar, FetchEvents, PullInv, TypeOK, Pulling, Pulls, NextAccount, EventsOf
<1>2. /\ pull'.steady = pull.steady /\ pull'.ask = pull.ask \ {c}
      /\ pull'.incoming = pull.incoming \cup (EventsOf({c}) \cap remote)
      /\ pull'.phase \in {"list", "fetch", "merge"} /\ (pull'.phase # "fetch" => pull.ask = {c})
  BY <1>1 DEF FetchCalendar, FetchEvents, Pulls, NextAccount
<1>3. UNCHANGED <<tables, remote, toggle, torn, raced>> /\ Pulling /\ pull.phase = "fetch" /\ c \in pull.ask
  BY DEF FetchCalendar
<1>4. TypeOK'
  BY <1>1, <1>3 DEF PullInv, TypeOK, tables
<1>5. OfKnown' /\ NothingUnasked'
  BY <1>2, <1>3 DEF PullInv, TypeOK, OfKnown, NothingUnasked, EventsOf, tables
<1>6. SteadyIsOnItsWay'
  BY <1>2, <1>3 DEF PullInv, SteadyIsOnItsWay, EventsOf, tables
<1>7. ToggleIsTorn' /\ ShownUnlessTorn'
  BY <1>3 DEF PullInv, ToggleIsTorn, ShownUnlessTorn, EventsOf, tables
<1> QED BY <1>4, <1>5, <1>6, <1>7 DEF PullInv

LEMMA SyncEventsPull == ASSUME PullInv, SyncEvents PROVE PullInv'
<1> DEFINE new == pull.incoming \ stored
           gone == stored \ (pull.incoming \cup kept)
<1>1. pull \in Pulls /\ Pulling /\ pull.phase = "merge"
  BY DEF SyncEvents, PullInv, TypeOK, Pulling
<1>2. /\ pull' \in Pulls /\ pull'.phase = "touch" /\ pull'.steady = pull.steady
      /\ pull'.incoming = pull.incoming /\ pull'.ask = pull.ask
  BY <1>1 DEF SyncEvents, Pulls
<1>3. stored' = (stored \cup new) \ gone /\ active' = (active \cup new) \ gone
  BY DEF SyncEvents
<1>4. UNCHANGED <<known, selected, remote, toggle, torn, raced>>
  BY DEF SyncEvents
<1>5. TypeOK'
  BY <1>1, <1>2, <1>3, <1>4 DEF SyncEvents, PullInv, TypeOK, Pulls
<1>6. OfKnown' /\ NothingUnasked'
  BY <1>1, <1>2, <1>3, <1>4 DEF PullInv, OfKnown, NothingUnasked, EventsOf, Pulling
<1>7. SteadyIsOnItsWay'
  BY <1>1, <1>2, <1>3, <1>4 DEF PullInv, SteadyIsOnItsWay, EventsOf
<1>8. ShownUnlessTorn'
  BY <1>1, <1>3, <1>4 DEF PullInv, ShownUnlessTorn, NothingUnasked, EventsOf
<1>9. ToggleIsTorn'
  BY <1>4 DEF PullInv, ToggleIsTorn
<1> QED BY <1>5, <1>6, <1>7, <1>8, <1>9 DEF PullInv

LEMMA PullEnds == ASSUME PullInv, TouchPeriodSynced \/ PullFails PROVE PullInv'
  BY DEF TouchPeriodSynced, PullFails, PullInv, TypeOK, OfKnown, SteadyIsOnItsWay, ToggleIsTorn,
         NothingUnasked, ShownUnlessTorn, EventsOf, Pulling, tables

-----------------------------------------------------------------------------
(* What Unsteady leaves of a pull.                                          *)
LEMMA UnsteadyLeaves ==
  ASSUME TypeOK, NEW events, pull' = Unsteady(events)
  PROVE  /\ pull' \in Pulls \cup {NoPull}
         /\ Pulling' => /\ Pulling
                        /\ pull'.steady = pull.steady \ events /\ pull'.phase = pull.phase
                        /\ pull'.incoming = pull.incoming /\ pull'.ask = pull.ask
  BY DEF TypeOK, Unsteady, Pulling, Pulls

LEMMA SelectionPull ==
  ASSUME PullInv, NEW c \in Calendars, NEW on \in BOOLEAN, SetCalendarSelected(c, on)
  PROVE  PullInv'
<1>1. /\ pull' \in Pulls \cup {NoPull}
      /\ Pulling' => /\ Pulling
                     /\ pull'.steady = IF on THEN pull.steady ELSE pull.steady \ EventsOf({c})
                     /\ pull'.phase = pull.phase
                     /\ pull'.incoming = pull.incoming /\ pull'.ask = pull.ask
  BY UnsteadyLeaves DEF SetCalendarSelected, PullInv, TypeOK, Pulling
<1>2. /\ selected' = IF on THEN selected \cup {c} ELSE selected \ {c}
      /\ toggle' = [calendar |-> c, on |-> on] /\ torn' = torn \cup {c} /\ c \in known
      /\ UNCHANGED <<known, stored, active, kept, remote, raced>>
  BY DEF SetCalendarSelected
<1>3. TypeOK'
  BY <1>1, <1>2 DEF PullInv, TypeOK, Toggles
<1>4. OfKnown' /\ NothingUnasked'
  BY <1>1, <1>2 DEF PullInv, OfKnown, NothingUnasked, EventsOf
<1>5. SteadyIsOnItsWay'
  BY <1>1, <1>2 DEF PullInv, SteadyIsOnItsWay, EventsOf
<1>6. ToggleIsTorn' /\ ShownUnlessTorn'
  BY <1>2 DEF PullInv, ToggleIsTorn, ShownUnlessTorn, EventsOf
<1> QED BY <1>3, <1>4, <1>5, <1>6 DEF PullInv

LEMMA ActivePull == ASSUME PullInv, SetEventActiveByCalendar PROVE PullInv'
<1>1. TypeOK' /\ OfKnown' /\ ToggleIsTorn'
  BY DEF SetEventActiveByCalendar, SetActive, PullInv, TypeOK, Toggles, OfKnown, ToggleIsTorn, EventsOf, Pulling
<1>2. SteadyIsOnItsWay'
  BY DEF SetEventActiveByCalendar, PullInv, SteadyIsOnItsWay, EventsOf, Pulling
<1>3. NothingUnasked'
  BY DEF SetEventActiveByCalendar, PullInv, NothingUnasked, EventsOf, Pulling
<1>4. ShownUnlessTorn'
  BY DEF SetEventActiveByCalendar, SetActive, PullInv, TypeOK, Toggles, ToggleIsTorn, ShownUnlessTorn, EventsOf
<1> QED BY <1>1, <1>2, <1>3, <1>4 DEF PullInv

LEMMA OthersPull ==
  ASSUME PullInv, ToggleCut \/ (\E e \in Events : Keep(e)) \/ UNCHANGED vars
  PROVE  PullInv'
  BY DEF ToggleCut, Keep, vars, PullInv, TypeOK, OfKnown, SteadyIsOnItsWay, ToggleIsTorn,
         NothingUnasked, ShownUnlessTorn, EventsOf, Pulling, tables

LEMMA RemotePull == ASSUME PullInv, NEW e \in Events, RemoteChange(e) PROVE PullInv'
<1>1. /\ pull' \in Pulls \cup {NoPull}
      /\ Pulling' => /\ Pulling
                     /\ pull'.steady = pull.steady \ {e} /\ pull'.phase = pull.phase
                     /\ pull'.incoming = pull.incoming /\ pull'.ask = pull.ask
  BY UnsteadyLeaves DEF RemoteChange, PullInv
<1>2. /\ remote \ {e} \subseteq remote' /\ remote' \subseteq Events
      /\ UNCHANGED <<tables, toggle, torn, raced>>
  BY DEF RemoteChange, PullInv, TypeOK
<1>3. TypeOK' /\ OfKnown' /\ NothingUnasked'
  BY <1>1, <1>2 DEF PullInv, TypeOK, OfKnown, NothingUnasked, EventsOf, tables
<1>4. SteadyIsOnItsWay'
  BY <1>1, <1>2 DEF PullInv, SteadyIsOnItsWay, EventsOf, tables
<1>5. ToggleIsTorn' /\ ShownUnlessTorn'
  BY <1>2 DEF PullInv, ToggleIsTorn, ShownUnlessTorn, EventsOf, tables
<1> QED BY <1>3, <1>4, <1>5 DEF PullInv

LEMMA NextPull == ASSUME PullInv, [Next]_vars PROVE PullInv'
  BY SyncPeriodPull, SyncCalendarsPull, FetchCalendarPull, SyncEventsPull, PullEnds, SelectionPull,
     ActivePull, OthersPull, RemotePull
  DEF Next

(* The inductive invariant: what a pull has asked for, read and merged      *)
(* accounts for all there was to see, and a torn or raced toggle for all    *)
(* that is not shown as selected (SyncPeriod, SetCalendarSelected).         *)
THEOREM PullInvariant == Spec => []PullInv
<1>1. PullInv /\ [Next]_vars => PullInv'
  BY NextPull
<1> QED BY InitPull, <1>1, PTL DEF Spec

(* No pull passes over a calendar: when a period is stamped as synced, all  *)
(* that was there to see is stored (SyncPeriod).                            *)
THEOREM StampedWithAllSeen == Spec => []SeenIsStored
<1>1. PullInv => SeenIsStored
  BY DEF PullInv, SteadyIsOnItsWay, SeenIsStored
<1> QED BY PullInvariant, <1>1, PTL

(* A calendar shows what it has while it is selected, and nothing           *)
(* otherwise, up to toggles that were cut short or ran beside a pull        *)
(* (SetCalendarSelected).                                                  *)
THEOREM SelectedIsShown == Spec => []ShownWhileSelected
<1>1. PullInv => ShownWhileSelected
  BY DEF PullInv, ShownUnlessTorn, ShownWhileSelected
<1> QED BY PullInvariant, <1>1, PTL
=============================================================================
