SPECIFICATION Spec
CONSTANTS
  Calendars = {c1, c2}
  Primary = {c1}
  Accounts = {a1, a2}
  Events = {e1, e2}
  CalendarOf <- MCCalendarOf
  c1 = c1
  c2 = c2
  e1 = e1
  e2 = e2
  NoPull = NoPull
  NoToggle = NoToggle
SYMMETRY Symmetry
INVARIANTS
  SeenIsStored
  ShownWhileSelected
