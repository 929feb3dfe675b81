--------------------------- MODULE MCCalendarPull ---------------------------
(* Two calendars, one of them primary, with an event each, and two          *)
(* accounts.                                                               *)
EXTENDS CalendarPull, TLC

CONSTANTS c1, c2, e1, e2

MCCalendarOf == (e1 :> c1) @@ (e2 :> c2)

Symmetry == Permutations(Accounts)
=============================================================================
