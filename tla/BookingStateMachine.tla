------------------------- MODULE BookingStateMachine -------------------------
(***************************************************************************)
(* The booking status rules of src/src/lib/bookingStateMachine.js, as pure *)
(* operators shared by every module that writes a booking's status.        *)
(***************************************************************************)
EXTENDS Naturals

Status == {"REQUESTED", "CONFIRMED", "ASSIGNED", "IN_PROGRESS",
           "COMPLETED", "CANCELLED"}

\* TERMINAL: the statuses assertOpen refuses.
Terminal == {"COMPLETED", "CANCELLED"}
Open     == Status \ Terminal

\* Adding a cleaner moves only REQUESTED and CONFIRMED; a second cleaner on an
\* ASSIGNED or IN_PROGRESS job leaves the status alone.
StatusAfterAssign(s) == IF s \in {"REQUESTED", "CONFIRMED"} THEN "ASSIGNED" ELSE s

\* Mutant: the cleaner being removed is still counted.
StatusAfterUnassign_CountsLeaver(s, remaining) ==
    IF s = "ASSIGNED" /\ remaining = 1 THEN "CONFIRMED" ELSE s

\* Removing a cleaner falls back to CONFIRMED only when nobody is left.
StatusAfterUnassign(s, remaining) ==
    IF s = "ASSIGNED" /\ remaining = 0 THEN "CONFIRMED" ELSE s
=============================================================================
