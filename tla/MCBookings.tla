----------------------------- MODULE MCBookings -----------------------------
(***************************************************************************)
(* Bookings on a small instance.                                           *)
(***************************************************************************)
EXTENDS Bookings, TLC

\* Bookings, cleaners and slots are interchangeable: no constant, guard or
\* property singles one of them out.
Symmetry == Permutations(Bookings) \cup Permutations(Cleaners) \cup Permutations(Requests)

\* Staffing, moving and the roster only: two jobs and two cleaners, the
\* smallest system in which a customer's move collides with a cleaner's other
\* job while another cleaner keeps the new time bookable.
RosterNext ==
    \/ \E r \in Requests : \/ Assign(r) \/ Unassign(r) \/ Clock(r) \/ Reschedule(r) \/ Roster(r)
    \/ Tick
RosterSpec == Init /\ [][RosterNext]_vars
=============================================================================
