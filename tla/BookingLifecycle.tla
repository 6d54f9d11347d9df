-------------------------- MODULE BookingLifecycle --------------------------
(***************************************************************************)
(* What the booking state machine promises, with no handlers: the comment  *)
(* of src/src/lib/bookingStateMachine.js draws                             *)
(*   REQUESTED -> CONFIRMED -> ASSIGNED -> IN_PROGRESS -> COMPLETED        *)
(*   any open status -> CANCELLED; ASSIGNED -> CONFIRMED                   *)
(*   COMPLETED and CANCELLED are terminal.                                 *)
(* The handlers may skip stages (assigning a REQUESTED booking makes it    *)
(* ASSIGNED, a dispatcher may complete any open booking), so a forward     *)
(* move is any increase of the rank.  Bookings.tla implements this         *)
(* specification when its requests are served one at a time.               *)
(***************************************************************************)
EXTENDS BookingStateMachine

CONSTANT Bookings

VARIABLE status

Rank == [s \in Open \cup {"COMPLETED"} |->
           CASE s = "REQUESTED"   -> 0
             [] s = "CONFIRMED"   -> 1
             [] s = "ASSIGNED"    -> 2
             [] s = "IN_PROGRESS" -> 3
             [] s = "COMPLETED"   -> 4]

Init == status = [b \in Bookings |-> "REQUESTED"]

Forward(b) == \E s \in DOMAIN Rank :
    /\ status[b] \in Open
    /\ Rank[s] > Rank[status[b]]
    /\ status' = [status EXCEPT ![b] = s]

Cancel(b) ==
    /\ status[b] \in Open
    /\ status' = [status EXCEPT ![b] = "CANCELLED"]

\* Releasing a cleaner may empty several bookings in one transaction.
Unstaff == \E B \in SUBSET Bookings :
    /\ \A b \in B : status[b] = "ASSIGNED"
    /\ status' = [b \in Bookings |-> IF b \in B THEN "CONFIRMED" ELSE status[b]]

Next == (\E b \in Bookings : Forward(b) \/ Cancel(b)) \/ Unstaff

Spec == Init /\ [][Next]_status
=============================================================================
