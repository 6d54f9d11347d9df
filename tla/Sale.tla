-------------------------------- MODULE Sale --------------------------------
(***************************************************************************)
(* What the public booking form promises about one time window, without    *)
(* requests, locks or checks: no more places are sold than there are       *)
(* cleaners to work them (the comments of src/src/lib/bookingLock.js and   *)
(* of assertCapacity in src/src/modules/widget/widget.service.js).         *)
(* Intake.tla implements it.                                               *)
(***************************************************************************)
EXTENDS Naturals, FiniteSets

CONSTANTS Places,   \* cleaners free in the window
          Ids       \* numbers of bookings

VARIABLE sold       \* numbers of the bookings that hold a place

Init == sold = {}

Sell == /\ Cardinality(sold) < Places
        /\ \E b \in Ids \ sold : sold' = sold \cup {b}

Release == \E b \in sold : sold' = sold \ {b}

Next == Sell \/ Release

Spec == Init /\ [][Next]_sold
=============================================================================
