-------------------------- MODULE MCBookingPayments --------------------------
(***************************************************************************)
(* BookingPayments on a small instance.                                    *)
(***************************************************************************)
EXTENDS BookingPayments

HalfThePrice == [kind |-> "PERCENT", value |-> 50]
=============================================================================
