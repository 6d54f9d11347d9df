------------------------------ MODULE MCIntake ------------------------------
(***************************************************************************)
(* Intake on a small instance: two people, two places, two requests at     *)
(* once.  What a property is about does not depend on all the rest, so     *)
(* that a behaviour looks at one of three subjects: what a booking         *)
(* consumes and gives back, who the customers of three bookings are and    *)
(* whether they get a place, or who is told of a freed one.                *)
(***************************************************************************)
EXTENDS Intake, TLC

VARIABLE subject

Symmetry == Permutations(Numbers) \cup Permutations(Requests)

Filled(n, form, coupon, useCard, ref) ==
    [num |-> n, form |-> form, coupon |-> coupon, card |-> useCard, mail |-> FALSE, ref |-> ref]

Spending == {Filled(n, "e164", coupon, TRUE, NoOne) : n \in Numbers, coupon \in BOOLEAN}
Plain    == {Filled(n, "e164", FALSE, FALSE, NoOne) : n \in Numbers}
Meeting  == {[Filled(n, form, FALSE, FALSE, m) EXCEPT !.mail = mail] :
               n, m \in Numbers, form \in {"typed", "e164"}, mail \in BOOLEAN}
SomeForms == Spending \cup Plain \cup Meeting

Filling == {req[r].form : r \in {s \in Requests : req[s].pc \in {"lock", "check", "create"}}}

\* Two bookings of one customer, who has booked before: the dashboard adds none.
OneCustomer ==
    /\ Len(bookings) <= 2
    /\ Cardinality({f.num : f \in Filling} \cup {c.num : c \in customers}) <= 1
    /\ \A c \in customers : c.form = "e164" /\ \E b \in Made : bookings[b].cust = c

OnSubject ==
    \/ /\ subject = "consumed"
       /\ Filling \subseteq Spending
       /\ waitlist = <<>> /\ With("ASSIGNED") = {} /\ OneCustomer
    \/ /\ subject = "people"
       /\ Filling \subseteq Meeting
       /\ waitlist = <<>> /\ sessions = {} /\ With("CANCELLED") = {} /\ With("ASSIGNED") = {}
       /\ redeemed = 0
    \/ /\ subject = "waiting"
       /\ Filling \subseteq Plain
       /\ sessions = {} /\ redeemed = 0 /\ faults = 0 /\ OneCustomer

MCInit == Init /\ subject \in {"consumed", "people", "waiting"} /\ OnSubject
MCNext == Next /\ UNCHANGED subject /\ OnSubject'
MCSpec == MCInit /\ [][MCNext]_<<vars, subject>>
=============================================================================
