-------------------------------- MODULE Jobs --------------------------------
(***************************************************************************)
(* What the back office shares: the jobs, each with the assignments it was *)
(* done under, its price and whether it is paid for.  How a job comes to   *)
(* be completed is the business of Bookings; here a job that is done is    *)
(* completed, cancelled or paid for in one step.                           *)
(***************************************************************************)
EXTENDS Integers, FiniteSets, FiniteSetsExt, Sequences

CONSTANTS Jobs,         \* bookings
          Cleaners,
          Clerks,       \* requests that may run at once
          Price,        \* quotedPriceCents of every job
          MaxFaults     \* bound: requests that die, statements that fail

ASSUME JobsAssumption == Price \in Nat /\ MaxFaults \in Nat

VARIABLES job, faults

jobVars == <<job, faults>>

\* An assignment that has no earningsSplitPercent, and none at all.
Even == -1
Out  == -2

\* split is earningsSplitPercent, hours what the assignment clocked.
JobRow == [status : {"OPEN", "COMPLETED", "CANCELLED"}, paid : BOOLEAN,
           split : [Cleaners -> {Out, Even} \cup 0..100], hours : [Cleaners -> Nat]]

Fault == faults < MaxFaults /\ faults' = faults + 1
Idle  == [pc |-> "idle"]

\* The customer pays, or the booking is cancelled.
JobPaid(j) ==
    /\ ~job[j].paid
    /\ job' = [job EXCEPT ![j].paid = TRUE]
    /\ UNCHANGED faults

JobCancelled(j) ==
    /\ job[j].status = "OPEN"
    /\ job' = [job EXCEPT ![j].status = "CANCELLED"]
    /\ UNCHANGED faults
=============================================================================
