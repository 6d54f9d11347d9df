------------------------------- MODULE Payroll -------------------------------
(***************************************************************************)
(* payroll.service: what the cleaners of a completed job earn, the payouts *)
(* their earnings are batched into, and the disputes that hold them.       *)
(* Every request reads before it writes, so that two clerks, a retried     *)
(* completion and Stripe's events meet between the two.                    *)
(***************************************************************************)
EXTENDS Jobs, Functions

CONSTANTS Rates,        \* compensation rules a business may set
          NoRate,       \* a cleaner without a CleanerCompensation row
          MaxPayouts    \* bound: payouts ever made

ASSUME RatesAssumption ==
    /\ NoRate \notin Rates /\ MaxPayouts \in Nat
    /\ \A r \in Rates : r.type \in {"PERCENT", "FLAT_PER_JOB", "HOURLY"} /\ r.value \in Nat \ {0}

VARIABLES
    comp,        \* the CleanerCompensation table
    earning,     \* the CleanerEarning table, by booking and cleaner
    payouts,     \* the Payout table, in the order of creation
    transfers,   \* Stripe: payouts a transfer was made for
    dispute,     \* Stripe: what became of the payment of each job
    events,      \* Stripe: dispute events not delivered yet
    clerk,       \* what each payroll request is doing
    stale        \* history: a payout was made of earnings that had changed

payrollVars == <<comp, earning, payouts, transfers, dispute, events, clerk, stale>>

None    == [status |-> "NONE", amount |-> 0, rate |-> NoRate, payout |-> 0]
Earning == [status : {"NONE", "PENDING", "IN_PAYOUT", "PAID", "VOIDED"}, amount : Nat,
            rate : Rates \cup {NoRate}, payout : 0..MaxPayouts]
Payout  == [cleaner : Cleaners, total : Nat, status : {"PENDING", "PAID"},
            method : {"MANUAL", "STRIPE", "NONE"}]

PayrollInit ==
    /\ comp \in [Cleaners -> Rates \cup {NoRate}]
    /\ earning = [j \in Jobs |-> [c \in Cleaners |-> None]]
    /\ payouts = <<>>
    /\ transfers = {}
    /\ dispute = [j \in Jobs |-> "none"]
    /\ events = {}
    /\ clerk = [r \in Clerks |-> Idle]
    /\ stale = FALSE

Goto(r, work) == clerk' = [clerk EXCEPT ![r] = work]
PcIs(r, pc)   == clerk[r].pc = pc

-----------------------------------------------------------------------------
(* What a job is worth to each of its cleaners *)

Team(j) == {c \in Cleaners : job[j].split[c] # Out}

Rounded(num, den) == (2 * num + den) \div (2 * den)

\* Mutant: what nobody claimed goes to each of the rest.
Share_NotDivided(j, c) ==
    LET set  == {d \in Team(j) : job[j].split[d] # Even}
        left == 100 - SumFunctionOnSet(job[j].split, set)
    IN IF job[j].split[c] # Even THEN [num |-> job[j].split[c], den |-> 100]
       ELSE [num |-> IF left < 0 THEN 0 ELSE left, den |-> 100]

\* A cleaner alone gets all of the pool; in a team the splits that are set
\* come first and the others share what is left of the 100.
Share(j, c) ==
    LET set   == {d \in Team(j) : job[j].split[d] # Even}
        taken == SumFunctionOnSet(job[j].split, set)
        left  == IF taken > 100 THEN 0 ELSE 100 - taken
    IN IF Cardinality(Team(j)) = 1 THEN [num |-> 1, den |-> 1]
       ELSE IF c \in set THEN [num |-> job[j].split[c], den |-> 100]
       ELSE [num |-> left, den |-> 100 * Cardinality(Team(j) \ set)]

Amount(j, c, rate) ==
    CASE rate.type = "PERCENT" ->
           Rounded(Price * rate.value * Share(j, c).num, 100 * Share(j, c).den)
      [] rate.type = "FLAT_PER_JOB" -> rate.value
      [] rate.type = "HOURLY" -> job[j].hours[c] * rate.value

Worth(j, c) == IF comp[c] = NoRate THEN 0 ELSE Amount(j, c, comp[c])

-----------------------------------------------------------------------------
(* Completion: computeEarningsForBooking, one cleaner after the other *)

\* completeBooking, and a completion of a job that is complete already.
Complete(r, j) ==
    /\ PcIs(r, "idle") /\ job[j].status \in {"OPEN", "COMPLETED"} /\ Team(j) # {}
    /\ job' = [job EXCEPT ![j].status = "COMPLETED"]
    /\ Goto(r, [pc |-> "earn", job |-> j, left |-> Team(j)])
    /\ UNCHANGED <<faults, comp, earning, payouts, transfers, dispute, events, stale>>

Earned(r, c) ==
    LET rest == clerk[r].left \ {c}
    IN Goto(r, IF rest = {} THEN Idle ELSE [clerk[r] EXCEPT !.left = rest])

\* One cleaner's earning; a failure is logged and leaves the cleaner out.
Earn(r, c) ==
    /\ PcIs(r, "earn") /\ c \in clerk[r].left
    /\ LET j == clerk[r].job
       IN \/ /\ earning[j][c].status # "NONE" \/ Worth(j, c) = 0
             /\ UNCHANGED <<earning, faults>>
          \/ /\ earning[j][c].status = "NONE" /\ Worth(j, c) > 0
             /\ earning' = [earning EXCEPT ![j][c] =
                  [None EXCEPT !.status = "PENDING", !.amount = Worth(j, c), !.rate = comp[c]]]
             /\ UNCHANGED faults
          \/ Fault /\ UNCHANGED earning
    /\ Earned(r, c)
    /\ UNCHANGED <<job, comp, payouts, transfers, dispute, events, stale>>

SetCompensation(c, rate) ==
    /\ comp' = [comp EXCEPT ![c] = rate]
    /\ UNCHANGED <<jobVars, earning, payouts, transfers, dispute, events, clerk, stale>>

-----------------------------------------------------------------------------
(* Payouts *)

With(c, st) == {j \in Jobs : earning[j][c].status = st}

\* createPayout reads the earnings, then makes the payout in one transaction.
Collect(r, c) ==
    /\ PcIs(r, "idle") /\ With(c, "PENDING") # {} /\ Len(payouts) < MaxPayouts
    /\ Goto(r, [pc |-> "batch", cleaner |-> c, of |-> With(c, "PENDING")])
    /\ UNCHANGED <<jobVars, comp, earning, payouts, transfers, dispute, events, stale>>

Total(c, js) == SumFunctionOnSet([j \in Jobs |-> earning[j][c].amount], js)
InPayout(c, js, p) ==
    earning' = [j \in Jobs |-> IF j \in js
                  THEN [earning[j] EXCEPT ![c].status = "IN_PAYOUT", ![c].payout = p] ELSE earning[j]]

\* The earnings are taken by their ids, whatever their status is by now.
Batch(r) ==
    /\ PcIs(r, "batch") /\ Len(payouts) < MaxPayouts
    /\ LET c == clerk[r].cleaner
       IN /\ payouts' = Append(payouts, [cleaner |-> c, total |-> Total(c, clerk[r].of),
                                         status |-> "PENDING", method |-> "NONE"])
          /\ InPayout(c, clerk[r].of, Len(payouts) + 1)
          /\ stale' = (stale \/ ~(clerk[r].of \subseteq With(c, "PENDING")))
    /\ Goto(r, Idle)
    /\ UNCHANGED <<jobVars, comp, transfers, dispute, events>>

\* markPayoutPaid and payViaStripe find the payout unpaid.
Settle(r, p, method) ==
    /\ PcIs(r, "idle") /\ p \in DOMAIN payouts /\ payouts[p].status # "PAID"
    /\ Goto(r, [pc |-> IF method = "STRIPE" THEN "transfer" ELSE "paid", payout |-> p, method |-> method])
    /\ UNCHANGED <<jobVars, comp, earning, payouts, transfers, dispute, events, stale>>

\* The idempotency key names the payout: it is paid once however often asked.
Transfer(r) ==
    /\ PcIs(r, "transfer")
    /\ transfers' = transfers \cup {clerk[r].payout}
    /\ Goto(r, [clerk[r] EXCEPT !.pc = "paid"])
    /\ UNCHANGED <<jobVars, comp, earning, payouts, dispute, events, stale>>

\* Mutant: the payout is marked on its own, before its earnings.
Paid_PayoutOnly(r) ==
    /\ PcIs(r, "paid")
    /\ payouts' = [payouts EXCEPT ![clerk[r].payout].status = "PAID",
                                  ![clerk[r].payout].method = clerk[r].method]
    /\ Goto(r, Idle)
    /\ UNCHANGED <<jobVars, comp, earning, transfers, dispute, events, stale>>

Paid(r) ==
    /\ PcIs(r, "paid")
    /\ LET p == clerk[r].payout
       IN /\ payouts' = [payouts EXCEPT ![p].status = "PAID", ![p].method = clerk[r].method]
          /\ earning' = [j \in Jobs |-> [c \in Cleaners |->
                           IF earning[j][c].payout = p THEN [earning[j][c] EXCEPT !.status = "PAID"]
                           ELSE earning[j][c]]]
    /\ Goto(r, Idle)
    /\ UNCHANGED <<jobVars, comp, transfers, dispute, events, stale>>

\* The request dies, or the statement it waits for fails.
Dies(r) ==
    /\ clerk[r] # Idle /\ Fault
    /\ Goto(r, Idle)
    /\ UNCHANGED <<job, comp, earning, payouts, transfers, dispute, events, stale>>

-----------------------------------------------------------------------------
(* charge.dispute.created and .closed, delivered in any order *)

Dispute(j) ==
    /\ job[j].paid /\ dispute[j] = "none"
    /\ dispute' = [dispute EXCEPT ![j] = "open"]
    /\ events' = events \cup {<<j, "open">>}
    /\ UNCHANGED <<jobVars, comp, earning, payouts, transfers, clerk, stale>>

Close(j, verdict) ==
    /\ dispute[j] = "open"
    /\ dispute' = [dispute EXCEPT ![j] = verdict]
    /\ events' = events \cup {<<j, verdict>>}
    /\ UNCHANGED <<jobVars, comp, earning, payouts, transfers, clerk, stale>>

Moved(j, from, to) ==
    earning' = [earning EXCEPT ![j] =
                  [c \in Cleaners |-> IF earning[j][c].status = from
                                      THEN [earning[j][c] EXCEPT !.status = to] ELSE earning[j][c]]]

DisputeEvent(j, what) ==
    /\ <<j, what>> \in events
    /\ events' = events \ {<<j, what>>}
    /\ CASE what = "open" -> Moved(j, "PENDING", "VOIDED")
         [] what = "won"  -> Moved(j, "VOIDED", "PENDING")
         [] what = "lost" -> UNCHANGED earning
    /\ UNCHANGED <<jobVars, comp, payouts, transfers, dispute, clerk, stale>>

PayrollNext ==
    \/ \E r \in Clerks :
         \/ \E j \in Jobs : Complete(r, j)
         \/ \E c \in Cleaners : Earn(r, c) \/ Collect(r, c)
         \/ \E p \in 1..MaxPayouts, m \in {"MANUAL", "STRIPE"} : Settle(r, p, m)
         \/ Batch(r) \/ Transfer(r) \/ Paid(r) \/ Dies(r)
    \/ \E c \in Cleaners, rate \in Rates : SetCompensation(c, rate)
    \/ \E j \in Jobs : Dispute(j) \/ \E v \in {"won", "lost"} : Close(j, v)
    \/ \E j \in Jobs, what \in {"open", "won", "lost"} : DisputeEvent(j, what)

-----------------------------------------------------------------------------
(* Properties *)

PayrollTypeOK ==
    /\ comp \in [Cleaners -> Rates \cup {NoRate}]
    /\ earning \in [Jobs -> [Cleaners -> Earning]]
    /\ payouts \in Seq(Payout) /\ Len(payouts) <= MaxPayouts
    /\ transfers \subseteq 1..MaxPayouts
    /\ dispute \in [Jobs -> {"none", "open", "won", "lost"}]
    /\ events \subseteq Jobs \X {"open", "won", "lost"}
    /\ stale \in BOOLEAN

\* An earning is paid exactly when the payout it is in is paid: no crash,
\* dispute or second request settles the one without the other.
SettledTogether ==
    \A j \in Jobs, c \in Cleaners :
        /\ earning[j][c].status = "PAID" =>
             earning[j][c].payout # 0 /\ payouts[earning[j][c].payout].status = "PAID"
        /\ earning[j][c].payout # 0 /\ payouts[earning[j][c].payout].status = "PAID" =>
             earning[j][c].status = "PAID"

\* A payout is worth what its earnings are worth, although jobs complete and
\* disputes open and close while it is being made, unless it was made of
\* earnings that were no longer pending.
PayoutIsItsEarnings ==
    stale \/ \A p \in DOMAIN payouts :
        LET c == payouts[p].cleaner
        IN payouts[p].total = Total(c, {j \in Jobs : earning[j][c].payout = p})

\* What is paid out and what was earned balance.
PayoutsBalance == SettledTogether /\ PayoutIsItsEarnings

\* A team paid by percentages gets no more of a job than its best paid member
\* would alone, whatever the splits, as long as these add up to at most 100.
PoolNotOverdrawn ==
    \A j \in Jobs :
        LET by    == {c \in Team(j) : earning[j][c].rate # NoRate /\ earning[j][c].rate.type = "PERCENT"}
            set   == {c \in Team(j) : job[j].split[c] # Even}
            best  == Max({0} \cup {earning[j][c].rate.value : c \in by})
        IN SumFunctionOnSet(job[j].split, set) <= 100 =>
             100 * SumFunctionOnSet([c \in Cleaners |-> earning[j][c].amount], by)
               <= Price * best + 50 * Cardinality(by)
=============================================================================
