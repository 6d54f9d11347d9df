---------------------------- MODULE PayrollProofs ----------------------------
(***************************************************************************)
(* The payroll of BackOffice, for any team, any rates and splits, and any  *)
(* number of jobs and requests.                                            *)
(***************************************************************************)
EXTENDS BackOfficeProofs

-----------------------------------------------------------------------------
(* The tables and the requests *)

PayoutRow(q) == q = [cleaner |-> q.cleaner, total |-> q.total, status |-> q.status, method |-> q.method]

Payouts(s) == /\ Len(s) \in Nat /\ s = [p \in 1..Len(s) |-> s[p]]
              /\ \A p \in 1..Len(s) : PayoutRow(s[p]) /\ s[p].cleaner \in Cleaners

\* An earning is in a payout or in none, and paid when its payout is.
EarningIn(e, s) ==
    /\ e = [status |-> e.status, amount |-> e.amount, rate |-> e.rate, payout |-> e.payout]
    /\ e.payout \in 0..Len(s)
    /\ e.payout # 0 <=> e.status \in {"IN_PAYOUT", "PAID"}
    /\ e.status = "PAID" <=> e.payout # 0 /\ s[e.payout].status = "PAID"

Earnings(g, s) == /\ g = [j \in Jobs |-> [c \in Cleaners |-> g[j][c]]]
                  /\ \A j \in Jobs, c \in Cleaners : EarningIn(g[j][c], s)

\* What a request may be at, with n payouts made.
AtWork(w, n) ==
    \/ w = Idle
    \/ \E j \in Jobs, cs \in SUBSET Cleaners : w = [pc |-> "earn", job |-> j, left |-> cs]
    \/ \E c \in Cleaners, js \in SUBSET Jobs : w = [pc |-> "batch", cleaner |-> c, of |-> js]
    \/ \E p \in 1..n, k \in {"transfer", "paid"}, m \in {"MANUAL", "STRIPE"} :
          w = [pc |-> k, payout |-> p, method |-> m]

Requested(k, n) == k = [r \in Clerks |-> k[r]] /\ \A r \in Clerks : AtWork(k[r], n)

PayrollTables == Payouts(payouts) /\ Earnings(earning, payouts) /\ Requested(clerk, Len(payouts))

Balances(p) == payouts[p].total = Total(payouts[p].cleaner,
                                        {j \in Jobs : earning[j][payouts[p].cleaner].payout = p})

PayrollInv == PayrollTables /\ PayoutIsItsEarnings

-----------------------------------------------------------------------------

LEMMA AtWorkOf ==
    ASSUME NEW w, NEW n \in Nat, AtWork(w, n)
    PROVE  /\ w.pc = "earn" => /\ w.job \in Jobs /\ w.left \subseteq Cleaners
                               /\ w = [pc |-> "earn", job |-> w.job, left |-> w.left]
           /\ w.pc = "batch" => w.cleaner \in Cleaners /\ w.of \subseteq Jobs
           /\ w.pc \in {"transfer", "paid"} => /\ w.payout \in 1..n /\ w.method \in {"MANUAL", "STRIPE"}
                                               /\ w = [pc |-> w.pc, payout |-> w.payout, method |-> w.method]
<1>1. CASE w = Idle
  BY <1>1 DEF Idle
<1>2. CASE \E j \in Jobs, cs \in SUBSET Cleaners : w = [pc |-> "earn", job |-> j, left |-> cs]
  BY <1>2
<1>3. CASE \E c \in Cleaners, js \in SUBSET Jobs : w = [pc |-> "batch", cleaner |-> c, of |-> js]
  BY <1>3
<1>4. CASE \E p \in 1..n, k \in {"transfer", "paid"}, m \in {"MANUAL", "STRIPE"} :
             w = [pc |-> k, payout |-> p, method |-> m]
  BY <1>4
<1> QED BY <1>1, <1>2, <1>3, <1>4 DEF AtWork

\* With more payouts a request is at work as before.
LEMMA AtWorkStill == ASSUME NEW w, NEW n \in Nat, AtWork(w, n) PROVE AtWork(w, n + 1)
<1>1. 1..n \subseteq 1..(n + 1)
  OBVIOUS
<1> QED BY <1>1 DEF AtWork

LEMMA RequestGoes ==
    ASSUME NEW r \in Clerks, NEW n \in Nat, Requested(clerk, n), NEW w, AtWork(w, n), Goto(r, w)
    PROVE  Requested(clerk', n)
<1>1. \A q \in Clerks : clerk'[q] = IF q = r THEN w ELSE clerk[q]
  BY DEF Requested, Goto
<1>2. clerk' = [q \in Clerks |-> clerk'[q]]
  BY DEF Requested, Goto
<1>3. \A q \in Clerks : AtWork(clerk'[q], n)
  BY <1>1 DEF Requested
<1> QED BY <1>2, <1>3 DEF Requested

\* What a cleaner's payouts add up to depends on the amounts alone.
LEMMA TotalKept ==
    ASSUME NEW c \in Cleaners, NEW js, js \subseteq Jobs,
           \A j \in js : earning'[j][c].amount = earning[j][c].amount
    PROVE  Total(c, js)' = Total(c, js)
<1>1. PICK f : f = [j \in Jobs |-> earning[j][c].amount]
  OBVIOUS
<1>2. PICK g : g = [j \in Jobs |-> earning'[j][c].amount]
  OBVIOUS
<1>3. \A j \in js : g[j] = f[j]
  BY <1>1, <1>2
<1>4. SumFunctionOnSet(g, js) = SumFunctionOnSet(f, js)
  BY <1>3, SumSame
<1> QED BY <1>1, <1>2, <1>4 DEF Total

\* A step leaves the first n payouts, and what is in them.
Steady(n) == \A p \in 1..n : payouts'[p].cleaner = payouts[p].cleaner /\ payouts'[p].total = payouts[p].total
Within(n) == \A p \in 1..n : \A j \in Jobs, c \in Cleaners :
                /\ earning'[j][c].payout = p <=> earning[j][c].payout = p
                /\ earning[j][c].payout = p => earning'[j][c].amount = earning[j][c].amount

\* The payouts of before are worth what they were.
LEMMA PayoutsKept ==
    ASSUME PayrollInv, NEW n \in Nat, n = Len(payouts), n <= Len(payouts'), ~stale' => ~stale,
           Steady(n), ~stale' => Within(n)
    PROVE  ~stale' => \A p \in 1..n : Balances(p)'
<1> SUFFICES ASSUME ~stale', NEW p \in 1..n
             PROVE  Balances(p)'
  OBVIOUS
<1>1. PICK c \in Cleaners : c = payouts[p].cleaner
  BY DEF PayrollInv, PayrollTables, Payouts
<1>2. PICK js : js = {j \in Jobs : earning[j][c].payout = p}
  OBVIOUS
<1>3. js = {j \in Jobs : earning'[j][c].payout = p}
  BY <1>2 DEF Within
<1>4. Total(c, js)' = Total(c, js)
  BY <1>2, TotalKept DEF Within
<1>5. p \in DOMAIN payouts
  BY DEF PayrollInv, PayrollTables, Payouts
<1>6. payouts[p].total = Total(c, js)
  BY <1>1, <1>2, <1>5 DEF PayrollInv, PayoutIsItsEarnings
<1>7. payouts'[p].cleaner = c /\ payouts'[p].total = Total(c, js)'
  BY <1>1, <1>4, <1>6 DEF Steady
<1> QED BY <1>3, <1>7 DEF Balances

\* What is true of every earning of the step, with the payouts it leaves.
LEMMA PayrollHoldsAgain ==
    ASSUME PayrollInv, NEW n \in Nat, n = Len(payouts), Payouts(payouts'), Len(payouts') = n,
           earning' = [j \in Jobs |-> [c \in Cleaners |-> earning'[j][c]]],
           \A j \in Jobs, c \in Cleaners : EarningIn(earning'[j][c], payouts'),
           Requested(clerk', n), ~stale' => ~stale,
           Steady(n), ~stale' => Within(n)
    PROVE  PayrollInv'
<1>1. ~stale' => \A p \in 1..n : Balances(p)'
  BY PayoutsKept
<1>2. DOMAIN payouts' = 1..n
  BY DEF Payouts
<1>3. PayoutIsItsEarnings'
  BY <1>1, <1>2 DEF PayoutIsItsEarnings, Balances
<1>4. PayrollTables'
  BY DEF PayrollTables, Earnings
<1> QED BY <1>3, <1>4 DEF PayrollInv

\* A request or Stripe goes on, and the tables stay.
LEMMA TablesLeft ==
    ASSUME PayrollInv, UNCHANGED <<earning, payouts, stale>>, Requested(clerk', Len(payouts))
    PROVE  PayrollInv'
<1>1. PICK n \in Nat : n = Len(payouts)
  BY DEF PayrollInv, PayrollTables, Payouts
<1>2. Payouts(payouts') /\ Len(payouts') = n /\ Requested(clerk', n)
  BY <1>1 DEF PayrollInv, PayrollTables
<1>3. /\ earning' = [j \in Jobs |-> [c \in Cleaners |-> earning'[j][c]]]
      /\ \A j \in Jobs, c \in Cleaners : EarningIn(earning'[j][c], payouts')
  BY DEF PayrollInv, PayrollTables, Earnings
<1>4. Within(n) /\ Steady(n)
  BY DEF Within, Steady
<1> QED BY <1>1, <1>2, <1>3, <1>4, PayrollHoldsAgain

\* Earnings change that are in no payout, and stay out of all.
LEMMA OutOfPayouts ==
    ASSUME PayrollInv, UNCHANGED <<payouts, stale>>, Requested(clerk', Len(payouts)),
           earning' = [j \in Jobs |-> [c \in Cleaners |-> earning'[j][c]]],
           \A j \in Jobs, c \in Cleaners :
              \/ earning'[j][c] = earning[j][c]
              \/ /\ earning[j][c].payout = 0 /\ earning'[j][c].payout = 0
                 /\ earning'[j][c].status \notin {"IN_PAYOUT", "PAID"}
                 /\ earning'[j][c] = [status |-> earning'[j][c].status, amount |-> earning'[j][c].amount,
                                      rate |-> earning'[j][c].rate, payout |-> 0]
    PROVE  PayrollInv'
<1>1. PICK n \in Nat : n = Len(payouts)
  BY DEF PayrollInv, PayrollTables, Payouts
<1>2. Payouts(payouts') /\ Len(payouts') = n /\ Requested(clerk', n)
  BY <1>1 DEF PayrollInv, PayrollTables
<1>3. ASSUME NEW j \in Jobs, NEW c \in Cleaners
      PROVE  EarningIn(earning'[j][c], payouts')
  <2>1. EarningIn(earning[j][c], payouts)
    BY DEF PayrollInv, PayrollTables, Earnings
  <2>2. CASE earning'[j][c] = earning[j][c]
    BY <2>1, <2>2
  <2>3. CASE earning'[j][c] # earning[j][c]
    <3>1. PICK e : e = earning'[j][c]
      OBVIOUS
    <3>2. /\ e = [status |-> e.status, amount |-> e.amount, rate |-> e.rate, payout |-> 0]
          /\ e.payout = 0 /\ e.status \notin {"IN_PAYOUT", "PAID"}
      BY <2>3, <3>1
    <3>3. 0 \in 0..Len(payouts')
      BY <1>1, <1>2
    <3>4. EarningIn(e, payouts')
      BY <3>2, <3>3 DEF EarningIn
    <3> QED BY <3>1, <3>4
  <2> QED BY <2>2, <2>3
<1>4. Within(n) /\ Steady(n)
  <2> SUFFICES ASSUME NEW p \in 1..n, NEW j \in Jobs, NEW c \in Cleaners
               PROVE  /\ earning'[j][c].payout = p <=> earning[j][c].payout = p
                      /\ earning[j][c].payout = p => earning'[j][c].amount = earning[j][c].amount
    BY DEF Within, Steady
  <2>1. p # 0
    OBVIOUS
  <2>2. earning'[j][c] = earning[j][c] \/ (earning[j][c].payout = 0 /\ earning'[j][c].payout = 0)
    OBVIOUS
  <2> QED BY <2>1, <2>2
<1> QED BY <1>1, <1>2, <1>3, <1>4, PayrollHoldsAgain

LEMMA EarnHolds == ASSUME PayrollInv, NEW r \in Clerks, NEW c \in Cleaners, Earn(r, c) PROVE PayrollInv'
<1>1. PICK n \in Nat : n = Len(payouts)
  BY DEF PayrollInv, PayrollTables, Payouts
<1>2. /\ clerk[r].pc = "earn" /\ clerk[r].job \in Jobs /\ clerk[r].left \subseteq Cleaners
      /\ clerk[r] = [pc |-> "earn", job |-> clerk[r].job, left |-> clerk[r].left]
  BY <1>1, AtWorkOf DEF Earn, PcIs, PayrollInv, PayrollTables, Requested
<1>3. PICK j \in Jobs : j = clerk[r].job
  BY <1>2
<1>4. Requested(clerk', n)
  <2>1. PICK rest \in SUBSET Cleaners : rest = clerk[r].left \ {c}
    BY <1>2
  <2>2. PICK w : w = IF rest = {} THEN Idle ELSE [clerk[r] EXCEPT !.left = rest]
    OBVIOUS
  <2>3. Goto(r, w)
    BY <2>1, <2>2 DEF Earn, Earned
  <2>4. [clerk[r] EXCEPT !.left = rest] = [pc |-> "earn", job |-> j, left |-> rest]
    BY <1>2, <1>3
  <2>5. AtWork(w, n)
    BY <2>2, <2>4 DEF AtWork
  <2> QED BY <1>1, <2>3, <2>5, RequestGoes DEF PayrollInv, PayrollTables
<1>5. UNCHANGED <<payouts, stale>>
  BY DEF Earn
<1>6. CASE UNCHANGED earning
  BY <1>1, <1>4, <1>5, <1>6, TablesLeft
<1>7. CASE earning[j][c].status = "NONE" /\ earning' = [earning EXCEPT ![j][c] =
             [None EXCEPT !.status = "PENDING", !.amount = Worth(j, c), !.rate = comp[c]]]
  <2>0. PICK a, k : a = Worth(j, c) /\ k = comp[c]
    OBVIOUS
  <2>a. PICK e : e = [None EXCEPT !.status = "PENDING", !.amount = a, !.rate = k]
    OBVIOUS
  <2>1. e = [status |-> "PENDING", amount |-> a, rate |-> k, payout |-> 0]
    BY <2>a DEF None
  <2>2. earning' = [earning EXCEPT ![j][c] = e]
    BY <1>7, <2>0, <2>a
  <2>3. earning = [i \in Jobs |-> [d \in Cleaners |-> earning[i][d]]]
    BY DEF PayrollInv, PayrollTables, Earnings
  <2>4. \A i \in Jobs, d \in Cleaners : earning'[i][d] = IF i = j /\ d = c THEN e ELSE earning[i][d]
    BY <2>2, <2>3
  <2>5. earning' = [i \in Jobs |-> [d \in Cleaners |-> earning'[i][d]]]
    BY <2>2, <2>3
  <2>6. earning[j][c].payout = 0
    BY <1>7 DEF PayrollInv, PayrollTables, Earnings, EarningIn
  <2>7. ASSUME NEW i \in Jobs, NEW d \in Cleaners
        PROVE  \/ earning'[i][d] = earning[i][d]
               \/ /\ earning[i][d].payout = 0 /\ earning'[i][d].payout = 0
                  /\ earning'[i][d].status \notin {"IN_PAYOUT", "PAID"}
                  /\ earning'[i][d] = [status |-> earning'[i][d].status, amount |-> earning'[i][d].amount,
                                       rate |-> earning'[i][d].rate, payout |-> 0]
    <3>1. e = [status |-> e.status, amount |-> e.amount, rate |-> e.rate, payout |-> 0] /\ e.payout = 0
          /\ e.status \notin {"IN_PAYOUT", "PAID"}
      BY <2>1
    <3>2. CASE i = j /\ d = c
      BY <2>4, <2>6, <3>1, <3>2
    <3>3. CASE ~(i = j /\ d = c)
      BY <2>4, <3>3
    <3> QED BY <3>2, <3>3
  <2> QED BY <1>1, <1>4, <1>5, <2>5, <2>7, OutOfPayouts
<1> QED BY <1>3, <1>6, <1>7 DEF Earn

LEMMA DisputeEventHolds ==
    ASSUME PayrollInv, NEW j \in Jobs, NEW what \in {"open", "won", "lost"}, DisputeEvent(j, what)
    PROVE  PayrollInv'
<1>1. UNCHANGED <<payouts, stale, clerk>>
  BY DEF DisputeEvent
<1>2. Requested(clerk', Len(payouts))
  BY <1>1 DEF PayrollInv, PayrollTables
<1>3. CASE UNCHANGED earning
  BY <1>1, <1>2, <1>3, TablesLeft
<1>4. ASSUME NEW from, NEW to, from \notin {"IN_PAYOUT", "PAID"}, to \notin {"IN_PAYOUT", "PAID"}, Moved(j, from, to)
      PROVE  PayrollInv'
  <2>1. earning = [i \in Jobs |-> [d \in Cleaners |-> earning[i][d]]]
    BY DEF PayrollInv, PayrollTables, Earnings
  <2>2. PICK moved : moved = [c \in Cleaners |-> IF earning[j][c].status = from
                                                 THEN [earning[j][c] EXCEPT !.status = to] ELSE earning[j][c]]
    OBVIOUS
  <2>3. earning' = [earning EXCEPT ![j] = moved]
    BY <1>4, <2>2 DEF Moved
  <2>4. \A i \in Jobs, d \in Cleaners : earning'[i][d] = IF i = j THEN moved[d] ELSE earning[i][d]
    BY <2>1, <2>3
  <2>5. earning' = [i \in Jobs |-> [d \in Cleaners |-> earning'[i][d]]]
    BY <2>1, <2>2, <2>3
  <2>6. ASSUME NEW i \in Jobs, NEW d \in Cleaners
        PROVE  \/ earning'[i][d] = earning[i][d]
               \/ /\ earning[i][d].payout = 0 /\ earning'[i][d].payout = 0
                  /\ earning'[i][d].status \notin {"IN_PAYOUT", "PAID"}
                  /\ earning'[i][d] = [status |-> earning'[i][d].status, amount |-> earning'[i][d].amount,
                                       rate |-> earning'[i][d].rate, payout |-> 0]
    <3>1. CASE i = j /\ earning[j][d].status = from
      <4>1. PICK e : e = earning[j][d]
        OBVIOUS
      <4>2. /\ e = [status |-> e.status, amount |-> e.amount, rate |-> e.rate, payout |-> e.payout]
            /\ e.payout = 0
        BY <1>4, <3>1, <4>1 DEF PayrollInv, PayrollTables, Earnings, EarningIn
      <4>3. PICK v : v = [e EXCEPT !.status = to]
        OBVIOUS
      <4>4. earning'[j][d] = v
        BY <2>2, <2>4, <3>1, <4>1, <4>3
      <4>5. v = [status |-> to, amount |-> e.amount, rate |-> e.rate, payout |-> 0]
        BY <4>2, <4>3
      <4>6. v = [status |-> v.status, amount |-> v.amount, rate |-> v.rate, payout |-> 0] /\ v.payout = 0 /\ v.status = to
        BY <4>5
      <4> QED BY <1>4, <3>1, <4>1, <4>2, <4>4, <4>6
    <3>2. CASE ~(i = j /\ earning[j][d].status = from)
      BY <2>2, <2>4, <3>2
    <3> QED BY <3>1, <3>2
  <2> QED BY <1>1, <1>2, <2>5, <2>6, OutOfPayouts
<1> QED BY <1>3, <1>4 DEF DisputeEvent

\* The steps that touch neither the earnings nor the payouts.
LEMMA RequestsHold ==
    ASSUME PayrollInv, NEW r \in Clerks,
           \/ \E j \in Jobs : Complete(r, j)
           \/ \E c \in Cleaners : Collect(r, c)
           \/ \E p \in 1..MaxPayouts, m \in {"MANUAL", "STRIPE"} : Settle(r, p, m)
           \/ Transfer(r) \/ Dies(r)
    PROVE  PayrollInv'
<1>1. PICK n \in Nat : n = Len(payouts)
  BY DEF PayrollInv, PayrollTables, Payouts
<1>2. UNCHANGED <<earning, payouts, stale>>
  BY DEF Complete, Collect, Settle, Transfer, Dies
<1>3. ASSUME NEW w, AtWork(w, n), Goto(r, w) PROVE PayrollInv'
  BY <1>1, <1>2, <1>3, RequestGoes, TablesLeft DEF PayrollInv, PayrollTables
<1>4. ASSUME NEW j \in Jobs, Complete(r, j) PROVE PayrollInv'
  <2>1. PICK w : w = [pc |-> "earn", job |-> j, left |-> Team(j)]
    OBVIOUS
  <2>2. Team(j) \in SUBSET Cleaners
    BY DEF Team
  <2>3. AtWork(w, n) /\ Goto(r, w)
    BY <1>4, <2>1, <2>2 DEF AtWork, Complete
  <2> QED BY <1>3, <2>3
<1>5. ASSUME NEW c \in Cleaners, Collect(r, c) PROVE PayrollInv'
  <2>1. PICK w : w = [pc |-> "batch", cleaner |-> c, of |-> With(c, "PENDING")]
    OBVIOUS
  <2>2. With(c, "PENDING") \in SUBSET Jobs
    BY DEF With
  <2>3. AtWork(w, n) /\ Goto(r, w)
    BY <1>5, <2>1, <2>2 DEF AtWork, Collect
  <2> QED BY <1>3, <2>3
<1>6. ASSUME NEW p \in 1..MaxPayouts, NEW m \in {"MANUAL", "STRIPE"}, Settle(r, p, m) PROVE PayrollInv'
  <2>1. PICK k \in {"transfer", "paid"} : k = IF m = "STRIPE" THEN "transfer" ELSE "paid"
    OBVIOUS
  <2>2. PICK w : w = [pc |-> k, payout |-> p, method |-> m]
    OBVIOUS
  <2>3. p \in 1..n
    BY <1>1, <1>6 DEF Settle, PayrollInv, PayrollTables, Payouts
  <2>4. AtWork(w, n) /\ Goto(r, w)
    BY <1>6, <2>1, <2>2, <2>3 DEF AtWork, Settle
  <2> QED BY <1>3, <2>4
<1>7. CASE Transfer(r)
  <2>1. /\ clerk[r].payout \in 1..n /\ clerk[r].method \in {"MANUAL", "STRIPE"}
        /\ clerk[r] = [pc |-> clerk[r].pc, payout |-> clerk[r].payout, method |-> clerk[r].method]
    BY <1>1, <1>7, AtWorkOf DEF Transfer, PcIs, PayrollInv, PayrollTables, Requested
  <2>2. PICK p \in 1..n, m \in {"MANUAL", "STRIPE"} : p = clerk[r].payout /\ m = clerk[r].method
    BY <2>1
  <2>3. PICK w : w = [clerk[r] EXCEPT !.pc = "paid"]
    OBVIOUS
  <2>4. w = [pc |-> "paid", payout |-> p, method |-> m]
    BY <2>1, <2>2, <2>3
  <2>5. AtWork(w, n) /\ Goto(r, w)
    BY <1>7, <2>3, <2>4 DEF AtWork, Transfer
  <2> QED BY <1>3, <2>5
<1>8. CASE Dies(r)
  BY <1>3, <1>8 DEF Dies, AtWork
<1> QED BY <1>4, <1>5, <1>6, <1>7, <1>8

\* A payout is settled, and all that is in it.
LEMMA PaidHolds == ASSUME PayrollInv, NEW r \in Clerks, Paid(r) PROVE PayrollInv'
<1>1. PICK n \in Nat : n = Len(payouts)
  BY DEF PayrollInv, PayrollTables, Payouts
<1>2. PICK p \in 1..n : p = clerk[r].payout
  BY <1>1, AtWorkOf DEF Paid, PcIs, PayrollInv, PayrollTables, Requested
<1>3. PICK m : m = clerk[r].method
  OBVIOUS
<1>4. payouts = [q \in 1..n |-> payouts[q]] /\ \A q \in 1..n : PayoutRow(payouts[q]) /\ payouts[q].cleaner \in Cleaners
  BY <1>1 DEF PayrollInv, PayrollTables, Payouts
<1>5. PICK w : w = [payouts[p] EXCEPT !.status = "PAID", !.method = m]
  OBVIOUS
<1>6. PICK v : v = payouts[p]
  OBVIOUS
<1>7. PayoutRow(w) /\ w.cleaner = v.cleaner /\ w.total = v.total /\ w.status = "PAID"
  <2>1. v = [cleaner |-> v.cleaner, total |-> v.total, status |-> v.status, method |-> v.method]
    BY <1>4, <1>6 DEF PayoutRow
  <2>2. w = [v EXCEPT !.status = "PAID", !.method = m]
    BY <1>5, <1>6
  <2> QED BY <2>1, <2>2 DEF PayoutRow
<1>8. payouts' = [payouts EXCEPT ![p] = w]
  <2>1. payouts' = [payouts EXCEPT ![p].status = "PAID", ![p].method = m]
    BY <1>2, <1>3 DEF Paid
  <2> QED BY <1>4, <1>5, <2>1
<1>9. \A q \in 1..n : payouts'[q] = IF q = p THEN w ELSE payouts[q]
  BY <1>4, <1>8
<1>10. payouts' = [q \in 1..n |-> payouts'[q]] /\ Len(payouts') = n
  <2>1. payouts' = [q \in 1..n |-> payouts'[q]]
    BY <1>4, <1>8
  <2> QED BY <2>1, Listed
<1>11. \A q \in 1..n : PayoutRow(payouts'[q]) /\ payouts'[q].cleaner = payouts[q].cleaner /\ payouts'[q].total = payouts[q].total
  BY <1>4, <1>6, <1>7, <1>9
<1>12. Payouts(payouts')
  BY <1>4, <1>10, <1>11 DEF Payouts
<1>13. \A j \in Jobs, c \in Cleaners : earning'[j][c] = IF earning[j][c].payout = p
                                                        THEN [earning[j][c] EXCEPT !.status = "PAID"] ELSE earning[j][c]
  BY <1>2 DEF Paid
<1>14. earning' = [j \in Jobs |-> [c \in Cleaners |-> earning'[j][c]]]
  BY DEF Paid
<1>15. ASSUME NEW j \in Jobs, NEW c \in Cleaners
       PROVE  /\ EarningIn(earning'[j][c], payouts') /\ earning'[j][c].payout = earning[j][c].payout
              /\ earning'[j][c].amount = earning[j][c].amount
  <2>1. PICK e : e = earning[j][c]
    OBVIOUS
  <2>2. EarningIn(e, payouts)
    BY <2>1 DEF PayrollInv, PayrollTables, Earnings
  <2>3. CASE e.payout = p
    <3>1. PICK f : f = [e EXCEPT !.status = "PAID"]
      OBVIOUS
    <3>2. earning'[j][c] = f
      BY <1>13, <2>1, <2>3, <3>1
    <3>3. /\ f = [status |-> f.status, amount |-> f.amount, rate |-> f.rate, payout |-> f.payout]
          /\ f.status = "PAID" /\ f.payout = e.payout /\ f.amount = e.amount
      BY <2>2, <3>1 DEF EarningIn
    <3>4. f.payout \in 0..Len(payouts') /\ f.payout # 0 /\ payouts'[f.payout].status = "PAID"
      BY <1>7, <1>9, <1>10, <2>3, <3>3
    <3>5. EarningIn(f, payouts')
      BY <3>3, <3>4 DEF EarningIn
    <3> QED BY <2>1, <3>2, <3>3, <3>5
  <2>4. CASE e.payout # p
    <3>1. earning'[j][c] = e
      BY <1>13, <2>1, <2>4
    <3>2. e.payout \in 0..n
      BY <1>1, <2>2 DEF EarningIn
    <3>3. e.payout # 0 => payouts'[e.payout] = payouts[e.payout]
      BY <1>9, <2>4, <3>2
    <3>4. e.payout \in 0..Len(payouts')
      BY <1>10, <3>2
    <3>5. EarningIn(e, payouts')
      BY <2>2, <3>3, <3>4 DEF EarningIn
    <3> QED BY <2>1, <3>1, <3>5
  <2> QED BY <2>3, <2>4
<1>16. Requested(clerk', n)
  <2>1. Goto(r, Idle) /\ AtWork(Idle, n)
    BY DEF Paid, AtWork
  <2> QED BY <1>1, <2>1, RequestGoes DEF PayrollInv, PayrollTables
<1>17. UNCHANGED stale
  BY DEF Paid
<1>18. Within(n) /\ Steady(n)
  BY <1>11, <1>15 DEF Within, Steady
<1> QED BY <1>1, <1>10, <1>11, <1>12, <1>14, <1>15, <1>16, <1>17, <1>18, PayrollHoldsAgain

\* A new payout is worth the pending earnings it was made of, and no other
\* payout had any of these.
LEMMA BatchHolds == ASSUME PayrollInv, NEW r \in Clerks, Batch(r) PROVE PayrollInv'
<1>1. PICK n \in Nat : n = Len(payouts)
  BY DEF PayrollInv, PayrollTables, Payouts
<1>2. clerk[r].cleaner \in Cleaners /\ clerk[r].of \subseteq Jobs
  BY <1>1, AtWorkOf DEF Batch, PcIs, PayrollInv, PayrollTables, Requested
<1>3. PICK c \in Cleaners, js \in SUBSET Jobs : c = clerk[r].cleaner /\ js = clerk[r].of
  BY <1>2
<1>4. payouts = [q \in 1..n |-> payouts[q]] /\ \A q \in 1..n : PayoutRow(payouts[q]) /\ payouts[q].cleaner \in Cleaners
  BY <1>1 DEF PayrollInv, PayrollTables, Payouts
<1>5. PICK tot : tot = Total(c, js)
  OBVIOUS
<1>6. PICK w : w = [cleaner |-> c, total |-> tot, status |-> "PENDING", method |-> "NONE"]
  OBVIOUS
<1>7. payouts' = Append(payouts, w) /\ InPayout(c, js, n + 1) /\ stale' = (stale \/ ~(js \subseteq With(c, "PENDING")))
  BY <1>1, <1>3, <1>5, <1>6 DEF Batch
<1>8. /\ Len(payouts') = n + 1 /\ payouts' = [q \in 1..(n + 1) |-> payouts'[q]] /\ payouts'[n + 1] = w
      /\ \A q \in 1..n : payouts'[q] = payouts[q]
  BY <1>4, <1>7, OneMore
<1>9. PayoutRow(w) /\ w.cleaner = c /\ w.total = tot /\ w.status = "PENDING"
  BY <1>6 DEF PayoutRow
<1>10. Payouts(payouts')
  <2>1. \A q \in 1..(n + 1) : q = n + 1 \/ q \in 1..n
    OBVIOUS
  <2>2. \A q \in 1..(n + 1) : PayoutRow(payouts'[q]) /\ payouts'[q].cleaner \in Cleaners
    BY <1>4, <1>8, <1>9, <2>1
  <2> QED BY <1>8, <2>2 DEF Payouts
<1>11. earning = [j \in Jobs |-> [d \in Cleaners |-> earning[j][d]]] /\ \A j \in Jobs, d \in Cleaners : EarningIn(earning[j][d], payouts)
  BY DEF PayrollInv, PayrollTables, Earnings
<1>12. earning' = [j \in Jobs |-> IF j \in js THEN [earning[j] EXCEPT ![c].status = "IN_PAYOUT", ![c].payout = n + 1]
                                  ELSE earning[j]]
  BY <1>7 DEF InPayout
<1>13. earning' = [j \in Jobs |-> [d \in Cleaners |-> earning'[j][d]]]
  BY <1>11, <1>12
<1>14. \A j \in Jobs, d \in Cleaners :
          earning'[j][d] = IF j \in js /\ d = c THEN [earning[j][d] EXCEPT !.status = "IN_PAYOUT", !.payout = n + 1]
                           ELSE earning[j][d]
  BY <1>11, <1>12
<1>15. ASSUME NEW j \in Jobs, NEW d \in Cleaners
       PROVE  /\ EarningIn(earning'[j][d], payouts') /\ earning'[j][d].amount = earning[j][d].amount
              /\ earning'[j][d].payout = IF j \in js /\ d = c THEN n + 1 ELSE earning[j][d].payout
              /\ earning[j][d].payout \in 0..n
  <2>1. PICK e : e = earning[j][d]
    OBVIOUS
  <2>2. EarningIn(e, payouts)
    BY <1>11, <2>1
  <2>3. e.payout \in 0..n
    BY <1>1, <2>2 DEF EarningIn
  <2>4. CASE j \in js /\ d = c
    <3>1. PICK f : f = [e EXCEPT !.status = "IN_PAYOUT", !.payout = n + 1]
      OBVIOUS
    <3>2. earning'[j][d] = f
      BY <1>14, <2>1, <2>4, <3>1
    <3>3. /\ f = [status |-> f.status, amount |-> f.amount, rate |-> f.rate, payout |-> f.payout]
          /\ f.status = "IN_PAYOUT" /\ f.payout = n + 1 /\ f.amount = e.amount
      BY <2>2, <3>1 DEF EarningIn
    <3>4. f.payout \in 0..Len(payouts') /\ f.payout # 0 /\ payouts'[f.payout].status = "PENDING"
      BY <1>8, <1>9, <3>3
    <3>5. EarningIn(f, payouts')
      BY <3>3, <3>4 DEF EarningIn
    <3> QED BY <2>1, <2>3, <2>4, <3>2, <3>3, <3>5
  <2>5. CASE ~(j \in js /\ d = c)
    <3>1. earning'[j][d] = e
      BY <1>14, <2>1, <2>5
    <3>2. e.payout \in 0..Len(payouts') /\ (e.payout # 0 => payouts'[e.payout] = payouts[e.payout])
      BY <1>8, <2>3
    <3>3. EarningIn(e, payouts')
      BY <2>2, <3>2 DEF EarningIn
    <3> QED BY <2>1, <2>3, <2>5, <3>1, <3>3
  <2> QED BY <2>4, <2>5
<1>16. Requested(clerk', n + 1)
  <2>1. Goto(r, Idle) /\ AtWork(Idle, n)
    BY DEF Batch, AtWork
  <2>2. Requested(clerk', n)
    BY <1>1, <2>1, RequestGoes DEF PayrollInv, PayrollTables
  <2> QED BY <2>2, AtWorkStill DEF Requested
<1>17. PayrollTables'
  BY <1>8, <1>10, <1>13, <1>15, <1>16 DEF PayrollTables, Earnings
<1>18. ASSUME ~stale', NEW j \in js PROVE earning[j][c].payout = 0
  <2>1. earning[j][c].status = "PENDING"
    BY <1>7, <1>18 DEF With
  <2> QED BY <1>11, <2>1 DEF EarningIn
<1>19. ~stale' => \A q \in 1..n : Balances(q)'
  <2>1. ~stale' => Within(n)
    <3> SUFFICES ASSUME ~stale', NEW q \in 1..n, NEW j \in Jobs, NEW d \in Cleaners
                 PROVE  /\ earning'[j][d].payout = q <=> earning[j][d].payout = q
                        /\ earning[j][d].payout = q => earning'[j][d].amount = earning[j][d].amount
      BY DEF Within
    <3>1. q # 0 /\ q # n + 1
      OBVIOUS
    <3> QED BY <1>15, <1>18, <3>1
  <2>2. Steady(n)
    BY <1>8 DEF Steady
  <2>3. n <= Len(payouts')
    BY <1>8
  <2>4. ~stale' => ~stale
    BY <1>7, Zenon
  <2> QED BY <1>1, <2>1, <2>2, <2>3, <2>4, PayoutsKept
<1>20. ~stale' => Balances(n + 1)'
  <2> SUFFICES ASSUME ~stale' PROVE Balances(n + 1)'
    OBVIOUS
  <2>1. js = {j \in Jobs : earning'[j][c].payout = n + 1}
    <3>1. \A j \in Jobs : earning'[j][c].payout = n + 1 <=> j \in js
      BY <1>15
    <3> QED BY <3>1
  <2>2. Total(c, js)' = Total(c, js)
    BY <1>15, TotalKept
  <2>3. payouts'[n + 1].cleaner = c /\ payouts'[n + 1].total = Total(c, js)'
    BY <1>5, <1>8, <1>9, <2>2
  <2> QED BY <2>1, <2>3 DEF Balances
<1>21. PayoutIsItsEarnings'
  <2>1. DOMAIN payouts' = 1..(n + 1) /\ \A q \in 1..(n + 1) : q = n + 1 \/ q \in 1..n
    BY <1>8
  <2>2. ~stale' => \A q \in DOMAIN payouts' : Balances(q)'
    BY <1>19, <1>20, <2>1
  <2> QED BY <2>2 DEF PayoutIsItsEarnings, Balances
<1> QED BY <1>17, <1>21 DEF PayrollInv

LEMMA PayrollStepHolds == PayrollInv /\ [PayrollNext]_payrollVars => PayrollInv'
<1> SUFFICES ASSUME PayrollInv, [PayrollNext]_payrollVars PROVE PayrollInv'
  OBVIOUS
<1>1. CASE UNCHANGED <<earning, payouts, clerk, stale>>
  BY <1>1, TablesLeft DEF PayrollInv, PayrollTables
<1>2. ASSUME NEW j \in Jobs, NEW what \in {"open", "won", "lost"}, DisputeEvent(j, what) PROVE PayrollInv'
  BY <1>2, DisputeEventHolds
<1>3. ASSUME NEW r \in Clerks,
             \/ \E j \in Jobs : Complete(r, j)
             \/ \E c \in Cleaners : Earn(r, c) \/ Collect(r, c)
             \/ \E p \in 1..MaxPayouts, m \in {"MANUAL", "STRIPE"} : Settle(r, p, m)
             \/ Batch(r) \/ Transfer(r) \/ Paid(r) \/ Dies(r)
      PROVE  PayrollInv'
  BY <1>3, RequestsHold, EarnHolds, BatchHolds, PaidHolds
<1>4. (\E c \in Cleaners, rate \in Rates : SetCompensation(c, rate))
        \/ (\E j \in Jobs : Dispute(j) \/ \E v \in {"won", "lost"} : Close(j, v))
        \/ UNCHANGED payrollVars => UNCHANGED <<earning, payouts, clerk, stale>>
  BY DEF SetCompensation, Dispute, Close, payrollVars
<1> QED BY <1>1, <1>2, <1>3, <1>4 DEF PayrollNext

LEMMA PayrollStarts == PayrollInit => PayrollInv
<1> SUFFICES ASSUME PayrollInit PROVE PayrollInv
  OBVIOUS
<1>1. payouts = <<>> /\ Len(payouts) = 0 /\ DOMAIN payouts = 1..0 /\ payouts = [p \in 1..0 |-> payouts[p]]
  BY DEF PayrollInit
<1>2. Payouts(payouts)
  BY <1>1 DEF Payouts
<1>3. Earnings(earning, payouts)
  BY <1>1 DEF PayrollInit, Earnings, EarningIn, None
<1>4. Requested(clerk, Len(payouts))
  BY DEF PayrollInit, Requested, AtWork
<1>5. PayoutIsItsEarnings
  BY <1>1 DEF PayoutIsItsEarnings
<1> QED BY <1>2, <1>3, <1>4, <1>5 DEF PayrollInv, PayrollTables

LEMMA SettledAsTheyAre == PayrollInv => PayoutsBalance
BY DEF PayrollInv, PayrollTables, Earnings, EarningIn, PayoutsBalance, SettledTogether

\* Whatever completions, disputes, clerks and crashes do to each other: an
\* earning is paid exactly when its payout is, and a payout is worth what its
\* earnings are worth unless it was made of some that were no longer pending.
THEOREM PayoutsAlwaysBalance == Spec => []PayoutsBalance
<1>1. Init => PayrollInv
  BY PayrollStarts DEF Init
<1>2. PayrollInv /\ [Next]_vars => PayrollInv'
  <2>1. [Next]_vars => [PayrollNext]_payrollVars
    BY DEF Next, PayrollStep, InvoicesStep, InventoryStep, CareStep, Outside, vars
  <2> QED BY <2>1, PayrollStepHolds
<1> QED BY <1>1, <1>2, SettledAsTheyAre, PTL DEF Spec

-----------------------------------------------------------------------------
(* What a team gets of a job *)

LEMMA RoundedAtMost ==
    ASSUME NEW n \in Nat, NEW d \in Nat \ {0}
    PROVE  Rounded(n, d) \in Nat /\ 2 * (d * Rounded(n, d)) <= 2 * n + d
<1>1. PICK a \in Nat, b \in Nat \ {0} : a = 2 * n + d /\ b = 2 * d
  OBVIOUS
<1>2. PICK q \in Int : q = a \div b
  OBVIOUS
<1>3. q \in Nat /\ b * q <= a
  BY <1>2
<1>4. b * q = 2 * (d * q)
  BY <1>1
<1> QED BY <1>1, <1>2, <1>3, <1>4 DEF Rounded

LEMMA Divided ==
    ASSUME NEW x \in Int, NEW y \in Int, NEW k \in Nat \ {0}, k * x <= k * y
    PROVE  x <= y
OBVIOUS

LEMMA MaxIsLargest ==
    ASSUME NEW S, IsFiniteSet(S), S \subseteq Int, S # {}
    PROVE  Max(S) \in S /\ \A x \in S : Max(S) >= x
BY LargestOf DEF Max

\* Of a team T those in X have a share of their own, and the others at least
\* 1/m of what is left.  Those in B are paid: what all get is no more than the
\* pool, but for the rounding of each.
PoolFacts(T, X, B, split, taken, pool, m, a) ==
    /\ IsFiniteSet(T) /\ X \subseteq T /\ B \subseteq T /\ pool \in Nat /\ m \in Nat \ {0}
    /\ \A c \in X : split[c] \in Nat
    /\ taken = SumFunctionOnSet(split, X) /\ taken <= 100
    /\ Cardinality(T \ X) <= m
    /\ \A c \in B : a[c] \in Nat
    /\ \A c \in B \cap X : 10000 * a[c] <= pool * split[c] + 5000
    /\ \A c \in B \ X : 10000 * (m * a[c]) <= pool * (100 - taken) + 5000 * m

LEMMA PoolBound ==
    ASSUME NEW T, NEW X, NEW B, NEW split, NEW taken, NEW pool, NEW m, NEW a,
           PoolFacts(T, X, B, split, taken, pool, m, a)
    PROVE  100 * SumFunctionOnSet(a, B) <= pool + 50 * Cardinality(B)
<1> SUFFICES ASSUME IsFiniteSet(T), X \in SUBSET T, B \in SUBSET T, \A c \in X : split[c] \in Nat,
                    taken = SumFunctionOnSet(split, X), taken <= 100,
                    pool \in Nat, m \in Nat \ {0}, Cardinality(T \ X) <= m, \A c \in B : a[c] \in Nat,
                    \A c \in B \cap X : 10000 * a[c] <= pool * split[c] + 5000,
                    \A c \in B \ X : 10000 * (m * a[c]) <= pool * (100 - taken) + 5000 * m
             PROVE  100 * SumFunctionOnSet(a, B) <= pool + 50 * Cardinality(B)
  BY DEF PoolFacts
<1>1. IsFiniteSet(X) /\ IsFiniteSet(B) /\ IsFiniteSet(T \ X)
  BY FS_Subset
<1>2. PICK tk \in Nat : tk = taken
  BY <1>1, SumNat
<1>3. PICK left \in Nat : left = 100 - tk
  BY <1>2
<1> DEFINE h == [c \in T |-> IF c \in X THEN m * split[c] ELSE left]
<1>4. \A c \in T : h[c] = IF c \in X THEN m * split[c] ELSE left
  OBVIOUS
<1> HIDE DEF h
<1>5. /\ \A c \in X : h[c] = m * split[c] /\ h[c] \in Nat
      /\ \A c \in T \ X : h[c] = left /\ h[c] \in Nat
  <2>1. ASSUME NEW c \in X PROVE h[c] = m * split[c] /\ h[c] \in Nat
    <3>1. h[c] = m * split[c] /\ split[c] \in Nat
      BY <1>4
    <3> QED BY <3>1
  <2>2. \A c \in T \ X : h[c] = left
    BY <1>4
  <2> QED BY <2>1, <2>2
<1>6. \A c \in T : h[c] \in Nat
  BY <1>5
<1>7. SumFunctionOnSet(h, T) <= 100 * m
  <2>1. SumFunctionOnSet(h, X) = m * tk
    <3>1. \A c \in X : split[c] \in Int /\ h[c] = m * split[c]
      BY <1>5
    <3>2. m \in Int
      OBVIOUS
    <3> QED BY <1>1, <1>2, <3>1, <3>2, SumTimes
  <2>2. PICK k \in Nat : k = Cardinality(T \ X) /\ k <= m
    BY <1>1, FS_CardinalityType
  <2>3. SumFunctionOnSet(h, T \ X) = left * k
    BY <1>1, <1>5, <2>2, SumConstant
  <2>4. SumFunctionOnSet(h, T) = SumFunctionOnSet(h, X) + SumFunctionOnSet(h, T \ X)
    <3>1. \A c \in T : h[c] \in Int
      BY <1>6
    <3> QED BY <3>1, SumInParts
  <2>5. left * k <= left * m
    BY <2>2
  <2>6. m * tk + left * m = 100 * m
    BY <1>2, <1>3
  <2>7. m * tk \in Int /\ left * k \in Int /\ left * m \in Int
    BY <2>2
  <2> QED BY <2>1, <2>3, <2>4, <2>5, <2>6, <2>7
<1>8. PICK Hb \in Nat : Hb = SumFunctionOnSet(h, B)
  <2>1. \A c \in B : h[c] \in Nat
    BY <1>6
  <2> QED BY <1>1, <2>1, SumNat
<1>9. Hb <= 100 * m
  <2>1. SumFunctionOnSet(h, B) <= SumFunctionOnSet(h, T)
    BY <1>6, SumOfPart
  <2>2. SumFunctionOnSet(h, T) \in Nat
    BY <1>6, SumNat
  <2> QED BY <1>7, <1>8, <2>1, <2>2
<1> DEFINE f == [c \in B |-> 10000 * m * a[c]]
           k == [c \in B |-> (-5000) * m]
           g == [c \in B |-> pool * h[c]]
           b == [c \in B |-> f[c] + k[c]]
<1>10. \A c \in B : f[c] = 10000 * m * a[c] /\ k[c] = (-5000) * m /\ g[c] = pool * h[c]
  OBVIOUS
<1>11. \A c \in B : b[c] = f[c] + k[c]
  <2> HIDE DEF f, k
  <2> QED OBVIOUS
<1> HIDE DEF f, g, k, b
<1>12. ASSUME NEW c \in B PROVE b[c] \in Int /\ g[c] \in Int /\ b[c] <= g[c]
  <2>1. PICK ac \in Nat, hc \in Nat : ac = a[c] /\ hc = h[c]
    BY <1>6
  <2>2. b[c] = 10000 * m * ac + (-5000) * m /\ g[c] = pool * hc
    BY <1>10, <1>11, <2>1
  <2>3. 10000 * (m * ac) <= pool * hc + 5000 * m
    <3>1. CASE c \in X
      <4>1. PICK sc \in Nat : sc = split[c]
        BY <3>1
      <4>2. 10000 * ac <= pool * sc + 5000 /\ hc = m * sc
        BY <1>5, <2>1, <3>1, <4>1
      <4>3. m * (10000 * ac) <= m * (pool * sc + 5000)
        <5>1. PICK u \in Int, v \in Int : u = 10000 * ac /\ v = pool * sc + 5000
          OBVIOUS
        <5>2. m * u <= m * v
          BY <4>2, <5>1
        <5> QED BY <5>1, <5>2
      <4>4. m * (pool * sc + 5000) = pool * (m * sc) + 5000 * m
        OBVIOUS
      <4>5. m * (10000 * ac) = 10000 * (m * ac)
        OBVIOUS
      <4> QED BY <4>2, <4>3, <4>4, <4>5
    <3>2. CASE c \notin X
      <4>1. hc = 100 - taken
        BY <1>2, <1>3, <1>5, <2>1, <3>2
      <4> QED BY <2>1, <3>2, <4>1
    <3> QED BY <3>1, <3>2
  <2>4. 10000 * m * ac = 10000 * (m * ac) /\ m * ac \in Int /\ pool * hc \in Int
    OBVIOUS
  <2> QED BY <2>2, <2>3, <2>4
<1>13. SumFunctionOnSet(b, B) <= SumFunctionOnSet(g, B)
  BY <1>1, <1>12, SumAtMost
<1>14. SumFunctionOnSet(g, B) = pool * Hb
  <2>1. \A c \in B : h[c] \in Int /\ g[c] = pool * h[c]
    BY <1>6, <1>10
  <2>2. pool \in Int
    OBVIOUS
  <2> QED BY <1>1, <1>8, <2>1, <2>2, SumTimes
<1>15. PICK A \in Nat : A = SumFunctionOnSet(a, B)
  BY <1>1, SumNat
<1>16. PICK n \in Nat : n = Cardinality(B)
  BY <1>1, FS_CardinalityType
<1>17. SumFunctionOnSet(f, B) = 10000 * m * A
  <2>1. PICK w \in Int : w = 10000 * m
    OBVIOUS
  <2>2. \A c \in B : a[c] \in Int /\ f[c] = w * a[c]
    BY <1>10, <2>1
  <2> QED BY <1>1, <1>15, <2>1, <2>2, SumTimes
<1>18. SumFunctionOnSet(k, B) = (-5000) * m * n
  <2>1. PICK w \in Int : w = (-5000) * m
    OBVIOUS
  <2>2. \A c \in B : k[c] = w
    BY <1>10, <2>1
  <2> QED BY <1>1, <1>16, <2>1, <2>2, SumConstant
<1>19. SumFunctionOnSet(b, B) = 10000 * m * A + (-5000) * m * n
  <2>1. ASSUME NEW c \in B PROVE f[c] \in Int /\ k[c] \in Int /\ b[c] = f[c] + k[c]
    <3>1. PICK ac \in Nat : ac = a[c]
      OBVIOUS
    <3>2. f[c] = 10000 * m * ac /\ k[c] = (-5000) * m /\ b[c] = f[c] + k[c]
      BY <1>10, <1>11, <3>1
    <3>3. 10000 * m * ac \in Int /\ (-5000) * m \in Int
      OBVIOUS
    <3> QED BY <3>2, <3>3
  <2>2. SumFunctionOnSet(b, B) = SumFunctionOnSet(f, B) + SumFunctionOnSet(k, B)
    BY <1>1, <2>1, SumOfBoth
  <2> QED BY <1>17, <1>18, <2>2
<1>20. 10000 * m * A + (-5000) * m * n <= pool * (100 * m)
  <2>1. pool * Hb <= pool * (100 * m)
    BY <1>9
  <2>2. pool * Hb \in Int /\ pool * (100 * m) \in Int /\ 10000 * m * A + (-5000) * m * n \in Int
    OBVIOUS
  <2> QED BY <1>13, <1>14, <1>19, <2>1, <2>2
<1>21. m * (100 * A) <= m * (pool + 50 * n)
  <2>1. 10000 * m * A = 100 * (m * (100 * A))
    OBVIOUS
  <2>2. pool * (100 * m) + 5000 * m * n = 100 * (m * (pool + 50 * n))
    OBVIOUS
  <2>3. PICK u \in Int, v \in Int : u = m * (100 * A) /\ v = m * (pool + 50 * n)
    OBVIOUS
  <2>4. (-5000) * m * n = -(5000 * m * n) /\ 5000 * m * n \in Int /\ pool * (100 * m) \in Int
    OBVIOUS
  <2>5. 100 * u <= 100 * v
    BY <1>20, <2>1, <2>2, <2>3, <2>4
  <2> QED BY <2>3, <2>5
<1>22. 100 * A <= pool + 50 * n
  <2>1. 100 * A \in Int /\ pool + 50 * n \in Int
    OBVIOUS
  <2> QED BY <1>21, <2>1, Divided
<1> QED BY <1>15, <1>16, <1>22

\* The team and its shares, of the splits alone.
TeamOf(s) == {c \in Cleaners : s[c] # Out}
SetOf(s)  == {c \in TeamOf(s) : s[c] # Even}
LeftOf(s) == IF SumFunctionOnSet(s, SetOf(s)) > 100 THEN 0 ELSE 100 - SumFunctionOnSet(s, SetOf(s))
ShareOf(s, c) == IF Cardinality(TeamOf(s)) = 1 THEN [num |-> 1, den |-> 1]
                 ELSE IF c \in SetOf(s) THEN [num |-> s[c], den |-> 100]
                 ELSE [num |-> LeftOf(s), den |-> 100 * Cardinality(TeamOf(s) \ SetOf(s))]

LEMMA SharesOfSplits ==
    ASSUME NEW j \in Jobs, NEW c \in Cleaners
    PROVE  Team(j) = TeamOf(job[j].split) /\ Share(j, c) = ShareOf(job[j].split, c)
BY DEF Team, TeamOf, SetOf, LeftOf, Share, ShareOf

\* An earning by percentage is what the cleaner's share of the job was worth.
EarnedAs(e, s, c) ==
    \/ e.rate = NoRate
    \/ /\ e.rate \in Rates /\ c \in TeamOf(s)
       /\ e.rate.type = "PERCENT"
            => e.amount = Rounded(Price * e.rate.value * ShareOf(s, c).num, 100 * ShareOf(s, c).den)

Splits == [Cleaners -> {Out, Even} \cup 0..100]

PoolInv ==
    /\ comp \in [Cleaners -> Rates \cup {NoRate}]
    /\ \A j \in Jobs : job[j].split \in Splits
    /\ \A j \in Jobs, c \in Cleaners : EarnedAs(earning[j][c], job[j].split, c)
    /\ \A r \in Clerks : clerk[r].pc = "earn" => clerk[r].left \subseteq TeamOf(job[clerk[r].job].split)

\* No step but that of an earning gives one its amount.
AmountsKept == \A j \in Jobs, c \in Cleaners : /\ earning'[j][c].amount = earning[j][c].amount
                                               /\ earning'[j][c].rate = earning[j][c].rate

LEMMA DisputeKeepsAmounts ==
    ASSUME PayrollInv, NEW j \in Jobs, NEW what \in {"open", "won", "lost"}, DisputeEvent(j, what)
    PROVE  AmountsKept
<1>1. CASE UNCHANGED earning
  BY <1>1 DEF AmountsKept
<1>2. ASSUME NEW from, NEW to, Moved(j, from, to) PROVE AmountsKept
  <2> SUFFICES ASSUME NEW i \in Jobs, NEW d \in Cleaners
               PROVE  earning'[i][d].amount = earning[i][d].amount /\ earning'[i][d].rate = earning[i][d].rate
    BY DEF AmountsKept
  <2>1. PICK e : e = earning[i][d] /\ EarningIn(e, payouts)
    BY DEF PayrollInv, PayrollTables, Earnings
  <2>2. earning = [k \in Jobs |-> [c \in Cleaners |-> earning[k][c]]]
    BY DEF PayrollInv, PayrollTables, Earnings
  <2>3. earning'[i][d] = e \/ earning'[i][d] = [e EXCEPT !.status = to]
    BY <1>2, <2>1, <2>2 DEF Moved
  <2>4. [e EXCEPT !.status = to].amount = e.amount /\ [e EXCEPT !.status = to].rate = e.rate
    BY <2>1 DEF EarningIn
  <2> QED BY <2>1, <2>3, <2>4
<1> QED BY <1>1, <1>2 DEF DisputeEvent

LEMMA PayoutsKeepAmounts ==
    ASSUME PayrollInv, NEW r \in Clerks, Batch(r) \/ Paid(r)
    PROVE  AmountsKept
<1> SUFFICES ASSUME NEW i \in Jobs, NEW d \in Cleaners
             PROVE  earning'[i][d].amount = earning[i][d].amount /\ earning'[i][d].rate = earning[i][d].rate
  BY DEF AmountsKept
<1>1. PICK e : e = earning[i][d] /\ EarningIn(e, payouts)
  BY DEF PayrollInv, PayrollTables, Earnings
<1>2. earning = [k \in Jobs |-> [c \in Cleaners |-> earning[k][c]]]
  BY DEF PayrollInv, PayrollTables, Earnings
<1>3. CASE Batch(r)
  <2>1. PICK c, js, n : c = clerk[r].cleaner /\ js = clerk[r].of /\ n = Len(payouts) + 1
    OBVIOUS
  <2>2. earning' = [j \in Jobs |-> IF j \in js THEN [earning[j] EXCEPT ![c].status = "IN_PAYOUT", ![c].payout = n]
                                   ELSE earning[j]]
    BY <1>3, <2>1 DEF Batch, InPayout
  <2>3. earning'[i][d] = e \/ earning'[i][d] = [e EXCEPT !.status = "IN_PAYOUT", !.payout = n]
    BY <1>1, <1>2, <2>2
  <2>4. /\ [e EXCEPT !.status = "IN_PAYOUT", !.payout = n].amount = e.amount
        /\ [e EXCEPT !.status = "IN_PAYOUT", !.payout = n].rate = e.rate
    BY <1>1 DEF EarningIn
  <2> QED BY <1>1, <2>3, <2>4
<1>4. CASE Paid(r)
  <2>1. earning'[i][d] = e \/ earning'[i][d] = [e EXCEPT !.status = "PAID"]
    BY <1>1, <1>4 DEF Paid
  <2>2. [e EXCEPT !.status = "PAID"].amount = e.amount /\ [e EXCEPT !.status = "PAID"].rate = e.rate
    BY <1>1 DEF EarningIn
  <2> QED BY <1>1, <2>1, <2>2
<1> QED BY <1>3, <1>4

\* An earning is made once, of what the job is worth to the cleaner.
LEMMA EarnedOnce ==
    ASSUME PayrollInv, PoolInv, NEW r \in Clerks, NEW d \in Cleaners, Earn(r, d),
           NEW j \in Jobs, NEW c \in Cleaners
    PROVE  EarnedAs(earning'[j][c], job[j].split, c)
<1>1. PICK n \in Nat : n = Len(payouts)
  BY DEF PayrollInv, PayrollTables, Payouts
<1>2. PICK i \in Jobs : i = clerk[r].job
  BY <1>1, AtWorkOf DEF Earn, PcIs, PayrollInv, PayrollTables, Requested
<1>3. d \in TeamOf(job[i].split)
  BY <1>2 DEF Earn, PcIs, PoolInv
<1>4. EarnedAs(earning[j][c], job[j].split, c)
  BY DEF PoolInv
<1>5. CASE UNCHANGED earning
  BY <1>4, <1>5
<1>6. CASE Worth(i, d) > 0 /\ earning' = [earning EXCEPT ![i][d] =
             [None EXCEPT !.status = "PENDING", !.amount = Worth(i, d), !.rate = comp[d]]]
  <2>1. PICK a, k : a = Worth(i, d) /\ k = comp[d]
    OBVIOUS
  <2>2. PICK e : e = [None EXCEPT !.status = "PENDING", !.amount = a, !.rate = k]
    OBVIOUS
  <2>3. e.amount = a /\ e.rate = k
    BY <2>2 DEF None
  <2>4. earning' = [earning EXCEPT ![i][d] = e]
    BY <1>6, <2>1, <2>2
  <2>5. earning = [x \in Jobs |-> [y \in Cleaners |-> earning[x][y]]]
    BY DEF PayrollInv, PayrollTables, Earnings
  <2>6. earning'[j][c] = IF j = i /\ c = d THEN e ELSE earning[j][c]
    BY <2>4, <2>5
  <2>7. k # NoRate /\ a = Amount(i, d, k)
    BY <1>6, <2>1 DEF Worth
  <2>8. k \in Rates
    BY <2>1, <2>7 DEF PoolInv
  <2>9. PICK sh : sh = Share(i, d) /\ sh = ShareOf(job[i].split, d)
    BY SharesOfSplits
  <2>10. k.type = "PERCENT" => a = Rounded(Price * k.value * sh.num, 100 * sh.den)
    BY <2>7, <2>9 DEF Amount
  <2>11. EarnedAs(e, job[i].split, d)
    BY <1>3, <2>3, <2>8, <2>9, <2>10 DEF EarnedAs
  <2> QED BY <1>4, <2>6, <2>11
<1> QED BY <1>2, <1>5, <1>6 DEF Earn

LEMMA PoolStep ==
    ASSUME JobsShape, PayrollInv, PoolInv, [Next]_vars
    PROVE  PoolInv'
<1>1. JobsGoOn /\ PayrollInv'
  <2>1. [PayrollNext]_payrollVars
    BY DEF Next, PayrollStep, InvoicesStep, InventoryStep, CareStep, Outside, vars
  <2> QED BY <2>1, JobsStep, PayrollStepHolds
<1>2. \A j \in Jobs : job'[j].split = job[j].split
  BY <1>1 DEF JobsGoOn
<1>3. PayrollNext \/ UNCHANGED <<comp, earning, clerk>>
  BY DEF Next, PayrollStep, InvoicesStep, InventoryStep, CareStep, Outside, vars, payrollVars
<1>4. comp' \in [Cleaners -> Rates \cup {NoRate}]
  <2>1. UNCHANGED comp \/ \E c \in Cleaners, rate \in Rates : comp' = [comp EXCEPT ![c] = rate]
    BY <1>3 DEF PayrollNext, Complete, Earn, Collect, Settle, Batch, Transfer, Paid, Dies, SetCompensation, Dispute,
                Close, DisputeEvent
  <2> QED BY <2>1 DEF PoolInv
<1>5. \A j \in Jobs : job'[j].split \in Splits
  BY <1>2 DEF PoolInv
<1>6. \A j \in Jobs, c \in Cleaners : EarnedAs(earning'[j][c], job'[j].split, c)
  <2>1. AmountsKept \/ \E r \in Clerks, c \in Cleaners : Earn(r, c)
    <3>1. CASE UNCHANGED earning
      BY <3>1 DEF AmountsKept
    <3>2. CASE PayrollNext
      BY <3>1, <3>2, DisputeKeepsAmounts, PayoutsKeepAmounts
         DEF PayrollNext, Complete, Collect, Settle, Transfer, Dies, SetCompensation, Dispute, Close
    <3> QED BY <1>3, <3>1, <3>2
  <2>2. CASE AmountsKept
    <3> SUFFICES ASSUME NEW j \in Jobs, NEW c \in Cleaners PROVE EarnedAs(earning'[j][c], job[j].split, c)
      BY <1>2
    <3>1. EarnedAs(earning[j][c], job[j].split, c)
      BY DEF PoolInv
    <3> QED BY <2>2, <3>1 DEF AmountsKept, EarnedAs
  <2>3. CASE \E r \in Clerks, c \in Cleaners : Earn(r, c)
    BY <1>2, <2>3, EarnedOnce
  <2> QED BY <2>1, <2>2, <2>3
<1>7. ASSUME NEW r \in Clerks, clerk'[r].pc = "earn"
      PROVE  clerk'[r].left \subseteq TeamOf(job'[clerk'[r].job].split)
  <2>1. clerk'[r].job \in Jobs
    <3>1. PICK n \in Nat : n = Len(payouts')
      BY <1>1 DEF PayrollInv, PayrollTables, Payouts
    <3>2. AtWork(clerk'[r], n)
      BY <1>1, <3>1 DEF PayrollInv, PayrollTables, Requested
    <3> QED BY <1>7, <3>2, AtWorkOf
  <2>2. PICK i \in Jobs : i = clerk'[r].job
    BY <2>1
  <2> SUFFICES clerk'[r].left \subseteq TeamOf(job[i].split)
    BY <1>2, <2>2
  <2>3. clerk = [q \in Clerks |-> clerk[q]]
    BY DEF PayrollInv, PayrollTables, Requested
  <2>4. CASE clerk'[r] = clerk[r]
    BY <1>7, <2>2, <2>4 DEF PoolInv
  <2>5. ASSUME NEW q \in Clerks, NEW w, Goto(q, w), clerk'[r] # clerk[r]
        PROVE  r = q /\ clerk'[r] = w
    BY <2>3, <2>5 DEF Goto
  <2>6. ASSUME NEW q \in Clerks, NEW j \in Jobs, Complete(q, j), clerk'[r] # clerk[r]
        PROVE  clerk'[r].left \subseteq TeamOf(job[i].split)
    <3>1. clerk'[r] = [pc |-> "earn", job |-> j, left |-> Team(j)]
      BY <2>5, <2>6 DEF Complete
    <3>2. Team(j) = TeamOf(job[j].split)
      BY DEF Team, TeamOf
    <3> QED BY <2>2, <3>1, <3>2
  <2>7. ASSUME NEW q \in Clerks, NEW c \in Cleaners, Earn(q, c), clerk'[r] # clerk[r]
        PROVE  clerk'[r].left \subseteq TeamOf(job[i].split)
    <3>1. PICK rest : rest = clerk[q].left \ {c}
      OBVIOUS
    <3>2. PICK w : w = IF rest = {} THEN Idle ELSE [clerk[q] EXCEPT !.left = rest]
      OBVIOUS
    <3>3. r = q /\ clerk'[r] = w
      BY <2>5, <2>7, <3>1, <3>2 DEF Earn, Earned
    <3>4. w # Idle /\ w = [clerk[q] EXCEPT !.left = rest]
      BY <1>7, <3>2, <3>3 DEF Idle
    <3>5. clerk[q].pc = "earn" /\ clerk[q] = [pc |-> "earn", job |-> clerk[q].job, left |-> clerk[q].left]
      <4>1. PICK n \in Nat : n = Len(payouts)
        BY DEF PayrollInv, PayrollTables, Payouts
      <4> QED BY <2>7, <4>1, AtWorkOf DEF Earn, PcIs, PayrollInv, PayrollTables, Requested
    <3>6. w.job = clerk[q].job /\ w.left = rest
      BY <3>4, <3>5
    <3>7. clerk[q].left \subseteq TeamOf(job[clerk[q].job].split)
      BY <3>5 DEF PoolInv
    <3> QED BY <2>2, <3>1, <3>3, <3>6, <3>7
  <2>8. ASSUME NEW q \in Clerks, Goto(q, Idle) PROVE clerk'[r] = clerk[r]
    BY <1>7, <2>5, <2>8 DEF Idle
  <2>9. ASSUME NEW q \in Clerks,
               \/ \E c \in Cleaners : Collect(q, c)
               \/ \E p \in 1..MaxPayouts, m \in {"MANUAL", "STRIPE"} : Settle(q, p, m)
        PROVE  clerk'[r] = clerk[r]
    <3>1. ASSUME NEW c \in Cleaners, Collect(q, c) PROVE clerk'[r] = clerk[r]
      <4>1. PICK w : w = [pc |-> "batch", cleaner |-> c, of |-> With(c, "PENDING")]
        OBVIOUS
      <4>2. Goto(q, w) /\ w.pc = "batch"
        BY <3>1, <4>1 DEF Collect
      <4> QED BY <1>7, <2>5, <4>2
    <3>2. ASSUME NEW p \in 1..MaxPayouts, NEW m \in {"MANUAL", "STRIPE"}, Settle(q, p, m) PROVE clerk'[r] = clerk[r]
      <4>1. PICK k \in {"transfer", "paid"} : k = IF m = "STRIPE" THEN "transfer" ELSE "paid"
        OBVIOUS
      <4>2. PICK w : w = [pc |-> k, payout |-> p, method |-> m]
        OBVIOUS
      <4>3. Goto(q, w) /\ w.pc \in {"transfer", "paid"}
        BY <3>2, <4>1, <4>2 DEF Settle
      <4> QED BY <1>7, <2>5, <4>3
    <3> QED BY <2>9, <3>1, <3>2
  <2>10. ASSUME NEW q \in Clerks, Transfer(q) PROVE clerk'[r] = clerk[r]
    <3>1. clerk[q] = [pc |-> "transfer", payout |-> clerk[q].payout, method |-> clerk[q].method]
      <4>1. PICK n \in Nat : n = Len(payouts)
        BY DEF PayrollInv, PayrollTables, Payouts
      <4> QED BY <2>10, <4>1, AtWorkOf DEF Transfer, PcIs, PayrollInv, PayrollTables, Requested
    <3>2. PICK w : w = [clerk[q] EXCEPT !.pc = "paid"]
      OBVIOUS
    <3>3. w.pc = "paid" /\ Goto(q, w)
      BY <2>10, <3>1, <3>2 DEF Transfer
    <3> QED BY <1>7, <2>5, <3>3
  <2>11. ASSUME NEW q \in Clerks, Batch(q) \/ Paid(q) \/ Dies(q) PROVE clerk'[r] = clerk[r]
    BY <2>8, <2>11 DEF Batch, Paid, Dies
  <2>12. CASE UNCHANGED clerk
    BY <2>4, <2>12
  <2>13. UNCHANGED clerk
           \/ \E q \in Clerks : \/ \E j \in Jobs : Complete(q, j)
                                \/ \E c \in Cleaners : Earn(q, c) \/ Collect(q, c)
                                \/ \E p \in 1..MaxPayouts, m \in {"MANUAL", "STRIPE"} : Settle(q, p, m)
                                \/ Batch(q) \/ Transfer(q) \/ Paid(q) \/ Dies(q)
    BY <1>3 DEF PayrollNext, SetCompensation, Dispute, Close, DisputeEvent
  <2> QED BY <2>4, <2>6, <2>7, <2>9, <2>10, <2>11, <2>12, <2>13
<1> QED BY <1>4, <1>5, <1>6, <1>7 DEF PoolInv

LEMMA PoolStarts == Init => PoolInv
<1> SUFFICES ASSUME Init PROVE PoolInv
  OBVIOUS
<1>1. job \in [Jobs -> {[status |-> "OPEN", paid |-> FALSE, split |-> a.split, hours |-> a.hours] : a \in Assigned}]
  BY DEF Init
<1>2. PayrollInit
  BY DEF Init
<1>3. ASSUME NEW j \in Jobs PROVE job[j].split \in Splits
  <2>1. PICK a \in Assigned : job[j] = [status |-> "OPEN", paid |-> FALSE, split |-> a.split, hours |-> a.hours]
    BY <1>1
  <2>2. a \in [split : [Cleaners -> {Out, Even} \cup 0..100], hours : [Cleaners -> Nat]]
    BY AssignedAssumption
  <2> QED BY <2>1, <2>2 DEF Splits
<1>4. \A j \in Jobs, c \in Cleaners : EarnedAs(earning[j][c], job[j].split, c)
  BY <1>2 DEF PayrollInit, None, EarnedAs
<1>5. \A r \in Clerks : clerk[r].pc # "earn"
  BY <1>2 DEF PayrollInit, Idle
<1> QED BY <1>2, <1>3, <1>4, <1>5 DEF PayrollInit, PoolInv

\* One member's earning, against the best rate of the team.
Earns(v, num, den) == Rounded(Price * v * num, 100 * den)

\* It is num / den of what the best rate makes of the price, but for half a cent.
Fits(a, num, den, best) == a \in Nat /\ 100 * (den * a) <= (Price * best) * num + 50 * den

LEMMA OneEarning ==
    ASSUME NEW v \in Nat, NEW num \in Nat, NEW den \in Nat \ {0}, NEW best \in Nat, v <= best
    PROVE  Fits(Earns(v, num, den), num, den, best)
<1>p. PICK pool \in Nat : pool = Price * best
  BY JobsAssumption
<1>0. PICK a : a = Earns(v, num, den)
  OBVIOUS
<1>1. Price \in Nat
  BY JobsAssumption
<1>2. PICK x \in Nat : x = Price * v
  BY <1>1
<1>3. x <= pool
  BY <1>1, <1>2, <1>p
<1>4. PICK y \in Nat : y = x * num /\ y <= pool * num
  BY <1>3
<1>5. PICK d \in Nat \ {0} : d = 100 * den
  OBVIOUS
<1>6. a \in Nat /\ 2 * (d * a) <= 2 * y + d
  <2>1. a = Rounded(y, d)
    BY <1>0, <1>2, <1>4, <1>5 DEF Earns
  <2> QED BY <2>1, RoundedAtMost
<1>7. PICK z \in Nat : z = den * a /\ d * a = 100 * z
  BY <1>5, <1>6
<1>8. PICK t \in Nat : t = pool * num
  OBVIOUS
<1>9. 2 * (100 * z) <= 2 * y + 100 * den
  BY <1>5, <1>6, <1>7
<1>10. 100 * z <= t + 50 * den
  BY <1>4, <1>8, <1>9
<1> QED BY <1>0, <1>p, <1>6, <1>7, <1>8, <1>10 DEF Fits

LEMMA FiniteValues ==
    ASSUME NEW S, IsFiniteSet(S), NEW f, f = [x \in S |-> f[x]]
    PROVE  IsFiniteSet({f[x] : x \in S})
<1>1. PICK T : T = {f[x] : x \in S}
  OBVIOUS
<1>2. f \in Surjection(S, T)
  BY <1>1 DEF Surjection
<1>3. IsFiniteSet(T)
  BY <1>2, FS_Surjection
<1> QED BY <1>1, <1>3

\* The rule for one team, its splits, and those of it who are paid by percentage.
LEMMA TeamNotOverdrawn ==
    ASSUME IsFiniteSet(Cleaners), NEW s \in Splits, NEW B \in SUBSET TeamOf(s),
           NEW v, \A c \in B : v[c] \in Nat, NEW best \in Nat, \A c \in B : v[c] <= best,
           NEW a, \A c \in B : a[c] = Earns(v[c], ShareOf(s, c).num, ShareOf(s, c).den),
           SumFunctionOnSet(s, SetOf(s)) <= 100
    PROVE  100 * SumFunctionOnSet(a, B) <= Price * best + 50 * Cardinality(B)
<1>1. PICK T \in SUBSET Cleaners : T = TeamOf(s)
  BY DEF TeamOf
<1>2. PICK X \in SUBSET T : X = SetOf(s)
  BY <1>1 DEF SetOf
<1>3. IsFiniteSet(T) /\ IsFiniteSet(X) /\ IsFiniteSet(T \ X) /\ B \in SUBSET T
  BY <1>1, FS_Subset
<1>4. \A c \in X : s[c] \in 0..100
  <2>1. \A c \in X : c \in Cleaners /\ s[c] # Out /\ s[c] # Even
    BY <1>2 DEF SetOf, TeamOf
  <2> QED BY <2>1 DEF Splits
<1>5. PICK taken \in Nat : taken = SumFunctionOnSet(s, X) /\ taken <= 100
  BY <1>2, <1>3, <1>4, SumNat
<1>6. PICK pool \in Nat : pool = Price * best
  BY JobsAssumption
<1>7. CASE Cardinality(T) = 1
  <2>1. ASSUME NEW c \in B PROVE a[c] \in Nat /\ 10000 * (1 * a[c]) <= pool * (100 - 0) + 5000 * 1
    <3>1. ShareOf(s, c).num = 1 /\ ShareOf(s, c).den = 1
      BY <1>1, <1>7 DEF ShareOf
    <3>2. PICK vc \in Nat : vc = v[c] /\ vc <= best
      OBVIOUS
    <3>3. a[c] = Earns(vc, 1, 1)
      BY <3>1, <3>2
    <3>4. a[c] \in Nat /\ 100 * (1 * a[c]) <= pool * 1 + 50 * 1
      <4>1. Fits(Earns(vc, 1, 1), 1, 1, best)
        BY <3>2, OneEarning
      <4> QED BY <1>6, <3>3, <4>1 DEF Fits
    <3> QED BY <3>4
  <2>2. SumFunctionOnSet(s, {}) = 0
    BY SumEmpty
  <2>3. Cardinality(T \ {}) <= 1
    <3>1. T \ {} = T
      OBVIOUS
    <3> QED BY <1>7, <3>1
  <2>4. PICK Y \in SUBSET T : Y = {}
    OBVIOUS
  <2>5. PICK no \in Nat : no = 0
    OBVIOUS
  <2>6. PICK m \in Nat \ {0} : m = 1
    OBVIOUS
  <2>7. PoolFacts(T, Y, B, s, no, pool, m, a)
    <3>1. no = SumFunctionOnSet(s, Y) /\ no <= 100 /\ Cardinality(T \ Y) <= m
      BY <2>2, <2>3, <2>4, <2>5, <2>6
    <3>2. (\A c \in Y : s[c] \in Nat) /\ (\A c \in B \cap Y : 10000 * a[c] <= pool * s[c] + 5000)
      BY <2>4
    <3>3. (\A c \in B : a[c] \in Nat) /\ \A c \in B \ Y : 10000 * (m * a[c]) <= pool * (100 - no) + 5000 * m
      BY <2>1, <2>5, <2>6
    <3> QED BY <1>3, <3>1, <3>2, <3>3 DEF PoolFacts
  <2>10. 100 * SumFunctionOnSet(a, B) <= pool + 50 * Cardinality(B)
    BY <2>7, PoolBound
  <2> QED BY <1>6, <2>10
<1>8. CASE Cardinality(T) # 1
  <2>1. PICK k \in Nat : k = Cardinality(T \ X)
    BY <1>3, FS_CardinalityType
  <2>2. PICK m \in Nat \ {0} : m = IF k = 0 THEN 1 ELSE k
    OBVIOUS
  <2>3. k <= m
    BY <2>2
  <2>4. ASSUME NEW c \in B \cap X PROVE a[c] \in Nat /\ 10000 * a[c] <= pool * s[c] + 5000
    <3>1. ShareOf(s, c).num = s[c] /\ ShareOf(s, c).den = 100
      BY <1>1, <1>2, <1>8 DEF ShareOf
    <3>2. PICK vc \in Nat, sc \in Nat : vc = v[c] /\ vc <= best /\ sc = s[c]
      BY <1>4
    <3>3. a[c] = Earns(vc, sc, 100)
      BY <3>1, <3>2
    <3>4. a[c] \in Nat /\ 100 * (100 * a[c]) <= pool * sc + 50 * 100
      <4>1. Fits(Earns(vc, sc, 100), sc, 100, best)
        BY <3>2, OneEarning
      <4> QED BY <1>6, <3>3, <4>1 DEF Fits
    <3>5. PICK p \in Nat : p = pool * sc
      OBVIOUS
    <3> QED BY <3>2, <3>4, <3>5
  <2>5. ASSUME NEW c \in B \ X PROVE a[c] \in Nat /\ 10000 * (m * a[c]) <= pool * (100 - taken) + 5000 * m
    <3>1. c \in T \ X
      BY <1>3
    <3>2. k # 0
      BY <1>3, <2>1, <3>1, FS_EmptySet
    <3>3. PICK left \in Nat : left = 100 - taken
      BY <1>5
    <3>4. LeftOf(s) = left
      BY <1>2, <1>5, <3>3 DEF LeftOf
    <3>5. ShareOf(s, c).num = left /\ ShareOf(s, c).den = 100 * k
      BY <1>1, <1>2, <1>8, <2>1, <3>1, <3>4 DEF ShareOf
    <3>6. PICK vc \in Nat, den \in Nat \ {0} : vc = v[c] /\ vc <= best /\ den = 100 * k
      BY <3>2
    <3>7. a[c] = Earns(vc, left, den)
      BY <3>5, <3>6
    <3>8. a[c] \in Nat /\ 100 * (den * a[c]) <= pool * left + 50 * den
      <4>1. Fits(Earns(vc, left, den), left, den, best)
        BY <3>6, OneEarning
      <4> QED BY <1>6, <3>7, <4>1 DEF Fits
    <3>9. PICK x \in Nat, p \in Nat : x = k * a[c] /\ p = pool * left
      BY <3>8
    <3>10. den * a[c] = 100 * x
      BY <3>6, <3>8, <3>9
    <3>11. 10000 * x <= p + 5000 * k
      BY <3>6, <3>8, <3>9, <3>10
    <3>12. m = k
      BY <2>2, <3>2
    <3> QED BY <3>3, <3>8, <3>9, <3>11, <3>12
  <2>6. (\A c \in B : a[c] \in Nat) /\ (\A c \in X : s[c] \in Nat)
    BY <1>4, <2>4, <2>5
  <2>7. (\A c \in B \cap X : 10000 * a[c] <= pool * s[c] + 5000)
          /\ \A c \in B \ X : 10000 * (m * a[c]) <= pool * (100 - taken) + 5000 * m
    BY <2>4, <2>5
  <2>8. PoolFacts(T, X, B, s, taken, pool, m, a)
    BY <1>3, <1>5, <2>1, <2>3, <2>6, <2>7 DEF PoolFacts
  <2>9. 100 * SumFunctionOnSet(a, B) <= pool + 50 * Cardinality(B)
    BY <2>8, PoolBound
  <2> QED BY <1>6, <2>9
<1> QED BY <1>7, <1>8

LEMMA PoolHolds == ASSUME IsFiniteSet(Cleaners), PoolInv PROVE PoolNotOverdrawn
<1> SUFFICES ASSUME NEW j \in Jobs
             PROVE  LET by   == {c \in Team(j) : earning[j][c].rate # NoRate /\ earning[j][c].rate.type = "PERCENT"}
                        set  == {c \in Team(j) : job[j].split[c] # Even}
                        best == Max({0} \cup {earning[j][c].rate.value : c \in by})
                    IN SumFunctionOnSet(job[j].split, set) <= 100 =>
                         100 * SumFunctionOnSet([c \in Cleaners |-> earning[j][c].amount], by)
                           <= Price * best + 50 * Cardinality(by)
  BY DEF PoolNotOverdrawn
<1>1. PICK s \in Splits : s = job[j].split
  BY DEF PoolInv
<1>2. Team(j) = TeamOf(s) /\ {c \in Team(j) : job[j].split[c] # Even} = SetOf(s)
  BY <1>1 DEF Team, TeamOf, SetOf
<1>3. PICK B \in SUBSET TeamOf(s) :
         B = {c \in Team(j) : earning[j][c].rate # NoRate /\ earning[j][c].rate.type = "PERCENT"}
  BY <1>2
<1>4. B \subseteq Cleaners /\ IsFiniteSet(B)
  <2>1. B \subseteq Cleaners
    BY DEF TeamOf
  <2> QED BY <2>1, FS_Subset
<1>5. PICK v : v = [c \in B |-> earning[j][c].rate.value]
  OBVIOUS
<1>6. PICK a : a = [c \in Cleaners |-> earning[j][c].amount]
  OBVIOUS
<1>7. ASSUME NEW c \in B
      PROVE  v[c] \in Nat /\ a[c] = Earns(v[c], ShareOf(s, c).num, ShareOf(s, c).den)
  <2>1. EarnedAs(earning[j][c], s, c) /\ earning[j][c].rate # NoRate /\ earning[j][c].rate.type = "PERCENT"
    BY <1>1, <1>3, <1>4 DEF PoolInv
  <2>2. PICK e : e = earning[j][c]
    OBVIOUS
  <2>3. e.rate.value \in Nat
    BY <2>1, <2>2, RatesAssumption DEF EarnedAs
  <2>4. v[c] = e.rate.value /\ a[c] = e.amount
    BY <1>4, <1>5, <1>6, <2>2
  <2>5. e.amount = Earns(e.rate.value, ShareOf(s, c).num, ShareOf(s, c).den)
    BY <2>1, <2>2 DEF EarnedAs, Earns
  <2> QED BY <2>3, <2>4, <2>5
<1>8. PICK R : R = {0} \cup {v[c] : c \in B}
  OBVIOUS
<1>9. R = {0} \cup {earning[j][c].rate.value : c \in B}
  BY <1>5, <1>8
<1>10. IsFiniteSet(R) /\ R \subseteq Nat /\ R # {}
  <2>1. v = [c \in B |-> v[c]]
    BY <1>5
  <2>2. IsFiniteSet({v[c] : c \in B})
    BY <1>4, <2>1, FiniteValues
  <2>3. IsFiniteSet({0})
    BY FS_Singleton
  <2>4. IsFiniteSet(R)
    BY <1>8, <2>2, <2>3, FS_Union
  <2> QED BY <1>7, <1>8, <2>4
<1>11. PICK best \in Nat : best = Max(R) /\ \A x \in R : best >= x
  <2>1. R \subseteq Int
    BY <1>10
  <2>2. Max(R) \in R /\ \A x \in R : Max(R) >= x
    BY <1>10, <2>1, MaxIsLargest
  <2> QED BY <1>10, <2>2
<1>12. \A c \in B : v[c] <= best
  BY <1>7, <1>8, <1>11
<1>13. SumFunctionOnSet(s, SetOf(s)) <= 100 => 100 * SumFunctionOnSet(a, B) <= Price * best + 50 * Cardinality(B)
  BY <1>7, <1>12, TeamNotOverdrawn
<1> QED BY <1>1, <1>2, <1>3, <1>6, <1>9, <1>11, <1>13

\* For a team of any size, any splits that add up to at most 100 and any
\* percentages: the cleaners' earnings of a job, each rounded, are no more than
\* the best paid of them would get for all of it, but for half a cent each.
THEOREM PoolsNotOverdrawn == ASSUME IsFiniteSet(Cleaners) PROVE Spec => []PoolNotOverdrawn
<1>1. Init => JobsShape /\ PayrollInv /\ PoolInv
  BY JobsStart, PayrollStarts, PoolStarts DEF Init
<1>2. JobsShape /\ PayrollInv /\ PoolInv /\ [Next]_vars => (JobsShape /\ PayrollInv /\ PoolInv)'
  <2>1. [Next]_vars => [PayrollNext]_payrollVars
    BY DEF Next, PayrollStep, InvoicesStep, InventoryStep, CareStep, Outside, vars
  <2> QED BY <2>1, JobsStep, PayrollStepHolds, PoolStep
<1>3. JobsShape /\ PayrollInv /\ PoolInv => PoolNotOverdrawn
  BY PoolHolds
<1> QED BY <1>1, <1>2, <1>3, PTL DEF Spec
=============================================================================
