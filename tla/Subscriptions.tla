---------------------------- MODULE Subscriptions ----------------------------
(***************************************************************************)
(* subscriptions.service, subscriptionAccess and the subscription events   *)
(* of the Stripe webhook, for one business: what it pays CleanSera.  The   *)
(* row follows Stripe by events, which arrive late, twice, in any order or *)
(* not at all, while the business starts, changes and cancels its plan.    *)
(***************************************************************************)
EXTENDS Integers, FiniteSets, Sequences

CONSTANTS Plans,
          Desks,        \* requests and deliveries that may run at once
          Trial,        \* days of trial
          Period,       \* days a payment is good for
          Grace,        \* SUBSCRIPTION_PAST_DUE_GRACE_DAYS
          LastDay,      \* bound: days that pass
          MaxSubs,      \* bound: Stripe subscriptions ever made
          MaxPosted,    \* bound: Stripe events ever sent
          MaxLosses     \* bound: events lost

ASSUME SubscriptionsAssumption ==
    /\ {Trial, Period} \subseteq Nat \ {0} /\ {Grace, LastDay, MaxSubs, MaxPosted, MaxLosses} \subseteq Nat

VARIABLES
    today,
    row,        \* the BusinessSubscription row
    subs,       \* Stripe: the subscriptions of this business
    checkouts,  \* Stripe: checkout sessions not completed yet
    mail,       \* Stripe: events not delivered yet
    desk,       \* what each request and delivery is doing
    losses,     \* events lost
    posted,       \* history: events ever sent
    applied,    \* history: the newest event that has taken effect
    disordered, \* history: an older one, or one of another subscription, has since,
                \* and nothing set it right
    left        \* history: the day to which the business has cancelled, or 0

stripeVars == <<subs, checkouts, mail, posted>>
historyVars == <<applied, disordered, left>>
subVars == <<today, row, stripeVars, desk, losses, historyVars>>

Days     == 0..LastDay + Trial + Period
Statuses == {"TRIALING", "ACTIVE", "PAST_DUE", "CANCELED"}
NoRow    == [status |-> "NONE"]
Row      == [status : Statuses, plan : Plans, sub : 1..MaxSubs, periodEnd : Days, trialEnd : Days, canceled : BOOLEAN]
Sub      == [status : {"trialing", "active", "past_due", "canceled"}, plan : Plans,
             periodEnd : Days, trialEnd : Days, ending : BOOLEAN]
Resting  == [pc |-> "idle"]

\* A business that is new, or one in the middle of a period it has paid for.
SubsInit ==
    /\ today = 0
    /\ \/ row = NoRow /\ subs = <<>>
       \/ \E p \in Plans :
            /\ row = [status |-> "ACTIVE", plan |-> p, sub |-> 1, periodEnd |-> Period, trialEnd |-> 0, canceled |-> FALSE]
            /\ subs = <<[status |-> "active", plan |-> p, periodEnd |-> Period, trialEnd |-> 0, ending |-> FALSE]>>
    /\ checkouts = {} /\ mail = {}
    /\ desk = [d \in Desks |-> Resting]
    /\ losses = 0 /\ posted = 0 /\ applied = 0 /\ left = 0
    /\ disordered = FALSE

Serves(d, pc) == desk[d].pc = pc
Takes(d, work) == desk' = [desk EXCEPT ![d] = work]
Done(d)       == Takes(d, Resting)
HasRow        == row # NoRow

-----------------------------------------------------------------------------
(* What the business may do: subscriptionAccess.evaluate *)

\* Mutant: an active row is always good.
ActiveRow_Always == TRUE

\* Set to cancel, and the event that ends it never came.
ActiveRow == ~(row.canceled /\ today > row.periodEnd)

Allowed ==
    CASE row.status = "NONE"     -> today < Trial
      [] row.status = "TRIALING" -> row.trialEnd = 0 \/ today < row.trialEnd + 1
      [] row.status = "ACTIVE"   -> ActiveRow
      [] row.status = "PAST_DUE" -> today < row.periodEnd + Grace
      [] row.status = "CANCELED" -> today < row.periodEnd

MapStripeStatus(status) ==
    CASE status = "trialing" -> "TRIALING"
      [] status = "active"   -> "ACTIVE"
      [] status = "past_due" -> "PAST_DUE"
      [] status = "canceled" -> "CANCELED"

-----------------------------------------------------------------------------
(* Stripe *)

\* Stripe sends events; an event shows the subscription as it is.
Sends(events) ==
    /\ posted + Len(events) <= MaxPosted
    /\ posted' = posted + Len(events)
    /\ mail' = mail \cup {[n |-> posted + k, e |-> events[k]] : k \in DOMAIN events}

Updated(i, s)   == [type |-> "updated", sub |-> i, now |-> s]
Succeeded(i, s) == [type |-> "succeeded", sub |-> i, periodEnd |-> s.periodEnd]
Failed(i)       == [type |-> "failed", sub |-> i]
Ended(i)        == [type |-> "deleted", sub |-> i]
Completed(i, plan) == [type |-> "completed", sub |-> i, plan |-> plan]

\* Subscription i becomes s.
Becomes(i, s, events) ==
    /\ subs' = [subs EXCEPT ![i] = s]
    /\ Sends(events)

Living(i) == i \in DOMAIN subs /\ subs[i].status # "canceled"

\* The business completes a checkout session.
CompleteCheckout(c) ==
    /\ c \in checkouts /\ checkouts' = checkouts \ {c} /\ Len(subs) < MaxSubs
    /\ LET i == Len(subs) + 1
           s == [status |-> IF c.trial THEN "trialing" ELSE "active", plan |-> c.plan, ending |-> FALSE,
                 periodEnd |-> today + (IF c.trial THEN Trial ELSE Period),
                 trialEnd |-> IF c.trial THEN today + Trial ELSE 0]
       IN /\ subs' = Append(subs, s)
          /\ Sends(IF c.trial THEN <<Completed(i, c.plan)>> ELSE <<Completed(i, c.plan), Succeeded(i, s)>>)
    /\ left' = 0
    /\ UNCHANGED <<today, row, desk, losses, applied, disordered>>

\* A period is over: it ends there, is paid for again, or the card fails.
PeriodEnds(i) ==
    /\ Living(i) /\ subs[i].periodEnd <= today
    /\ LET next == [subs[i] EXCEPT !.periodEnd = @ + Period]
           paid == [next EXCEPT !.status = "active"]
           owed == [next EXCEPT !.status = "past_due"]
       IN IF subs[i].ending
          THEN Becomes(i, [subs[i] EXCEPT !.status = "canceled"], <<Ended(i)>>)
          ELSE \/ Becomes(i, paid, <<Updated(i, paid), Succeeded(i, paid)>>)
               \/ Becomes(i, owed, <<Updated(i, owed), Failed(i)>>)
    /\ UNCHANGED <<today, row, checkouts, desk, losses, historyVars>>

\* What is owed is paid after all, or Stripe gives up.
DebtSettled(i) ==
    /\ Living(i) /\ subs[i].status = "past_due"
    /\ LET paid == [subs[i] EXCEPT !.status = "active"]
       IN \/ Becomes(i, paid, <<Updated(i, paid), Succeeded(i, paid)>>)
          \/ Becomes(i, [subs[i] EXCEPT !.status = "canceled"], <<Ended(i)>>)
    /\ UNCHANGED <<today, row, checkouts, desk, losses, historyVars>>

\* The billing portal: another price, cancelled, or resumed.
BillingPortal(i, plan, ending) ==
    /\ Living(i) /\ <<plan, ending>> # <<subs[i].plan, subs[i].ending>>
    /\ LET s == [subs[i] EXCEPT !.plan = plan, !.ending = ending]
       IN Becomes(i, s, <<Updated(i, s)>>)
    /\ left' = IF ending THEN left ELSE 0
    /\ UNCHANGED <<today, row, checkouts, desk, losses, applied, disordered>>

\* Stripe is through with a day before the next begins.
DayPasses ==
    /\ today < LastDay /\ \A i \in DOMAIN subs : Living(i) => subs[i].periodEnd > today
    /\ today' = today + 1
    /\ UNCHANGED <<row, stripeVars, desk, losses, historyVars>>

-----------------------------------------------------------------------------
(* subscriptions.service: each request reads the row, calls Stripe, writes *)

StartCheckout(plan) ==
    /\ row.status \in {"NONE", "CANCELED"}
    /\ checkouts' = checkouts \cup {[plan |-> plan, trial |-> ~HasRow]}
    /\ UNCHANGED <<today, row, subs, mail, posted, desk, losses, historyVars>>

UpdateSubscription(d, plan) ==
    /\ Serves(d, "idle") /\ HasRow /\ plan # row.plan
    /\ Takes(d, [pc |-> "call", op |-> "change", sub |-> row.sub, plan |-> plan])
    /\ UNCHANGED <<today, row, stripeVars, losses, historyVars>>

CancelSubscription(d) ==
    /\ Serves(d, "idle") /\ HasRow
    /\ Takes(d, [pc |-> "call", op |-> "cancel", sub |-> row.sub])
    /\ UNCHANGED <<today, row, stripeVars, losses, historyVars>>

\* A change of plan takes the cancellation back; Stripe refuses it for a
\* subscription that has ended, and has nothing left to cancel then.
CallStripe(d) ==
    /\ Serves(d, "call")
    /\ LET i == desk[d].sub
           s == IF desk[d].op = "cancel" THEN [subs[i] EXCEPT !.ending = TRUE]
                ELSE [subs[i] EXCEPT !.ending = FALSE, !.plan = desk[d].plan]
       IN IF Living(i)
          THEN /\ Becomes(i, s, <<Updated(i, s)>>)
               /\ Takes(d, [desk[d] EXCEPT !.pc = "write"])
               /\ left' = IF s.ending THEN left ELSE 0
          ELSE /\ IF desk[d].op = "cancel" THEN Takes(d, [desk[d] EXCEPT !.pc = "write"]) ELSE Done(d)
               /\ UNCHANGED <<subs, mail, posted, left>>
    /\ UNCHANGED <<today, row, checkouts, losses, applied, disordered>>

\* No event that would take the cancellation of i back is on its way, and no
\* payment of another subscription was, or will be, written to its row.
Final(i) ==
    /\ row.sub = i /\ row.periodEnd <= subs[i].periodEnd /\ (subs[i].ending \/ ~Living(i))
    /\ \A m \in mail : m.e.type # "completed" /\ (m.e.type = "updated" => m.e.now.ending)
    /\ \A d \in Desks : desk[d].pc # "upsert" /\ (desk[d].pc = "put" => desk[d].e.sub = i)

WriteRow(d) ==
    /\ Serves(d, "write") /\ Done(d)
    /\ IF desk[d].op = "cancel"
       THEN /\ row' = [row EXCEPT !.canceled = TRUE]
            /\ left' = IF Final(desk[d].sub) THEN subs[desk[d].sub].periodEnd ELSE left
       ELSE row' = [row EXCEPT !.plan = desk[d].plan] /\ UNCHANGED left
    /\ UNCHANGED <<today, stripeVars, losses, applied, disordered>>

-----------------------------------------------------------------------------
(* The webhook *)

\* The event is done with, or Stripe will deliver it again.
Taken(m) == mail' \in {mail, mail \ {m}} /\ UNCHANGED <<subs, checkouts, posted>>

\* An effect of event n; whole says that it writes all there is to know of the
\* newest subscription, foreign that it writes the payment of one to the row of
\* another.
Applies(n, whole, foreign) ==
    /\ applied' = IF n > applied THEN n ELSE applied
    /\ disordered' = (n < applied \/ foreign \/ (disordered /\ ~(whole /\ n = posted)))
    /\ UNCHANGED left

\* checkout.session.completed asks Stripe what there is now, the plan being
\* the one of the checkout ...
CheckoutCompleted(d, m) ==
    /\ m \in mail /\ m.e.type = "completed" /\ Serves(d, "idle") /\ Taken(m)
    /\ Takes(d, [pc |-> "upsert", sub |-> m.e.sub, now |-> [subs[m.e.sub] EXCEPT !.plan = m.e.plan], n |-> m.n])
    /\ UNCHANGED <<today, row, losses, historyVars>>

RowOf(i, s) ==
    [status |-> MapStripeStatus(s.status), plan |-> s.plan, sub |-> i, periodEnd |-> s.periodEnd,
     trialEnd |-> s.trialEnd, canceled |-> FALSE]

\* Mutant: a business that was here before keeps its old row.
Upserted_CreateOnly(i, s) == IF HasRow THEN row ELSE RowOf(i, s)

Upserted(i, s) == RowOf(i, s)

\* ... and writes that.
Upsert(d) ==
    /\ Serves(d, "upsert") /\ Done(d)
    /\ row' = Upserted(desk[d].sub, desk[d].now)
    /\ Applies(desk[d].n, FALSE, FALSE)
    /\ UNCHANGED <<today, stripeVars, losses>>

\* invoice.payment_succeeded and invoice.payment_failed find the row of the
\* subscription, and write to it by its id.
InvoiceEvent(d, m) ==
    /\ m \in mail /\ m.e.type \in {"succeeded", "failed"} /\ Serves(d, "idle") /\ Taken(m)
    /\ IF HasRow /\ row.sub = m.e.sub
       THEN Takes(d, [pc |-> "put", e |-> m.e, n |-> m.n]) /\ UNCHANGED historyVars
       ELSE UNCHANGED desk /\ Applies(m.n, FALSE, FALSE)
    /\ UNCHANGED <<today, row, losses>>

Put(d) ==
    /\ Serves(d, "put") /\ Done(d)
    /\ row' = IF desk[d].e.type = "succeeded"
              THEN [row EXCEPT !.status = "ACTIVE", !.periodEnd = desk[d].e.periodEnd]
              ELSE [row EXCEPT !.status = "PAST_DUE"]
    /\ Applies(desk[d].n, FALSE, desk[d].e.type = "succeeded" /\ desk[d].e.sub # row.sub)
    /\ UNCHANGED <<today, stripeVars, losses>>

\* syncSubscriptionRow.
Synced(s) ==
    [row EXCEPT !.status = MapStripeStatus(s.status), !.plan = s.plan, !.periodEnd = s.periodEnd,
                !.trialEnd = s.trialEnd, !.canceled = s.ending \/ s.status = "canceled"]

\* customer.subscription.updated and .deleted are one statement.
SubscriptionEvent(m) ==
    /\ m \in mail /\ m.e.type \in {"updated", "deleted"} /\ Taken(m)
    /\ row' = IF ~(HasRow /\ row.sub = m.e.sub) THEN row
              ELSE IF m.e.type = "updated" THEN Synced(m.e.now)
              ELSE [row EXCEPT !.status = "CANCELED", !.canceled = TRUE]
    /\ Applies(m.n, m.e.type = "updated" /\ HasRow /\ row.sub = m.e.sub /\ m.e.sub = Len(subs), FALSE)
    /\ UNCHANGED <<today, desk, losses>>

LoseEvent(m) ==
    /\ m \in mail /\ losses < MaxLosses /\ losses' = losses + 1
    /\ mail' = mail \ {m}
    /\ UNCHANGED <<today, row, subs, checkouts, posted, desk, historyVars>>

SubsNext ==
    \/ DayPasses
    \/ \E c \in checkouts : CompleteCheckout(c)
    \/ \E i \in DOMAIN subs :
         \/ PeriodEnds(i) \/ DebtSettled(i)
         \/ \E plan \in Plans, ending \in BOOLEAN : BillingPortal(i, plan, ending)
    \/ \E plan \in Plans : StartCheckout(plan) \/ (\E d \in Desks : UpdateSubscription(d, plan))
    \/ \E d \in Desks : CancelSubscription(d) \/ CallStripe(d) \/ WriteRow(d) \/ Upsert(d) \/ Put(d)
    \/ \E m \in mail :
         \/ SubscriptionEvent(m) \/ LoseEvent(m)
         \/ \E d \in Desks : CheckoutCompleted(d, m) \/ InvoiceEvent(d, m)

-----------------------------------------------------------------------------
(* Properties *)

SubsTypeOK ==
    /\ today \in 0..LastDay /\ row \in Row \cup {NoRow}
    /\ subs \in Seq(Sub) /\ Len(subs) <= MaxSubs
    /\ checkouts \subseteq [plan : Plans, trial : BOOLEAN]
    /\ posted \in 0..MaxPosted /\ losses \in 0..MaxLosses
    /\ applied \in 0..posted /\ left \in Days

\* A business that has cancelled is locked once the period it paid for, and at
\* most the days of grace, are over: even if the event that ends it is lost,
\* and whatever else of that subscription arrives late.  A payment of another
\* one, found by its subscription and written by the id of the row
\* (stripe.controller.js:131-143), may let it in again
\* (subscriptionAccess.js:61-64, subscriptions.service.js:100-110).
CancelledEnds == left # 0 /\ today > left + Grace => ~Allowed

\* When all events have been delivered, in the order they were sent in, and no
\* request is under way, a business is served as long as its subscription is
\* paid for or on trial, unless a payment of another one, found while the row
\* was of that one, was written after the row had passed to this one
\* (stripe.controller.js:75-105, 127-188).
ServedWhilePaid ==
    LET i == Len(subs)
    IN /\ mail = {} /\ losses = 0 /\ ~disordered /\ \A d \in Desks : Serves(d, "idle")
       /\ i > 0 /\ subs[i].status \in {"trialing", "active"} /\ today < subs[i].periodEnd
       => Allowed
=============================================================================
