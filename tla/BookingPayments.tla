--------------------------- MODULE BookingPayments ---------------------------
(***************************************************************************)
(* The money of one booking: deposit, payment links, payments recorded by  *)
(* hand, completion, cancellation with its refunds, and the sweeper of     *)
(* unpaid deposits, against a Stripe that takes payments by card at once   *)
(* or by direct debit later, and delivers its events late, in any order,   *)
(* again after an error, and sometimes twice.                              *)
(*                                                                         *)
(* As in Bookings, a call of a handler (to the database or to Stripe) is   *)
(* one action and req[r] holds the handler's local variables; `seen` is    *)
(* the booking row as the handler read it.  Amounts are in units of at     *)
(* least 50 cents, Stripe's minimum.  CONFIRMED stands for every status of *)
(* a booking that staff have decided to keep.                              *)
(***************************************************************************)
EXTENDS PaymentMath, Sequences, SequencesExt

CONSTANTS Requests,        \* request slots: how many handlers may be in flight
          Quotes,          \* prices staff may set; the first price is Quote
          Quote, Deposit,  \* Deposit = 0: none was asked for
          CardValue,       \* initialValueCents of the customer's gift card
          CardElsewhere,   \* of it, spent on other bookings
          Gift,            \* of it, applied to this booking
          Redemptions,     \* redeemedCount of the coupon, this booking included
          HandAmounts,     \* amounts staff may record (0: none given)
          Overrides,       \* payment statuses staff set by hand
          Policy,          \* cancellation fee: [kind, value]
          MaxLinks,        \* bound: payment links created
          MaxCrashes,      \* bound: handlers killed half way
          MaxDuplicates    \* bound: events delivered again after they were acked

ASSUME MoneyAssumption ==
    /\ Quotes \subseteq Nat /\ Quote \in Nat /\ Deposit \in Nat
    /\ HandAmounts \subseteq Nat /\ Gift \in Nat /\ CardElsewhere \in Nat
    /\ CardValue \in Nat /\ Gift + CardElsewhere <= CardValue
    /\ Policy \in [kind : {"PERCENT", "AMOUNT"}, value : Nat]
    /\ Redemptions \in Nat \ {0}
ASSUME OverrideAssumption == Overrides \subseteq {"UNPAID", "PAID", "PARTIAL", "REFUNDED"}
ASSUME BoundAssumption    == MaxLinks \in Nat /\ MaxCrashes \in Nat /\ MaxDuplicates \in Nat

VARIABLES
    book,        \* the Booking row, its money columns
    card,        \* GiftCard.balanceCents
    redeemed,    \* Coupon.redeemedCount
    session,     \* Stripe: the Checkout sessions, and the intents they collect
    refunds,     \* Stripe: the refunds made of each intent
    events,      \* Stripe: events not yet acknowledged nor being delivered
    duplicates,  \* events delivered again so far
    late,        \* the cancellation window has begun
    stale,       \* hold time and grace of the deposit are over
    req,         \* what the handler in each slot is doing
    crashes,     \* handlers killed so far
    handed,      \* history: received by hand, as staff recorded it
    credited,    \* history: sessions whose payment a webhook wrote to the booking
    undone       \* history: staff set a payment status other than PAID by hand

stripe == <<session, refunds, events, duplicates>>
local  == <<card, redeemed>>
clock  == <<late, stale>>
past   == <<handed, credited, undone>>
vars   == <<book, card, redeemed, session, refunds, events, duplicates, late,
            stale, req, crashes, handed, credited, undone>>

-----------------------------------------------------------------------------
(* Data *)

DepositId  == 0                  \* the session created with the booking
SessionIds == 0..MaxLinks        \* 1, 2, ...: payment links
Status     == {"REQUESTED", "CONFIRMED", "COMPLETED", "CANCELLED"}
Ended      == {"COMPLETED", "CANCELLED"}
Event      == [type : {"paid", "expired"}, id : SessionIds]
NoEvent    == [type |-> "none", id |-> Unset]

Booking == [status : Status, quote : Nat, gift : Nat, payment : PaymentStatus,
            amountPaid : Nat \cup {Unset}, depositDue : Nat, depositPaid : BOOLEAN,
            jobLink : SessionIds \cup {Unset}, depositLink : SessionIds \cup {Unset},
            jobIntent : SessionIds \cup {Unset}, depositIntent : SessionIds \cup {Unset},
            fee : Nat, refunded : Nat, failed : Nat, manual : Nat]

\* cents: an amount, price or session id the handler carries on; opt: waiveFee
\* of a cancellation, paymentRequest of a completion; event: the webhook served.
Work == [pc : {"collect", "override", "price", "confirm", "complete", "linkRead",
               "linkNothing", "linkCreate", "linkWrite", "cancelRead", "refundJob",
               "refundDeposit", "cancelWrite", "expire", "jobPaid", "depositPaid",
               "sweepExpire"},
         seen : Booking, cents : Nat, to : PaymentStatus, opt : BOOLEAN, fee : Nat,
         refunded : Nat, failed : Nat, event : Event \cup {NoEvent}]
Idle == [pc |-> "idle", event |-> NoEvent]

refundedOn(i) == FoldSeq(+, 0, refunds[i])
links == DOMAIN session

-----------------------------------------------------------------------------
(* Requests *)

\* A handler starts: what it carries is set by its first call.
Job(pc) == [pc |-> pc, seen |-> book, cents |-> 0, to |-> "PAID", opt |-> FALSE,
            fee |-> 0, refunded |-> 0, failed |-> 0, event |-> NoEvent]
Goto(r, work)  == req' = [req EXCEPT ![r] = work] /\ UNCHANGED crashes
Begin(r, work) == req[r] = Idle /\ Goto(r, work)
At(r, pc)      == req[r].pc = pc
Then(r, pc)    == Goto(r, [req[r] EXCEPT !.pc = pc])
Return(r)      == Goto(r, Idle)
\* An error: a webhook answers 500 and Stripe keeps the event.
Fail(r) == Return(r) /\ events' = events \cup ({req[r].event} \ {NoEvent})

Init ==
    /\ book = [status |-> "REQUESTED", quote |-> Quote, gift |-> Gift,
               payment |-> "UNPAID", amountPaid |-> Unset, depositDue |-> Deposit,
               depositPaid |-> FALSE, jobLink |-> Unset,
               depositLink |-> IF Deposit > 0 THEN DepositId ELSE Unset,
               jobIntent |-> Unset, depositIntent |-> Unset,
               fee |-> 0, refunded |-> 0, failed |-> 0, manual |-> 0]
    /\ card = CardValue - CardElsewhere - Gift
    /\ redeemed = Redemptions
    /\ session = [i \in IF Deposit > 0 THEN {DepositId} ELSE {} |->
                     [amount |-> Deposit, state |-> "open"]]
    /\ refunds = [i \in SessionIds |-> << >>]
    /\ events = {}
    /\ duplicates = 0
    /\ late = FALSE
    /\ stale = FALSE
    /\ req = [r \in Requests |-> Idle]
    /\ crashes = 0
    /\ handed = 0
    /\ credited = {}
    /\ undone = FALSE

-----------------------------------------------------------------------------
(* Staff: bookings.markPaymentReceived, updatePaymentStatus, updateBooking, *)
(* confirmBooking.  None of the first three looks at the booking's status.  *)

CollectRead(r, given) ==
    LET received == IF given > 0 THEN given ELSE amountDueCents(book) IN
    /\ book.payment # "PAID" /\ received > 0
    /\ Begin(r, [Job("collect") EXCEPT !.cents = received])
    /\ UNCHANGED <<book, local, stripe, clock, past>>

CollectWrite(r) ==
    /\ At(r, "collect")
    /\ LET seen == req[r].seen IN
       book' = [book EXCEPT
           !.payment = IF req[r].cents >= amountDueCents(seen) THEN "PAID" ELSE "PARTIAL",
           !.amountPaid = jobPaymentCents(seen) + req[r].cents]
    /\ handed' = handed + req[r].cents
    /\ Return(r)
    /\ UNCHANGED <<local, stripe, clock, credited, undone>>

OverrideRead(r, to) ==
    /\ Begin(r, [Job("override") EXCEPT !.to = to])
    /\ UNCHANGED <<book, local, stripe, clock, past>>

\* PAID without an amount so far: what was due is taken as received; UNPAID
\* forgets what was.
OverrideWrite(r) ==
    /\ At(r, "override")
    /\ LET assumed == req[r].to = "PAID" /\ req[r].seen.amountPaid = Unset
           due     == amountDueCents(req[r].seen)
       IN /\ book' = [book EXCEPT
                !.payment = req[r].to,
                !.amountPaid = IF assumed THEN due ELSE IF req[r].to = "UNPAID" THEN Unset ELSE @]
          /\ handed' = IF assumed THEN handed + due ELSE handed
          /\ undone' = (undone \/ req[r].to # "PAID")
    /\ Return(r)
    /\ UNCHANGED <<local, stripe, clock, credited>>

PriceRead(r, quote) ==
    /\ book.payment # "PAID" /\ ~book.depositPaid
    /\ Begin(r, [Job("price") EXCEPT !.cents = quote])
    /\ UNCHANGED <<book, local, stripe, clock, past>>

PriceWrite(r) ==
    /\ At(r, "price")
    /\ book' = [book EXCEPT !.quote = req[r].cents]
    /\ Return(r)
    /\ UNCHANGED <<local, stripe, clock, past>>

ConfirmRead(r) ==
    /\ book.status = "REQUESTED"
    /\ Begin(r, Job("confirm"))
    /\ UNCHANGED <<book, local, stripe, clock, past>>

ConfirmWrite(r) ==
    /\ At(r, "confirm")
    /\ book' = [book EXCEPT !.status = "CONFIRMED"]
    /\ Return(r)
    /\ UNCHANGED <<local, stripe, clock, past>>

Staff(r) ==
    \/ \E given \in HandAmounts : CollectRead(r, given)
    \/ \E to \in Overrides : OverrideRead(r, to)
    \/ \E quote \in Quotes \ {book.quote} : PriceRead(r, quote)
    \/ ConfirmRead(r)
    \/ CollectWrite(r) \/ OverrideWrite(r) \/ PriceWrite(r) \/ ConfirmWrite(r)

-----------------------------------------------------------------------------
(* Payment links and completion: bookings.createPaymentLink, completeBooking. *)
(* A new link replaces the stored one; the old session stays payable.         *)

LinkBegin(r) ==
    /\ Cardinality(links \ {DepositId}) < MaxLinks
    /\ Begin(r, Job("linkRead"))
    /\ UNCHANGED <<book, local, stripe, clock, past>>

LinkRead(r) ==
    /\ At(r, "linkRead")
    /\ \/ /\ book.payment # "PAID" /\ book.quote > 0
          /\ LET due == amountDueCents(book) IN
             Goto(r, [Job(IF due > 0 THEN "linkCreate" ELSE "linkNothing") EXCEPT !.cents = due])
       \/ (book.payment = "PAID" \/ book.quote = 0) /\ Return(r)
    /\ UNCHANGED <<book, local, stripe, clock, past>>

\* Nothing is left to pay: recorded as paid, and refused.
LinkNothing(r) ==
    /\ At(r, "linkNothing")
    /\ book' = [book EXCEPT !.payment = "PAID"]
    /\ Return(r)
    /\ UNCHANGED <<local, stripe, clock, past>>

LinkCreate(r) ==
    /\ At(r, "linkCreate")
    /\ \E i \in 1..MaxLinks \ links :
         /\ \A j \in 1..MaxLinks \ links : i <= j
         /\ session' = [j \in links \cup {i} |->
                IF j = i THEN [amount |-> req[r].cents, state |-> "open"] ELSE session[j]]
         /\ Goto(r, [req[r] EXCEPT !.pc = "linkWrite", !.cents = i])
    /\ UNCHANGED <<book, local, refunds, events, duplicates, clock, past>>

LinkWrite(r) ==
    /\ At(r, "linkWrite")
    /\ book' = [book EXCEPT !.jobLink = req[r].cents]
    /\ Return(r)
    /\ UNCHANGED <<local, stripe, clock, past>>

CompleteRead(r, request) ==
    /\ book.status \notin Ended
    /\ request => Cardinality(links \ {DepositId}) < MaxLinks
    /\ Begin(r, [Job("complete") EXCEPT !.opt = request])
    /\ UNCHANGED <<book, local, stripe, clock, past>>

CompleteWrite(r) ==
    /\ At(r, "complete")
    /\ book' = [book EXCEPT !.status = "COMPLETED"]
    /\ LET ask == /\ req[r].opt /\ req[r].seen.payment # "PAID"
                  /\ amountDueCents(req[r].seen) > 0
       IN IF ask THEN Then(r, "linkRead") ELSE Return(r)
    /\ UNCHANGED <<local, stripe, clock, past>>

Link(r) ==
    \/ LinkBegin(r) \/ LinkRead(r) \/ LinkNothing(r) \/ LinkCreate(r) \/ LinkWrite(r)
    \/ \E request \in BOOLEAN : CompleteRead(r, request)
    \/ CompleteWrite(r)

-----------------------------------------------------------------------------
(* Cancelling: bookings.cancelBooking, asked for by staff, by the customer    *)
(* (portal), by the webhook of an expired deposit session or by the sweeper   *)

CancelBegin(r, waive) ==
    /\ Begin(r, [Job("cancelRead") EXCEPT !.opt = waive])
    /\ UNCHANGED <<book, local, stripe, clock, past>>

\* Mutant: a booking that has ended is cancelled again.
CancelRead_NoTerminalGuard(r) ==
    /\ At(r, "cancelRead")
    /\ Goto(r, [req[r] EXCEPT !.pc = "refundJob", !.seen = book])
    /\ UNCHANGED <<book, local, stripe, clock, past>>

\* The booking and the fee as of now.
CancelRead(r) ==
    /\ At(r, "cancelRead")
    /\ \/ /\ book.status \notin Ended
          /\ Goto(r, [req[r] EXCEPT
                 !.pc = "refundJob", !.seen = book,
                 !.fee = IF late /\ ~req[r].opt THEN cancellationFee(book, Policy) ELSE 0])
          /\ UNCHANGED events
       \/ book.status \in Ended /\ Fail(r)
    /\ UNCHANGED <<book, local, session, refunds, duplicates, clock, past>>

refundCents(w) == paidSoFarCents(w.seen) - w.fee

\* Stripe takes a refund it has taken before (same idempotency key) as done, and
\* refuses one beyond what is left of the charge; it may also fail.
Refund(r, intent, cents, next) ==
    \/ /\ \/ /\ cents \in ToSet(refunds[intent])
             /\ UNCHANGED refunds
          \/ /\ cents \notin ToSet(refunds[intent])
             /\ refundedOn(intent) + cents <= session[intent].amount
             /\ refunds' = [refunds EXCEPT ![intent] = Append(@, cents)]
       /\ Goto(r, [req[r] EXCEPT !.pc = next, !.refunded = @ + cents])
    \/ /\ Goto(r, [req[r] EXCEPT !.pc = next, !.failed = @ + cents])
       /\ UNCHANGED refunds

RefundJob(r) ==
    /\ At(r, "refundJob")
    /\ LET cents == refundFromJob(req[r].seen, refundCents(req[r])) IN
       IF cents > 0 THEN Refund(r, req[r].seen.jobIntent, cents, "refundDeposit")
       ELSE Then(r, "refundDeposit") /\ UNCHANGED refunds
    /\ UNCHANGED <<book, local, session, events, duplicates, clock, past>>

RefundDeposit(r) ==
    /\ At(r, "refundDeposit")
    /\ LET cents == refundFromDeposit(req[r].seen, refundCents(req[r])) IN
       IF cents > 0 THEN Refund(r, req[r].seen.depositIntent, cents, "cancelWrite")
       ELSE Then(r, "cancelWrite") /\ UNCHANGED refunds
    /\ UNCHANGED <<book, local, session, events, duplicates, clock, past>>

\* One transaction: the booking, the gift card and the coupon.
CancelWrite(r) ==
    /\ At(r, "cancelWrite")
    /\ LET w      == req[r]
           manual == manualCents(w.seen, refundCents(w))
           all    == w.failed = 0 /\ manual = 0 /\ w.fee = 0
           paid   == IF all THEN "REFUNDED" ELSE "PARTIAL"
       IN /\ book' = [book EXCEPT
                !.status = "CANCELLED", !.fee = w.fee,
                !.refunded = IF w.refunded > 0 THEN w.refunded ELSE @,
                !.payment  = IF w.refunded > 0 THEN paid ELSE @,
                !.failed = w.failed, !.manual = manual]
          /\ card' = IF w.seen.gift > 0 THEN Lesser(CardValue, card + w.seen.gift) ELSE card
          /\ redeemed' = nonNegative(redeemed - 1)
    /\ Then(r, "expire")
    /\ UNCHANGED <<stripe, clock, past>>

\* What Stripe makes of expiring the sessions in ids, by itself or when asked:
\* only those still open expire.  (The webhook ignores the event of a link.)
Expire(ids) ==
    LET expiring == {i \in ids \cap links : session[i].state = "open"} IN
    /\ session' = [i \in links |->
           IF i \in expiring THEN [session[i] EXCEPT !.state = "expired"] ELSE session[i]]
    /\ events' = events \cup {[type |-> "expired", id |-> i] : i \in expiring \cap {DepositId}}

CancelExpire(r) ==
    /\ At(r, "expire")
    /\ LET seen == req[r].seen IN
       Expire((IF seen.payment # "PAID" THEN {seen.jobLink} ELSE {})
              \cup (IF ~seen.depositPaid THEN {seen.depositLink} ELSE {}))
    /\ Return(r)
    /\ UNCHANGED <<book, local, refunds, duplicates, clock, past>>

\* Mutant: only a session that expired counts, not a debit that bounced.
SweepFind_OnlyExpired(r) ==
    /\ stale /\ book.status = "REQUESTED" /\ ~book.depositPaid
    /\ DepositId \in links /\ session[DepositId].state = "expired"
    /\ Begin(r, [Job("sweepExpire") EXCEPT !.opt = TRUE])
    /\ UNCHANGED <<book, local, stripe, clock, past>>

\* workers/depositSweeper: a booking whose deposit never came.
SweepFind(r) ==
    /\ stale /\ book.status = "REQUESTED"
    /\ book.depositDue > 0 /\ ~book.depositPaid /\ book.depositLink # Unset
    /\ Begin(r, [Job("sweepExpire") EXCEPT !.opt = TRUE])
    /\ UNCHANGED <<book, local, stripe, clock, past>>

SweepExpire(r) ==
    /\ At(r, "sweepExpire")
    /\ Expire({req[r].seen.depositLink})
    /\ Then(r, "cancelRead")
    /\ UNCHANGED <<book, local, refunds, duplicates, clock, past>>

Cancel(r) ==
    \/ \E waive \in BOOLEAN : CancelBegin(r, waive)
    \/ CancelRead(r) \/ RefundJob(r) \/ RefundDeposit(r) \/ CancelWrite(r) \/ CancelExpire(r)
    \/ SweepFind(r) \/ SweepExpire(r)

-----------------------------------------------------------------------------
(* The webhook: stripe.controller.handle.  It answers 200 when it is done.    *)

\* The booking is read; an event that changes nothing is acknowledged at once.
Concerns(e) ==
    CASE e.type = "paid" /\ e.id # DepositId -> book.payment # "PAID"
      [] e.type = "paid" /\ e.id = DepositId -> ~book.depositPaid
      [] e.type = "expired" -> /\ book.depositLink = e.id /\ ~book.depositPaid
                               /\ book.status = "REQUESTED"
Handler(e) == IF e.type = "expired" THEN "cancelRead"
              ELSE IF e.id = DepositId THEN "depositPaid" ELSE "jobPaid"

Deliver(r, e) ==
    /\ req[r] = Idle
    /\ events' = events \ {e}
    /\ \/ Concerns(e) /\ Goto(r, [Job(Handler(e)) EXCEPT !.event = e, !.opt = e.type = "expired"])
       \/ ~Concerns(e) /\ UNCHANGED <<req, crashes>>
    /\ UNCHANGED <<book, local, session, refunds, duplicates, clock, past>>

\* Mutant: the link's amount replaces what was received before.
JobPaidWrite_NotAdditive(r) ==
    /\ At(r, "jobPaid")
    /\ LET i == req[r].event.id IN
       /\ book' = [book EXCEPT !.payment = "PAID", !.jobLink = i, !.jobIntent = i,
                               !.amountPaid = session[i].amount]
       /\ credited' = credited \cup {i}
    /\ Return(r)
    /\ UNCHANGED <<local, stripe, clock, handed, undone>>

JobPaidWrite(r) ==
    /\ At(r, "jobPaid")
    /\ LET i == req[r].event.id IN
       /\ book' = [book EXCEPT
             !.payment = "PAID", !.jobLink = i, !.jobIntent = i,
             !.amountPaid = nonNegative(req[r].seen.amountPaid) + session[i].amount]
       /\ credited' = credited \cup {i}
    /\ Return(r)
    /\ UNCHANGED <<local, stripe, clock, handed, undone>>

DepositPaidWrite(r) ==
    /\ At(r, "depositPaid")
    /\ LET i    == req[r].event.id
           seen == req[r].seen
       IN /\ book' = [book EXCEPT
                !.depositPaid = TRUE, !.depositDue = session[i].amount,
                !.depositLink = i, !.depositIntent = i,
                !.payment = IF seen.payment = "UNPAID" THEN "DEPOSIT_PAID" ELSE seen.payment]
          /\ credited' = credited \cup {i}
    /\ Return(r)
    /\ UNCHANGED <<local, stripe, clock, handed, undone>>

Webhook(r) == (\E e \in events : Deliver(r, e)) \/ JobPaidWrite(r) \/ DepositPaidWrite(r)

-----------------------------------------------------------------------------
(* Stripe, the clock and failures *)

Become(i, state) == session' = [session EXCEPT ![i].state = state]
Paid(i) == Become(i, "paid") /\ events' = events \cup {[type |-> "paid", id |-> i]}

\* The customer pays by card, or by a method whose money arrives later or never.
Pay(i)     == session[i].state = "open" /\ Paid(i)
Debit(i)   == session[i].state = "open" /\ Become(i, "processing") /\ UNCHANGED events
Settle(i)  == session[i].state = "processing" /\ Paid(i)
Bounce(i)  == session[i].state = "processing" /\ Become(i, "failed") /\ UNCHANGED events
Timeout(i) == session[i].state = "open" /\ Expire({i})

Customer ==
    /\ \E i \in links : Pay(i) \/ Debit(i) \/ Settle(i) \/ Bounce(i) \/ Timeout(i)
    /\ UNCHANGED <<book, local, refunds, duplicates, clock, req, crashes, past>>

Happened(e) ==
    /\ e.id \in links
    /\ session[e.id].state = e.type
    /\ e.type = "expired" => e.id = DepositId
Redeliver(e) ==
    /\ duplicates < MaxDuplicates
    /\ Happened(e) /\ e \notin events
    /\ events' = events \cup {e}
    /\ duplicates' = duplicates + 1
    /\ UNCHANGED <<book, local, session, refunds, clock, req, crashes, past>>

\* The deposit's session ends before hold time and grace do.
Late  == ~late /\ late' = TRUE /\ UNCHANGED <<book, local, stripe, stale, req, crashes, past>>
Stale ==
    /\ ~stale /\ \A i \in links \cap {DepositId} : session[i].state # "open"
    /\ stale' = TRUE
    /\ UNCHANGED <<book, local, stripe, late, req, crashes, past>>

\* Mutant: the webhook answers before it has done its work.
Crash_AfterAck(r) ==
    /\ req[r] # Idle /\ crashes < MaxCrashes
    /\ crashes' = crashes + 1 /\ req' = [req EXCEPT ![r] = Idle]
    /\ UNCHANGED <<book, local, stripe, clock, past>>

\* A process is killed, or a call fails, between two calls of a handler.
Crash(r) ==
    /\ req[r] # Idle
    /\ crashes < MaxCrashes
    /\ crashes' = crashes + 1
    /\ req' = [req EXCEPT ![r] = Idle]
    /\ events' = events \cup ({req[r].event} \ {NoEvent})
    /\ UNCHANGED <<book, local, session, refunds, duplicates, clock, past>>

Next ==
    \/ \E r \in Requests : Staff(r) \/ Link(r) \/ Cancel(r) \/ Webhook(r) \/ Crash(r)
    \/ Customer \/ (\E e \in Event : Redeliver(e)) \/ Late \/ Stale

Spec == Init /\ [][Next]_vars

\* A handler that runs goes on; Stripe delivers its events until they are
\* acknowledged and times a session out; the daemon sweeps every five minutes.  Delivering and
\* sweeping wait for the slot, which stands for no resource of the program: it
\* gets to them however busy it is.
Step(r) ==
    \/ CollectWrite(r) \/ OverrideWrite(r) \/ PriceWrite(r) \/ ConfirmWrite(r)
    \/ LinkRead(r) \/ LinkNothing(r) \/ LinkCreate(r) \/ LinkWrite(r) \/ CompleteWrite(r)
    \/ CancelRead(r) \/ RefundJob(r) \/ RefundDeposit(r) \/ CancelWrite(r) \/ CancelExpire(r)
    \/ SweepExpire(r) \/ JobPaidWrite(r) \/ DepositPaidWrite(r)

Fairness ==
    /\ \A r \in Requests : WF_vars(Step(r))
    /\ SF_vars(\E r \in Requests : \E e \in events : Deliver(r, e))
    /\ SF_vars(\E r \in Requests : SweepFind(r))
    /\ WF_vars(Stale)
    /\ WF_vars(/\ DepositId \in links /\ Timeout(DepositId)
               /\ UNCHANGED <<book, local, refunds, duplicates, clock, req, crashes, past>>)

FairSpec == Spec /\ Fairness

-----------------------------------------------------------------------------
(* Properties *)

TypeOK ==
    /\ book \in Booking
    /\ card \in 0..CardValue
    /\ redeemed \in 0..Redemptions
    /\ links \subseteq SessionIds
    /\ session \in [links -> [amount : Nat, state : {"open", "processing", "paid", "failed", "expired"}]]
    /\ \A i \in SessionIds : refunds[i] # << >> => i \in links
    /\ events \subseteq Event
    /\ req \in [Requests -> Work \cup {Idle}]
    /\ handed \in Nat
    /\ credited \subseteq links
    /\ undone \in BOOLEAN

\* Cancelling gives back exactly what the booking took: its part of the gift
\* card and its redemption of the coupon.  (cancelBooking's transaction)
ConsumedMatchesStatus ==
    /\ card = CardValue - CardElsewhere - IF book.status = "CANCELLED" THEN 0 ELSE Gift
    /\ redeemed = Redemptions - IF book.status = "CANCELLED" THEN 1 ELSE 0

\* Until it is cancelled a booking counts as paid what staff recorded and what
\* the webhook credited, each payment once, however often its event arrives;
\* unless staff took a status back by hand, which forgets what was paid.
BooksMatchReceipts == book.status # "CANCELLED" /\ ~undone =>
    paidSoFarCents(book)
        = handed + SumFunctionOnSet([i \in links |-> session[i].amount], credited)

\* Of what a cancelled booking had been paid every cent is the fee, refunded, or
\* written down as owed to the customer.  (cancelBooking, evaluateCancellation)
CancelAccountsForAll ==
    [][book.status # "CANCELLED" /\ book'.status = "CANCELLED" =>
       paidSoFarCents(book) = book'.fee + book'.refunded + book'.failed + book'.manual]_vars

\* Money that arrived at Stripe is eventually known to the booking, whatever
\* fails on the way.  (the webhook's 500)
PaymentIsRecorded == \A i \in SessionIds :
    (i \in links /\ session[i].state = "paid") ~>
        IF i = DepositId THEN book.depositPaid ELSE book.payment \notin {"UNPAID", "DEPOSIT_PAID"}

\* A booking does not hold its slot for ever on a deposit that does not come.
\* (depositSweeper, the expired webhook)
HoldEnds == (book.status = "REQUESTED" /\ book.depositDue > 0 /\ ~book.depositPaid)
    ~> (book.status # "REQUESTED" \/ book.depositPaid)
=============================================================================
