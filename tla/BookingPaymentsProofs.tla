------------------------ MODULE BookingPaymentsProofs ------------------------
(***************************************************************************)
(* Theorems about BookingPayments, for every price, deposit, gift card,    *)
(* policy and number of links, crashes and duplicate events; and first the *)
(* arithmetic of refunds and fees, for every booking and policy.           *)
(***************************************************************************)
EXTENDS BookingPayments, SumProofs

-----------------------------------------------------------------------------
(* PaymentMath: refunds and fees *)

\* The columns of a booking that the arithmetic reads.
MoneyOK(b) ==
    /\ b.quote \in Nat /\ b.gift \in Nat /\ b.depositDue \in Nat
    /\ b.amountPaid \in Nat \cup {Unset}
    /\ b.depositPaid \in BOOLEAN

\* What has been paid and what is due are amounts, never negative.
LEMMA PaidType ==
    ASSUME NEW b, MoneyOK(b)
    PROVE  /\ depositPaidCents(b) \in Nat
           /\ jobPaymentCents(b) \in Nat
           /\ paidSoFarCents(b) \in Nat
           /\ amountDueCents(b) \in Nat
<1>1. depositPaidCents(b) \in Nat
  BY DEF MoneyOK, depositPaidCents
<1>2. jobPaymentCents(b) \in Nat
  BY <1>1 DEF MoneyOK, jobPaymentCents, nonNegative, Unset
<1>3. paidSoFarCents(b) \in Nat
  BY <1>1, <1>2 DEF paidSoFarCents
<1>4. amountDueCents(b) \in Nat
  BY <1>3 DEF MoneyOK, amountDueCents, nonNegative
<1> QED
  BY <1>1, <1>2, <1>3, <1>4

\* buildRefundPlan splits a refund without losing or inventing a cent, asks each
\* PaymentIntent for no more than was recorded as paid through it, and leaves to
\* the business by hand exactly what no intent covers.
THEOREM RefundPlanConserves ==
    ASSUME NEW b, MoneyOK(b), NEW cents \in 0..paidSoFarCents(b)
    PROVE  /\ refundFromJob(b, cents) \in 0..jobPaymentCents(b)
           /\ refundFromDeposit(b, cents) \in 0..depositPaidCents(b)
           /\ manualCents(b, cents) \in Nat
           /\ refundFromJob(b, cents) + refundFromDeposit(b, cents)
                + manualCents(b, cents) = cents
           /\ b.jobIntent # Unset /\ b.depositIntent # Unset => manualCents(b, cents) = 0
<1> DEFINE job == refundFromJob(b, cents)
           deposit == refundFromDeposit(b, cents)
<1>1. /\ depositPaidCents(b) \in Nat /\ jobPaymentCents(b) \in Nat
      /\ cents \in Nat /\ cents <= depositPaidCents(b) + jobPaymentCents(b)
  BY PaidType DEF paidSoFarCents
<1>2. /\ job \in 0..jobPaymentCents(b) /\ job <= cents
      /\ b.jobIntent # Unset => job = cents \/ job = jobPaymentCents(b)
  BY <1>1 DEF refundFromJob, Lesser
<1>3. /\ deposit \in 0..depositPaidCents(b) /\ deposit <= cents - job
      /\ b.depositIntent # Unset => deposit = cents - job \/ deposit = depositPaidCents(b)
  <2> HIDE DEF job
  <2>1. cents - job \in Nat
    BY <1>1, <1>2
  <2>2. deposit = Lesser(cents - job, IF b.depositIntent # Unset THEN depositPaidCents(b) ELSE 0)
    BY DEF refundFromDeposit, job
  <2> QED
    BY <1>1, <2>1, <2>2 DEF Lesser
<1>4. manualCents(b, cents) = cents - job - deposit
  BY DEF manualCents
<1> QED
  <2> HIDE DEF job, deposit
  <2> QED
    BY <1>1, <1>2, <1>3, <1>4 DEF job, deposit, Unset

\* The fee of a cancellation is never more than was collected, so the refund is
\* never negative; evaluateCancellation.
THEOREM FeeWithinPaid ==
    ASSUME NEW b, MoneyOK(b),
           NEW policy \in [kind : {"PERCENT", "AMOUNT"}, value : Nat]
    PROVE  /\ cancellationFee(b, policy) \in 0..paidSoFarCents(b)
           /\ b.quote > 0 => cancellationFee(b, policy) <= b.quote
<1> DEFINE fee == IF policy.kind = "PERCENT" THEN (2 * b.quote * policy.value + 100) \div 200
                  ELSE policy.value
<1>1. paidSoFarCents(b) \in Nat /\ b.quote \in Nat
  BY PaidType DEF MoneyOK
<1>2. fee \in Nat
  <2>1. 2 * b.quote * policy.value + 100 \in Nat
    BY <1>1
  <2>2. \A n \in Nat : n \div 200 \in Nat
    OBVIOUS
  <2> QED
    BY <2>1, <2>2
<1>3. cancellationFee(b, policy)
        = Lesser(Lesser(fee, paidSoFarCents(b)), IF b.quote > 0 THEN b.quote ELSE fee)
  BY DEF cancellationFee
<1> HIDE DEF fee
<1> QED
  BY <1>1, <1>2, <1>3 DEF Lesser

-----------------------------------------------------------------------------
(* The inductive invariant: TypeOK, and that every identifier in use is the  *)
(* identifier of a session that was created.                                 *)

BookOK(b, ids) ==
    /\ b \in Booking
    /\ {b.jobIntent, b.depositIntent} \subseteq ids \cup {Unset}

\* A handler's locals: the ids that its pc will use are known, and a cancellation
\* has so far refunded, or failed to, what its plan says.
WorkOK(w, ids) ==
    /\ w \in Work \cup {Idle}
    /\ w.event # NoEvent => w.event.id \in ids
    /\ w.pc \in {"jobPaid", "depositPaid"} => w.event \in Event
    /\ w.pc = "linkWrite" => w.cents \in ids
    /\ w.pc \in {"cancelRead", "sweepExpire", "refundJob"} => w.refunded = 0 /\ w.failed = 0
    /\ w.pc \in {"refundJob", "refundDeposit", "cancelWrite"} =>
         BookOK(w.seen, ids) /\ w.fee \in 0..paidSoFarCents(w.seen)
    /\ w.pc = "refundDeposit" =>
         w.refunded + w.failed = refundFromJob(w.seen, refundCents(w))
    /\ w.pc = "cancelWrite" =>
         w.refunded + w.failed = refundFromJob(w.seen, refundCents(w))
                                 + refundFromDeposit(w.seen, refundCents(w))

StripeOK ==
    /\ links \subseteq SessionIds
    /\ session \in [links -> [amount : Nat, state : {"open", "processing", "paid", "failed", "expired"}]]
    /\ DOMAIN refunds = SessionIds
    /\ \A i \in SessionIds : refunds[i] # << >> => i \in links
    /\ events \subseteq Event
    /\ \A e \in events : e.id \in links
    /\ credited \subseteq links

LocalOK ==
    card \in 0..CardValue /\ redeemed \in 0..Redemptions /\ handed \in Nat /\ undone \in BOOLEAN

Inv ==
    /\ BookOK(book, links)
    /\ StripeOK
    /\ LocalOK
    /\ req \in [Requests -> Work \cup {Idle}]
    /\ \A r \in Requests : WorkOK(req[r], links)

LEMMA InvImpliesTypeOK == Inv => TypeOK
BY DEF Inv, BookOK, StripeOK, LocalOK, TypeOK

-----------------------------------------------------------------------------
(* Lemmas about slots and rows *)

LEMMA Basics ==
    /\ Unset = -1 /\ DepositId = 0 /\ DepositId \in SessionIds
    /\ SessionIds \subseteq Nat
    /\ Idle.pc = "idle" /\ Idle.event = NoEvent
    /\ NoEvent \notin Event
    /\ "PAID" \in PaymentStatus
BY BoundAssumption DEF Unset, DepositId, SessionIds, Idle, NoEvent, Event, PaymentStatus

\* A booking's row has the columns that the arithmetic reads.
LEMMA BookingIsMoney ==
    ASSUME NEW b \in Booking
    PROVE  /\ MoneyOK(b)
           /\ depositPaidCents(b) \in Nat /\ jobPaymentCents(b) \in Nat
           /\ paidSoFarCents(b) \in Nat /\ amountDueCents(b) \in Nat
<1>1. MoneyOK(b)  BY DEF Booking, MoneyOK
<1> QED BY <1>1, PaidType

\* A slot is busy or idle, and its pc tells.
LEMMA BusyIsWork ==
    ASSUME NEW w \in Work \cup {Idle}, w.pc # "idle"
    PROVE  w \in Work /\ w.seen \in Booking /\ w.cents \in Nat /\ w.to \in PaymentStatus
           /\ w.opt \in BOOLEAN /\ w.fee \in Nat /\ w.refunded \in Nat /\ w.failed \in Nat
           /\ w.event \in Event \cup {NoEvent}
BY Basics DEF Work

\* A step that replaces the work of one slot keeps the invariant if what it
\* writes is as it should be; ids once known stay known.
LEMMA StepKeeps ==
    ASSUME Inv, NEW r \in Requests, NEW w, Goto(r, w),
           links \subseteq links', WorkOK(w, links'), BookOK(book', links'), StripeOK', LocalOK'
    PROVE  Inv'
<1>1. req' = [req EXCEPT ![r] = w]  BY DEF Goto
<1>2. w \in Work \cup {Idle}  BY DEF WorkOK
<1>3. req' \in [Requests -> Work \cup {Idle}]  BY <1>1, <1>2 DEF Inv
<1>4. ASSUME NEW s \in Requests PROVE WorkOK(req'[s], links')
  <2>1. CASE s = r  BY <1>1, <2>1 DEF Inv, WorkOK
  <2>2. CASE s # r
    <3>1. req'[s] = req[s] /\ WorkOK(req[s], links)  BY <1>1, <2>2 DEF Inv
    <3> QED BY <3>1 DEF WorkOK, BookOK
  <2> QED BY <2>1, <2>2
<1> QED BY <1>3, <1>4 DEF Inv

\* A new handler carries no ids, except of the booking and of its event.
LEMMA JobOK ==
    ASSUME Inv, NEW pc \in {"collect", "override", "price", "confirm", "complete",
                            "linkRead", "linkNothing", "linkCreate", "cancelRead",
                            "sweepExpire", "jobPaid", "depositPaid"}
    PROVE  /\ Job(pc) \in Work /\ Job(pc).pc = pc /\ Job(pc).event = NoEvent
           /\ Job(pc).refunded = 0 /\ Job(pc).failed = 0
BY Basics DEF Job, Work, Inv, BookOK

LEMMA IdleOK == WorkOK(Idle, links)
BY Basics DEF WorkOK

-----------------------------------------------------------------------------
(* Every action keeps the invariant *)

\* A handler that begins or goes on without writing anything.
LEMMA LocalStep ==
    ASSUME Inv, NEW r \in Requests, NEW w, Goto(r, w), WorkOK(w, links),
           UNCHANGED <<book, local, stripe, past>>
    PROVE  Inv'
<1>1. links' = links  BY DEF stripe, links
<1>2. StripeOK'  BY <1>1 DEF Inv, StripeOK, stripe, past
<1>3. BookOK(book', links') /\ LocalOK'  BY <1>1 DEF Inv, BookOK, LocalOK, local, past
<1>4. WorkOK(w, links')  BY <1>1 DEF WorkOK, BookOK
<1> QED BY <1>1, <1>2, <1>3, <1>4, StepKeeps

\* A handler that writes the booking, and perhaps a history, and returns.
LEMMA WriteStep ==
    ASSUME Inv, NEW r \in Requests, NEW w, Goto(r, w), WorkOK(w, links), BookOK(book', links),
           handed' \in Nat, undone' \in BOOLEAN, credited' \subseteq links,
           UNCHANGED <<local, stripe>>
    PROVE  Inv'
<1>1. links' = links  BY DEF stripe, links
<1>2. StripeOK'  BY <1>1 DEF Inv, StripeOK, stripe
<1>3. BookOK(book', links') /\ LocalOK'  BY <1>1 DEF Inv, BookOK, LocalOK, local
<1>4. WorkOK(w, links')  BY <1>1 DEF WorkOK, BookOK
<1> QED BY <1>1, <1>2, <1>3, <1>4, StepKeeps

LEMMA StaffKeeps ==
    ASSUME Inv, NEW r \in Requests, Staff(r)
    PROVE  Inv'
<1>0. /\ book \in Booking /\ BookOK(book, links) /\ handed \in Nat /\ undone \in BOOLEAN /\ credited \subseteq links
      /\ req[r] \in Work \cup {Idle}
  BY DEF Inv, BookOK, LocalOK, StripeOK
<1>1. ASSUME NEW given \in HandAmounts, CollectRead(r, given)  PROVE Inv'
  <2> DEFINE received == IF given > 0 THEN given ELSE amountDueCents(book)
             w == [Job("collect") EXCEPT !.cents = received]
  <2>1. received \in Nat  BY <1>0, BookingIsMoney, MoneyAssumption
  <2>2. WorkOK(w, links)  BY <2>1, JobOK DEF WorkOK, Work
  <2>3. Goto(r, w) /\ UNCHANGED <<book, local, stripe, past>>
    BY <1>1 DEF CollectRead, Begin
  <2> QED BY <2>2, <2>3, LocalStep
<1>2. ASSUME NEW to \in Overrides, OverrideRead(r, to)  PROVE Inv'
  <2> DEFINE w == [Job("override") EXCEPT !.to = to]
  <2>1. to \in PaymentStatus  BY OverrideAssumption DEF PaymentStatus
  <2>2. WorkOK(w, links)  BY <2>1, JobOK DEF WorkOK, Work
  <2>3. Goto(r, w) /\ UNCHANGED <<book, local, stripe, past>>
    BY <1>2 DEF OverrideRead, Begin
  <2> QED BY <2>2, <2>3, LocalStep
<1>3. ASSUME NEW quote \in Quotes, PriceRead(r, quote)  PROVE Inv'
  <2> DEFINE w == [Job("price") EXCEPT !.cents = quote]
  <2>1. WorkOK(w, links)  BY MoneyAssumption, JobOK DEF WorkOK, Work
  <2>2. Goto(r, w) /\ UNCHANGED <<book, local, stripe, past>>
    BY <1>3 DEF PriceRead, Begin
  <2> QED BY <2>1, <2>2, LocalStep
<1>4. ASSUME ConfirmRead(r)  PROVE Inv'
  <2>1. WorkOK(Job("confirm"), links)  BY JobOK DEF WorkOK
  <2> QED BY <1>4, <2>1, LocalStep DEF ConfirmRead, Begin
<1>5. ASSUME CollectWrite(r)  PROVE Inv'
  <2>1. req[r] \in Work /\ req[r].seen \in Booking /\ req[r].cents \in Nat
    BY <1>0, <1>5, BusyIsWork DEF CollectWrite, At
  <2>2. jobPaymentCents(req[r].seen) + req[r].cents \in Nat
    BY <2>1, BookingIsMoney
  <2>3. BookOK(book', links)
    BY <1>0, <1>5, <2>2 DEF CollectWrite, BookOK, Booking, PaymentStatus
  <2>4. handed' \in Nat /\ undone' \in BOOLEAN  BY <1>0, <1>5, <2>1 DEF CollectWrite
  <2> QED BY <1>0, <1>5, <2>3, <2>4, IdleOK, WriteStep DEF CollectWrite, Return
<1>6. ASSUME OverrideWrite(r)  PROVE Inv'
  <2>1. req[r] \in Work /\ req[r].seen \in Booking /\ req[r].to \in PaymentStatus
    BY <1>0, <1>6, BusyIsWork DEF OverrideWrite, At
  <2>2. amountDueCents(req[r].seen) \in Nat
    BY <2>1, BookingIsMoney
  <2>3. BookOK(book', links)
    BY <1>0, <1>6, <2>1, <2>2 DEF OverrideWrite, BookOK, Booking
  <2>4. handed' \in Nat /\ undone' \in BOOLEAN  BY <1>0, <1>6, <2>2 DEF OverrideWrite
  <2> QED BY <1>0, <1>6, <2>3, <2>4, IdleOK, WriteStep DEF OverrideWrite, Return
<1>7. ASSUME PriceWrite(r)  PROVE Inv'
  <2>1. req[r].cents \in Nat  BY <1>0, <1>7, BusyIsWork DEF PriceWrite, At
  <2>2. BookOK(book', links)  BY <1>0, <1>7, <2>1 DEF PriceWrite, BookOK, Booking
  <2> QED BY <1>0, <1>7, <2>2, IdleOK, WriteStep DEF PriceWrite, Return, past
<1>8. ASSUME ConfirmWrite(r)  PROVE Inv'
  <2>1. BookOK(book', links)  BY <1>0, <1>8 DEF ConfirmWrite, BookOK, Booking, Status
  <2> QED BY <1>0, <1>8, <2>1, IdleOK, WriteStep DEF ConfirmWrite, Return, past
<1> QED BY <1>1, <1>2, <1>3, <1>4, <1>5, <1>6, <1>7, <1>8 DEF Staff

LEMMA LinkKeeps ==
    ASSUME Inv, NEW r \in Requests, Link(r)
    PROVE  Inv'
<1>0. /\ book \in Booking /\ BookOK(book, links) /\ handed \in Nat /\ undone \in BOOLEAN /\ credited \subseteq links
      /\ req[r] \in Work \cup {Idle} /\ WorkOK(req[r], links)
  BY DEF Inv, BookOK, LocalOK, StripeOK
<1>1. ASSUME LinkBegin(r)  PROVE Inv'
  <2>1. WorkOK(Job("linkRead"), links)  BY JobOK DEF WorkOK
  <2> QED BY <1>1, <2>1, LocalStep DEF LinkBegin, Begin
<1>2. ASSUME LinkRead(r)  PROVE Inv'
  <2> DEFINE due == amountDueCents(book)
             w == [Job(IF due > 0 THEN "linkCreate" ELSE "linkNothing") EXCEPT !.cents = due]
  <2>1. due \in Nat  BY <1>0, BookingIsMoney
  <2>2. WorkOK(w, links)  BY <2>1, JobOK DEF WorkOK, Work
  <2>3. CASE Goto(r, w)  BY <1>2, <2>2, <2>3, LocalStep DEF LinkRead
  <2>4. CASE Return(r)  BY <1>2, <2>4, IdleOK, LocalStep DEF LinkRead, Return
  <2> QED BY <1>2, <2>3, <2>4 DEF LinkRead
<1>3. ASSUME LinkNothing(r)  PROVE Inv'
  <2>1. BookOK(book', links)  BY <1>0, <1>3 DEF LinkNothing, BookOK, Booking, PaymentStatus
  <2> QED BY <1>0, <1>3, <2>1, IdleOK, WriteStep DEF LinkNothing, Return, past
<1>4. ASSUME LinkCreate(r)  PROVE Inv'
  <2>0. req[r] \in Work /\ req[r].cents \in Nat /\ req[r].event \in Event \cup {NoEvent}
    BY <1>0, <1>4, BusyIsWork DEF LinkCreate, At
  <2>1. PICK i \in 1..MaxLinks \ links :
          /\ session' = [j \in links \cup {i} |->
                IF j = i THEN [amount |-> req[r].cents, state |-> "open"] ELSE session[j]]
          /\ Goto(r, [req[r] EXCEPT !.pc = "linkWrite", !.cents = i])
    BY <1>4 DEF LinkCreate
  <2> DEFINE w == [req[r] EXCEPT !.pc = "linkWrite", !.cents = i]
  <2>2. links' = links \cup {i} /\ i \in SessionIds /\ i \in Nat
    BY <2>1, BoundAssumption DEF links, SessionIds
  <2>3. UNCHANGED <<book, local, refunds, events, handed, credited, undone>>
    BY <1>4 DEF LinkCreate, past
  <2>4. StripeOK'  BY <2>0, <2>1, <2>2, <2>3 DEF Inv, StripeOK
  <2>5. BookOK(book', links') /\ LocalOK'
    BY <1>0, <2>2, <2>3 DEF Inv, BookOK, LocalOK, local
  <2>6. WorkOK(w, links')
    <3>1. w \in Work /\ w.pc = "linkWrite" /\ w.cents = i /\ w.event = req[r].event
      BY <2>0, <2>2 DEF Work
    <3> HIDE DEF w
    <3> QED BY <1>0, <2>2, <3>1 DEF WorkOK
  <2> QED BY <2>1, <2>2, <2>4, <2>5, <2>6, StepKeeps
<1>5. ASSUME LinkWrite(r)  PROVE Inv'
  <2>1. req[r].cents \in SessionIds  BY <1>0, <1>5 DEF LinkWrite, At, WorkOK, Inv, StripeOK
  <2>2. BookOK(book', links)  BY <1>0, <1>5, <2>1 DEF LinkWrite, BookOK, Booking
  <2> QED BY <1>0, <1>5, <2>2, IdleOK, WriteStep DEF LinkWrite, Return, past
<1>6. ASSUME NEW request \in BOOLEAN, CompleteRead(r, request)  PROVE Inv'
  <2> DEFINE w == [Job("complete") EXCEPT !.opt = request]
  <2>1. WorkOK(w, links)  BY JobOK DEF WorkOK, Work
  <2>2. Goto(r, w) /\ UNCHANGED <<book, local, stripe, past>>
    BY <1>6 DEF CompleteRead, Begin
  <2> QED BY <2>1, <2>2, LocalStep
<1>7. ASSUME CompleteWrite(r)  PROVE Inv'
  <2>1. BookOK(book', links)  BY <1>0, <1>7 DEF CompleteWrite, BookOK, Booking, Status
  <2>2. CASE Return(r)
    BY <1>0, <1>7, <2>1, <2>2, IdleOK, WriteStep DEF CompleteWrite, Return, past
  <2>3. CASE Then(r, "linkRead")
    <3> DEFINE w == [req[r] EXCEPT !.pc = "linkRead"]
    <3>1. req[r] \in Work  BY <1>0, <1>7, BusyIsWork DEF CompleteWrite, At
    <3>2. WorkOK(w, links)  BY <1>0, <3>1 DEF WorkOK, Work
    <3> QED BY <1>0, <1>7, <2>1, <2>3, <3>2, WriteStep DEF CompleteWrite, Then, past
  <2> QED BY <1>7, <2>2, <2>3 DEF CompleteWrite
<1> QED BY <1>1, <1>2, <1>3, <1>4, <1>5, <1>6, <1>7 DEF Link

\* What Stripe makes of a session: links stay, events are of known ids.
LEMMA ExpireKeeps ==
    ASSUME StripeOK, NEW ids, Expire(ids), refunds' = refunds, credited' = credited
    PROVE  StripeOK' /\ links' = links
<1> DEFINE expiring == {i \in ids \cap links : session[i].state = "open"}
<1>1. /\ session' = [i \in links |->
            IF i \in expiring THEN [session[i] EXCEPT !.state = "expired"] ELSE session[i]]
      /\ events' = events \cup {[type |-> "expired", id |-> i] : i \in expiring \cap {DepositId}}
  BY DEF Expire
<1>2. links' = links  BY <1>1 DEF links
<1>3. session' \in [links -> [amount : Nat, state : {"open", "processing", "paid", "failed", "expired"}]]
  BY <1>1 DEF StripeOK
<1>4. events' \subseteq Event /\ \A e \in events' : e.id \in links
  BY <1>1 DEF StripeOK, Event
<1> QED BY <1>2, <1>3, <1>4 DEF StripeOK

LEMMA PaidKeeps ==
    ASSUME StripeOK, NEW i \in links, Paid(i), refunds' = refunds, credited' = credited
    PROVE  StripeOK' /\ links' = links
<1>1. session' = [session EXCEPT ![i].state = "paid"]
      /\ events' = events \cup {[type |-> "paid", id |-> i]}
  BY DEF Paid, Become
<1>2. links' = links  BY <1>1 DEF links
<1>3. events' \subseteq Event /\ \A e \in events' : e.id \in links
  BY <1>1 DEF StripeOK, Event
<1>4. session' \in [links -> [amount : Nat, state : {"open", "processing", "paid", "failed", "expired"}]]
  BY <1>1 DEF StripeOK
<1> QED BY <1>2, <1>3, <1>4 DEF StripeOK

\* A refund is made of a session that exists.
LEMMA RefundKeeps ==
    ASSUME StripeOK, NEW i \in links, NEW r \in Requests, NEW cents, NEW next,
           Refund(r, i, cents, next), UNCHANGED <<session, events, credited>>
    PROVE  StripeOK' /\ links' = links
<1>1. links' = links  BY DEF links
<1>2. \/ refunds' = refunds
      \/ refunds' = [refunds EXCEPT ![i] = Append(refunds[i], cents)]
  BY DEF Refund
<1>3. DOMAIN refunds' = SessionIds /\ \A j \in SessionIds : refunds'[j] # << >> => j \in links
  <2>1. CASE refunds' = refunds  BY <2>1 DEF StripeOK
  <2>2. CASE refunds' = [refunds EXCEPT ![i] = Append(refunds[i], cents)]
    <3>1. \A j \in SessionIds \ {i} : refunds'[j] = refunds[j]  BY <2>2 DEF StripeOK
    <3> QED BY <2>2, <3>1 DEF StripeOK
  <2> QED BY <1>2, <2>1, <2>2
<1> QED BY <1>1, <1>3 DEF StripeOK

\* The split of a refund, whether or not the fee has been taken into account.
LEMMA SplitType ==
    ASSUME NEW w, w.seen \in Booking, w.fee \in 0..paidSoFarCents(w.seen)
    PROVE  /\ refundCents(w) \in 0..paidSoFarCents(w.seen)
           /\ refundFromJob(w.seen, refundCents(w)) \in Nat
           /\ refundFromDeposit(w.seen, refundCents(w)) \in Nat
           /\ manualCents(w.seen, refundCents(w)) \in Nat
           /\ refundFromJob(w.seen, refundCents(w)) + refundFromDeposit(w.seen, refundCents(w))
                + manualCents(w.seen, refundCents(w)) = refundCents(w)
           /\ refundFromJob(w.seen, refundCents(w)) > 0 => w.seen.jobIntent # Unset
           /\ refundFromDeposit(w.seen, refundCents(w)) > 0 => w.seen.depositIntent # Unset
<1>1. MoneyOK(w.seen) /\ paidSoFarCents(w.seen) \in Nat  BY BookingIsMoney
<1>2. refundCents(w) \in 0..paidSoFarCents(w.seen)  BY <1>1 DEF refundCents
<1>3. /\ refundFromJob(w.seen, refundCents(w)) \in 0..jobPaymentCents(w.seen)
      /\ refundFromDeposit(w.seen, refundCents(w)) \in 0..depositPaidCents(w.seen)
      /\ manualCents(w.seen, refundCents(w)) \in Nat
      /\ refundFromJob(w.seen, refundCents(w)) + refundFromDeposit(w.seen, refundCents(w))
           + manualCents(w.seen, refundCents(w)) = refundCents(w)
  BY <1>1, <1>2, RefundPlanConserves
<1>4. jobPaymentCents(w.seen) \in Nat /\ depositPaidCents(w.seen) \in Nat  BY BookingIsMoney
<1>5. refundFromJob(w.seen, refundCents(w)) > 0 => w.seen.jobIntent # Unset
  BY <1>2, <1>1 DEF refundFromJob, Lesser
<1>6. refundFromDeposit(w.seen, refundCents(w)) > 0 => w.seen.depositIntent # Unset
  <2>1. refundFromJob(w.seen, refundCents(w)) \in Nat  BY <1>3, <1>4
  <2> QED BY <1>1, <1>2, <2>1 DEF refundFromDeposit, Lesser
<1> QED BY <1>2, <1>3, <1>4, <1>5, <1>6

LEMMA CancelKeeps ==
    ASSUME Inv, NEW r \in Requests, Cancel(r)
    PROVE  Inv'
<1>0. /\ book \in Booking /\ BookOK(book, links) /\ StripeOK /\ LocalOK
      /\ handed \in Nat /\ undone \in BOOLEAN /\ credited \subseteq links
      /\ req[r] \in Work \cup {Idle} /\ WorkOK(req[r], links)
  BY DEF Inv, BookOK, LocalOK, StripeOK
<1> DEFINE w == req[r]
<1>1. ASSUME NEW waive \in BOOLEAN, CancelBegin(r, waive)  PROVE Inv'
  <2> DEFINE j == [Job("cancelRead") EXCEPT !.opt = waive]
  <2>1. WorkOK(j, links)  BY JobOK DEF WorkOK, Work
  <2>2. Goto(r, j) /\ UNCHANGED <<book, local, stripe, past>>
    BY <1>1 DEF CancelBegin, Begin
  <2> QED BY <2>1, <2>2, LocalStep
<1>2. ASSUME CancelRead(r)  PROVE Inv'
  <2>0. w \in Work /\ w.pc = "cancelRead" /\ w.refunded = 0 /\ w.failed = 0
    BY <1>0, <1>2, BusyIsWork DEF CancelRead, At, WorkOK
  <2>1. ASSUME NEW fee, fee = IF late /\ ~w.opt THEN cancellationFee(book, Policy) ELSE 0,
               Goto(r, [w EXCEPT !.pc = "refundJob", !.seen = book, !.fee = fee]),
               UNCHANGED events
        PROVE  Inv'
    <3> DEFINE n == [w EXCEPT !.pc = "refundJob", !.seen = book, !.fee = fee]
    <3>1. fee \in 0..paidSoFarCents(book) /\ fee \in Nat
      BY <1>0, <2>1, BookingIsMoney, FeeWithinPaid, MoneyAssumption
    <3>2. /\ n \in Work /\ n.pc = "refundJob" /\ n.seen = book /\ n.fee = fee
          /\ n.event = w.event /\ n.refunded = 0 /\ n.failed = 0
      BY <1>0, <2>0, <3>1 DEF Work
    <3>3. WorkOK(n, links)
      <4> HIDE DEF n
      <4> QED BY <1>0, <3>1, <3>2 DEF WorkOK
    <3> QED BY <1>2, <2>1, <3>3, LocalStep DEF CancelRead, stripe
  <2>2. CASE Fail(r)
    <3>1. Goto(r, Idle) /\ events' = events \cup ({w.event} \ {NoEvent})
      BY <2>2 DEF Fail, Return
    <3>2. links' = links  BY <1>2 DEF CancelRead, links
    <3>3. events' \subseteq Event /\ \A e \in events' : e.id \in links
      BY <1>0, <2>0, <3>1, BusyIsWork, Basics DEF StripeOK, WorkOK
    <3>4. StripeOK'  BY <1>0, <1>2, <3>2, <3>3 DEF CancelRead, StripeOK, past
    <3>5. BookOK(book', links') /\ LocalOK'
      BY <1>0, <1>2, <3>2 DEF CancelRead, LocalOK, local, past
    <3> QED BY <3>1, <3>2, <3>4, <3>5, IdleOK, StepKeeps
  <2> QED BY <1>2, <2>1, <2>2 DEF CancelRead
<1>3. ASSUME RefundJob(r)  PROVE Inv'
  <2> DEFINE cents == refundFromJob(w.seen, refundCents(w))
  <2>0. /\ w \in Work /\ w.pc = "refundJob" /\ w.seen \in Booking /\ BookOK(w.seen, links)
        /\ w.fee \in 0..paidSoFarCents(w.seen) /\ w.refunded = 0 /\ w.failed = 0
    BY <1>0, <1>3, BusyIsWork DEF RefundJob, At, WorkOK
  <2>1. cents \in Nat /\ (cents > 0 => w.seen.jobIntent # Unset)
    BY <2>0, SplitType
  <2>2. ASSUME NEW n, n \in {[w EXCEPT !.pc = "refundDeposit"],
                             [w EXCEPT !.pc = "refundDeposit", !.refunded = @ + cents],
                             [w EXCEPT !.pc = "refundDeposit", !.failed = @ + cents]},
               n.refunded + n.failed = cents
        PROVE  WorkOK(n, links)
    <3> HIDE DEF cents
    <3>1. /\ n \in Work /\ n.pc = "refundDeposit" /\ n.seen = w.seen /\ n.fee = w.fee
          /\ n.event = w.event
      <4> DEFINE good(m) == /\ m \in Work /\ m.pc = "refundDeposit" /\ m.seen = w.seen
                            /\ m.fee = w.fee /\ m.event = w.event
      <4>0. w.refunded + cents \in Nat /\ w.failed + cents \in Nat
        BY <2>0, <2>1 DEF Work
      <4>1. good([w EXCEPT !.pc = "refundDeposit"])  BY <2>0 DEF Work
      <4>2. good([w EXCEPT !.pc = "refundDeposit", !.refunded = @ + cents])
        BY <2>0, <4>0 DEF Work
      <4>3. good([w EXCEPT !.pc = "refundDeposit", !.failed = @ + cents])
        BY <2>0, <4>0 DEF Work
      <4> QED BY <2>2, <4>1, <4>2, <4>3
    <3>2. refundCents(n) = refundCents(w)  BY <3>1 DEF refundCents
    <3> QED BY <1>0, <2>0, <2>2, <3>1, <3>2 DEF WorkOK, cents
  <2>3. CASE cents > 0
    <3>1. w.seen.jobIntent \in links  BY <2>0, <2>1, <2>3 DEF BookOK
    <3>2. Refund(r, w.seen.jobIntent, cents, "refundDeposit")
      BY <1>3, <2>3 DEF RefundJob
    <3>3. UNCHANGED <<book, local, session, events, past>>
      BY <1>3 DEF RefundJob
    <3>4. StripeOK' /\ links' = links
      BY <1>0, <3>1, <3>2, <3>3, RefundKeeps DEF past
    <3>5. \E n : Goto(r, n) /\ WorkOK(n, links)
      <4> DEFINE took == [w EXCEPT !.pc = "refundDeposit", !.refunded = @ + cents]
                 lost == [w EXCEPT !.pc = "refundDeposit", !.failed = @ + cents]
      <4>1. took.refunded + took.failed = cents /\ lost.refunded + lost.failed = cents
        <5> HIDE DEF cents
        <5> QED BY <2>0, <2>1 DEF Work
      <4>2. Goto(r, took) \/ Goto(r, lost)  BY <3>2 DEF Refund
      <4>3. WorkOK(took, links) /\ WorkOK(lost, links)  BY <4>1, <2>2
      <4> QED BY <4>2, <4>3
    <3>6. PICK n : Goto(r, n) /\ WorkOK(n, links)  BY <3>5
    <3>7. BookOK(book', links') /\ LocalOK'
      BY <1>0, <3>3, <3>4 DEF LocalOK, local, past
    <3> QED BY <3>4, <3>6, <3>7, StepKeeps
  <2>4. CASE ~(cents > 0)
    <3> DEFINE n == [w EXCEPT !.pc = "refundDeposit"]
    <3>1. Goto(r, n) /\ UNCHANGED <<book, local, stripe, past>>
      BY <1>3, <2>4 DEF RefundJob, Then, stripe
    <3>2. n.refunded + n.failed = cents
      <4> HIDE DEF cents
      <4> QED BY <2>0, <2>1, <2>4 DEF Work
    <3>3. WorkOK(n, links)  BY <2>2, <3>2
    <3> QED BY <3>1, <3>3, LocalStep
  <2> QED BY <2>3, <2>4
<1>4. ASSUME RefundDeposit(r)  PROVE Inv'
  <2> DEFINE cents == refundFromDeposit(w.seen, refundCents(w))
             job   == refundFromJob(w.seen, refundCents(w))
  <2>0. /\ w \in Work /\ w.pc = "refundDeposit" /\ w.seen \in Booking /\ BookOK(w.seen, links)
        /\ w.fee \in 0..paidSoFarCents(w.seen) /\ w.refunded + w.failed = job
        /\ w.refunded \in Nat /\ w.failed \in Nat
    BY <1>0, <1>4, BusyIsWork DEF RefundDeposit, At, WorkOK
  <2>1. cents \in Nat /\ job \in Nat /\ (cents > 0 => w.seen.depositIntent # Unset)
    BY <2>0, SplitType
  <2>2. ASSUME NEW n, n \in {[w EXCEPT !.pc = "cancelWrite"],
                             [w EXCEPT !.pc = "cancelWrite", !.refunded = @ + cents],
                             [w EXCEPT !.pc = "cancelWrite", !.failed = @ + cents]},
               n.refunded + n.failed = job + cents
        PROVE  WorkOK(n, links)
    <3> HIDE DEF cents, job
    <3>1. /\ n \in Work /\ n.pc = "cancelWrite" /\ n.seen = w.seen /\ n.fee = w.fee
          /\ n.event = w.event
      <4> DEFINE good(m) == /\ m \in Work /\ m.pc = "cancelWrite" /\ m.seen = w.seen
                            /\ m.fee = w.fee /\ m.event = w.event
      <4>0. w.refunded + cents \in Nat /\ w.failed + cents \in Nat
        BY <2>0, <2>1 DEF Work
      <4>1. good([w EXCEPT !.pc = "cancelWrite"])  BY <2>0 DEF Work
      <4>2. good([w EXCEPT !.pc = "cancelWrite", !.refunded = @ + cents])
        BY <2>0, <4>0 DEF Work
      <4>3. good([w EXCEPT !.pc = "cancelWrite", !.failed = @ + cents])
        BY <2>0, <4>0 DEF Work
      <4> QED BY <2>2, <4>1, <4>2, <4>3
    <3>2. refundCents(n) = refundCents(w)  BY <3>1 DEF refundCents
    <3> QED BY <1>0, <2>0, <2>2, <3>1, <3>2 DEF WorkOK, cents, job
  <2>3. CASE cents > 0
    <3>1. w.seen.depositIntent \in links  BY <2>0, <2>1, <2>3 DEF BookOK
    <3>2. Refund(r, w.seen.depositIntent, cents, "cancelWrite")
      BY <1>4, <2>3 DEF RefundDeposit
    <3>3. UNCHANGED <<book, local, session, events, past>>
      BY <1>4 DEF RefundDeposit
    <3>4. StripeOK' /\ links' = links
      BY <1>0, <3>1, <3>2, <3>3, RefundKeeps DEF past
    <3>5. \E n : Goto(r, n) /\ WorkOK(n, links)
      <4> DEFINE took == [w EXCEPT !.pc = "cancelWrite", !.refunded = @ + cents]
                 lost == [w EXCEPT !.pc = "cancelWrite", !.failed = @ + cents]
      <4>1. took.refunded + took.failed = job + cents /\ lost.refunded + lost.failed = job + cents
        <5> HIDE DEF cents, job
        <5> QED BY <2>0, <2>1 DEF Work
      <4>2. Goto(r, took) \/ Goto(r, lost)  BY <3>2 DEF Refund
      <4>3. WorkOK(took, links) /\ WorkOK(lost, links)  BY <4>1, <2>2
      <4> QED BY <4>2, <4>3
    <3>6. PICK n : Goto(r, n) /\ WorkOK(n, links)  BY <3>5
    <3>7. BookOK(book', links') /\ LocalOK'
      BY <1>0, <3>3, <3>4 DEF LocalOK, local, past
    <3> QED BY <3>4, <3>6, <3>7, StepKeeps
  <2>4. CASE ~(cents > 0)
    <3> DEFINE n == [w EXCEPT !.pc = "cancelWrite"]
    <3>1. Goto(r, n) /\ UNCHANGED <<book, local, stripe, past>>
      BY <1>4, <2>4 DEF RefundDeposit, Then, stripe
    <3>2. n.refunded + n.failed = job + cents
      <4> HIDE DEF cents, job
      <4> QED BY <2>0, <2>1, <2>4 DEF Work
    <3>3. WorkOK(n, links)  BY <2>2, <3>2
    <3> QED BY <3>1, <3>3, LocalStep
  <2> QED BY <2>3, <2>4
<1>5. ASSUME CancelWrite(r)  PROVE Inv'
  <2> DEFINE manual == manualCents(w.seen, refundCents(w))
             n      == [w EXCEPT !.pc = "expire"]
  <2>0. /\ w \in Work /\ w.pc = "cancelWrite" /\ w.seen \in Booking
        /\ w.fee \in Nat /\ w.refunded \in Nat /\ w.failed \in Nat
        /\ w.fee \in 0..paidSoFarCents(w.seen)
    BY <1>0, <1>5, BusyIsWork DEF CancelWrite, At, WorkOK
  <2>1. manual \in Nat  BY <2>0, SplitType
  <2>2. BookOK(book', links)
    <3> HIDE DEF manual
    <3>1. \E paid \in PaymentStatus :
             book' = [book EXCEPT
                !.status = "CANCELLED", !.fee = w.fee,
                !.refunded = IF w.refunded > 0 THEN w.refunded ELSE @,
                !.payment  = IF w.refunded > 0 THEN paid ELSE @,
                !.failed = w.failed, !.manual = manual]
      BY <1>5 DEF CancelWrite, PaymentStatus, manual
    <3>2. PICK paid \in PaymentStatus :
             book' = [book EXCEPT
                !.status = "CANCELLED", !.fee = w.fee,
                !.refunded = IF w.refunded > 0 THEN w.refunded ELSE book.refunded,
                !.payment  = IF w.refunded > 0 THEN paid ELSE book.payment,
                !.failed = w.failed, !.manual = manual]
      BY <1>0, <3>1 DEF Booking
    <3>3. /\ (IF w.refunded > 0 THEN w.refunded ELSE book.refunded) \in Nat
          /\ (IF w.refunded > 0 THEN paid ELSE book.payment) \in PaymentStatus
      BY <1>0, <2>0 DEF Booking
    <3>4. /\ book' \in Booking
          /\ book'.jobIntent = book.jobIntent /\ book'.depositIntent = book.depositIntent
      <4> DEFINE back  == IF w.refunded > 0 THEN w.refunded ELSE book.refunded
                 state == IF w.refunded > 0 THEN paid ELSE book.payment
      <4>1. book' = [book EXCEPT !.status = "CANCELLED", !.fee = w.fee, !.refunded = back,
                                 !.payment = state, !.failed = w.failed, !.manual = manual]
        BY <3>2
      <4>2. back \in Nat /\ state \in PaymentStatus  BY <3>3
      <4>3. w.fee \in Nat /\ w.failed \in Nat  BY <2>0
      <4> HIDE DEF back, state, w
      <4> QED BY <1>0, <2>1, <4>1, <4>2, <4>3 DEF Booking, Status
    <3> QED BY <1>0, <3>4 DEF BookOK
  <2>3. LocalOK'
    <3>1. card' \in 0..CardValue
      <4>1. card \in 0..CardValue /\ w.seen.gift \in Nat  BY <1>0, <2>0 DEF LocalOK, Booking
      <4>2. card' = IF w.seen.gift > 0 THEN Lesser(CardValue, card + w.seen.gift) ELSE card
        BY <1>5 DEF CancelWrite
      <4> QED BY <4>1, <4>2, MoneyAssumption DEF Lesser
    <3>2. redeemed' \in 0..Redemptions
      BY <1>0, <1>5, MoneyAssumption DEF CancelWrite, LocalOK, nonNegative
    <3> QED BY <1>0, <1>5, <3>1, <3>2 DEF CancelWrite, LocalOK, past
  <2>4. links' = links /\ StripeOK'
    <3>1. links' = links  BY <1>5 DEF CancelWrite, stripe, links
    <3> QED BY <1>0, <1>5, <3>1 DEF CancelWrite, StripeOK, stripe, past
  <2>5. WorkOK(n, links)
    <3>1. n \in Work /\ n.pc = "expire" /\ n.event = w.event  BY <2>0 DEF Work
    <3> HIDE DEF n
    <3> QED BY <1>0, <3>1 DEF WorkOK
  <2>6. Goto(r, n)  BY <1>5 DEF CancelWrite, Then
  <2> HIDE DEF n
  <2> QED BY <2>2, <2>3, <2>4, <2>5, <2>6, StepKeeps
<1>6. ASSUME CancelExpire(r)  PROVE Inv'
  <2>1. StripeOK' /\ links' = links
    BY <1>0, <1>6, ExpireKeeps DEF CancelExpire, past
  <2>2. BookOK(book', links') /\ LocalOK'
    BY <1>0, <1>6, <2>1 DEF CancelExpire, LocalOK, local, past
  <2> QED BY <1>6, <2>1, <2>2, IdleOK, StepKeeps DEF CancelExpire, Return
<1>7. ASSUME SweepFind(r)  PROVE Inv'
  <2> DEFINE j == [Job("sweepExpire") EXCEPT !.opt = TRUE]
  <2>1. WorkOK(j, links)  BY JobOK DEF WorkOK, Work
  <2>2. Goto(r, j) /\ UNCHANGED <<book, local, stripe, past>>
    BY <1>7 DEF SweepFind, Begin
  <2> QED BY <2>1, <2>2, LocalStep
<1>8. ASSUME SweepExpire(r)  PROVE Inv'
  <2> DEFINE n == [w EXCEPT !.pc = "cancelRead"]
  <2>1. StripeOK' /\ links' = links
    BY <1>0, <1>8, ExpireKeeps DEF SweepExpire, past
  <2>2. BookOK(book', links') /\ LocalOK'
    BY <1>0, <1>8, <2>1 DEF SweepExpire, LocalOK, local, past
  <2>3. w \in Work /\ w.pc = "sweepExpire" /\ w.refunded = 0 /\ w.failed = 0
    BY <1>0, <1>8, BusyIsWork DEF SweepExpire, At, WorkOK
  <2>4. /\ n \in Work /\ n.pc = "cancelRead" /\ n.event = w.event
        /\ n.refunded = 0 /\ n.failed = 0
    BY <2>3 DEF Work
  <2>5. Goto(r, n)  BY <1>8 DEF SweepExpire, Then
  <2> HIDE DEF n
  <2>6. WorkOK(n, links)  BY <1>0, <2>4 DEF WorkOK
  <2> QED BY <2>1, <2>2, <2>5, <2>6, StepKeeps
<1> QED BY <1>1, <1>2, <1>3, <1>4, <1>5, <1>6, <1>7, <1>8 DEF Cancel

LEMMA WebhookKeeps ==
    ASSUME Inv, NEW r \in Requests, Webhook(r)
    PROVE  Inv'
<1>0. /\ book \in Booking /\ BookOK(book, links) /\ StripeOK /\ LocalOK
      /\ handed \in Nat /\ undone \in BOOLEAN /\ credited \subseteq links
      /\ req[r] \in Work \cup {Idle} /\ WorkOK(req[r], links)
  BY DEF Inv, BookOK, LocalOK, StripeOK
<1>1. ASSUME NEW e \in events, Deliver(r, e)  PROVE Inv'
  <2>1. links' = links /\ StripeOK'
    <3>1. links' = links  BY <1>1 DEF Deliver, links
    <3> QED BY <1>0, <1>1, <3>1 DEF Deliver, StripeOK, past
  <2>2. BookOK(book', links') /\ LocalOK'
    BY <1>0, <1>1, <2>1 DEF Deliver, LocalOK, local, past
  <2>3. e \in Event /\ e.id \in links  BY <1>0 DEF StripeOK
  <2>4. CASE UNCHANGED <<req, crashes>>
    BY <2>1, <2>2, <2>4 DEF Inv
  <2>5. CASE Goto(r, [Job(Handler(e)) EXCEPT !.event = e, !.opt = e.type = "expired"])
    <3> DEFINE n == [Job(Handler(e)) EXCEPT !.event = e, !.opt = e.type = "expired"]
    <3>1. Handler(e) \in {"cancelRead", "depositPaid", "jobPaid"}  BY DEF Handler
    <3>2. /\ Job(Handler(e)) \in Work /\ Job(Handler(e)).pc = Handler(e)
          /\ Job(Handler(e)).refunded = 0 /\ Job(Handler(e)).failed = 0
      BY <3>1, JobOK
    <3>3. (e.type = "expired") \in BOOLEAN  OBVIOUS
    <3>4. /\ n \in Work /\ n.pc = Handler(e) /\ n.event = e
          /\ n.refunded = 0 /\ n.failed = 0
      BY <2>3, <3>2, <3>3 DEF Work
    <3>5. Goto(r, n)  BY <2>5
    <3> HIDE DEF n
    <3>6. WorkOK(n, links)  BY <2>3, <3>1, <3>4 DEF WorkOK
    <3> QED BY <2>1, <2>2, <3>5, <3>6, StepKeeps
  <2> QED BY <1>1, <2>4, <2>5 DEF Deliver
<1>2. ASSUME JobPaidWrite(r)  PROVE Inv'
  <2> DEFINE i == req[r].event.id
             amount == nonNegative(req[r].seen.amountPaid) + session[i].amount
  <2>1. req[r] \in Work /\ req[r].seen \in Booking /\ req[r].event \in Event
    BY <1>0, <1>2, BusyIsWork DEF JobPaidWrite, At, WorkOK
  <2>2. i \in links /\ i \in SessionIds
    BY <1>0, <2>1, Basics DEF WorkOK, StripeOK
  <2>3. amount \in Nat
    <3>1. req[r].seen.amountPaid \in Nat \cup {-1}
      BY <2>1, Basics DEF Booking
    <3>2. nonNegative(req[r].seen.amountPaid) \in Nat
      BY <3>1 DEF nonNegative
    <3>3. session[i].amount \in Nat
      BY <1>0, <2>2 DEF StripeOK
    <3> QED BY <3>2, <3>3
  <2>4. BookOK(book', links)
    <3>1. book' = [book EXCEPT !.payment = "PAID", !.jobLink = i, !.jobIntent = i,
                               !.amountPaid = amount]
      BY <1>0, <1>2 DEF JobPaidWrite, Booking
    <3> HIDE DEF i, amount
    <3> QED BY <1>0, <2>2, <2>3, <3>1, Basics DEF BookOK, Booking
  <2>5. credited' \subseteq links /\ handed' \in Nat /\ undone' \in BOOLEAN
    BY <1>0, <1>2, <2>2 DEF JobPaidWrite
  <2> QED BY <1>2, <2>4, <2>5, IdleOK, WriteStep DEF JobPaidWrite, Return
<1>3. ASSUME DepositPaidWrite(r)  PROVE Inv'
  <2> DEFINE i == req[r].event.id
             paid == IF req[r].seen.payment = "UNPAID" THEN "DEPOSIT_PAID"
                                                       ELSE req[r].seen.payment
  <2>1. req[r] \in Work /\ req[r].seen \in Booking /\ req[r].event \in Event
    BY <1>0, <1>3, BusyIsWork DEF DepositPaidWrite, At, WorkOK
  <2>2. i \in links /\ i \in SessionIds
    BY <1>0, <2>1, Basics DEF WorkOK, StripeOK
  <2>3. session[i].amount \in Nat /\ paid \in PaymentStatus
    BY <1>0, <2>1, <2>2 DEF StripeOK, Booking, PaymentStatus
  <2>4. BookOK(book', links)
    <3>1. book' = [book EXCEPT !.depositPaid = TRUE, !.depositDue = session[i].amount,
                      !.depositLink = i, !.depositIntent = i, !.payment = paid]
      BY <1>3 DEF DepositPaidWrite
    <3> HIDE DEF i, paid
    <3> QED BY <1>0, <2>2, <2>3, <3>1 DEF BookOK, Booking
  <2>5. credited' \subseteq links /\ handed' \in Nat /\ undone' \in BOOLEAN
    BY <1>0, <1>3, <2>2 DEF DepositPaidWrite
  <2> QED BY <1>3, <2>4, <2>5, IdleOK, WriteStep DEF DepositPaidWrite, Return
<1> QED BY <1>1, <1>2, <1>3 DEF Webhook

\* Stripe, the customer and the clock leave the booking and the handlers alone.
LEMMA EnvironmentKeeps ==
    ASSUME Inv, UNCHANGED <<book, local, req, handed, credited, undone>>,
           links' = links, StripeOK'
    PROVE  Inv'
BY DEF Inv, LocalOK, local

LEMMA BecomeKeeps ==
    ASSUME StripeOK, NEW i \in links, NEW state \in {"processing", "failed"},
           Become(i, state), UNCHANGED <<events, refunds, credited>>
    PROVE  StripeOK' /\ links' = links
<1>1. session' = [session EXCEPT ![i].state = state]  BY DEF Become
<1>2. links' = links  BY <1>1 DEF links
<1>3. session' \in [links -> [amount : Nat, state : {"open", "processing", "paid", "failed", "expired"}]]
  BY <1>1 DEF StripeOK
<1> QED BY <1>2, <1>3 DEF StripeOK

LEMMA CustomerKeeps ==
    ASSUME Inv, Customer
    PROVE  Inv'
<1>1. /\ StripeOK
      /\ UNCHANGED <<book, local, refunds, req, handed, credited, undone>>
  BY DEF Inv, Customer, past
<1>2. PICK i \in links : Pay(i) \/ Debit(i) \/ Settle(i) \/ Bounce(i) \/ Timeout(i)
  BY DEF Customer
<1>3. CASE Pay(i) \/ Settle(i)
  BY <1>1, <1>3, PaidKeeps, EnvironmentKeeps DEF Pay, Settle
<1>4. CASE Debit(i) \/ Bounce(i)
  BY <1>1, <1>4, BecomeKeeps, EnvironmentKeeps DEF Debit, Bounce
<1>5. CASE Timeout(i)
  BY <1>1, <1>5, ExpireKeeps, EnvironmentKeeps DEF Timeout
<1> QED BY <1>2, <1>3, <1>4, <1>5

LEMMA RedeliverKeeps ==
    ASSUME Inv, NEW e \in Event, Redeliver(e)
    PROVE  Inv'
<1>1. UNCHANGED <<book, local, session, refunds, req, handed, credited, undone>>
  BY DEF Redeliver, past
<1>2. links' = links  BY <1>1 DEF links
<1>3. e.id \in links /\ events' = events \cup {e}  BY DEF Redeliver, Happened
<1>4. StripeOK'  BY <1>1, <1>2, <1>3 DEF Inv, StripeOK
<1> QED BY <1>1, <1>2, <1>4, EnvironmentKeeps

LEMMA ClockKeeps ==
    ASSUME Inv, Late \/ Stale
    PROVE  Inv'
<1>1. UNCHANGED <<book, local, stripe, req, handed, credited, undone>>
  BY DEF Late, Stale, past
<1>2. links' = links  BY <1>1 DEF links, stripe
<1>3. StripeOK'  BY <1>1, <1>2 DEF Inv, StripeOK, stripe
<1> QED BY <1>1, <1>2, <1>3, EnvironmentKeeps

\* A handler that dies gives its event back.
LEMMA CrashKeeps ==
    ASSUME Inv, NEW r \in Requests, Crash(r)
    PROVE  Inv'
<1>0. StripeOK /\ WorkOK(req[r], links) /\ BookOK(book, links) /\ LocalOK  BY DEF Inv
<1>1. /\ UNCHANGED <<book, local, session, refunds, past>>
      /\ req' = [req EXCEPT ![r] = Idle]
      /\ events' = events \cup ({req[r].event} \ {NoEvent})
  BY DEF Crash
<1>2. links' = links  BY <1>1 DEF links
<1>3. req[r].event \in Event \cup {NoEvent}
  BY <1>0, Basics DEF WorkOK, Work
<1>4. events' \subseteq Event /\ \A e \in events' : e.id \in links
  BY <1>0, <1>1, <1>3 DEF StripeOK, WorkOK
<1>5. StripeOK'  BY <1>0, <1>1, <1>2, <1>4 DEF StripeOK, past
<1>6. BookOK(book', links') /\ LocalOK'  BY <1>0, <1>1, <1>2 DEF LocalOK, local, past
<1>7. req' \in [Requests -> Work \cup {Idle}]  BY <1>1 DEF Inv
<1>8. \A s \in Requests : WorkOK(req'[s], links')
  BY <1>1, <1>2, IdleOK DEF Inv
<1> QED BY <1>5, <1>6, <1>7, <1>8 DEF Inv

LEMMA InitInv == Init => Inv
<1> SUFFICES ASSUME Init PROVE Inv  OBVIOUS
<1>1. links = IF Deposit > 0 THEN {DepositId} ELSE {}
  BY DEF Init, links
<1>2. BookOK(book, links)
  BY MoneyAssumption, Basics DEF Init, BookOK, Booking, Status, PaymentStatus
<1>3. StripeOK
  BY <1>1, MoneyAssumption, Basics DEF Init, StripeOK
<1>4. LocalOK
  <2>1. undone \in BOOLEAN  BY DEF Init
  <2>2. card \in 0..CardValue /\ redeemed \in 0..Redemptions /\ handed \in Nat
    BY MoneyAssumption DEF Init
  <2> QED BY <2>1, <2>2 DEF LocalOK
<1>5. req \in [Requests -> Work \cup {Idle}] /\ \A r \in Requests : WorkOK(req[r], links)
  BY IdleOK DEF Init
<1> QED BY <1>2, <1>3, <1>4, <1>5 DEF Inv

LEMMA NextInv == Inv /\ [Next]_vars => Inv'
<1> SUFFICES ASSUME Inv, [Next]_vars PROVE Inv'  OBVIOUS
<1>1. ASSUME NEW r \in Requests, Staff(r)    PROVE Inv'  BY <1>1, StaffKeeps
<1>2. ASSUME NEW r \in Requests, Link(r)     PROVE Inv'  BY <1>2, LinkKeeps
<1>3. ASSUME NEW r \in Requests, Cancel(r)   PROVE Inv'  BY <1>3, CancelKeeps
<1>4. ASSUME NEW r \in Requests, Webhook(r)  PROVE Inv'  BY <1>4, WebhookKeeps
<1>5. ASSUME NEW r \in Requests, Crash(r)    PROVE Inv'  BY <1>5, CrashKeeps
<1>6. CASE Customer  BY <1>6, CustomerKeeps
<1>7. ASSUME NEW e \in Event, Redeliver(e)   PROVE Inv'  BY <1>7, RedeliverKeeps
<1>8. CASE Late \/ Stale  BY <1>8, ClockKeeps
<1>9. CASE UNCHANGED vars
  <2>1. UNCHANGED <<book, local, stripe, req, handed, credited, undone>>
    BY <1>9 DEF vars, local, stripe
  <2>2. links' = links  BY <2>1 DEF links, stripe
  <2>3. StripeOK'  BY <2>1, <2>2 DEF Inv, StripeOK, stripe
  <2> QED BY <2>1, <2>2, <2>3, EnvironmentKeeps
<1> QED BY <1>1, <1>2, <1>3, <1>4, <1>5, <1>6, <1>7, <1>8, <1>9 DEF Next

\* The booking, its sessions, events and handlers keep their types, and every
\* refund is of a session that was created, for any number of handlers at once.
THEOREM PaymentTypes == Spec => []TypeOK
<1>1. Init => Inv  BY InitInv
<1>2. Inv /\ [Next]_vars => Inv'  BY NextInv
<1>3. Inv => TypeOK  BY InvImpliesTypeOK
<1> QED BY <1>1, <1>2, <1>3, PTL DEF Spec

-----------------------------------------------------------------------------
(* With one handler at a time what a handler has read is still so when it    *)
(* writes, and a cancellation accounts for every cent.                       *)

FreshPcs == {"confirm", "complete", "refundJob", "refundDeposit", "cancelWrite"}

\* A handler that decides on the booking knows it as it is, and it is open.
Fresh(w) == w.pc \in FreshPcs => w.seen = book /\ book.status \notin Ended

NothingRefundedYet == book.status # "CANCELLED" => book.refunded = 0

SerialInv ==
    /\ Inv
    /\ \A r \in Requests : Fresh(req[r])
    /\ NothingRefundedYet

\* What a step that cancels writes: CancelAccountsForAll is [][Accounts]_vars.
Accounts == book.status # "CANCELLED" /\ book'.status = "CANCELLED" =>
    paidSoFarCents(book) = book'.fee + book'.refunded + book'.failed + book'.manual

\* What r's step must do for the others: there are none.
StepIsSerial(r) == Fresh(req[r])' /\ NothingRefundedYet' /\ Accounts

LEMMA StaffSerial ==
    ASSUME SerialInv, NEW r \in Requests, Staff(r)
    PROVE  StepIsSerial(r)
<1> USE DEF StepIsSerial, Fresh, FreshPcs, NothingRefundedYet, Accounts, Goto, Return, Begin, At, Job
<1>0. /\ book \in Booking /\ req \in [Requests -> Work \cup {Idle}]
      /\ Fresh(req[r]) /\ NothingRefundedYet /\ Idle.pc = "idle"
  BY Basics DEF SerialInv, Inv, BookOK
<1>1. ASSUME NEW given \in HandAmounts, CollectRead(r, given)  PROVE StepIsSerial(r)
  BY <1>0, <1>1 DEF CollectRead
<1>2. ASSUME NEW to \in Overrides, OverrideRead(r, to)  PROVE StepIsSerial(r)
  BY <1>0, <1>2 DEF OverrideRead
<1>3. ASSUME NEW quote \in Quotes, PriceRead(r, quote)  PROVE StepIsSerial(r)
  BY <1>0, <1>3 DEF PriceRead
<1>4. ASSUME ConfirmRead(r)   PROVE StepIsSerial(r)
  BY <1>0, <1>4 DEF ConfirmRead, Ended
<1>5. ASSUME CollectWrite(r)  PROVE StepIsSerial(r)
  BY <1>0, <1>5 DEF CollectWrite, Booking
<1>6. ASSUME OverrideWrite(r) PROVE StepIsSerial(r)
  BY <1>0, <1>6 DEF OverrideWrite, Booking
<1>7. ASSUME PriceWrite(r)    PROVE StepIsSerial(r)
  BY <1>0, <1>7 DEF PriceWrite, Booking
<1>8. ASSUME ConfirmWrite(r)  PROVE StepIsSerial(r)
  BY <1>0, <1>8 DEF ConfirmWrite, Booking, Ended
<1> QED BY <1>1, <1>2, <1>3, <1>4, <1>5, <1>6, <1>7, <1>8 DEF Staff

LEMMA LinkSerial ==
    ASSUME SerialInv, NEW r \in Requests, Link(r)
    PROVE  StepIsSerial(r)
<1> USE DEF StepIsSerial, Fresh, FreshPcs, NothingRefundedYet, Accounts, Goto, Return, Begin, At, Job
<1>0. /\ book \in Booking /\ req \in [Requests -> Work \cup {Idle}]
      /\ Fresh(req[r]) /\ NothingRefundedYet /\ Idle.pc = "idle"
  BY Basics DEF SerialInv, Inv, BookOK
<1>1. ASSUME LinkBegin(r)   PROVE StepIsSerial(r)  BY <1>0, <1>1 DEF LinkBegin
<1>2. ASSUME LinkRead(r)    PROVE StepIsSerial(r)
  BY <1>0, <1>2 DEF LinkRead
<1>3. ASSUME LinkNothing(r) PROVE StepIsSerial(r)  BY <1>0, <1>3 DEF LinkNothing, Booking
<1>4. ASSUME LinkCreate(r)  PROVE StepIsSerial(r)
  <2>1. book' = book /\ \E i : Goto(r, [req[r] EXCEPT !.pc = "linkWrite", !.cents = i])
    BY <1>4 DEF LinkCreate
  <2>2. req[r] \in Work  BY <1>0, <1>4, BusyIsWork DEF LinkCreate
  <2> QED BY <1>0, <2>1, <2>2 DEF Work
<1>5. ASSUME LinkWrite(r)   PROVE StepIsSerial(r)  BY <1>0, <1>5 DEF LinkWrite, Booking
<1>6. ASSUME NEW request \in BOOLEAN, CompleteRead(r, request)  PROVE StepIsSerial(r)
  BY <1>0, <1>6 DEF CompleteRead
<1>7. ASSUME CompleteWrite(r)  PROVE StepIsSerial(r)
  <2>1. req[r] \in Work  BY <1>0, <1>7, BusyIsWork DEF CompleteWrite
  <2>2. req'[r].pc \in {"idle", "linkRead"}
    BY <1>0, <1>7, <2>1 DEF CompleteWrite, Then, Work
  <2> QED BY <1>0, <1>7, <2>2 DEF CompleteWrite, Booking, Ended
<1> QED BY <1>1, <1>2, <1>3, <1>4, <1>5, <1>6, <1>7 DEF Link

LEMMA CancelSerial ==
    ASSUME SerialInv, NEW r \in Requests, Cancel(r)
    PROVE  StepIsSerial(r)
<1> USE DEF StepIsSerial, Fresh, FreshPcs, NothingRefundedYet, Accounts, Return, Begin, At, Job
<1>0. /\ book \in Booking /\ req \in [Requests -> Work \cup {Idle}]
      /\ Fresh(req[r]) /\ NothingRefundedYet /\ Idle.pc = "idle" /\ WorkOK(req[r], links)
  BY Basics DEF SerialInv, Inv, BookOK
<1>1. ASSUME NEW waive \in BOOLEAN, CancelBegin(r, waive)  PROVE StepIsSerial(r)
  BY <1>0, <1>1 DEF CancelBegin, Goto
<1>2. ASSUME CancelRead(r)  PROVE StepIsSerial(r)
  <2>1. req[r] \in Work  BY <1>0, <1>2, BusyIsWork DEF CancelRead
  <2> QED BY <1>0, <1>2, <2>1 DEF CancelRead, Goto, Fail, Work
<1>3. ASSUME RefundJob(r)  PROVE StepIsSerial(r)
  <2>1. req[r] \in Work /\ req[r].pc = "refundJob"  BY <1>0, <1>3, BusyIsWork DEF RefundJob
  <2>2. \E cents : \/ Goto(r, [req[r] EXCEPT !.pc = "refundDeposit"])
                   \/ Goto(r, [req[r] EXCEPT !.pc = "refundDeposit", !.refunded = @ + cents])
                   \/ Goto(r, [req[r] EXCEPT !.pc = "refundDeposit", !.failed = @ + cents])
    BY <1>3 DEF RefundJob, Refund, Then
  <2>3. req'[r].seen = req[r].seen /\ book' = book
    BY <1>0, <1>3, <2>1, <2>2 DEF RefundJob, Goto, Work
  <2> QED BY <1>0, <2>1, <2>3
<1>4. ASSUME RefundDeposit(r)  PROVE StepIsSerial(r)
  <2>1. req[r] \in Work /\ req[r].pc = "refundDeposit"
    BY <1>0, <1>4, BusyIsWork DEF RefundDeposit
  <2>2. \E cents : \/ Goto(r, [req[r] EXCEPT !.pc = "cancelWrite"])
                   \/ Goto(r, [req[r] EXCEPT !.pc = "cancelWrite", !.refunded = @ + cents])
                   \/ Goto(r, [req[r] EXCEPT !.pc = "cancelWrite", !.failed = @ + cents])
    BY <1>4 DEF RefundDeposit, Refund, Then
  <2>3. req'[r].seen = req[r].seen /\ book' = book
    BY <1>0, <1>4, <2>1, <2>2 DEF RefundDeposit, Goto, Work
  <2> QED BY <1>0, <2>1, <2>3
<1>5. ASSUME CancelWrite(r)  PROVE StepIsSerial(r)
  <2> DEFINE w == req[r]
             manual == manualCents(w.seen, refundCents(w))
  <2>1. /\ w \in Work /\ w.pc = "cancelWrite" /\ w.seen \in Booking
        /\ w.fee \in Nat /\ w.refunded \in Nat /\ w.failed \in Nat
    BY <1>0, <1>5, BusyIsWork DEF CancelWrite
  <2>2. /\ w.fee \in 0..paidSoFarCents(w.seen)
        /\ w.refunded + w.failed = refundFromJob(w.seen, refundCents(w))
                                   + refundFromDeposit(w.seen, refundCents(w))
    BY <1>0, <2>1 DEF WorkOK
  <2>3. w.seen = book /\ book.refunded = 0
    BY <1>0, <2>1 DEF Ended
  <2>4. /\ manual \in Nat
        /\ w.refunded + w.failed + manual = paidSoFarCents(book) - w.fee
    BY <2>1, <2>2, <2>3, SplitType DEF refundCents
  <2>5. /\ book'.fee = w.fee /\ book'.failed = w.failed /\ book'.manual = manual
        /\ book'.refunded = IF w.refunded > 0 THEN w.refunded ELSE book.refunded
        /\ book'.status = "CANCELLED"
    BY <1>0, <1>5 DEF CancelWrite, Booking
  <2>6. book'.refunded = w.refunded  BY <2>1, <2>3, <2>5
  <2>7. paidSoFarCents(book) \in Nat  BY <1>0, BookingIsMoney
  <2>8. Accounts
    <3> HIDE DEF w, manual
    <3> QED BY <2>1, <2>4, <2>5, <2>6, <2>7
  <2>9. req'[r].pc = "expire"
    BY <1>0, <1>5, <2>1 DEF CancelWrite, Then, Goto, Work
  <2> QED BY <2>5, <2>8, <2>9
<1>6. ASSUME CancelExpire(r)  PROVE StepIsSerial(r)
  BY <1>0, <1>6 DEF CancelExpire, Goto
<1>7. ASSUME SweepFind(r)  PROVE StepIsSerial(r)
  BY <1>0, <1>7 DEF SweepFind, Goto
<1>8. ASSUME SweepExpire(r)  PROVE StepIsSerial(r)
  <2>1. req[r] \in Work  BY <1>0, <1>8, BusyIsWork DEF SweepExpire
  <2> QED BY <1>0, <1>8, <2>1 DEF SweepExpire, Then, Goto, Work
<1> QED BY <1>1, <1>2, <1>3, <1>4, <1>5, <1>6, <1>7, <1>8 DEF Cancel

LEMMA WebhookSerial ==
    ASSUME SerialInv, NEW r \in Requests, Webhook(r)
    PROVE  StepIsSerial(r)
<1> USE DEF StepIsSerial, Fresh, FreshPcs, NothingRefundedYet, Accounts, Goto, Return, At, Job
<1>0. /\ book \in Booking /\ req \in [Requests -> Work \cup {Idle}]
      /\ Fresh(req[r]) /\ NothingRefundedYet /\ Idle.pc = "idle"
  BY Basics DEF SerialInv, Inv, BookOK
<1>1. ASSUME NEW e \in events, Deliver(r, e)  PROVE StepIsSerial(r)
  <2> DEFINE n == [Job(Handler(e)) EXCEPT !.event = e, !.opt = e.type = "expired"]
  <2>1. book' = book /\ (req' = req \/ Goto(r, n))  BY <1>1 DEF Deliver
  <2>2. Handler(e) \in {"cancelRead", "depositPaid", "jobPaid"}  BY DEF Handler
  <2>3. n.pc = Handler(e)  OBVIOUS
  <2> HIDE DEF n
  <2> QED BY <1>0, <2>1, <2>2, <2>3
<1>2. ASSUME JobPaidWrite(r)  PROVE StepIsSerial(r)
  BY <1>0, <1>2 DEF JobPaidWrite, Booking
<1>3. ASSUME DepositPaidWrite(r)  PROVE StepIsSerial(r)
  BY <1>0, <1>3 DEF DepositPaidWrite, Booking
<1> QED BY <1>1, <1>2, <1>3 DEF Webhook

\* Steps of nobody's handler, and crashes.
LEMMA OtherSerial ==
    ASSUME SerialInv,
           \/ \E r \in Requests : Crash(r)
           \/ Customer \/ (\E e \in Event : Redeliver(e)) \/ Late \/ Stale \/ UNCHANGED vars
    PROVE  (\A r \in Requests : Fresh(req[r])') /\ NothingRefundedYet' /\ Accounts
<1>1. /\ book' = book
      /\ \/ req' = req
         \/ \E r \in Requests : req' = [req EXCEPT ![r] = Idle]
  BY DEF Crash, Customer, Redeliver, Late, Stale, vars
<1>2. /\ req \in [Requests -> Work \cup {Idle}] /\ Idle.pc = "idle"
      /\ NothingRefundedYet /\ \A r \in Requests : Fresh(req[r])
  BY Basics DEF SerialInv, Inv
<1> QED BY <1>1, <1>2 DEF Fresh, FreshPcs, NothingRefundedYet, Accounts

LEMMA NextSerial ==
    ASSUME SerialInv, [Next]_vars, \A r, s \in Requests : r = s
    PROVE  SerialInv' /\ Accounts
<1>1. Inv'  BY NextInv DEF SerialInv
<1>2. ASSUME NEW r \in Requests, Staff(r) \/ Link(r) \/ Cancel(r) \/ Webhook(r)
      PROVE  (\A s \in Requests : Fresh(req[s])') /\ NothingRefundedYet' /\ Accounts
  <2>1. StepIsSerial(r)  BY <1>2, StaffSerial, LinkSerial, CancelSerial, WebhookSerial
  <2>2. \A s \in Requests : s = r  OBVIOUS
  <2> QED BY <2>1, <2>2 DEF StepIsSerial
<1>3. (\A s \in Requests : Fresh(req[s])') /\ NothingRefundedYet' /\ Accounts
  BY <1>2, OtherSerial DEF Next
<1> QED BY <1>1, <1>3 DEF SerialInv

\* When requests are served one at a time, a cancellation accounts for every cent
\* that had been paid: kept as fee, refunded, failed or left to the business, with
\* any number of crashes, retries, links and late or repeated events.
THEOREM CancellationConserves ==
    ASSUME \A r, s \in Requests : r = s
    PROVE  Spec => CancelAccountsForAll
<1>1. Init => SerialInv
  BY InitInv, Basics DEF Init, SerialInv, Fresh, FreshPcs, NothingRefundedYet
<1>2. SerialInv /\ [Next]_vars => SerialInv'  BY NextSerial
<1>3. SerialInv /\ [Next]_vars => [Accounts]_vars  BY NextSerial
<1>4. CancelAccountsForAll <=> [][Accounts]_vars
  BY DEF CancelAccountsForAll, Accounts
<1> QED BY <1>1, <1>2, <1>3, <1>4, PTL DEF Spec

-----------------------------------------------------------------------------
(* With one handler at a time the books agree with what was received.        *)

Amounts  == [i \in links |-> session[i].amount]
Received == SumFunctionOnSet(Amounts, credited)

OwesNothing(b) == nonNegative(b.quote - b.gift - depositPaidCents(b)) = 0

\* The row b counts what came in by hand and, in all, through the sessions cr.
\* Only a booking that is PAID has had a link's payment, so the next event of a
\* link is not one that was counted.
Counted(b, cr, hand, total) ==
    /\ DepositId \in cr => b.depositPaid
    /\ cr \subseteq {DepositId} \/ b.payment = "PAID"
    /\ b.payment = "PAID" /\ b.amountPaid = Unset => OwesNothing(b)
    /\ paidSoFarCents(b) = hand + total

Tally == book.status # "CANCELLED" /\ ~undone => Counted(book, credited, handed, Received)

\* What the handler that is about to write knows of the row.
Knows(w) ==
    /\ w.pc \in {"collect", "override", "price", "linkNothing", "jobPaid", "depositPaid"}
         => w.seen = book
    /\ w.pc \in {"collect", "price", "linkNothing", "jobPaid"} => book.payment # "PAID"
    /\ w.pc = "linkNothing" => amountDueCents(book) = 0
    /\ w.pc = "jobPaid" => w.event.id # DepositId
    /\ w.pc = "depositPaid" => ~book.depositPaid /\ w.event.id = DepositId

Given == book.gift = Gift /\ ConsumedMatchesStatus

BooksInv == SerialInv /\ (\A r \in Requests : Knows(req[r])) /\ Tally /\ Given

\* Writes that leave the money of the row as it is.
SameMoney(b, n) ==
    /\ n.quote = b.quote /\ n.gift = b.gift /\ n.payment = b.payment
    /\ n.amountPaid = b.amountPaid /\ n.depositDue = b.depositDue /\ n.depositPaid = b.depositPaid

LEMMA MoneyCountsTheSame ==
    ASSUME NEW b, NEW n, SameMoney(b, n), NEW cr, NEW hand, NEW total, Counted(b, cr, hand, total)
    PROVE  Counted(n, cr, hand, total)
BY DEF SameMoney, Counted, OwesNothing, paidSoFarCents, jobPaymentCents, depositPaidCents

\* Received by hand: added to what was paid.
LEMMA CollectCounts ==
    ASSUME NEW b \in Booking, NEW n, NEW cents \in Nat, NEW cr, NEW hand \in Nat, NEW total \in Int,
           Counted(b, cr, hand, total), b.payment # "PAID",
           n.depositDue = b.depositDue, n.depositPaid = b.depositPaid,
           n.amountPaid = jobPaymentCents(b) + cents
    PROVE  Counted(n, cr, hand + cents, total)
<1>1. depositPaidCents(b) \in Nat /\ jobPaymentCents(b) \in Nat  BY BookingIsMoney
<1>2. depositPaidCents(n) = depositPaidCents(b)  BY DEF depositPaidCents
<1>3. n.amountPaid # Unset  BY <1>1 DEF Unset
<1>4. jobPaymentCents(n) = jobPaymentCents(b) + cents  BY <1>3 DEF jobPaymentCents
<1>5. paidSoFarCents(n) = hand + cents + total
  BY <1>1, <1>2, <1>4 DEF paidSoFarCents, Counted
<1> QED BY <1>3, <1>5 DEF Counted

\* Taken as received, or received before: nothing is lost by the word PAID.
LEMMA OverrideCounts ==
    ASSUME NEW b \in Booking, NEW n, NEW cr, NEW hand \in Nat, NEW total \in Int,
           Counted(b, cr, hand, total), n.payment = "PAID",
           n.depositDue = b.depositDue, n.depositPaid = b.depositPaid,
           n.amountPaid = IF b.amountPaid = Unset THEN amountDueCents(b) ELSE b.amountPaid
    PROVE  Counted(n, cr, IF b.amountPaid = Unset THEN hand + amountDueCents(b) ELSE hand, total)
<1>1. /\ depositPaidCents(b) \in Nat /\ jobPaymentCents(b) \in Nat /\ amountDueCents(b) \in Nat
  BY BookingIsMoney
<1>2. depositPaidCents(n) = depositPaidCents(b)  BY DEF depositPaidCents
<1>3. n.amountPaid # Unset  BY <1>1 DEF Unset
<1>4. jobPaymentCents(n) = n.amountPaid  BY <1>3 DEF jobPaymentCents
<1>5. b.amountPaid = Unset => jobPaymentCents(b) = 0
  BY DEF Counted, OwesNothing, jobPaymentCents
<1>6. b.amountPaid # Unset => jobPaymentCents(b) = b.amountPaid  BY DEF jobPaymentCents
<1>7. CASE b.amountPaid = Unset
  <2>1. paidSoFarCents(n) = hand + amountDueCents(b) + total
    BY <1>1, <1>2, <1>4, <1>5, <1>7 DEF paidSoFarCents, Counted
  <2> QED BY <1>3, <1>7, <2>1 DEF Counted
<1>8. CASE b.amountPaid # Unset
  <2>1. paidSoFarCents(n) = hand + total
    BY <1>1, <1>2, <1>4, <1>6, <1>8 DEF paidSoFarCents, Counted
  <2> QED BY <1>3, <1>8, <2>1 DEF Counted
<1> QED BY <1>7, <1>8

\* Another price for a booking that is not PAID.
LEMMA PriceCounts ==
    ASSUME NEW b, NEW n, NEW cr, NEW hand, NEW total,
           Counted(b, cr, hand, total), b.payment # "PAID", n.payment = b.payment,
           n.depositDue = b.depositDue, n.depositPaid = b.depositPaid, n.amountPaid = b.amountPaid
    PROVE  Counted(n, cr, hand, total)
BY DEF Counted, paidSoFarCents, jobPaymentCents, depositPaidCents

\* Nothing was due, so PAID adds nothing.
LEMMA NothingCounts ==
    ASSUME NEW b \in Booking, NEW n, NEW cr, NEW hand, NEW total,
           Counted(b, cr, hand, total), b.payment # "PAID", amountDueCents(b) = 0,
           n.payment = "PAID", n.quote = b.quote, n.gift = b.gift,
           n.depositDue = b.depositDue, n.depositPaid = b.depositPaid, n.amountPaid = b.amountPaid
    PROVE  Counted(n, cr, hand, total)
<1>1. depositPaidCents(b) \in Nat /\ jobPaymentCents(b) \in Nat  BY BookingIsMoney
<1>2. depositPaidCents(n) = depositPaidCents(b)  BY DEF depositPaidCents
<1>3. CASE b.amountPaid # Unset
  <2>1. jobPaymentCents(n) = jobPaymentCents(b)  BY <1>3 DEF jobPaymentCents
  <2> QED BY <1>2, <1>3, <2>1 DEF Counted, paidSoFarCents
<1>4. CASE b.amountPaid = Unset
  <2>1. jobPaymentCents(b) = 0  BY <1>4 DEF jobPaymentCents
  <2>2. paidSoFarCents(b) = depositPaidCents(b)  BY <1>1, <2>1 DEF paidSoFarCents
  <2>3. OwesNothing(n)  BY <1>2, <2>2 DEF OwesNothing, amountDueCents
  <2>4. jobPaymentCents(n) = 0  BY <1>4, <2>3 DEF jobPaymentCents, OwesNothing
  <2> QED BY <1>2, <1>4, <2>1, <2>3, <2>4 DEF Counted, paidSoFarCents
<1> QED BY <1>3, <1>4

\* A link's payment is added to what was paid, and is the first of its kind.
LEMMA JobPaidCounts ==
    ASSUME NEW b \in Booking, NEW n, NEW cr, NEW hand \in Nat, NEW total \in Int, NEW i, NEW cents \in Nat,
           Counted(b, cr, hand, total), b.payment # "PAID", i # DepositId,
           n.payment = "PAID", n.depositDue = b.depositDue, n.depositPaid = b.depositPaid,
           n.amountPaid = nonNegative(b.amountPaid) + cents
    PROVE  i \notin cr /\ Counted(n, cr \cup {i}, hand, cents + total)
<1>1. depositPaidCents(b) \in Nat /\ jobPaymentCents(b) \in Nat  BY BookingIsMoney
<1>2. depositPaidCents(n) = depositPaidCents(b)  BY DEF depositPaidCents
<1>3. b.amountPaid \in Nat \cup {Unset}  BY DEF Booking
<1>4. nonNegative(b.amountPaid) = jobPaymentCents(b)
  BY <1>3 DEF jobPaymentCents, nonNegative, Unset
<1>5. n.amountPaid # Unset  BY <1>1, <1>4 DEF Unset
<1>6. jobPaymentCents(n) = jobPaymentCents(b) + cents  BY <1>4, <1>5 DEF jobPaymentCents
<1>7. paidSoFarCents(n) = hand + (cents + total)
  BY <1>1, <1>2, <1>6 DEF paidSoFarCents, Counted
<1>8. DepositId \in cr \cup {i} => n.depositPaid  BY DEF Counted
<1> QED BY <1>5, <1>7, <1>8 DEF Counted

\* The deposit was not counted before, and lowers only what is due.
LEMMA DepositCounts ==
    ASSUME NEW b \in Booking, NEW n, NEW cr, NEW hand \in Nat, NEW total \in Int, NEW cents \in Nat,
           Counted(b, cr, hand, total), ~b.depositPaid,
           n.depositPaid = TRUE, n.depositDue = cents, n.amountPaid = b.amountPaid,
           n.quote = b.quote, n.gift = b.gift,
           n.payment = IF b.payment = "UNPAID" THEN "DEPOSIT_PAID" ELSE b.payment
    PROVE  DepositId \notin cr /\ Counted(n, cr \cup {DepositId}, hand, cents + total)
<1>1. /\ jobPaymentCents(b) \in Nat /\ b.quote \in Nat /\ b.gift \in Nat
  BY BookingIsMoney DEF Booking
<1>2. depositPaidCents(b) = 0 /\ depositPaidCents(n) = cents  BY DEF depositPaidCents
<1>3. n.payment = "PAID" <=> b.payment = "PAID"  OBVIOUS
<1>4. b.payment = "PAID" /\ b.amountPaid = Unset => OwesNothing(n)
  BY <1>1, <1>2 DEF Counted, OwesNothing, nonNegative
<1>5. jobPaymentCents(n) = jobPaymentCents(b)
  <2>1. CASE b.amountPaid # Unset  BY <2>1 DEF jobPaymentCents
  <2>2. CASE b.amountPaid = Unset
    <3>1. jobPaymentCents(b) = 0  BY <2>2 DEF Counted, OwesNothing, jobPaymentCents
    <3>2. jobPaymentCents(n) = 0  BY <1>3, <1>4, <2>2 DEF OwesNothing, jobPaymentCents
    <3> QED BY <3>1, <3>2
  <2> QED BY <2>1, <2>2
<1>6. paidSoFarCents(n) = hand + (cents + total)
  BY <1>1, <1>2, <1>5 DEF paidSoFarCents, Counted
<1> QED BY <1>3, <1>4, <1>6 DEF Counted

\* What Stripe knows of a session's amount never changes.
SessionsKept == links \subseteq links' /\ \A i \in links : session'[i].amount = session[i].amount

LEMMA BecomeKept ==
    ASSUME Inv, NEW i \in links, NEW state, Become(i, state)
    PROVE  SessionsKept
<1>1. session' = [session EXCEPT ![i].state = state]  BY DEF Become
<1>2. session \in [links -> [amount : Nat, state : {"open", "processing", "paid", "failed", "expired"}]]
  BY DEF Inv, StripeOK
<1> QED BY <1>1, <1>2 DEF SessionsKept, links

LEMMA ExpireKept ==
    ASSUME Inv, NEW ids, Expire(ids)
    PROVE  SessionsKept
<1>1. PICK gone : session' = [i \in links |-> IF i \in gone THEN [session[i] EXCEPT !.state = "expired"]
                                                         ELSE session[i]]
  BY DEF Expire
<1>2. session \in [links -> [amount : Nat, state : {"open", "processing", "paid", "failed", "expired"}]]
  BY DEF Inv, StripeOK
<1> QED BY <1>1, <1>2 DEF SessionsKept, links

LEMMA LinkKept ==
    ASSUME Inv, NEW r \in Requests, LinkCreate(r)
    PROVE  SessionsKept
<1>1. PICK i \in 1..MaxLinks \ links :
        session' = [j \in links \cup {i} |->
                       IF j = i THEN [amount |-> req[r].cents, state |-> "open"] ELSE session[j]]
  BY DEF LinkCreate
<1>2. links' = links \cup {i}  BY <1>1 DEF links
<1> QED BY <1>1, <1>2 DEF SessionsKept

LEMMA SameSession ==
    ASSUME UNCHANGED session
    PROVE  SessionsKept
BY DEF SessionsKept, links

LEMMA NextKept ==
    ASSUME Inv, [Next]_vars
    PROVE  SessionsKept
<1>1. ASSUME NEW r \in Requests, Staff(r)  PROVE SessionsKept
  <2>1. UNCHANGED session
    BY <1>1 DEF Staff, CollectRead, OverrideRead, PriceRead, ConfirmRead, CollectWrite,
                OverrideWrite, PriceWrite, ConfirmWrite, stripe
  <2> QED BY <2>1, SameSession
<1>2. ASSUME NEW r \in Requests, Link(r)  PROVE SessionsKept
  <2>1. CASE LinkCreate(r)  BY <2>1, LinkKept
  <2>2. CASE ~LinkCreate(r)
    <3>1. UNCHANGED session
      BY <1>2, <2>2 DEF Link, LinkBegin, LinkRead, LinkNothing, LinkWrite, CompleteRead,
                        CompleteWrite, stripe
    <3> QED BY <3>1, SameSession
  <2> QED BY <2>1, <2>2
<1>3. ASSUME NEW r \in Requests, Cancel(r)  PROVE SessionsKept
  <2>1. CASE CancelExpire(r)
    BY <2>1, ExpireKept DEF CancelExpire
  <2>2. CASE SweepExpire(r)
    BY <2>2, ExpireKept DEF SweepExpire
  <2>3. CASE ~CancelExpire(r) /\ ~SweepExpire(r)
    <3>1. UNCHANGED session
      BY <1>3, <2>3 DEF Cancel, CancelBegin, CancelRead, RefundJob, RefundDeposit, CancelWrite,
                        SweepFind, stripe
    <3> QED BY <3>1, SameSession
  <2> QED BY <2>1, <2>2, <2>3
<1>4. ASSUME NEW r \in Requests, Webhook(r)  PROVE SessionsKept
  <2>1. UNCHANGED session
    BY <1>4 DEF Webhook, Deliver, JobPaidWrite, DepositPaidWrite, stripe
  <2> QED BY <2>1, SameSession
<1>5. CASE Customer
  <2>1. PICK i \in links : Pay(i) \/ Debit(i) \/ Settle(i) \/ Bounce(i) \/ Timeout(i)
    BY <1>5 DEF Customer
  <2>2. (\E state : Become(i, state)) \/ Expire({i})
    BY <2>1 DEF Pay, Debit, Settle, Bounce, Timeout, Paid
  <2> QED BY <2>2, BecomeKept, ExpireKept
<1>6. CASE \/ \E r \in Requests : Crash(r)
           \/ (\E e \in Event : Redeliver(e)) \/ Late \/ Stale \/ UNCHANGED vars
  <2>1. UNCHANGED session
    BY <1>6 DEF Crash, Redeliver, Late, Stale, vars, stripe
  <2> QED BY <2>1, SameSession
<1> QED BY <1>1, <1>2, <1>3, <1>4, <1>5, <1>6 DEF Next

\* What was received through the sessions of cr, before and after a step.
LEMMA ReceivedInt ==
    ASSUME Inv
    PROVE  IsFiniteSet(credited) /\ Received \in Int /\ \A i \in credited : Amounts[i] \in Int
<1>1. credited \subseteq links /\ links \subseteq 0..MaxLinks
  BY DEF Inv, StripeOK, SessionIds
<1>2. IsFiniteSet(0..MaxLinks)  BY FS_Interval, BoundAssumption
<1>3. IsFiniteSet(credited)  BY <1>1, <1>2, FS_Subset
<1>4. \A i \in credited : Amounts[i] \in Int
  BY <1>1 DEF Inv, StripeOK, Amounts
<1>5. Received \in Int  BY <1>3, <1>4, SumInt DEF Received
<1> QED BY <1>3, <1>4, <1>5

LEMMA ReceivedSame ==
    ASSUME Inv, SessionsKept, credited' = credited
    PROVE  Received' = Received
<1>1. credited \subseteq links  BY DEF Inv, StripeOK
<1>2. \A i \in credited : Amounts'[i] = Amounts[i]
  BY <1>1 DEF Amounts, SessionsKept
<1>3. SumFunctionOnSet(Amounts', credited) = SumFunctionOnSet(Amounts, credited)
  BY <1>2, SumSame
<1> QED BY <1>3 DEF Received

LEMMA ReceivedMore ==
    ASSUME Inv, UNCHANGED session, NEW i \in links, i \notin credited, credited' = credited \cup {i}
    PROVE  Received' = session[i].amount + Received
<1>1. links' = links /\ Amounts' = Amounts  BY DEF links, Amounts
<1>2. IsFiniteSet(credited) /\ \A j \in credited : Amounts[j] \in Int  BY ReceivedInt
<1>3. Amounts[i] = session[i].amount /\ Amounts[i] \in Int
  BY DEF Inv, StripeOK, Amounts
<1>4. SumFunctionOnSet(Amounts, credited \cup {i}) = Amounts[i] + SumFunctionOnSet(Amounts, credited)
  BY <1>2, <1>3, SumAdd
<1> QED BY <1>1, <1>3, <1>4 DEF Received

\* A step that leaves the money of the booking alone, and does not bring it back.
LEMMA TallyKept ==
    ASSUME Inv, Tally, SessionsKept, SameMoney(book, book'),
           credited' = credited, handed' = handed, undone' = undone,
           book.status = "CANCELLED" => book'.status = "CANCELLED"
    PROVE  Tally'
<1>1. Received' = Received  BY ReceivedSame
<1>2. ASSUME Counted(book, credited, handed, Received)
      PROVE  Counted(book', credited, handed, Received)
  BY <1>2, MoneyCountsTheSame
<1>3. book'.status # "CANCELLED" /\ ~undone => Counted(book', credited, handed, Received)
  BY <1>2 DEF Tally
<1> QED BY <1>1, <1>3 DEF Tally

LEMMA GivenKept ==
    ASSUME Given, book'.gift = book.gift, UNCHANGED local,
           book'.status = "CANCELLED" <=> book.status = "CANCELLED"
    PROVE  Given'
BY DEF Given, ConsumedMatchesStatus, local

StepBooks(r) == Knows(req[r])' /\ Tally' /\ Given'

\* A handler that reads, goes on or fails.
LEMMA ReadingBooks ==
    ASSUME BooksInv, NEW r \in Requests, SessionsKept, UNCHANGED <<book, local, past>>,
           Knows(req'[r])
    PROVE  StepBooks(r)
<1>0. Inv /\ Tally /\ Given  BY DEF BooksInv, SerialInv
<1>1. Knows(req[r])'  BY DEF Knows
<1>2. SameMoney(book, book')  BY DEF SameMoney
<1>3. Tally'  BY <1>0, <1>2, TallyKept DEF past
<1>4. Given'  BY <1>0, GivenKept
<1> QED BY <1>1, <1>3, <1>4 DEF StepBooks

LEMMA StaffBooks ==
    ASSUME BooksInv, NEW r \in Requests, Staff(r), SessionsKept
    PROVE  StepBooks(r)
<1>0. /\ book \in Booking /\ req \in [Requests -> Work \cup {Idle}] /\ Idle.pc = "idle"
      /\ Fresh(req[r]) /\ Knows(req[r]) /\ Tally /\ Given /\ Inv
      /\ handed \in Nat
  BY Basics DEF BooksInv, SerialInv, Inv, BookOK, LocalOK
<1>r. Received \in Int  BY <1>0, ReceivedInt
<1>1. ASSUME NEW given \in HandAmounts, CollectRead(r, given)  PROVE StepBooks(r)
  <2>1. UNCHANGED <<book, local, past>> /\ Knows(req'[r])
    BY <1>0, <1>1 DEF CollectRead, Begin, Goto, Job, Knows
  <2> QED BY <2>1, ReadingBooks
<1>2. ASSUME NEW to \in Overrides, OverrideRead(r, to)  PROVE StepBooks(r)
  <2>1. UNCHANGED <<book, local, past>> /\ Knows(req'[r])
    BY <1>0, <1>2 DEF OverrideRead, Begin, Goto, Job, Knows
  <2> QED BY <2>1, ReadingBooks
<1>3. ASSUME NEW quote \in Quotes, PriceRead(r, quote)  PROVE StepBooks(r)
  <2>1. UNCHANGED <<book, local, past>> /\ Knows(req'[r])
    BY <1>0, <1>3 DEF PriceRead, Begin, Goto, Job, Knows
  <2> QED BY <2>1, ReadingBooks
<1>4. ASSUME ConfirmRead(r)   PROVE StepBooks(r)
  <2>1. UNCHANGED <<book, local, past>> /\ Knows(req'[r])
    BY <1>0, <1>4 DEF ConfirmRead, Begin, Goto, Job, Knows
  <2> QED BY <2>1, ReadingBooks
<1>5. ASSUME CollectWrite(r)  PROVE StepBooks(r)
  <2>1. /\ req[r].pc = "collect" /\ req[r] \in Work /\ req[r].cents \in Nat
        /\ req[r].seen = book /\ book.payment # "PAID"
    BY <1>0, <1>5, BusyIsWork DEF CollectWrite, At, Knows
  <2>2. PICK cents \in Nat : cents = req[r].cents  BY <2>1
  <2>3. /\ handed' = handed + cents /\ req'[r] = Idle
        /\ UNCHANGED <<session, credited, undone, local>>
    BY <1>0, <1>5, <2>2 DEF CollectWrite, Return, Goto, stripe
  <2>4. /\ book'.amountPaid = jobPaymentCents(book) + cents
        /\ book'.depositDue = book.depositDue /\ book'.depositPaid = book.depositPaid
        /\ book'.status = book.status /\ book'.gift = book.gift
    BY <1>0, <1>5, <2>1, <2>2 DEF CollectWrite, Booking
  <2>5. Received' = Received  BY <1>0, <2>3, ReceivedSame
  <2>6. ASSUME Counted(book, credited, handed, Received)
        PROVE  Counted(book', credited, handed + cents, Received)
    BY <1>0, <1>r, <2>1, <2>4, <2>6, CollectCounts
  <2>7. Tally'  BY <1>0, <2>3, <2>4, <2>5, <2>6 DEF Tally
  <2>8. Given'  BY <1>0, <2>3, <2>4, GivenKept
  <2> QED BY <2>3, <2>7, <2>8, <1>0 DEF StepBooks, Knows
<1>6. ASSUME OverrideWrite(r) PROVE StepBooks(r)
  <2>1. /\ req[r].pc = "override" /\ req[r] \in Work /\ req[r].seen = book
    BY <1>0, <1>6, BusyIsWork DEF OverrideWrite, At, Knows
  <2>2. /\ req'[r] = Idle /\ UNCHANGED <<session, credited, local>>
        /\ undone' = (undone \/ req[r].to # "PAID")
    BY <1>0, <1>6 DEF OverrideWrite, Return, Goto, stripe
  <2>3. /\ book'.payment = req[r].to
        /\ book'.depositDue = book.depositDue /\ book'.depositPaid = book.depositPaid
        /\ book'.status = book.status /\ book'.gift = book.gift
    BY <1>0, <1>6, <2>1 DEF OverrideWrite, Booking
  <2>4. Received' = Received  BY <1>0, <2>2, ReceivedSame
  <2>5. ASSUME req[r].to = "PAID", Counted(book, credited, handed, Received)
        PROVE  Counted(book', credited, handed', Received)
    <3>1. /\ book'.amountPaid = IF book.amountPaid = Unset THEN amountDueCents(book)
                                ELSE book.amountPaid
          /\ handed' = IF book.amountPaid = Unset THEN handed + amountDueCents(book) ELSE handed
      BY <1>0, <1>6, <2>1, <2>5 DEF OverrideWrite, Booking
    <3>2. Counted(book', credited,
             IF book.amountPaid = Unset THEN handed + amountDueCents(book) ELSE handed, Received)
      BY <1>0, <1>r, <2>3, <2>5, <3>1, OverrideCounts
    <3> QED BY <3>1, <3>2
  <2>6. Tally'  BY <1>0, <2>2, <2>3, <2>4, <2>5 DEF Tally
  <2>7. Given'  BY <1>0, <2>2, <2>3, GivenKept
  <2> QED BY <2>2, <2>6, <2>7, <1>0 DEF StepBooks, Knows
<1>7. ASSUME PriceWrite(r)    PROVE StepBooks(r)
  <2>1. req[r].pc = "price" /\ book.payment # "PAID"
    BY <1>0, <1>7 DEF PriceWrite, At, Knows
  <2>2. /\ req'[r] = Idle /\ UNCHANGED <<session, credited, handed, undone, local>>
    BY <1>0, <1>7 DEF PriceWrite, Return, Goto, stripe, past
  <2>3. /\ book'.payment = book.payment /\ book'.amountPaid = book.amountPaid
        /\ book'.depositDue = book.depositDue /\ book'.depositPaid = book.depositPaid
        /\ book'.status = book.status /\ book'.gift = book.gift
    BY <1>0, <1>7 DEF PriceWrite, Booking
  <2>4. Received' = Received  BY <1>0, <2>2, ReceivedSame
  <2>5. ASSUME Counted(book, credited, handed, Received)
        PROVE  Counted(book', credited, handed, Received)
    BY <2>1, <2>3, <2>5, PriceCounts
  <2>6. Tally'  BY <1>0, <2>2, <2>3, <2>4, <2>5 DEF Tally
  <2>7. Given'  BY <1>0, <2>2, <2>3, GivenKept
  <2> QED BY <2>2, <2>6, <2>7, <1>0 DEF StepBooks, Knows
<1>8. ASSUME ConfirmWrite(r)  PROVE StepBooks(r)
  <2>1. book.status # "CANCELLED"  BY <1>0, <1>8 DEF ConfirmWrite, At, Fresh, FreshPcs, Ended
  <2>2. /\ req'[r] = Idle /\ UNCHANGED <<session, credited, handed, undone, local>>
    BY <1>0, <1>8 DEF ConfirmWrite, Return, Goto, stripe, past
  <2>3. SameMoney(book, book') /\ book'.status = "CONFIRMED" /\ book'.gift = book.gift
    BY <1>0, <1>8 DEF ConfirmWrite, Booking, SameMoney
  <2>4. Tally'  BY <1>0, <2>1, <2>2, <2>3, TallyKept
  <2>5. Given'  BY <1>0, <2>1, <2>2, <2>3, GivenKept
  <2> QED BY <2>2, <2>4, <2>5, <1>0 DEF StepBooks, Knows
<1> QED BY <1>1, <1>2, <1>3, <1>4, <1>5, <1>6, <1>7, <1>8 DEF Staff

LEMMA LinkBooks ==
    ASSUME BooksInv, NEW r \in Requests, Link(r), SessionsKept
    PROVE  StepBooks(r)
<1>0. /\ book \in Booking /\ req \in [Requests -> Work \cup {Idle}] /\ Idle.pc = "idle"
      /\ Fresh(req[r]) /\ Knows(req[r]) /\ Tally /\ Given /\ Inv
  BY Basics DEF BooksInv, SerialInv, Inv, BookOK
<1>1. ASSUME LinkBegin(r)  PROVE StepBooks(r)
  <2>1. UNCHANGED <<book, local, past>> /\ Knows(req'[r])
    BY <1>0, <1>1 DEF LinkBegin, Begin, Goto, Job, Knows
  <2> QED BY <2>1, ReadingBooks
<1>2. ASSUME LinkRead(r)  PROVE StepBooks(r)
  <2>1. UNCHANGED <<book, local, past>>  BY <1>2 DEF LinkRead
  <2>2. CASE Return(r)
    <3>1. Knows(req'[r])  BY <1>0, <2>2 DEF Return, Goto, Knows
    <3> QED BY <2>1, <3>1, ReadingBooks
  <2>3. CASE book.payment # "PAID"
             /\ Goto(r, [Job(IF amountDueCents(book) > 0 THEN "linkCreate" ELSE "linkNothing")
                            EXCEPT !.cents = amountDueCents(book)])
    <3>1. amountDueCents(book) \in Nat  BY <1>0, BookingIsMoney
    <3>2. /\ req'[r].pc = IF amountDueCents(book) > 0 THEN "linkCreate" ELSE "linkNothing"
          /\ req'[r].seen = book
      BY <1>0, <2>3 DEF Goto, Job
    <3>3. req'[r].pc = "linkNothing" => amountDueCents(book) = 0  BY <3>1, <3>2
    <3>4. Knows(req'[r])  BY <2>3, <3>2, <3>3 DEF Knows
    <3> QED BY <2>1, <3>4, ReadingBooks
  <2> QED BY <1>2, <2>2, <2>3 DEF LinkRead
<1>3. ASSUME LinkNothing(r)  PROVE StepBooks(r)
  <2>1. req[r].pc = "linkNothing" /\ book.payment # "PAID" /\ amountDueCents(book) = 0
    BY <1>0, <1>3 DEF LinkNothing, At, Knows
  <2>2. /\ req'[r] = Idle /\ UNCHANGED <<session, credited, handed, undone, local>>
    BY <1>0, <1>3 DEF LinkNothing, Return, Goto, stripe, past
  <2>3. /\ book'.payment = "PAID" /\ book'.amountPaid = book.amountPaid
        /\ book'.quote = book.quote /\ book'.gift = book.gift
        /\ book'.depositDue = book.depositDue /\ book'.depositPaid = book.depositPaid
        /\ book'.status = book.status
    BY <1>0, <1>3 DEF LinkNothing, Booking
  <2>4. Received' = Received  BY <1>0, <2>2, ReceivedSame
  <2>5. ASSUME Counted(book, credited, handed, Received)
        PROVE  Counted(book', credited, handed, Received)
    BY <1>0, <2>1, <2>3, <2>5, NothingCounts
  <2>6. Tally'  BY <1>0, <2>2, <2>3, <2>4, <2>5 DEF Tally
  <2>7. Given'  BY <1>0, <2>2, <2>3, GivenKept
  <2> QED BY <2>2, <2>6, <2>7, <1>0 DEF StepBooks, Knows
<1>4. ASSUME LinkCreate(r)  PROVE StepBooks(r)
  <2>1. /\ UNCHANGED <<book, local, past>>
        /\ \E i : Goto(r, [req[r] EXCEPT !.pc = "linkWrite", !.cents = i])
    BY <1>4 DEF LinkCreate
  <2>2. req[r] \in Work  BY <1>0, <1>4, BusyIsWork DEF LinkCreate, At
  <2>3. req'[r].pc = "linkWrite"  BY <1>0, <2>1, <2>2 DEF Work, Goto
  <2>4. Knows(req'[r])  BY <2>3 DEF Knows
  <2> QED BY <2>1, <2>4, ReadingBooks
<1>5. ASSUME LinkWrite(r)  PROVE StepBooks(r)
  <2>1. /\ req'[r] = Idle /\ UNCHANGED <<session, credited, handed, undone, local>>
    BY <1>0, <1>5 DEF LinkWrite, Return, Goto, stripe, past
  <2>2. SameMoney(book, book') /\ book'.status = book.status /\ book'.gift = book.gift
    BY <1>0, <1>5 DEF LinkWrite, Booking, SameMoney
  <2>3. Tally'  BY <1>0, <2>1, <2>2, TallyKept
  <2>4. Given'  BY <1>0, <2>1, <2>2, GivenKept
  <2> QED BY <2>1, <2>3, <2>4, <1>0 DEF StepBooks, Knows
<1>6. ASSUME NEW request \in BOOLEAN, CompleteRead(r, request)  PROVE StepBooks(r)
  <2>1. UNCHANGED <<book, local, past>> /\ Knows(req'[r])
    BY <1>0, <1>6 DEF CompleteRead, Begin, Goto, Job, Knows
  <2> QED BY <2>1, ReadingBooks
<1>7. ASSUME CompleteWrite(r)  PROVE StepBooks(r)
  <2>1. book.status # "CANCELLED" /\ req[r] \in Work
    BY <1>0, <1>7, BusyIsWork DEF CompleteWrite, At, Fresh, FreshPcs, Ended
  <2>2. req'[r].pc \in {"idle", "linkRead"} /\ UNCHANGED <<session, credited, handed, undone, local>>
    BY <1>0, <1>7, <2>1 DEF CompleteWrite, Then, Return, Goto, Work, stripe, past
  <2>3. SameMoney(book, book') /\ book'.status = "COMPLETED" /\ book'.gift = book.gift
    BY <1>0, <1>7 DEF CompleteWrite, Booking, SameMoney
  <2>4. Tally'  BY <1>0, <2>1, <2>2, <2>3, TallyKept
  <2>5. Given'  BY <1>0, <2>1, <2>2, <2>3, GivenKept
  <2> QED BY <2>2, <2>4, <2>5 DEF StepBooks, Knows
<1> QED BY <1>1, <1>2, <1>3, <1>4, <1>5, <1>6, <1>7 DEF Link

LEMMA CancelBooks ==
    ASSUME BooksInv, NEW r \in Requests, Cancel(r), SessionsKept
    PROVE  StepBooks(r)
<1>0. /\ book \in Booking /\ req \in [Requests -> Work \cup {Idle}] /\ Idle.pc = "idle"
      /\ Fresh(req[r]) /\ Knows(req[r]) /\ Tally /\ Given /\ Inv
  BY Basics DEF BooksInv, SerialInv, Inv, BookOK
<1> DEFINE Ahead == {"idle", "cancelRead", "refundJob", "refundDeposit", "cancelWrite", "expire",
                     "sweepExpire"}
<1>1. \A w : w.pc \in Ahead => Knows(w)  BY DEF Knows
<1>2. CASE ~CancelWrite(r)
  <2>1. UNCHANGED <<book, local, past>>
    BY <1>2 DEF Cancel, CancelBegin, CancelRead, RefundJob, RefundDeposit, CancelExpire,
                SweepFind, SweepExpire
  <2>3. ASSUME NEW waive \in BOOLEAN, CancelBegin(r, waive)  PROVE req'[r].pc \in Ahead
    BY <1>0, <2>3 DEF CancelBegin, Begin, Goto, Job
  <2>4. ASSUME CancelRead(r)  PROVE req'[r].pc \in Ahead
    <3>1. req[r] \in Work  BY <1>0, <2>4, BusyIsWork DEF CancelRead, At
    <3> QED BY <1>0, <2>4, <3>1 DEF CancelRead, Goto, Fail, Return, Work
  <2>5. ASSUME RefundJob(r)  PROVE req'[r].pc \in Ahead
    <3>1. req[r] \in Work  BY <1>0, <2>5, BusyIsWork DEF RefundJob, At
    <3>2. \E cents : \/ Goto(r, [req[r] EXCEPT !.pc = "refundDeposit"])
                     \/ Goto(r, [req[r] EXCEPT !.pc = "refundDeposit", !.refunded = @ + cents])
                     \/ Goto(r, [req[r] EXCEPT !.pc = "refundDeposit", !.failed = @ + cents])
      BY <2>5 DEF RefundJob, Refund, Then
    <3> QED BY <1>0, <3>1, <3>2 DEF Goto, Work
  <2>6. ASSUME RefundDeposit(r)  PROVE req'[r].pc \in Ahead
    <3>1. req[r] \in Work  BY <1>0, <2>6, BusyIsWork DEF RefundDeposit, At
    <3>2. \E cents : \/ Goto(r, [req[r] EXCEPT !.pc = "cancelWrite"])
                     \/ Goto(r, [req[r] EXCEPT !.pc = "cancelWrite", !.refunded = @ + cents])
                     \/ Goto(r, [req[r] EXCEPT !.pc = "cancelWrite", !.failed = @ + cents])
      BY <2>6 DEF RefundDeposit, Refund, Then
    <3> QED BY <1>0, <3>1, <3>2 DEF Goto, Work
  <2>7. ASSUME CancelExpire(r)  PROVE req'[r].pc \in Ahead
    BY <1>0, <2>7 DEF CancelExpire, Return, Goto
  <2>8. ASSUME SweepFind(r)  PROVE req'[r].pc \in Ahead
    BY <1>0, <2>8 DEF SweepFind, Begin, Goto, Job
  <2>9. ASSUME SweepExpire(r)  PROVE req'[r].pc \in Ahead
    <3>1. req[r] \in Work  BY <1>0, <2>9, BusyIsWork DEF SweepExpire, At
    <3> QED BY <1>0, <2>9, <3>1 DEF SweepExpire, Then, Goto, Work
  <2>10. req'[r].pc \in Ahead
    BY <1>2, <2>3, <2>4, <2>5, <2>6, <2>7, <2>8, <2>9 DEF Cancel
  <2> QED BY <1>1, <2>1, <2>10, ReadingBooks
<1>3. CASE CancelWrite(r)
  <2>1. /\ req[r].pc = "cancelWrite" /\ req[r] \in Work
        /\ req[r].seen = book /\ book.status # "CANCELLED"
    BY <1>0, <1>3, BusyIsWork DEF CancelWrite, At, Fresh, FreshPcs, Ended
  <2>2. book.gift = Gift /\ card = CardValue - CardElsewhere - Gift /\ redeemed = Redemptions
    BY <1>0, <2>1, MoneyAssumption DEF Given, ConsumedMatchesStatus
  <2>3. book'.status = "CANCELLED" /\ book'.gift = book.gift
    BY <1>0, <1>3 DEF CancelWrite, Booking
  <2>4. /\ card' = IF Gift > 0 THEN Lesser(CardValue, card + Gift) ELSE card
        /\ redeemed' = nonNegative(redeemed - 1)
    BY <1>3, <2>1, <2>2 DEF CancelWrite
  <2>5. card' = CardValue - CardElsewhere /\ redeemed' = Redemptions - 1
    BY <2>2, <2>4, MoneyAssumption DEF Lesser, nonNegative
  <2>6. Given'  BY <2>2, <2>3, <2>5, MoneyAssumption DEF Given, ConsumedMatchesStatus
  <2>7. Tally'  BY <2>3 DEF Tally
  <2>8. req'[r].pc = "expire"  BY <1>0, <1>3, <2>1 DEF CancelWrite, Then, Goto, Work
  <2> QED BY <2>6, <2>7, <2>8 DEF StepBooks, Knows
<1> QED BY <1>2, <1>3

LEMMA WebhookBooks ==
    ASSUME BooksInv, NEW r \in Requests, Webhook(r), SessionsKept
    PROVE  StepBooks(r)
<1>0. /\ book \in Booking /\ req \in [Requests -> Work \cup {Idle}] /\ Idle.pc = "idle"
      /\ Fresh(req[r]) /\ Knows(req[r]) /\ WorkOK(req[r], links) /\ Tally /\ Given /\ Inv
      /\ handed \in Nat /\ StripeOK
  BY Basics DEF BooksInv, SerialInv, Inv, BookOK, LocalOK
<1>r. Received \in Int  BY <1>0, ReceivedInt
<1>1. ASSUME NEW e \in events, Deliver(r, e)  PROVE StepBooks(r)
  <2>1. UNCHANGED <<book, local, past>> /\ e \in Event
    BY <1>0, <1>1 DEF Deliver, StripeOK
  <2>2. CASE req' = req
    BY <1>0, <2>1, <2>2, ReadingBooks
  <2>3. CASE Concerns(e) /\ Goto(r, [Job(Handler(e)) EXCEPT !.event = e, !.opt = e.type = "expired"])
    <3>1. req'[r].pc = Handler(e) /\ req'[r].seen = book /\ req'[r].event = e
      BY <1>0, <2>3 DEF Goto, Job
    <3>2. e.type \in {"paid", "expired"}  BY <2>1 DEF Event
    <3>3. Knows(req'[r])  BY <2>3, <3>1, <3>2 DEF Knows, Handler, Concerns
    <3> QED BY <2>1, <3>3, ReadingBooks
  <2> QED BY <1>1, <2>2, <2>3 DEF Deliver
<1>2. ASSUME JobPaidWrite(r)  PROVE StepBooks(r)
  <2>1. /\ req[r].pc = "jobPaid" /\ req[r].seen = book /\ book.payment # "PAID"
        /\ req[r].event.id # DepositId /\ req[r].event \in Event
    BY <1>0, <1>2 DEF JobPaidWrite, At, Knows, WorkOK
  <2>2. PICK i \in links : i = req[r].event.id
    BY <1>0, <2>1, Basics DEF WorkOK
  <2>3. session[i].amount \in Nat  BY <1>0 DEF StripeOK
  <2>4. /\ req'[r] = Idle /\ UNCHANGED <<session, handed, undone, local>>
        /\ credited' = credited \cup {i}
    BY <1>0, <1>2, <2>2 DEF JobPaidWrite, Return, Goto, stripe
  <2>5. /\ book'.payment = "PAID" /\ book'.status = book.status /\ book'.gift = book.gift
        /\ book'.depositDue = book.depositDue /\ book'.depositPaid = book.depositPaid
        /\ book'.amountPaid = nonNegative(book.amountPaid) + session[i].amount
    BY <1>0, <1>2, <2>1, <2>2 DEF JobPaidWrite, Booking
  <2>6. ASSUME Counted(book, credited, handed, Received)
        PROVE  Counted(book', credited', handed, Received')
    <3> PICK cents \in Nat : cents = session[i].amount  BY <2>3
    <3>a. i # DepositId /\ book'.amountPaid = nonNegative(book.amountPaid) + cents
      BY <2>1, <2>2, <2>5
    <3>1. i \notin credited /\ Counted(book', credited \cup {i}, handed, cents + Received)
      BY <1>0, <1>r, <2>1, <2>5, <2>6, <3>a, JobPaidCounts
    <3>2. Received' = session[i].amount + Received  BY <1>0, <2>4, <3>1, ReceivedMore
    <3> QED BY <2>4, <3>1, <3>2
  <2>7. Tally'  BY <1>0, <2>4, <2>5, <2>6 DEF Tally
  <2>8. Given'  BY <1>0, <2>4, <2>5, GivenKept
  <2> QED BY <2>4, <2>7, <2>8, <1>0 DEF StepBooks, Knows
<1>3. ASSUME DepositPaidWrite(r)  PROVE StepBooks(r)
  <2>1. /\ req[r].pc = "depositPaid" /\ req[r].seen = book /\ ~book.depositPaid
        /\ req[r].event.id = DepositId /\ req[r].event \in Event /\ DepositId \in links
    BY <1>0, <1>3, Basics DEF DepositPaidWrite, At, Knows, WorkOK
  <2>2. session[DepositId].amount \in Nat  BY <1>0, <2>1 DEF StripeOK
  <2>3. /\ req'[r] = Idle /\ UNCHANGED <<session, handed, undone, local>>
        /\ credited' = credited \cup {DepositId}
    BY <1>0, <1>3, <2>1 DEF DepositPaidWrite, Return, Goto, stripe
  <2>4. /\ book'.payment = IF book.payment = "UNPAID" THEN "DEPOSIT_PAID" ELSE book.payment
        /\ book'.status = book.status /\ book'.gift = book.gift /\ book'.quote = book.quote
        /\ book'.depositDue = session[DepositId].amount /\ book'.depositPaid = TRUE
        /\ book'.amountPaid = book.amountPaid
    BY <1>0, <1>3, <2>1 DEF DepositPaidWrite, Booking
  <2>5. ASSUME Counted(book, credited, handed, Received)
        PROVE  Counted(book', credited', handed, Received')
    <3>1. /\ DepositId \notin credited
          /\ Counted(book', credited \cup {DepositId}, handed, session[DepositId].amount + Received)
      BY <1>0, <1>r, <2>1, <2>2, <2>4, <2>5, DepositCounts
    <3>2. Received' = session[DepositId].amount + Received
      BY <1>0, <2>1, <2>3, <3>1, ReceivedMore
    <3> QED BY <2>3, <3>1, <3>2
  <2>6. Tally'  BY <1>0, <2>3, <2>4, <2>5 DEF Tally
  <2>7. Given'  BY <1>0, <2>3, <2>4, GivenKept
  <2> QED BY <2>3, <2>6, <2>7, <1>0 DEF StepBooks, Knows
<1> QED BY <1>1, <1>2, <1>3 DEF Webhook

\* Steps of nobody's handler, and crashes.
LEMMA OtherBooks ==
    ASSUME BooksInv, SessionsKept,
           \/ \E r \in Requests : Crash(r)
           \/ Customer \/ (\E e \in Event : Redeliver(e)) \/ Late \/ Stale \/ UNCHANGED vars
    PROVE  (\A r \in Requests : Knows(req[r])') /\ Tally' /\ Given'
<1>0. /\ req \in [Requests -> Work \cup {Idle}] /\ Idle.pc = "idle"
      /\ Tally /\ Given /\ Inv /\ \A r \in Requests : Knows(req[r])
  BY Basics DEF BooksInv, SerialInv, Inv
<1>1. /\ UNCHANGED <<book, local, past>>
      /\ \/ req' = req
         \/ \E r \in Requests : req' = [req EXCEPT ![r] = Idle]
  BY DEF Crash, Customer, Redeliver, Late, Stale, vars, local, past
<1>2. \A r \in Requests : Knows(req[r])'  BY <1>0, <1>1 DEF Knows
<1>3. SameMoney(book, book')  BY <1>1 DEF SameMoney
<1>4. Tally'  BY <1>0, <1>1, <1>3, TallyKept DEF past
<1>5. Given'  BY <1>0, <1>1, GivenKept
<1> QED BY <1>2, <1>4, <1>5

LEMMA NextBooks ==
    ASSUME BooksInv, [Next]_vars, \A r, s \in Requests : r = s
    PROVE  BooksInv'
<1>1. SerialInv' /\ SessionsKept  BY NextSerial, NextKept DEF BooksInv, SerialInv
<1>2. ASSUME NEW r \in Requests, Staff(r) \/ Link(r) \/ Cancel(r) \/ Webhook(r)
      PROVE  (\A s \in Requests : Knows(req[s])') /\ Tally' /\ Given'
  <2>1. StepBooks(r)  BY <1>1, <1>2, StaffBooks, LinkBooks, CancelBooks, WebhookBooks
  <2>2. \A s \in Requests : s = r  OBVIOUS
  <2> QED BY <2>1, <2>2 DEF StepBooks
<1>3. (\A s \in Requests : Knows(req[s])') /\ Tally' /\ Given'
  BY <1>1, <1>2, OtherBooks DEF Next
<1> QED BY <1>1, <1>3 DEF BooksInv

LEMMA InitBooks == Init => BooksInv
<1> SUFFICES ASSUME Init PROVE BooksInv  OBVIOUS
<1>1. SerialInv
  BY InitInv, Basics DEF Init, SerialInv, Fresh, FreshPcs, NothingRefundedYet
<1>2. \A r \in Requests : Knows(req[r])  BY Basics DEF Init, Knows
<1>3. Given  BY MoneyAssumption DEF Init, Given, ConsumedMatchesStatus
<1>4. Received = 0  BY SumEmpty DEF Init, Received
<1>5. /\ book.payment = "UNPAID" /\ book.amountPaid = Unset /\ book.depositPaid = FALSE
      /\ credited = {} /\ handed = 0
  BY DEF Init
<1>6. paidSoFarCents(book) = 0
  BY <1>5 DEF paidSoFarCents, jobPaymentCents, depositPaidCents
<1>7. Tally  BY <1>4, <1>5, <1>6 DEF Tally, Counted
<1> QED BY <1>1, <1>2, <1>3, <1>7 DEF BooksInv

\* When requests are served one at a time, a booking that was not cancelled counts
\* as paid what staff recorded and what the webhook credited, each payment once,
\* for any prices, links, crashes and repeated events (stripe.controller.js,
\* markPaymentReceived), unless staff took a status back by hand.
THEOREM BooksAlwaysMatch ==
    ASSUME \A r, s \in Requests : r = s
    PROVE  Spec => []BooksMatchReceipts
<1>1. BooksInv /\ [Next]_vars => BooksInv'  BY NextBooks
<1>2. BooksInv => BooksMatchReceipts
  BY DEF BooksInv, Tally, Counted, BooksMatchReceipts, Received, Amounts
<1> QED BY <1>1, <1>2, InitBooks, PTL DEF Spec

\* When requests are served one at a time, a cancellation gives back the card and
\* the coupon exactly once (cancelBooking's transaction); the run double_cancel
\* shows that two at once give them back twice.
THEOREM ConsumedOnce ==
    ASSUME \A r, s \in Requests : r = s
    PROVE  Spec => []ConsumedMatchesStatus
<1>1. BooksInv /\ [Next]_vars => BooksInv'  BY NextBooks
<1>2. BooksInv => ConsumedMatchesStatus  BY DEF BooksInv, Given
<1> QED BY <1>1, <1>2, InitBooks, PTL DEF Spec
=============================================================================
