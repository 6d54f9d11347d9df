------------------------------- MODULE Intake -------------------------------
(***************************************************************************)
(* How a booking comes to be and what it consumes: the public form         *)
(* (widget.service quote and submitBooking), the dashboard (bookings       *)
(* createBooking), the coupon, the gift card, the deposit session, what a  *)
(* cancellation gives back, and the waitlist it tells of the freed place.  *)
(*                                                                         *)
(* All bookings are for one time window of one business, the last places   *)
(* of which the requests compete for.  As in Bookings.tla a handler is a   *)
(* sequence of calls, each one action, and req[r] is what the handler in   *)
(* slot r remembers between two of them.                                   *)
(***************************************************************************)
EXTENDS Naturals, FiniteSets, Sequences, FiniteSetsExt, Functions

CONSTANTS Numbers,          \* people, by their telephone number
          NoOne,            \* no referral code in the form
          Requests,         \* request slots
          Cleaners,         \* how many cleaners could work in the window
          Price, Discount,  \* price of the job; of a coupon or a referral
          CardValue,        \* what the gift card was sold for
          CouponMax,        \* coupon.maxRedemptions
          CouponEach,       \* coupon.perCustomerLimit
          DailyLimit,       \* WIDGET_MAX_BOOKINGS_PER_CUSTOMER_PER_DAY
          MaxNotified,      \* entries told of one freed place
          MaxBookings,      \* bound: bookings ever made
          MaxWaiting,       \* bound: waitlist entries ever made
          MaxFaults,        \* bound: handlers killed, calls to Stripe failed
          Forms             \* bound: how the public form may be filled in

ASSUME SizesAssumption == /\ {Cleaners, CardValue, CouponMax, CouponEach, DailyLimit} \subseteq Nat
                          /\ {MaxNotified, MaxBookings, MaxWaiting, MaxFaults} \subseteq Nat
                          /\ Discount \in Nat /\ Price \in Nat /\ Discount <= Price
ASSUME NoOneAssumption == NoOne \notin Numbers
ASSUME FormsAssumption ==
    Forms \subseteq [num : Numbers, form : {"typed", "e164"}, coupon : BOOLEAN, card : BOOLEAN,
                     mail : BOOLEAN, ref : Numbers \cup {NoOne}]

VARIABLES
    bookings,     \* the Booking table, in the order of creation
    customers,    \* the Customer table: the phone numbers as stored
    redeemed,     \* Coupon.redeemedCount
    card,         \* GiftCard.balanceCents
    rewards,      \* coupons made for referrers
    sessions,     \* Stripe: bookings whose deposit session can be paid
    waitlist,     \* the WaitlistEntry table, in the order of joining
    bizLock,      \* the slot holding the business's advisory lock, if any
    req,          \* what the handler in each slot is doing
    faults,       \* faults so far
    gaveBack,     \* history: cancelling transactions of each booking
    clobbered,    \* history: a card was restored over another redemption
    loose         \* history: sessions a cancellation could not know of

offers == <<redeemed, card, rewards, sessions>>
hist   == <<faults, gaveBack, clobbered, loose>>
vars   == <<bookings, customers, offers, waitlist, bizLock, req, hist>>

-----------------------------------------------------------------------------
(* Data *)

\* A number is stored as typed by older versions, normalised by this one.  A
\* number "typed" is in one of the forms a lookup tries: with the country code,
\* with 00 before it, or the national one; not with spaces in it.
Phones == [num : Numbers, form : {"typed", "e164"}]

\* normalizePhone: the one form of a number, whatever form it came in.
E164(num) == [num |-> num, form |-> "e164"]
Status == {"REQUESTED", "ASSIGNED", "CANCELLED"}
Row == [cust : Phones, public : BOOLEAN, status : Status, price : {Price, Price - Discount},
        coupon : BOOLEAN, referral : BOOLEAN, new : BOOLEAN, session : BOOLEAN,
        applied : 0..CardValue]          \* new: history, nobody had the number before
Entry == [status : {"WAITING", "NOTIFIED", "CANCELLED"}, tried : BOOLEAN]  \* tried: history

Idle  == [pc |-> "idle"]
Ids   == 1..MaxBookings
Work  == [pc : {"lock", "check", "create"}, form : Forms, cheap : BOOLEAN]
    \cup [pc : {"reward", "deposit", "depositWrite", "cardRead"}, bk : Ids, card : BOOLEAN,
          ref : BOOLEAN]
    \cup [pc : {"cardTake", "cardWrite"}, bk : Ids, take : Nat]
    \cup [pc : {"staffCreate"}, cust : Phones, coupon : BOOLEAN, cheap : BOOLEAN]
    \cup [pc : {"cancelCard", "cancelWrite", "expire", "find"}, bk : Ids, row : Row, seen : Nat]
    \cup [pc : {"tell", "mark"}, list : Seq(1..MaxWaiting)]

Made       == DOMAIN bookings
Live       == {b \in Made : bookings[b].status # "CANCELLED"}
With(s)    == {b \in Made : bookings[b].status = s}
UsedBy(c)  == {b \in Made : bookings[b].coupon /\ bookings[b].cust = c}
Known(n)   == {c \in customers : c.num = n}            \* findCustomerByPhone
Creating   == {r \in Requests : req[r].pc \in {"lock", "check", "create", "staffCreate"}}

\* A booking that is assigned takes a cleaner from the pool, one that waits for
\* an assignment is subtracted from it.
Candidates == {n \in 1..Cleaners : n > Cardinality(With("ASSIGNED"))}
HasSpare   == Cardinality(Candidates) > Cardinality(With("REQUESTED"))

-----------------------------------------------------------------------------
(* Requests *)

Begin(r, work) == req[r] = Idle /\ req' = [req EXCEPT ![r] = work]
Goto(r, work)  == req' = [req EXCEPT ![r] = work]
Return(r)      == req' = [req EXCEPT ![r] = Idle]
At(r, pc)      == req[r].pc = pc
Then(r, pc)    == req' = [req EXCEPT ![r].pc = pc]
Fault          == faults < MaxFaults /\ faults' = faults + 1

Init ==
    /\ bookings = <<>>
    /\ \E old \in SUBSET Numbers : customers = [num : old, form : {"typed"}]
    /\ redeemed = 0 /\ card = CardValue /\ rewards = 0 /\ sessions = {}
    /\ waitlist = <<>>
    /\ bizLock = {}
    /\ req = [r \in Requests |-> Idle]
    /\ faults = 0
    /\ gaveBack = [b \in Ids |-> 0]
    /\ clobbered = FALSE
    /\ loose = {}

-----------------------------------------------------------------------------
(* The public form: submitBooking *)

\* quote: the price counts on the coupon as long as redemptions are left.
Quote(r, f) ==
    /\ HasSpare
    /\ Len(bookings) + Cardinality(Creating) < MaxBookings
    /\ Begin(r, [pc |-> "lock", form |-> f, cheap |-> f.coupon /\ redeemed < CouponMax])
    /\ UNCHANGED <<bookings, customers, offers, waitlist, bizLock, hist>>

\* Mutant: the transaction does not take the lock.
TakeLock_NotTaken(r) ==
    /\ At(r, "lock")
    /\ Then(r, "check")
    /\ UNCHANGED <<bookings, customers, offers, waitlist, bizLock, hist>>

TakeLock(r) ==
    /\ At(r, "lock")
    /\ bizLock = {}
    /\ bizLock' = {r}
    /\ Then(r, "check")
    /\ UNCHANGED <<bookings, customers, offers, waitlist, hist>>

\* assertCapacity asks on a second connection: it sees what is committed.
Check(r) ==
    /\ At(r, "check")
    /\ \/ HasSpare /\ Then(r, "create") /\ UNCHANGED bizLock
       \/ ~HasSpare /\ Return(r) /\ bizLock' = bizLock \ {r}
    /\ UNCHANGED <<bookings, customers, offers, waitlist, hist>>

\* A referral code counts when the number, AS TYPED, is no customer's; neither
\* the number typed nor the e-mail may be the referrer's own.
Referred(f) ==
    /\ ~f.coupon
    /\ [num |-> f.num, form |-> f.form] \notin customers
    /\ \E c \in customers : /\ c.num = f.ref
                            /\ c # [num |-> f.num, form |-> f.form]
    /\ ~(f.ref = f.num /\ f.mail)

\* Mutant: a new customer is stored under the number as typed.
Stored_AsTyped(f) == IF [num |-> f.num, form |-> f.form] \in customers
                     THEN CHOOSE c \in Known(f.num) : c.form = f.form
                     ELSE [num |-> f.num, form |-> f.form]

\* upsertGuestCustomer: any stored form will do, a new one is normalised.
Stored(f) == IF Known(f.num) # {} THEN CHOOSE c \in Known(f.num) : TRUE
             ELSE E164(f.num)

NewRow(c, public, price, coupon, ref, new) ==
    [cust |-> c, public |-> public, status |-> "REQUESTED", price |-> price, coupon |-> coupon,
     referral |-> ref, new |-> new, session |-> FALSE, applied |-> 0]

MayBook(c) == Cardinality({b \in Live : bookings[b].cust = c}) < DailyLimit

\* Every redemption of this customer counts, also of bookings cancelled since;
\* the total is guarded by the update itself.
MayRedeem(c) == Cardinality(UsedBy(c)) < CouponEach /\ redeemed < CouponMax

\* The rest of the transaction, which commits or is rolled back as a whole.
Create(r) ==
    /\ At(r, "create")
    /\ LET f     == req[r].form
           c     == Stored(f)
           ref   == Referred(f)
           price == IF req[r].cheap \/ ref THEN Price - Discount ELSE Price
       IN \/ /\ MayBook(c) /\ (f.coupon => MayRedeem(c))
             /\ customers' = customers \cup {c}
             /\ bookings' = Append(bookings,
                              NewRow(c, TRUE, price, f.coupon, ref, Known(f.num) = {}))
             /\ redeemed' = IF f.coupon THEN redeemed + 1 ELSE redeemed
             /\ Goto(r, [pc |-> "reward", bk |-> Len(bookings) + 1, card |-> f.card, ref |-> ref])
          \/ /\ ~(MayBook(c) /\ (f.coupon => MayRedeem(c)))
             /\ Return(r)
             /\ UNCHANGED <<customers, bookings, redeemed>>
    /\ bizLock' = bizLock \ {r}
    /\ UNCHANGED <<card, rewards, sessions, waitlist, hist>>

\* Everything after the commit is best effort: it may fail and is passed over.
Reward(r) ==
    /\ At(r, "reward")
    /\ rewards' \in IF req[r].ref THEN {rewards, rewards + 1} ELSE {rewards}
    /\ Then(r, "deposit")
    /\ UNCHANGED <<bookings, customers, redeemed, card, sessions, waitlist, bizLock, hist>>

\* No deposit policy, no usable account or an error: no session.
Deposit(r) ==
    /\ At(r, "deposit")
    /\ \/ Then(r, "cardRead") /\ UNCHANGED sessions
       \/ Then(r, "depositWrite") /\ sessions' = sessions \cup {req[r].bk}
    /\ UNCHANGED <<bookings, customers, redeemed, card, rewards, waitlist, bizLock, hist>>

DepositWrite(r) ==
    /\ At(r, "depositWrite")
    /\ bookings' = [bookings EXCEPT ![req[r].bk].session = TRUE]
    /\ Then(r, "cardRead")
    /\ UNCHANGED <<customers, offers, waitlist, bizLock, hist>>

CardRead(r) ==
    /\ At(r, "cardRead")
    /\ LET take == Min({card, bookings[req[r].bk].price})
       IN \/ /\ req[r].card /\ take > 0
             /\ Goto(r, [pc |-> "cardTake", bk |-> req[r].bk, take |-> take])
          \/ ~(req[r].card /\ take > 0) /\ Return(r)
    /\ UNCHANGED <<bookings, customers, offers, waitlist, bizLock, hist>>

\* Mutant: the balance that was read is written, less what is taken.
CardTake_NoGuard(r) ==
    /\ At(r, "cardTake")
    /\ card' = IF card >= req[r].take THEN card - req[r].take ELSE 0
    /\ Then(r, "cardWrite")
    /\ UNCHANGED <<bookings, customers, redeemed, rewards, sessions, waitlist, bizLock, hist>>

\* updateMany where balanceCents >= take
CardTake(r) ==
    /\ At(r, "cardTake")
    /\ \/ card >= req[r].take /\ card' = card - req[r].take /\ Then(r, "cardWrite")
       \/ card < req[r].take /\ UNCHANGED card /\ Return(r)
    /\ UNCHANGED <<bookings, customers, redeemed, rewards, sessions, waitlist, bizLock, hist>>

\* A cancelling transaction has the row locked until it commits.
RowFree(b) == \A s \in Requests : ~(req[s].pc = "cancelWrite" /\ req[s].bk = b)

CardWrite(r) ==
    /\ At(r, "cardWrite")
    /\ RowFree(req[r].bk)
    /\ bookings' = [bookings EXCEPT ![req[r].bk].applied = req[r].take]
    /\ Return(r)
    /\ UNCHANGED <<customers, offers, waitlist, bizLock, hist>>

Submit(r) ==
    \/ \E f \in Forms : Quote(r, f)
    \/ TakeLock(r) \/ Check(r) \/ Create(r) \/ Reward(r) \/ Deposit(r) \/ DepositWrite(r)
    \/ CardRead(r) \/ CardTake(r) \/ CardWrite(r)

-----------------------------------------------------------------------------
(* The dashboard: createCustomer, createBooking, assignBooking *)

\* All formats are looked up first; the unique index settles a race.
CreateCustomer(n) ==
    /\ Known(n) = {}
    /\ customers' = customers \cup {E164(n)}
    /\ UNCHANGED <<bookings, offers, waitlist, bizLock, req, hist>>

\* assertNoCustomerConflict: the customer has no other job in the window.  Neither
\* the lock nor the capacity is asked for.
StaffRead(r, c, coupon) ==
    /\ \A b \in Live : bookings[b].cust # c
    /\ Len(bookings) + Cardinality(Creating) < MaxBookings
    /\ Begin(r, [pc |-> "staffCreate", cust |-> c, coupon |-> coupon,
                 cheap |-> coupon /\ redeemed < CouponMax])
    /\ UNCHANGED <<bookings, customers, offers, waitlist, bizLock, hist>>

StaffCreate(r) ==
    /\ At(r, "staffCreate")
    /\ LET w == req[r]
       IN \/ /\ w.coupon => MayRedeem(w.cust)
             /\ bookings' = Append(bookings,
                  NewRow(w.cust, FALSE, IF w.cheap THEN Price - Discount ELSE Price,
                         w.coupon, FALSE, FALSE))
             /\ redeemed' = IF w.coupon THEN redeemed + 1 ELSE redeemed
          \/ w.coupon /\ ~MayRedeem(w.cust) /\ UNCHANGED <<bookings, redeemed>>
    /\ Return(r)
    /\ UNCHANGED <<customers, card, rewards, sessions, waitlist, bizLock, hist>>

\* Assigning is Bookings.tla; here it moves a booking from one side of the
\* capacity to the other.
Dispatch(b) ==
    /\ bookings[b].status = "REQUESTED" /\ Candidates # {} /\ RowFree(b)
    /\ bookings' = [bookings EXCEPT ![b].status = "ASSIGNED"]
    /\ UNCHANGED <<customers, offers, waitlist, bizLock, req, hist>>

Staff(r) ==
    \/ \E c \in customers, coupon \in BOOLEAN : StaffRead(r, c, coupon)
    \/ StaffCreate(r)

-----------------------------------------------------------------------------
(* Giving back: cancelBooking *)

CreatorOf(b) == {s \in Requests : req[s].pc \in {"reward", "deposit", "depositWrite"} /\ req[s].bk = b}

CancelRead(r, b) ==
    /\ bookings[b].status # "CANCELLED"
    /\ Begin(r, [pc |-> "cancelCard", bk |-> b, row |-> bookings[b], seen |-> 0])
    /\ loose' = IF CreatorOf(b) # {} THEN loose \cup {b} ELSE loose
    /\ UNCHANGED <<bookings, customers, offers, waitlist, bizLock, faults, gaveBack, clobbered>>

\* The transaction updates the booking, reads the card ...
CancelCard(r) ==
    /\ At(r, "cancelCard")
    /\ RowFree(req[r].bk)
    /\ Goto(r, [req[r] EXCEPT !.pc = "cancelWrite", !.seen = card])
    /\ UNCHANGED <<bookings, customers, offers, waitlist, bizLock, hist>>

CouponAfterCancel(row) == IF row.coupon /\ redeemed > 0 THEN redeemed - 1 ELSE redeemed

\* ... adds to the balance it read, up to the card's initial value ...
Restored(row, seen) == IF row.applied = 0 THEN card ELSE Min({CardValue, seen + row.applied})

\* ... gives the coupon back, and commits.
CancelWrite(r) ==
    /\ At(r, "cancelWrite")
    /\ LET w == req[r]
       IN /\ bookings' = [bookings EXCEPT ![w.bk].status = "CANCELLED"]
          /\ card' = Restored(w.row, w.seen)
          /\ clobbered' = (clobbered \/ (w.row.applied > 0 /\ card # w.seen))
          /\ redeemed' = CouponAfterCancel(w.row)
          /\ gaveBack' = [gaveBack EXCEPT ![w.bk] = @ + 1]
    /\ Then(r, "expire")
    /\ UNCHANGED <<customers, rewards, sessions, waitlist, bizLock, faults, loose>>

\* Mutant: the deposit session is left alone.
Expire_NotAsked(r) ==
    /\ At(r, "expire")
    /\ Then(r, "find")
    /\ UNCHANGED <<bookings, customers, offers, waitlist, bizLock, hist>>

\* expireCheckoutSession: an error is logged and passed over.
Expire(r) ==
    /\ At(r, "expire")
    /\ \/ /\ sessions' = IF req[r].row.session THEN sessions \ {req[r].bk} ELSE sessions
          /\ UNCHANGED <<faults, loose>>
       \/ /\ Fault
          /\ loose' = loose \cup {req[r].bk}
          /\ UNCHANGED sessions
    /\ Then(r, "find")
    /\ UNCHANGED <<bookings, customers, redeemed, card, rewards, waitlist, bizLock, gaveBack,
                   clobbered>>

-----------------------------------------------------------------------------
(* The waitlist *)

Join ==
    /\ Len(waitlist) < MaxWaiting
    /\ waitlist' = Append(waitlist, [status |-> "WAITING", tried |-> FALSE])
    /\ UNCHANGED <<bookings, customers, offers, bizLock, req, hist>>

Leave(e) ==
    /\ waitlist' = [waitlist EXCEPT ![e].status = "CANCELLED"]
    /\ UNCHANGED <<bookings, customers, offers, bizLock, req, hist>>

\* Mutant: the latest come first.
FirstWaiting_Latest == LET waiting == {e \in DOMAIN waitlist : waitlist[e].status = "WAITING"}
                           n == Min({MaxNotified, Cardinality(waiting)})
                       IN [i \in 1..n |-> CHOOSE e \in waiting :
                             Cardinality({d \in waiting : d > e}) = i - 1]

\* findMany orderBy createdAt take MAX_NOTIFIED
FirstWaiting == LET waiting == {e \in DOMAIN waitlist : waitlist[e].status = "WAITING"}
                    n == Min({MaxNotified, Cardinality(waiting)})
                IN [i \in 1..n |-> CHOOSE e \in waiting :
                      Cardinality({d \in waiting : d < e}) = i - 1]

\* Nobody is told unless some cleaner is free; bookings that wait for an
\* assignment are not subtracted here.
Find(r) ==
    /\ At(r, "find")
    /\ \/ FirstWaiting # <<>> /\ Candidates # {} /\ Goto(r, [pc |-> "tell", list |-> FirstWaiting])
       \/ (FirstWaiting = <<>> \/ Candidates = {}) /\ Return(r)
    /\ UNCHANGED <<bookings, customers, offers, waitlist, bizLock, hist>>

Rest(r) == IF Len(req[r].list) = 1 THEN Return(r)
           ELSE Goto(r, [pc |-> "tell", list |-> Tail(req[r].list)])

\* The message is sent, or fails and the next entry has its turn.
Tell(r) ==
    /\ At(r, "tell")
    /\ waitlist' = [waitlist EXCEPT ![Head(req[r].list)].tried = TRUE]
    /\ Then(r, "mark") \/ Rest(r)
    /\ UNCHANGED <<bookings, customers, offers, bizLock, hist>>

Mark(r) ==
    /\ At(r, "mark")
    /\ waitlist' = [waitlist EXCEPT ![Head(req[r].list)].status = "NOTIFIED"]
    /\ Rest(r)
    /\ UNCHANGED <<bookings, customers, offers, bizLock, hist>>

Cancel(r) ==
    \/ \E b \in Made : CancelRead(r, b)
    \/ CancelCard(r) \/ CancelWrite(r) \/ Expire(r) \/ Find(r) \/ Tell(r) \/ Mark(r)

-----------------------------------------------------------------------------

\* A handler is killed: its transaction is rolled back, its lock released, and a
\* session it was about to write down or to expire stays as it is.
Crash(r) ==
    /\ req[r] # Idle
    /\ Fault
    /\ Return(r)
    /\ bizLock' = bizLock \ {r}
    /\ loose' = IF req[r].pc \in {"depositWrite", "expire"} THEN loose \cup {req[r].bk} ELSE loose
    /\ UNCHANGED <<bookings, customers, offers, waitlist, gaveBack, clobbered>>

Step(r) == Submit(r) \/ Staff(r) \/ Cancel(r) \/ Crash(r)

Next ==
    \/ \E r \in Requests : Step(r)
    \/ \E n \in Numbers : CreateCustomer(n)
    \/ \E b \in Made : Dispatch(b)
    \/ Join
    \/ \E e \in DOMAIN waitlist : Leave(e)

Spec == Init /\ [][Next]_vars

-----------------------------------------------------------------------------
(* Properties *)

TypeOK ==
    /\ bookings \in Seq(Row) /\ Len(bookings) <= MaxBookings
    /\ customers \subseteq Phones
    /\ redeemed \in 0..CouponMax /\ card \in 0..CardValue
    /\ rewards \in Nat /\ sessions \subseteq Ids
    /\ waitlist \in Seq(Entry)
    /\ bizLock \in SUBSET Requests /\ Cardinality(bizLock) <= 1
    /\ \A r \in Requests : req[r] = Idle \/ req[r] \in Work
    /\ \A r \in Requests : At(r, "check") \/ At(r, "create") => bizLock = {r}
    /\ faults \in 0..MaxFaults /\ gaveBack \in [Ids -> Nat]
    /\ clobbered \in BOOLEAN /\ loose \subseteq Ids

GivenBackOnce == \A b \in Ids : gaveBack[b] <= 1

\* bookingLock.js: the second of two requests for the last place sees the first
\* one's booking.  The bookings of the public form that are alive are the places
\* sold; the dashboard, which asks for no capacity, can only make it refuse more.
Sold == INSTANCE Sale WITH Places <- Cleaners, Ids <- Ids, sold <- {b \in Live : bookings[b].public}
ImplementsSale == Sold!Spec

\* Whatever fails or interleaves, the coupon's counter is the number of bookings
\* alive that used it: one is never counted without its booking or kept after the
\* cancellation (unless two cancellations of one booking both gave it back).
CouponBalanced ==
    GivenBackOnce => redeemed = Cardinality({b \in Live : bookings[b].coupon})

\* The gift card and the live bookings it was applied to together hold no more
\* than it was sold for, however redemptions and cancellations interleave: unless
\* a cancellation restored it over a redemption made since it read the balance.
CardNotOverspent ==
    GivenBackOnce /\ ~clobbered =>
        card + SumFunctionOnSet([b \in Live |-> bookings[b].applied], Live) <= CardValue

\* What is granted once is given back once: coupon and card.
DiscountsBalanced == CouponBalanced /\ CardNotOverspent

\* lib/phone.js: one person is one customer, in whatever form and through
\* whatever door the number came in.
OneCustomerPerNumber == \A n \in Numbers : Cardinality(Known(n)) <= 1

\* cancelBooking expires what could still be paid: once nobody works on a
\* cancelled booking, its deposit session is closed, unless a fault or the
\* cancellation of a booking still being made kept its id from being known.
CancelledCannotBePaid == \A b \in Made \ loose :
    /\ bookings[b].status = "CANCELLED"
    /\ \A r \in Requests : req[r] # Idle => ~(req[r].pc \in {"depositWrite", "expire"} /\ req[r].bk = b)
    => b \notin sessions

\* waitlist.service: who joined first is told first, unless they left.
OldestFirst == \A e, d \in DOMAIN waitlist :
    d < e /\ waitlist[e].tried => waitlist[d].tried \/ waitlist[d].status = "CANCELLED"
=============================================================================
