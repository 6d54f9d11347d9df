----------------------------- MODULE PaymentMath -----------------------------
(***************************************************************************)
(* Money arithmetic of a booking, in minor units: lib/paymentMath.js and   *)
(* the fee of lib/cancellationPolicy.js.  A booking b is a record with the *)
(* fields quote, gift, depositDue, depositPaid, payment, amountPaid,       *)
(* jobIntent and depositIntent; Unset is the database's NULL, and no amount   *)
(* or identifier.                                                          *)
(***************************************************************************)
EXTENDS Integers

Unset == -1

PaymentStatus == {"UNPAID", "DEPOSIT_PAID", "PARTIAL", "PAID", "REFUNDED"}

nonNegative(n) == IF n > 0 THEN n ELSE 0
Lesser(m, n)   == IF m <= n THEN m ELSE n

depositPaidCents(b) == IF b.depositPaid THEN b.depositDue ELSE 0

\* Rows marked PAID without an amount count as having paid what was due.
jobPaymentCents(b) ==
    IF b.amountPaid # Unset THEN b.amountPaid
    ELSE IF b.payment = "PAID" THEN nonNegative(b.quote - b.gift - depositPaidCents(b))
    ELSE 0

paidSoFarCents(b) == depositPaidCents(b) + jobPaymentCents(b)

\* Mutant: an overpaid booking owes a negative amount.
amountDueCents_Signed(b) == b.quote - b.gift - paidSoFarCents(b)

amountDueCents(b) == nonNegative(b.quote - b.gift - paidSoFarCents(b))

\* buildRefundPlan: from the job payment, then from the deposit, each only if it
\* has a PaymentIntent; what is left the business returns by hand.
refundFromJob(b, cents) ==
    Lesser(cents, IF b.jobIntent # Unset THEN jobPaymentCents(b) ELSE 0)
refundFromDeposit(b, cents) ==
    Lesser(cents - refundFromJob(b, cents),
           IF b.depositIntent # Unset THEN depositPaidCents(b) ELSE 0)
manualCents(b, cents) == cents - refundFromJob(b, cents) - refundFromDeposit(b, cents)

\* Mutant: the fee is taken whether or not that much was paid.
cancellationFee_Uncapped(b, policy) ==
    IF policy.kind = "PERCENT" THEN (2 * b.quote * policy.value + 100) \div 200
    ELSE policy.value

\* What cancelling costs under a policy [kind, value] whose window has begun:
\* never more than was collected, nor than the job was quoted for.
cancellationFee(b, policy) ==
    LET fee == IF policy.kind = "PERCENT" THEN (2 * b.quote * policy.value + 100) \div 200
               ELSE policy.value
    IN Lesser(Lesser(fee, paidSoFarCents(b)), IF b.quote > 0 THEN b.quote ELSE fee)
=============================================================================
