------------------------------ MODULE Invoices ------------------------------
(***************************************************************************)
(* invoices.service: one invoice for a job, numbered without a gap.  The   *)
(* request looks, then takes the next number and writes the invoice in one *)
(* transaction, which holds the row of the counter until it ends.          *)
(***************************************************************************)
EXTENDS Jobs

VARIABLES
    counter,   \* InvoiceCounter.lastSequence, as committed
    invoice,   \* the Invoice table, by booking
    issuer     \* what each request is doing

invoiceVars == <<counter, invoice, issuer>>

NoInvoice == [number |-> 0, paid |-> FALSE]

InvoicesInit ==
    /\ counter = 0
    /\ invoice = [j \in Jobs |-> NoInvoice]
    /\ issuer = [r \in Clerks |-> Idle]

IssuerTo(r, work) == issuer' = [issuer EXCEPT ![r] = work]

\* The business has its KvK number and its BTW-id: without them every request
\* is refused here.
Issue(r, j) ==
    /\ issuer[r] = Idle /\ invoice[j] = NoInvoice
    /\ job[j].status # "CANCELLED" /\ Price > 0
    /\ IssuerTo(r, [pc |-> "number", job |-> j, paid |-> job[j].paid])
    /\ UNCHANGED <<jobVars, counter, invoice>>

\* Mutant: the number is taken before the transaction.
TakeNumber_Committed(r) ==
    /\ issuer[r].pc = "number"
    /\ counter' = counter + 1
    /\ IssuerTo(r, [pc |-> "insert", job |-> issuer[r].job, paid |-> issuer[r].paid,
                    number |-> counter + 1])
    /\ UNCHANGED <<jobVars, invoice>>

\* The upsert waits for the row as long as another transaction has it.
TakeNumber(r) ==
    /\ issuer[r].pc = "number" /\ \A s \in Clerks : issuer[s].pc # "insert"
    /\ IssuerTo(r, [pc |-> "insert", job |-> issuer[r].job, paid |-> issuer[r].paid,
                    number |-> counter + 1])
    /\ UNCHANGED <<jobVars, counter, invoice>>

\* The commit, or the roll-back of the one that comes second for its booking:
\* it answers with the invoice it finds.
InsertInvoice(r) ==
    /\ issuer[r].pc = "insert"
    /\ LET j == issuer[r].job
       IN IF invoice[j] = NoInvoice
          THEN /\ counter' = issuer[r].number
               /\ invoice' = [invoice EXCEPT ![j] = [number |-> issuer[r].number, paid |-> issuer[r].paid]]
          ELSE UNCHANGED <<counter, invoice>>
    /\ IssuerTo(r, Idle)
    /\ UNCHANGED jobVars

IssuerDies(r) ==
    /\ issuer[r] # Idle /\ Fault
    /\ IssuerTo(r, Idle)
    /\ UNCHANGED <<job, counter, invoice>>

InvoicesNext ==
    \E r \in Clerks : (\E j \in Jobs : Issue(r, j)) \/ TakeNumber(r) \/ InsertInvoice(r) \/ IssuerDies(r)

-----------------------------------------------------------------------------
(* Properties *)

Numbers == {invoice[j].number : j \in Jobs} \ {0}

InvoicesTypeOK ==
    /\ counter \in 0..Cardinality(Jobs)
    /\ invoice \in [Jobs -> [number : 0..Cardinality(Jobs), paid : BOOLEAN]]

\* Concurrent requests, for the same job or for others, and requests that die
\* half-way leave no gap in the numbers and use none twice.
Consecutive ==
    /\ Numbers = 1..counter
    /\ Cardinality(Numbers) = Cardinality({j \in Jobs : invoice[j] # NoInvoice})
=============================================================================
