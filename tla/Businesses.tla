----------------------------- MODULE Businesses -----------------------------
(***************************************************************************)
(* businesses.service, domains.service, the domain worker and the account  *)
(* events of the Stripe webhook: the row of a business, which its settings *)
(* form, its domain page, a poller and Stripe all write.                   *)
(***************************************************************************)
EXTENDS Integers, FiniteSets

CONSTANTS Shops,         \* rows of the Business table there may be
          Names,         \* host names
          NoName,
          Currencies,
          Forms,         \* requests that may run at once
          Worker,        \* the domain verification worker
          MaxTokens,     \* bound: verification tokens drawn, accounts opened
          MaxNotices     \* bound: account events waiting

ASSUME BusinessesAssumption ==
    /\ NoName \notin Names /\ Worker \notin Forms /\ {MaxTokens, MaxNotices} \subseteq Nat

VARIABLES
    biz,        \* the Business table
    taken,      \* currencies in which a business has been paid
    dns,        \* tokens in the TXT records, by name
    drawn,      \* tokens drawn and Stripe accounts opened
    enabled,    \* Stripe: accounts that may charge
    notices,    \* Stripe: account.updated events not delivered yet
    form,       \* what each request, and the worker, is doing
    proved,     \* history: names and tokens found together in the DNS
    crossed     \* history: what changed behind a check, by business

bizVars == <<biz, taken, dns, drawn, enabled, notices, form, proved, crossed>>

Collections == {"ONLINE_CARD", "MANUAL_OFFLINE", "BOTH"}
Ids   == 0..MaxTokens       \* 0 is none
Biz   == [exists : BOOLEAN, top : BOOLEAN, active : BOOLEAN, currency : Currencies, collects : Collections,
          account : Ids, charges : BOOLEAN, domain : Names \cup {NoName},
          status : {"NONE", "PENDING", "VERIFIED", "FAILED"}, token : Ids]
Aspects == {"domain", "currency", "charges"}
Calm  == [pc |-> "idle"]
Hands == Forms \cup {Worker}

BizInit ==
    /\ \E c \in Currencies, first \in Shops :
         biz = [f \in Shops |->
                  [exists |-> f = first, top |-> TRUE, active |-> TRUE, currency |-> c, collects |-> "BOTH",
                   account |-> 0, charges |-> FALSE, domain |-> NoName, status |-> "NONE", token |-> 0]]
    /\ taken = [f \in Shops |-> {}]
    /\ dns = [n \in Names |-> {}]
    /\ drawn = [token |-> 0, account |-> 0]
    /\ enabled = {} /\ notices = {} /\ proved = {}
    /\ form = [h \in Hands |-> Calm]
    /\ crossed = [f \in Shops |-> {}]

Seen          == [f \in Shops |-> [domain |-> biz[f].domain, token |-> biz[f].token]]
Is(h, pc)     == form[h].pc = pc
Does(h, work) == form' = [form EXCEPT ![h] = work]
Rests(h)      == Does(h, Calm)
Free(n, f)    == \A g \in Shops \ {f} : biz[g].domain # n     \* customDomain is unique
Crossing(f, what, really) == crossed' = [crossed EXCEPT ![f] = IF really THEN @ \cup {what} ELSE @ \ {what}]

\* Requests that have read the row of f and will write by what they read.
Reading(f, pcs) == \E h \in Hands : form[h].pc \in pcs /\ f \in form[h].rows

-----------------------------------------------------------------------------
(* Custom domains *)

Named(row, n, t) == [row EXCEPT !.domain = n, !.token = t, !.status = "PENDING"]

\* setDomain: a new name, or the same again, has a new token to be found.
SetDomain(f, n) ==
    /\ biz[f].exists /\ Free(n, f) /\ drawn.token < MaxTokens
    /\ drawn' = [drawn EXCEPT !.token = @ + 1]
    /\ biz' = [biz EXCEPT ![f] = Named(@, n, drawn.token + 1)]
    /\ Crossing(f, "domain", Reading(f, {"look", "found"}))
    /\ UNCHANGED <<taken, dns, enabled, notices, form, proved>>

RemoveDomain(f) ==
    /\ biz[f].exists /\ biz[f].domain # NoName
    /\ biz' = [biz EXCEPT ![f] = [@ EXCEPT !.domain = NoName, !.status = "NONE", !.token = 0]]
    /\ Crossing(f, "domain", Reading(f, {"look", "found"}))
    /\ UNCHANGED <<taken, dns, drawn, enabled, notices, form, proved>>

\* The settings form writes customDomain and leaves the status.
PatchDomain(f, n) ==
    /\ biz[f].exists /\ n # biz[f].domain /\ (n # NoName => Free(n, f))
    /\ biz' = [biz EXCEPT ![f].domain = n]
    /\ Crossing(f, "domain", TRUE)
    /\ UNCHANGED <<taken, dns, drawn, enabled, notices, form, proved>>

\* The owner of a name publishes the token of whoever has set it.
Publish(f) ==
    /\ biz[f].domain # NoName /\ biz[f].token # 0
    /\ dns' = [dns EXCEPT ![biz[f].domain] = @ \cup {biz[f].token}]
    /\ UNCHANGED <<biz, taken, drawn, enabled, notices, form, proved, crossed>>

\* verifyNow and a tick of the worker read the rows ...
VerifyNow(h, f) ==
    /\ h \in Forms /\ Is(h, "idle") /\ biz[f].domain # NoName
    /\ Does(h, [pc |-> "look", rows |-> {f}, read |-> Seen])
    /\ UNCHANGED <<biz, taken, dns, drawn, enabled, notices, proved, crossed>>

Tick ==
    /\ Is(Worker, "idle") /\ \E f \in Shops : biz[f].status = "PENDING"
    /\ Does(Worker, [pc |-> "look", rows |-> {f \in Shops : biz[f].status = "PENDING"}, read |-> Seen])
    /\ UNCHANGED <<biz, taken, dns, drawn, enabled, notices, proved, crossed>>

\* Mutant: any token at the name will do.
Owns_AnyToken(row) == row.domain # NoName /\ dns[row.domain] # {}

\* checkOwnership.
Owns(row) == row.domain # NoName /\ row.token # 0 /\ row.token \in dns[row.domain]

\* ... ask the DNS about what they read ...
Look(h, f) ==
    /\ Is(h, "look") /\ f \in form[h].rows
    /\ LET row == form[h].read[f]
           ok  == Owns(row)
           rest == form[h].rows \ {f}
       IN /\ proved' = IF ok /\ row.token \in dns[row.domain] THEN proved \cup {<<row.domain, row.token>>} ELSE proved
          /\ IF ok \/ h # Worker
             THEN Does(h, [pc |-> "found", rows |-> form[h].rows, read |-> form[h].read, at |-> f, ok |-> ok])
             ELSE IF rest = {} THEN Rests(h) ELSE Does(h, [form[h] EXCEPT !.rows = rest])
    /\ UNCHANGED <<biz, taken, dns, drawn, enabled, notices, crossed>>

\* ... and write to whatever the row has become.
Found(h) ==
    /\ Is(h, "found")
    /\ LET f == form[h].at
           rest == form[h].rows \ {f}
       IN /\ biz' = [biz EXCEPT ![f].status = IF form[h].ok THEN "VERIFIED" ELSE "FAILED"]
          /\ IF rest = {} THEN Rests(h) ELSE Does(h, [pc |-> "look", rows |-> rest, read |-> form[h].read])
    /\ UNCHANGED <<taken, dns, drawn, enabled, notices, proved, crossed>>

\* resolvePublic.
ResolvesTo(n, f) == biz[f].domain = n /\ biz[f].active /\ biz[f].status = "VERIFIED"

-----------------------------------------------------------------------------
(* The settings form: updateBusiness reads, checks, and writes *)

\* Mutant: the currency may change at any time.
MayChange_AnyTime(f, c) == TRUE

\* No payment has been recorded in another currency.
MayChange(f, c) == c = biz[f].currency \/ taken[f] = {}

\* Card only needs charges, unless it was the setting before.
MayCollect(f, how) == how = "ONLINE_CARD" /\ biz[f].collects # how => biz[f].charges

\* A form may send one of the two fields or both.
Patches == [currency : Currencies] \cup [collects : Collections]
             \cup [currency : Currencies, collects : Collections]

UpdateBusiness(h, f, patch) ==
    /\ h \in Forms /\ Is(h, "idle") /\ biz[f].exists
    /\ "currency" \in DOMAIN patch => MayChange(f, patch.currency)
    /\ "collects" \in DOMAIN patch => MayCollect(f, patch.collects)
    /\ Does(h, [pc |-> "save", rows |-> {f}, patch |-> patch])
    /\ UNCHANGED <<biz, taken, dns, drawn, enabled, notices, proved, crossed>>

Save(h) ==
    /\ Is(h, "save")
    /\ LET sent == form[h].patch
       IN \E f \in form[h].rows :
            biz' = [biz EXCEPT ![f] = [x \in DOMAIN @ |-> IF x \in DOMAIN sent THEN sent[x] ELSE @[x]]]
    /\ Rests(h)
    /\ UNCHANGED <<taken, dns, drawn, enabled, notices, proved, crossed>>

\* A customer pays a booking of the business.
Paid(f) ==
    /\ biz[f].exists /\ biz[f].currency \notin taken[f]
    /\ taken' = [taken EXCEPT ![f] = @ \cup {biz[f].currency}]
    /\ Crossing(f, "currency", Reading(f, {"save"}) \/ "currency" \in crossed[f])
    /\ UNCHANGED <<biz, dns, drawn, enabled, notices, form, proved>>

\* createLocation, below a business that is no location itself.
CreateLocation(parent, f) ==
    /\ biz[parent].exists /\ biz[parent].top /\ ~biz[f].exists
    /\ biz' = [biz EXCEPT ![f] = [@ EXCEPT !.exists = TRUE, !.top = FALSE]]
    /\ UNCHANGED <<taken, dns, drawn, enabled, notices, form, proved, crossed>>

\* superAdmin.setBusinessActive.
SetBusinessActive(f, on) ==
    /\ biz[f].exists /\ biz[f].active # on
    /\ biz' = [biz EXCEPT ![f].active = on]
    /\ UNCHANGED <<taken, dns, drawn, enabled, notices, form, proved, crossed>>

-----------------------------------------------------------------------------
(* The business's account at Stripe *)

\* createConnectAccountAndLink: a business without an account is opened one,
\* whose id is written afterwards.
StartOnboarding(h, f) ==
    /\ h \in Forms /\ Is(h, "idle") /\ biz[f].exists /\ biz[f].account = 0 /\ drawn.account < MaxTokens
    /\ drawn' = [drawn EXCEPT !.account = @ + 1]
    /\ Does(h, [pc |-> "link", rows |-> {f}, account |-> drawn.account + 1])
    /\ UNCHANGED <<biz, taken, dns, enabled, notices, proved, crossed>>

StoreAccount(h) ==
    /\ Is(h, "link")
    /\ \E f \in form[h].rows : biz' = [biz EXCEPT ![f].account = form[h].account]
    /\ Rests(h)
    /\ UNCHANGED <<taken, dns, drawn, enabled, notices, proved, crossed>>

\* Stripe lets an account charge, or stops it, and says so.
AccountChanges(a) ==
    /\ a \in 1..drawn.account /\ Cardinality(notices) < MaxNotices
    /\ enabled' = IF a \in enabled THEN enabled \ {a} ELSE enabled \cup {a}
    /\ notices' = notices \cup {[account |-> a, charges |-> a \notin enabled]}
    /\ UNCHANGED <<biz, taken, dns, drawn, form, proved, crossed>>

\* The row of f learns whether it may charge.  Losing it, or learning it while
\* a form is being saved, leaves a setting that was checked before.
Charging(f, on) ==
    /\ biz' = [biz EXCEPT ![f].charges = on]
    /\ Crossing(f, "charges", ~on /\ (biz[f].collects = "ONLINE_CARD" \/ Reading(f, {"save"})
                                      \/ "charges" \in crossed[f]))

\* account.updated, for the business that has stored the account; delivered in
\* any order.  account.application.deauthorized is the same with no charges.
AccountUpdated(e) ==
    /\ e \in notices /\ notices' = notices \ {e}
    /\ LET theirs == {f \in Shops : biz[f].account = e.account}
       IN IF theirs = {} THEN UNCHANGED <<biz, crossed>> ELSE \E f \in theirs : Charging(f, e.charges)
    /\ UNCHANGED <<taken, dns, drawn, enabled, form, proved>>

\* refreshStripeConnectStatus asks Stripe, then writes.
RefreshStatus(h, f) ==
    /\ h \in Forms /\ Is(h, "idle") /\ biz[f].account # 0
    /\ Does(h, [pc |-> "status", rows |-> {f}, charges |-> biz[f].account \in enabled])
    /\ UNCHANGED <<biz, taken, dns, drawn, enabled, notices, proved, crossed>>

StoreStatus(h) ==
    /\ Is(h, "status") /\ Rests(h)
    /\ \E f \in form[h].rows : Charging(f, form[h].charges)
    /\ UNCHANGED <<taken, dns, drawn, enabled, notices, proved>>

-----------------------------------------------------------------------------

BizNext ==
    \/ Tick
    \/ \E a \in 1..drawn.account : AccountChanges(a)
    \/ \E e \in notices : AccountUpdated(e)
    \/ \E h \in Hands : Found(h) \/ (\E f \in Shops : Look(h, f))
    \/ \E h \in Forms : Save(h) \/ StoreAccount(h) \/ StoreStatus(h)
    \/ \E f \in Shops :
         \/ RemoveDomain(f) \/ Publish(f) \/ Paid(f)
         \/ \E g \in Shops : CreateLocation(g, f)
         \/ \E on \in BOOLEAN : SetBusinessActive(f, on)
         \/ \E n \in Names : SetDomain(f, n)
         \/ \E n \in Names \cup {NoName} : PatchDomain(f, n)
         \/ \E h \in Forms :
              \/ VerifyNow(h, f) \/ StartOnboarding(h, f) \/ RefreshStatus(h, f)
              \/ \E patch \in Patches : UpdateBusiness(h, f, patch)

-----------------------------------------------------------------------------
(* Properties *)

BizTypeOK ==
    /\ biz \in [Shops -> Biz]
    /\ taken \in [Shops -> SUBSET Currencies] /\ dns \in [Names -> SUBSET Ids]
    /\ drawn \in [token : Ids, account : Ids] /\ enabled \subseteq Ids
    /\ crossed \in [Shops -> SUBSET Aspects]
    /\ \A n \in Names : Cardinality({f \in Shops : biz[f].domain = n}) <= 1

\* Traffic for a custom domain is routed only to a business whose token was
\* found at that name, unless the name was changed in the settings form or
\* under a check that was running (domains.service.js:99-140, 149-162).
RoutedIsProved ==
    \A f \in Shops, n \in Names :
        ResolvesTo(n, f) => <<n, biz[f].token>> \in proved \/ "domain" \in crossed[f]

\* A business is not paid in two currencies, unless the first payment arrived
\* between the count and the update (businesses.service.js:141-152).
OneCurrency == \A f \in Shops : Cardinality(taken[f]) <= 1 \/ "currency" \in crossed[f]

\* A business that takes cards only can charge them, unless Stripe withdrew the
\* charges later or while the form was saved (businesses.service.js:209-233).
CustomersCanPay ==
    \A f \in Shops : biz[f].collects = "ONLINE_CARD" => biz[f].charges \/ "charges" \in crossed[f]

\* What the settings form has checked stays true but for what overtakes it.
SettingsHold == OneCurrency /\ CustomersCanPay
=============================================================================
