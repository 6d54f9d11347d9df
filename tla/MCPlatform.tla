----------------------------- MODULE MCPlatform -----------------------------
(***************************************************************************)
(* Platform on a small instance.  A behaviour looks at one subject of      *)
(* Subjects, and only the component it belongs to moves.                   *)
(***************************************************************************)
EXTENDS Platform, TLC

CONSTANT Subjects

VARIABLE subject

IdentitySymmetry == Permutations(Requests) \cup Permutations(Callers)
CommerceSymmetry == Permutations(Names) \cup Permutations(Forms) \cup Permutations(Desks)

Founder == CHOOSE p \in People : TRUE
Shop    == CHOOSE f \in Shops : TRUE
Starter == CHOOSE x \in Plans : TRUE
Currency == CHOOSE c \in Currencies : TRUE
Home    == CHOOSE f \in Parents : TRUE

Nobody(p) == person[p].version = NoAccount

Alone(p) ==
    /\ \A q \in People \ {p} : Nobody(q)
    /\ \A f \in Firms : cleaner[f][p] = "NONE" /\ (f # Home => member[f][p].role = "NONE")

\* One person at home, whose sessions are renewed.
OnRefresh ==
    /\ Alone(Founder) /\ person[Founder].version < MaxVersion /\ ~person[Founder].secret
    /\ \A l \in Links : link[l] = Unsent

\* The same, with links and passwords.
OnPasswords ==
    /\ Alone(Founder) /\ ~person[Founder].secret /\ person[Founder].active

\* The same, with the second factor.
OnTwoFactor ==
    /\ Alone(Founder) /\ Len(sessions) < MaxSessions /\ person[Founder].active
    /\ \A l \in Links : link[l] = Unsent

\* Another one, with a link and perhaps a firm of his own, at the founder's.
OnTeam ==
    /\ \A p \in People : person[p].version < MaxVersion /\ ~person[p].secret /\ person[p].active
    /\ \A l \in Links : link[l] # Unsent => link[l].who # Founder
    /\ Len(sessions) < MaxSessions
    /\ \A i \in DOMAIN sessions : sessions[i].who # Founder
    /\ \A r \in Requests : At(r, "choose") => req[r].who # Founder
    /\ \A f \in Firms : cleaner[f][Founder] = "NONE" /\ (f # Home => member[f][Founder].role = "NONE")
    /\ \A f \in Firms \ {Home}, p \in People : cleaner[f][p] = "NONE"

\* One purpose at a time.
OnCodes ==
    \A k, l \in Purposes : k # l =>
        /\ {codes[k], codes[l]} \cap {{}} # {} /\ failed[k] * failed[l] = 0
        /\ \A c \in Callers : ~(caller[c] # Away /\ caller[c].for = k /\ (failed[l] > 0 \/ codes[l] # {}))

OneShop        == \A f, g \in Shops : biz[f].exists /\ biz[g].exists => f = g
DomainsStill   == \A f \in Shops : biz[f].domain = NoName
CurrencyStill  == \A f \in Shops : biz[f].active /\ biz[f].currency = Currency /\ taken[f] = {}
StripeStill    == drawn.account = 0 /\ \A f \in Shops : biz[f].collects # "ONLINE_CARD"

\* One check at a time, and no settings but the name.
OnDomains ==
    /\ CurrencyStill /\ StripeStill
    /\ Cardinality({h \in Hands : form[h] # Calm}) <= 1
    /\ \A h \in Hands : form[h].pc # "save"

OnSettings == OneShop /\ DomainsStill /\ StripeStill
OnStripe   == OneShop /\ DomainsStill /\ CurrencyStill

\* Changes of plan, within a day ...
OnPlan == today = 0 /\ Len(subs) <= 1 /\ losses = 0 /\ posted < MaxPosted

\* ... and the days, on one plan, with one subscription and one request at a time.
OnSubscription ==
    /\ Cardinality({d \in Desks : ~Serves(d, "idle")}) <= 1
    /\ \A c \in checkouts : c.plan = Starter
    /\ \A i \in DOMAIN subs : subs[i].plan = Starter /\ (i < Len(subs) => ~Living(i))
    /\ Len(subs) > 1 => subs[1].trialEnd = 0
    /\ \A d \in Desks : Serves(d, "call") \/ Serves(d, "write") => desk[d].op = "cancel"

Chosen == UNCHANGED subject

MCInit ==
    /\ Init /\ subject \in Subjects
    /\ biz[Shop].exists /\ biz[Shop].currency = Currency
    /\ HasRow => subject \in {"plan", "subscription"} /\ row.plan = Starter

MCNext ==
    \/ subject = "refresh"      /\ AccountsStep      /\ OnRefresh'      /\ Chosen
    \/ subject = "passwords"    /\ AccountsStep      /\ OnPasswords'    /\ Chosen
    \/ subject = "twofactor"    /\ AccountsStep      /\ OnTwoFactor'    /\ Chosen
    \/ subject = "team"         /\ AccountsStep      /\ OnTeam'         /\ Chosen
    \/ subject = "codes"        /\ CodesStep         /\ OnCodes'        /\ Chosen
    \/ subject = "domains"      /\ BusinessesStep    /\ OnDomains'      /\ Chosen
    \/ subject = "settings"     /\ BusinessesStep    /\ OnSettings'     /\ Chosen
    \/ subject = "stripe"       /\ BusinessesStep    /\ OnStripe'       /\ Chosen
    \/ subject = "plan"         /\ SubscriptionsStep /\ OnPlan'         /\ Chosen
    \/ subject = "subscription" /\ SubscriptionsStep /\ OnSubscription' /\ Chosen

MCSpec == MCInit /\ [][MCNext]_<<vars, subject>>
=============================================================================
