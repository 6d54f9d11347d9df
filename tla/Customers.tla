----------------------------- MODULE Customers -----------------------------
(***************************************************************************)
(* customers.service: the record of one customer, and its erasure.  The    *)
(* record is spread over tables: the customer, the addresses, a recurring  *)
(* schedule, an entry on the waitlist, the bookings with their address and *)
(* a login for the portal.  A request looks at the customer and writes     *)
(* later; nothing stops it when the customer is erased in between, and an  *)
(* erased customer can be edited like any other.  How numbers are matched  *)
(* is in Intake, how codes are answered in Codes.                          *)
(***************************************************************************)
EXTENDS Jobs

CONSTANT Addresses   \* rows of CustomerAddress there may be

VARIABLES
    person,     \* the Customer row
    address,    \* the CustomerAddress table
    schedule,   \* the status of the RecurringSchedule
    contact,    \* whether a WaitlistEntry says how to reach the customer
    site,       \* whether a Booking row exists, and says where the home is
    portal,     \* the User row of the portal, and its OtpCode
    agent,      \* what each request, or the recurring worker, is doing
    touched,    \* history: the record of the erased customer was written to
    caught      \* history: bookings made while the customer was being erased

customerVars == <<person, address, schedule, contact, site, portal, agent, touched, caught>>

Marks == {"primary", "other", "kept"}   \* isPrimary in the body: true, false, absent

CustomersInit ==
    /\ person = [erased |-> FALSE, known |-> TRUE, phone |-> TRUE, referral |-> FALSE]
    /\ address = [a \in Addresses |-> "none"]
    /\ schedule \in {"none", "ACTIVE"} /\ contact \in BOOLEAN
    /\ site \in [Jobs -> {"none", "known"}]
    /\ portal = "none"
    /\ agent = [r \in Clerks |-> Idle]
    /\ touched = FALSE /\ caught = {}

AgentTo(r, work) == agent' = [agent EXCEPT ![r] = work]
Agent(r, p)      == agent[r].pc = p
Kept(a)          == address[a] \in {"other", "primary"}
Upcoming(j)      == site[j] # "none" /\ job[j].status = "OPEN"

\* An answer to the request, or its death.
Leaves(r) ==
    /\ AgentTo(r, Idle)
    /\ UNCHANGED <<jobVars, person, address, schedule, contact, site, portal, touched, caught>>

\* A write to the record.  It is noted once the customer has been erased.
Writes == /\ touched' = (touched \/ person.erased)
          /\ UNCHANGED <<jobVars, schedule, contact, caught>>

\* getCustomer, which every handler starts with: a customer without a referral
\* code gets one, erased or not.
Open(r, next) ==
    /\ agent[r] = Idle
    /\ person' = [person EXCEPT !.referral = TRUE]
    /\ AgentTo(r, next)
    /\ UNCHANGED <<jobVars, address, schedule, contact, site, portal, touched, caught>>

EditCustomer(r)      == Open(r, [pc |-> "edit"])
AddAddress(r, mark)  == Open(r, [pc |-> IF mark = "primary" THEN "clear" ELSE "create", at |-> {}, mark |-> mark])
DeleteCustomer(r)    == Open(r, [pc |-> "count"])

\* The patch is written, unless another customer has the number.
WriteCustomer(r) ==
    /\ Agent(r, "edit")
    /\ \E number \in BOOLEAN : person' = [person EXCEPT !.known = TRUE, !.phone = @ \/ number]
    /\ AgentTo(r, Idle) /\ Writes
    /\ UNCHANGED <<address, site, portal>>

NumberTaken(r) == Agent(r, "edit") /\ Leaves(r)

-----------------------------------------------------------------------------
(* Addresses *)

FindAddress(r, a, next) ==
    /\ agent[r] = Idle /\ Kept(a)
    /\ AgentTo(r, next)
    /\ UNCHANGED <<jobVars, person, address, schedule, contact, site, portal, touched, caught>>

UpdateAddress(r, a, mark) ==
    FindAddress(r, a, [pc |-> IF mark = "primary" THEN "clear" ELSE "change", at |-> {a}, mark |-> mark])

DeleteAddress(r, a) == FindAddress(r, a, [pc |-> "remove", at |-> {a}])

\* The new primary address is written in a statement of its own.
ClearPrimary(r) ==
    /\ Agent(r, "clear")
    /\ address' = [a \in Addresses |-> IF address[a] = "primary" THEN "other" ELSE address[a]]
    /\ AgentTo(r, [agent[r] EXCEPT !.pc = IF agent[r].at = {} THEN "create" ELSE "change"])
    /\ UNCHANGED <<jobVars, person, schedule, contact, site, portal, touched, caught>>

CreateAddress(r, a) ==
    /\ Agent(r, "create") /\ address[a] = "none"
    /\ address' = [address EXCEPT ![a] = IF agent[r].mark = "primary" THEN "primary" ELSE "other"]
    /\ AgentTo(r, Idle) /\ Writes
    /\ UNCHANGED <<person, site, portal>>

ChangeAddress(r) ==
    /\ Agent(r, "change")
    /\ \E a \in agent[r].at :
        /\ Kept(a)
        /\ address' = [address EXCEPT ![a] = IF agent[r].mark = "kept" THEN @ ELSE agent[r].mark]
        /\ AgentTo(r, Idle) /\ Writes
        /\ UNCHANGED <<person, site, portal>>

RemoveAddress(r) ==
    /\ Agent(r, "remove")
    /\ \E a \in agent[r].at :
        /\ Kept(a)
        /\ address' = [address EXCEPT ![a] = "deleted"]
        /\ AgentTo(r, Idle) /\ Writes
        /\ UNCHANGED <<person, site, portal>>

\* The row has gone meanwhile: the update fails.
AddressGone(r) ==
    /\ Agent(r, "change") \/ Agent(r, "remove")
    /\ \E a \in agent[r].at : ~Kept(a)
    /\ Leaves(r)

-----------------------------------------------------------------------------
(* What others write about a customer *)

\* createBooking, with the address of the form.
BookForCustomer(r, j) ==
    /\ agent[r] = Idle /\ site[j] = "none"
    /\ site' = [site EXCEPT ![j] = "known"]
    /\ touched' = (touched \/ person.erased)
    /\ caught' = IF \E s \in Clerks : Agent(s, "erase") THEN caught \cup {j} ELSE caught
    /\ UNCHANGED <<jobVars, person, address, schedule, contact, portal, agent>>

\* The recurring worker reads its schedules with the addresses ...
LoadSchedule(r) ==
    /\ agent[r] = Idle /\ schedule = "ACTIVE" /\ \E a \in Addresses : Kept(a)
    /\ AgentTo(r, [pc |-> "visit"])
    /\ UNCHANGED <<jobVars, person, address, schedule, contact, site, portal, touched, caught>>

\* ... and makes the visits from what it has read.
MakeVisit(r, j) ==
    /\ Agent(r, "visit") /\ site[j] = "none"
    /\ site' = [site EXCEPT ![j] = "known"]
    /\ touched' = (touched \/ person.erased)
    /\ caught' = IF \E s \in Clerks : Agent(s, "erase") THEN caught \cup {j} ELSE caught
    /\ AgentTo(r, Idle)
    /\ UNCHANGED <<jobVars, person, address, schedule, contact, portal>>

\* requestAccess finds the customer by the number, makes the portal login ...
FindByPhone(r) ==
    /\ agent[r] = Idle /\ person.phone
    /\ AgentTo(r, [pc |-> "login"])
    /\ UNCHANGED <<jobVars, person, address, schedule, contact, site, portal, touched, caught>>

PortalUser(r) ==
    /\ Agent(r, "login")
    /\ portal' = IF portal = "none" THEN "user" ELSE portal
    /\ AgentTo(r, [pc |-> "code"]) /\ Writes
    /\ UNCHANGED <<person, address, site>>

\* ... and a code for it, unless the login has gone.
PortalCode(r) ==
    /\ Agent(r, "code")
    /\ portal' = IF portal = "none" THEN "none" ELSE "code"
    /\ AgentTo(r, Idle) /\ Writes
    /\ UNCHANGED <<person, address, site>>

-----------------------------------------------------------------------------
(* Erasure *)

\* Refused while there are upcoming bookings; the count is not repeated.
CountUpcoming(r) ==
    /\ Agent(r, "count")
    /\ AgentTo(r, IF \E j \in Jobs : Upcoming(j) THEN Idle ELSE [pc |-> "erase"])
    /\ UNCHANGED <<jobVars, person, address, schedule, contact, site, portal, touched, caught>>

\* Mutant: where the home is stays on the bookings that are not upcoming.
Redacted_Upcoming == [j \in Jobs |-> IF Upcoming(j) THEN "redacted" ELSE site[j]]

Redacted == [j \in Jobs |-> IF site[j] = "none" THEN "none" ELSE "redacted"]

\* anonymizeCustomer, in one transaction.
Anonymize(r) ==
    /\ Agent(r, "erase")
    /\ address' = [a \in Addresses |-> IF address[a] = "none" THEN "none" ELSE "deleted"]
    /\ schedule' = IF schedule = "none" THEN "none" ELSE "CANCELLED"
    /\ contact' = FALSE
    /\ site' = Redacted
    /\ person' = [erased |-> TRUE, known |-> FALSE, phone |-> FALSE, referral |-> FALSE]
    /\ portal' = "none"
    /\ touched' = FALSE
    /\ AgentTo(r, Idle)
    /\ UNCHANGED <<jobVars, caught>>

AgentDies(r) ==
    /\ agent[r] # Idle /\ Fault
    /\ AgentTo(r, Idle)
    /\ UNCHANGED <<job, person, address, schedule, contact, site, portal, touched, caught>>

CustomersNext ==
    \E r \in Clerks :
       \/ EditCustomer(r) \/ WriteCustomer(r) \/ NumberTaken(r)
       \/ \E m \in Marks : AddAddress(r, m) \/ \E a \in Addresses : UpdateAddress(r, a, m)
       \/ \E a \in Addresses : DeleteAddress(r, a) \/ CreateAddress(r, a)
       \/ ClearPrimary(r) \/ ChangeAddress(r) \/ RemoveAddress(r) \/ AddressGone(r)
       \/ \E j \in Jobs : BookForCustomer(r, j) \/ MakeVisit(r, j)
       \/ LoadSchedule(r) \/ FindByPhone(r) \/ PortalUser(r) \/ PortalCode(r)
       \/ DeleteCustomer(r) \/ CountUpcoming(r) \/ Anonymize(r) \/ AgentDies(r)

-----------------------------------------------------------------------------
(* Properties *)

CustomersTypeOK ==
    /\ person \in [erased : BOOLEAN, known : BOOLEAN, phone : BOOLEAN, referral : BOOLEAN]
    /\ address \in [Addresses -> {"none", "other", "primary", "deleted"}]
    /\ schedule \in {"none", "ACTIVE", "CANCELLED"} /\ contact \in BOOLEAN
    /\ site \in [Jobs -> {"none", "known", "redacted"}]
    /\ portal \in {"none", "user", "code"}
    /\ touched \in BOOLEAN /\ caught \subseteq Jobs

NoTrace ==
    /\ ~person.known /\ ~person.phone /\ ~contact /\ schedule # "ACTIVE" /\ portal = "none"
    /\ \A a \in Addresses : ~Kept(a)
    /\ \A j \in Jobs : site[j] # "known"

\* anonymizeCustomer removes everything that identifies the customer, however
\* the requests about the customer interleave and die: what there is of an
\* erased customer was written after the erasure, by a request that did not
\* look again.  A visit still to come was booked while the erasure was under
\* way, after the bookings had been counted.
ErasedIsGone ==
    person.erased /\ ~touched => NoTrace /\ {j \in Jobs : Upcoming(j)} \subseteq caught
=============================================================================
