------------------------------ MODULE Tickets ------------------------------
(***************************************************************************)
(* supportTickets.service: tickets, opened by the staff or from the form   *)
(* on the website, worked on by the staff and by the platform's own        *)
(* people.  A reply reads the ticket, sends a mail, and only then decides  *)
(* from what it has read whether the ticket goes back in progress.  What   *)
(* is mailed or notified is not looked at: none of it fails a request.     *)
(***************************************************************************)
EXTENDS Jobs

CONSTANTS TicketIds,    \* rows of SupportTicket there may be
          DailyLimit,   \* WEBSITE_TICKETS_PER_EMAIL_PER_DAY
          MaxReplies    \* bound: messages on a ticket

ASSUME TicketsAssumption == DailyLimit \in Nat /\ MaxReplies \in Nat

VARIABLES
    ticket,   \* the SupportTicket table; the website's are of one visitor and one day
    replies,  \* SupportTicketMessage rows, by ticket
    helper    \* what each request is doing

ticketVars == <<ticket, replies, helper>>

Statuses == {"OPEN", "IN_PROGRESS", "WAITING_ON_CUSTOMER", "RESOLVED", "CLOSED"}
Done     == {"RESOLVED", "CLOSED"}
Unsaid   == "unsaid"      \* a status the body leaves out
NoTicket == [status |-> "none", resolved |-> FALSE, website |-> FALSE]

TicketsInit ==
    /\ ticket = [t \in TicketIds |-> NoTicket]
    /\ replies = [t \in TicketIds |-> 0]
    /\ helper = [r \in Clerks |-> Idle]

HelperTo(r, work) == helper' = [helper EXCEPT ![r] = work]
Helps(r, p)       == helper[r].pc = p
Exists(t)         == ticket[t].status \notin {"none", "deleted"}
Free(t)           == ticket[t].status = "none"

Opened(site) == [status |-> "OPEN", resolved |-> FALSE, website |-> site]

\* createTicket: the customer and the booking it names are the business's own.
CreateTicket(r, t) ==
    /\ helper[r] = Idle /\ Free(t)
    /\ ticket' = [ticket EXCEPT ![t] = Opened(FALSE)]
    /\ UNCHANGED <<jobVars, replies, helper>>

-----------------------------------------------------------------------------
(* The form on the website *)

Recent == Cardinality({t \in TicketIds : Exists(t) /\ ticket[t].website})

\* The messages of the day are counted, the ticket is written later.
SubmitForm(r) ==
    /\ helper[r] = Idle /\ Recent < DailyLimit
    /\ HelperTo(r, [pc |-> "form"])
    /\ UNCHANGED <<jobVars, ticket, replies>>

CreateWebsiteTicket(r, t) ==
    /\ Helps(r, "form") /\ Free(t)
    /\ ticket' = [ticket EXCEPT ![t] = Opened(TRUE)]
    /\ HelperTo(r, Idle)
    /\ UNCHANGED <<jobVars, replies>>

-----------------------------------------------------------------------------
(* Work on a ticket *)

\* Every handler reads the ticket first.
ReadTicket(r, t, work) ==
    /\ helper[r] = Idle /\ Exists(t)
    /\ HelperTo(r, [pc |-> work, on |-> t, was |-> ticket[t].status])
    /\ UNCHANGED <<jobVars, ticket, replies>>

\* The ticket has been deleted meanwhile: the write fails.
TicketGone(r) ==
    /\ helper[r] # Idle /\ ~Helps(r, "form") /\ ~Exists(helper[r].on)
    /\ HelperTo(r, Idle)
    /\ UNCHANGED <<jobVars, ticket, replies>>

Put(r, work, row) ==
    /\ Helps(r, work) /\ Exists(helper[r].on)
    /\ ticket' = [ticket EXCEPT ![helper[r].on] = row]
    /\ HelperTo(r, Idle)
    /\ UNCHANGED <<jobVars, replies>>

Row(r) == ticket[helper[r].on]

\* updateTicket: the time of resolution is set, and stays when it is reopened.
UpdateTicket(r, status) ==
    Put(r, "update", [Row(r) EXCEPT !.status = IF status = Unsaid THEN @ ELSE status,
                                    !.resolved = @ \/ status \in Done])

\* updateTicketStatus of the platform: the status and no more.
UpdateTicketStatus(r, status) == Put(r, "admin", [Row(r) EXCEPT !.status = status])

DeleteTicket(r) == Put(r, "delete", [Row(r) EXCEPT !.status = "deleted"])

\* addMessage: the message, once the mail is out ...
AddMessage(r) ==
    /\ Helps(r, "reply") \/ Helps(r, "note")
    /\ Exists(helper[r].on) /\ replies[helper[r].on] < MaxReplies
    /\ replies' = [replies EXCEPT ![helper[r].on] = @ + 1]
    /\ HelperTo(r, [helper[r] EXCEPT !.pc = IF @ = "reply" THEN "bump" ELSE "touch"])
    /\ UNCHANGED <<jobVars, ticket>>

\* Mutant: a reply puts the ticket in progress whatever its status was.
MovesOn_Always(r) == TRUE

\* ... and the ticket in progress, if it was waiting when it was read.
MovesOn(r) == helper[r].was = "WAITING_ON_CUSTOMER"

Bump(r)  == Put(r, "bump", [Row(r) EXCEPT !.status = IF MovesOn(r) THEN "IN_PROGRESS" ELSE @])
Touch(r) == Put(r, "touch", Row(r))

HelperDies(r) ==
    /\ helper[r] # Idle /\ Fault
    /\ HelperTo(r, Idle)
    /\ UNCHANGED <<job, ticket, replies>>

TicketsNext ==
    \E r \in Clerks :
       \/ \E t \in TicketIds : \/ CreateTicket(r, t) \/ CreateWebsiteTicket(r, t)
                               \/ \E w \in {"update", "admin", "delete", "reply", "note"} : ReadTicket(r, t, w)
       \/ \E s \in Statuses \cup {Unsaid} : UpdateTicket(r, s)
       \/ \E s \in Statuses : UpdateTicketStatus(r, s)
       \/ SubmitForm(r) \/ TicketGone(r) \/ DeleteTicket(r)
       \/ AddMessage(r) \/ Bump(r) \/ Touch(r) \/ HelperDies(r)

-----------------------------------------------------------------------------
(* Properties *)

TicketsTypeOK ==
    /\ ticket \in [TicketIds -> [status : Statuses \cup {"none", "deleted"}, resolved : BOOLEAN, website : BOOLEAN]]
    /\ replies \in [TicketIds -> 0..MaxReplies]

\* The step is the last write of a request of this kind to the ticket.
WrittenBy(r, work, t) == Helps(r, work) /\ helper[r].on = t /\ helper'[r] = Idle

\* A ticket that was resolved or closed is not reopened by what is said on it
\* afterwards.  It leaves its status by the decision of somebody, or by a
\* reply begun while it still waited for the customer, whose mail was under
\* way when it was closed.
ReopenedOnlyByLateReply ==
    [][\A t \in TicketIds :
          ticket[t].status \in Done /\ ticket'[t].status \notin Done \cup {"deleted"} =>
             \E r \in Clerks : \/ WrittenBy(r, "update", t) \/ WrittenBy(r, "admin", t)
                               \/ WrittenBy(r, "bump", t) /\ helper[r].was = "WAITING_ON_CUSTOMER"]_ticketVars
=============================================================================
