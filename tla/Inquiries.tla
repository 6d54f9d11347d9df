----------------------------- MODULE Inquiries -----------------------------
(***************************************************************************)
(* platformInquiries.service: the messages and demo requests of the        *)
(* marketing site.  The row is written first and is what counts; the mails *)
(* to the team and to the sender are tried once and noted on it.  All the  *)
(* inquiries here come from one address within one day.                    *)
(***************************************************************************)
EXTENDS Jobs

CONSTANTS Inquiries,      \* rows of PlatformInquiry there may be
          PerEmailPerDay

VARIABLES
    inquiry,   \* the PlatformInquiry table
    sender     \* what each request is doing

inquiryVars == <<inquiry, sender>>

Kinds     == {"SUPPORT", "DEMO"}
InquiryStatus == {"NEW", "IN_PROGRESS", "RESOLVED", "SPAM"}
NoInquiry == [kind |-> "none", status |-> "NEW", notified |-> FALSE, acked |-> FALSE, handled |-> FALSE]

InquiriesInit ==
    /\ inquiry = [i \in Inquiries |-> NoInquiry]
    /\ sender = [r \in Clerks |-> Idle]

SenderTo(r, work) == sender' = [sender EXCEPT ![r] = work]

SentToday(kind) == Cardinality({i \in Inquiries : inquiry[i].kind = kind})

\* createInquiry: the day's messages of this kind are counted ...
CountInquiries(r, kind) ==
    /\ sender[r] = Idle /\ SentToday(kind) < PerEmailPerDay
    /\ SenderTo(r, [pc |-> "create", kind |-> kind])
    /\ UNCHANGED <<jobVars, inquiry>>

\* ... and the message is written.  A reference that is taken is drawn again.
CreateInquiry(r, i) ==
    /\ sender[r].pc = "create" /\ inquiry[i] = NoInquiry
    /\ inquiry' = [inquiry EXCEPT ![i] = [NoInquiry EXCEPT !.kind = sender[r].kind]]
    /\ SenderTo(r, [pc |-> "mail", on |-> i])
    /\ UNCHANGED jobVars

\* Each mail goes out or fails; what went out is noted in one update, and a
\* failure of the update is passed over.
FollowUp(r, notified, acked) ==
    /\ sender[r].pc = "mail"
    /\ \/ inquiry' = [inquiry EXCEPT ![sender[r].on].notified = @ \/ notified,
                                     ![sender[r].on].acked = @ \/ acked]
          /\ UNCHANGED faults
       \/ Fault /\ UNCHANGED inquiry
    /\ SenderTo(r, Idle) /\ UNCHANGED job

\* setInquiryStatus: any status from any other; who handled it last is kept.
SetInquiryStatus(i, status) ==
    /\ inquiry[i] # NoInquiry
    /\ inquiry' = [inquiry EXCEPT ![i].status = status, ![i].handled = TRUE]
    /\ UNCHANGED <<jobVars, sender>>

InquiriesNext ==
    \/ \E r \in Clerks :
          \/ \E k \in Kinds : CountInquiries(r, k)
          \/ \E i \in Inquiries : CreateInquiry(r, i)
          \/ \E notified, acked \in BOOLEAN : FollowUp(r, notified, acked)
    \/ \E i \in Inquiries, s \in InquiryStatus : SetInquiryStatus(i, s)

-----------------------------------------------------------------------------

InquiriesTypeOK ==
    inquiry \in [Inquiries -> [kind : Kinds \cup {"none"}, status : InquiryStatus, notified : BOOLEAN,
                               acked : BOOLEAN, handled : BOOLEAN]]
=============================================================================
