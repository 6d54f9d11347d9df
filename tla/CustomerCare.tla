---------------------------- MODULE CustomerCare ----------------------------
(***************************************************************************)
(* What the office keeps for its customers and its teams: the records of   *)
(* customers, their reviews, tickets and inquiries, the conversations, the *)
(* checklists, the photos and the documents.                               *)
(***************************************************************************)
EXTENDS Customers, Tickets, Threads, Checklists, Reviews, Inquiries, Files

talkVars == <<ticketVars, inquiryVars, threadVars>>
workVars == <<checklistVars, reviewVars, fileVars>>
careVars == <<customerVars, talkVars, workVars>>

CareInit == /\ CustomersInit /\ TicketsInit /\ InquiriesInit /\ ThreadsInit
            /\ ChecklistsInit /\ ReviewsInit /\ FilesInit

CustomersStep  == CustomersNext  /\ UNCHANGED <<talkVars, workVars>>
TicketsStep    == TicketsNext    /\ UNCHANGED <<customerVars, workVars, inquiryVars, threadVars>>
InquiriesStep  == InquiriesNext  /\ UNCHANGED <<customerVars, workVars, ticketVars, threadVars>>
ThreadsStep    == ThreadsNext    /\ UNCHANGED <<customerVars, workVars, ticketVars, inquiryVars>>
ChecklistsStep == ChecklistsNext /\ UNCHANGED <<customerVars, talkVars, reviewVars, fileVars>>
ReviewsStep    == ReviewsNext    /\ UNCHANGED <<customerVars, talkVars, checklistVars, fileVars>>
FilesStep      == FilesNext      /\ UNCHANGED <<customerVars, talkVars, checklistVars, reviewVars>>

CareNext ==
    \/ CustomersStep \/ TicketsStep \/ InquiriesStep \/ ThreadsStep
    \/ ChecklistsStep \/ ReviewsStep \/ FilesStep

CareTypeOK ==
    /\ CustomersTypeOK /\ TicketsTypeOK /\ InquiriesTypeOK /\ ThreadsTypeOK
    /\ ChecklistsTypeOK /\ ReviewsTypeOK /\ FilesTypeOK

\* What is kept of a job and of who did it stays what was put there: the ticks
\* on its checklist, its photos and the documents of its cleaners, except for
\* what overlapping requests are known to undo.
RecordsHold == ChecklistTells /\ FilesKept
=============================================================================
