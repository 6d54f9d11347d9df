----------------------------- MODULE MCRecurring -----------------------------
(***************************************************************************)
(* Recurring on a small instance.  A behaviour looks at one of three       *)
(* subjects: two passes of the worker that overlap, the widget's first     *)
(* visit against one pass and a subscription that lapses, or the reminders *)
(* of the bookings that are there.                                         *)
(***************************************************************************)
EXTENDS Recurring, TLC

VARIABLE subject

mcvars == <<vars, subject>>

Second == CHOOSE w \in Workers : TRUE

\* The passes that run under the subject.
Runs(w) == UNCHANGED subject /\ (subject = "first visit" => w = Second)

OnSubject ==
    \/ /\ subject = "visits"
       /\ widget = Idle /\ paying
       /\ \A w \in Workers : worker[w].pc \notin {"claim", "send"}
       /\ \A b \in Made : bookings[b].sched = OneOff => bookings[b] = NewBooking(OneOff, bookings[b].start)
       /\ \A s \in Schedules : schedule[s].status # "PAUSED"
    \/ /\ subject = "first visit"
       /\ \A w \in Workers : worker[w].pc \notin {"claim", "send"} /\ (worker[w] = Idle \/ w = Second)
       /\ \A b \in Made : bookings[b].moves = 0
    \/ /\ subject = "reminders"
       /\ paying
       /\ \A s \in Schedules : schedule[s].status = "NONE" /\ schedule[s].address
       /\ widget = Idle

MCInit == Init /\ subject \in {"visits", "first visit", "reminders"} /\ OnSubject
MCNext == Next /\ UNCHANGED subject /\ OnSubject'

\* FairSpec, for the passes the subject has.
MCSpec == /\ MCInit /\ [][MCNext]_mcvars
          /\ \A w \in Workers : /\ WF_mcvars(Runs(w) /\ Materialise(w))
                                /\ WF_mcvars(Runs(w) /\ Remind(w))
=============================================================================
