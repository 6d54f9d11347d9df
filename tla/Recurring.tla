------------------------------ MODULE Recurring ------------------------------
(***************************************************************************)
(* Recurring schedules and the reminders of one customer's bookings: the   *)
(* daemons recurringWorker and sendReminders, which any number of          *)
(* processes may run at once, against the dashboard (create, pause,        *)
(* resume, cancel a schedule; move and cancel a booking) and the widget's  *)
(* first visit.                                                            *)
(*                                                                         *)
(* Time is counted in visits: a schedule's next run is one unit after the  *)
(* last, a job takes a unit.  The handlers of the dashboard read and write *)
(* what only they write, so each is one action here; the daemons and the   *)
(* widget go call by call.                                                 *)
(***************************************************************************)
EXTENDS Integers, FiniteSets, Sequences

CONSTANTS Schedules,    \* ids of RecurringSchedule rows
          OneOff,       \* what a booking without a schedule has for its id
          Workers,      \* passes of the daemons that may run at once
          Look,         \* RECURRING_LOOKAHEAD_DAYS
          Ahead,        \* REMINDER_HOURS_AHEAD
          PerTick,      \* MAX_OCCURRENCES_PER_SCHEDULE
          LastTime,     \* bound: the clock stops here
          MaxBookings,  \* bound: bookings ever made
          MaxMoves,     \* bound: moves of one booking
          MaxFaults     \* bound: passes killed, writes refused

ASSUME BoundsAssumption == {Look, Ahead, PerTick, LastTime, MaxBookings, MaxMoves, MaxFaults}
                             \subseteq Nat
ASSUME OneOffAssumption == OneOff \notin Schedules

VARIABLES
    now,
    paying,       \* getAccess(business).allowed
    schedule,     \* the RecurringSchedule table
    bookings,     \* the customer's bookings, in the order of creation
    worker,       \* what each daemon pass is doing
    widget,       \* what the widget's request is doing
    faults,
    passed,       \* history: why each occurrence was passed by
    overtaken     \* history: a booking moved under a pass that was to remind of it

vars == <<now, paying, schedule, bookings, worker, widget, faults, passed, overtaken>>

-----------------------------------------------------------------------------
(* Data *)

Starts == 0..LastTime + Look + 1
\* orig, moves and sent are history: the occurrence the row was made for, how
\* often it was moved, and reminders claimed and sent since it was moved.
Booking == [sched : Schedules \cup {OneOff}, start : Starts, status : {"OPEN", "CANCELLED"},
            reminded : BOOLEAN, orig : Starts, moves : 0..MaxMoves, sent : Nat]
Schedule == [status : {"NONE", "ACTIVE", "PAUSED", "CANCELLED"}, next : Starts, address : BOOLEAN]
Reasons  == {"made", "past", "address", "conflict", "exists"}

Idle == [pc |-> "idle"]
Ids  == 1..MaxBookings
Snapshot == [s : Schedules, cursor : Starts, made : 0..PerTick]
PassWork   == [pc : {"access", "visit", "skip", "create", "exists"}, at : 0..LastTime,
               cur : Snapshot, todo : SUBSET Snapshot]
\* a reminder names the start its pass read
Reminder   == [b : Ids, moves : 0..MaxMoves]
RemindWork == [pc : {"claim", "send"}, cur : Reminder, todo : SUBSET Reminder]
WidgetWork == [pc : {"schedule"}, bk : Ids] \cup [pc : {"link"}, bk : Ids, s : Schedules]

Made    == DOMAIN bookings
Open    == {b \in Made : bookings[b].status = "OPEN"}
OnAt(t) == {b \in Open : bookings[b].start = t}
\* @@unique([recurringScheduleId, scheduledStart]), whatever the status
Taken(s, t) == \E b \in Made : bookings[b].sched = s /\ bookings[b].start = t

NewBooking(s, t) == [sched |-> s, start |-> t, status |-> "OPEN", reminded |-> FALSE,
                     orig |-> t, moves |-> 0, sent |-> 0]

Init ==
    /\ now = 0
    /\ paying = TRUE
    /\ schedule \in [Schedules -> {[status |-> "NONE", next |-> 0, address |-> a] : a \in BOOLEAN}]
    /\ bookings = <<>>
    /\ worker = [w \in Workers |-> Idle]
    /\ widget = Idle
    /\ faults = 0
    /\ passed = [s \in Schedules |-> [t \in Starts |-> "not"]]
    /\ overtaken = FALSE

desk  == <<now, paying, worker, faults>>     \* left alone by the dashboard
Fault == faults < MaxFaults /\ faults' = faults + 1

-----------------------------------------------------------------------------
(* The dashboard: every schedule here is for one customer, day and time *)

OpenSchedules == {s \in Schedules : schedule[s].status \in {"ACTIVE", "PAUSED"}}
SetStatus(s, st) == schedule' = [schedule EXCEPT ![s].status = st]

CreateSchedule(s, t) ==
    /\ schedule[s].status = "NONE" /\ OpenSchedules = {}
    /\ schedule' = [schedule EXCEPT ![s].status = "ACTIVE", ![s].next = t]
    /\ UNCHANGED <<desk, bookings, widget, passed, overtaken>>

Pause(s) ==
    /\ schedule[s].status \in {"ACTIVE", "PAUSED"}
    /\ SetStatus(s, "PAUSED")
    /\ UNCHANGED <<desk, bookings, widget, passed, overtaken>>

Resume(s) ==
    /\ schedule[s].status \in {"ACTIVE", "PAUSED"} /\ OpenSchedules \ {s} = {}
    /\ SetStatus(s, "ACTIVE")
    /\ UNCHANGED <<desk, bookings, widget, passed, overtaken>>

CancelSchedule(s) ==
    /\ schedule[s].status # "NONE"
    /\ SetStatus(s, "CANCELLED")
    /\ UNCHANGED <<desk, bookings, widget, passed, overtaken>>

\* createBooking, behind assertNoCustomerConflict
Book(t) ==
    /\ Len(bookings) < MaxBookings /\ OnAt(t) = {} /\ t >= now
    /\ bookings' = Append(bookings, NewBooking(OneOff, t))
    /\ UNCHANGED <<desk, schedule, widget, passed, overtaken>>

\* rescheduleBooking resets reminderSentAt; the customer's other jobs are not
\* looked at, the unique index is.
Moved(b, t) == [b EXCEPT !.start = t, !.reminded = FALSE, !.moves = @ + 1, !.sent = 0]

\* A reminder pass has read b and not yet sent its reminder.
Holds(w, b) == /\ worker[w].pc \in {"claim", "send"}
               /\ b \in {r.b : r \in worker[w].todo \cup {worker[w].cur}}

Move(b, t) ==
    /\ b \in Open /\ bookings[b].moves < MaxMoves /\ t # bookings[b].start /\ t >= now
    /\ bookings[b].sched # OneOff => ~Taken(bookings[b].sched, t)
    /\ bookings' = [bookings EXCEPT ![b] = Moved(@, t)]
    /\ overtaken' = (overtaken \/ \E w \in Workers : Holds(w, b))
    /\ UNCHANGED <<desk, schedule, widget, passed>>

CancelBooking(b) ==
    /\ b \in Open
    /\ bookings' = [bookings EXCEPT ![b].status = "CANCELLED"]
    /\ UNCHANGED <<desk, schedule, widget, passed, overtaken>>

-----------------------------------------------------------------------------
(* The widget: the booking is the first visit, its schedule comes after it *)

WidgetBook(t) ==
    /\ widget = Idle /\ Len(bookings) < MaxBookings /\ t > now
    /\ bookings' = Append(bookings, NewBooking(OneOff, t))
    /\ widget' = [pc |-> "schedule", bk |-> Len(bookings) + 1]
    /\ UNCHANGED <<desk, schedule, passed, overtaken>>

\* The next run is one interval after the first visit; other schedules of the
\* customer are not looked at.
WidgetSchedule(s) ==
    /\ widget.pc = "schedule" /\ schedule[s].status = "NONE"
    /\ schedule' = [schedule EXCEPT ![s].status = "ACTIVE",
                                    ![s].next = bookings[widget.bk].orig + 1, ![s].address = TRUE]
    /\ widget' = [pc |-> "link", bk |-> widget.bk, s |-> s]
    /\ UNCHANGED <<desk, bookings, passed, overtaken>>

WidgetLink ==
    /\ widget.pc = "link"
    /\ bookings' = IF Taken(widget.s, bookings[widget.bk].start) THEN bookings
                   ELSE [bookings EXCEPT ![widget.bk].sched = widget.s]
    /\ widget' = Idle
    /\ UNCHANGED <<desk, schedule, passed, overtaken>>

\* Either write fails or the process dies: logged, the booking stays.
WidgetFails ==
    /\ widget # Idle /\ Fault
    /\ widget' = Idle
    /\ UNCHANGED <<now, paying, schedule, bookings, worker, passed, overtaken>>

-----------------------------------------------------------------------------
(* recurringWorker.processOnce *)

Goto(w, work) == worker' = [worker EXCEPT ![w] = work]
Then(w, pc)   == worker' = [worker EXCEPT ![w].pc = pc]
At(w, pc)     == worker[w].pc = pc
Start(w)      == worker[w].cur.cursor

\* The pass is done with a schedule: on to any other it found.
NextSchedule(w) ==
    IF worker[w].todo = {} THEN Goto(w, Idle)
    ELSE \E c \in worker[w].todo :
           Goto(w, [worker[w] EXCEPT !.pc = "access", !.cur = c, !.todo = @ \ {c}])

Found == {[s |-> s, cursor |-> schedule[s].next, made |-> 0] :
            s \in {x \in Schedules : schedule[x].status = "ACTIVE" /\ schedule[x].next <= now + Look}}

Scan(w) ==
    /\ worker[w] = Idle /\ Found # {}
    /\ \E c \in Found : Goto(w, [pc |-> "access", at |-> now, cur |-> c, todo |-> Found \ {c}])
    /\ UNCHANGED <<now, paying, schedule, bookings, widget, faults, passed, overtaken>>

\* No new visits for a business whose subscription lapsed.
Access(w) ==
    /\ At(w, "access")
    /\ \/ paying /\ Then(w, "visit")
       \/ ~paying /\ NextSchedule(w)
    /\ UNCHANGED <<now, paying, schedule, bookings, widget, faults, passed, overtaken>>

\* nextRunDate is written from the pass's own cursor, whatever it is by now.
Advance(w, why) ==
    LET c == worker[w].cur  s == c.s  t == Start(w)
    IN /\ schedule' = [schedule EXCEPT ![s].next = t + 1]
       /\ passed' = IF passed[s][t] = "not" THEN [passed EXCEPT ![s][t] = why] ELSE passed
       /\ Goto(w, [worker[w] EXCEPT !.pc = "visit",
                                     !.cur = [s |-> s, cursor |-> t + 1, made |-> c.made + 1]])

\* Mutant: a visit in the past is skipped, the schedule left at it.
Visit_PastLeft(w) ==
    /\ At(w, "visit")
    /\ LET c == worker[w].cur
       IN IF c.made = PerTick \/ c.cursor > worker[w].at + Look \/ c.cursor < worker[w].at
          THEN NextSchedule(w)
          ELSE Then(w, IF OnAt(c.cursor) # {} THEN "skip" ELSE "create")
    /\ UNCHANGED <<now, paying, schedule, bookings, widget, faults, passed, overtaken>>

\* The loop's head: the window, the past, the address, then the conflict query.
Visit(w) ==
    /\ At(w, "visit")
    /\ LET c == worker[w].cur
       IN IF c.made = PerTick \/ c.cursor > worker[w].at + Look
          THEN NextSchedule(w) /\ UNCHANGED <<schedule, passed>>
          ELSE CASE c.cursor < worker[w].at    -> Advance(w, "past")
                 [] ~schedule[c.s].address     -> Advance(w, "address")
                 [] OnAt(c.cursor) # {}        -> Then(w, "skip") /\ UNCHANGED <<schedule, passed>>
                 [] OTHER                      -> Then(w, "create") /\ UNCHANGED <<schedule, passed>>
    /\ UNCHANGED <<now, paying, bookings, widget, faults, overtaken>>

Skip(w) ==
    /\ At(w, "skip")
    /\ Advance(w, "conflict")
    /\ UNCHANGED <<now, paying, bookings, widget, faults, overtaken>>

\* One transaction; the unique index refuses what is there already.
Create(w) ==
    /\ At(w, "create")
    /\ \/ /\ ~Taken(worker[w].cur.s, Start(w)) /\ Len(bookings) < MaxBookings
          /\ bookings' = Append(bookings, NewBooking(worker[w].cur.s, Start(w)))
          /\ Advance(w, "made")
       \/ /\ Taken(worker[w].cur.s, Start(w))
          /\ Then(w, "exists")
          /\ UNCHANGED <<bookings, schedule, passed>>
    /\ UNCHANGED <<now, paying, widget, faults, overtaken>>

Exists(w) ==
    /\ At(w, "exists")
    /\ Advance(w, "exists")
    /\ UNCHANGED <<now, paying, bookings, widget, faults, overtaken>>

\* Mutant: whatever the transaction's error, the visit is taken to exist.
Refused_TakenForExisting(w) ==
    /\ At(w, "create") /\ Fault
    /\ Then(w, "exists")
    /\ UNCHANGED <<now, paying, schedule, bookings, widget, passed, overtaken>>

\* Any other error of the transaction ends this schedule's turn.
Refused(w) ==
    /\ At(w, "create") /\ Fault
    /\ NextSchedule(w)
    /\ UNCHANGED <<now, paying, schedule, bookings, widget, passed, overtaken>>

Materialise(w) == Scan(w) \/ Access(w) \/ Visit(w) \/ Skip(w) \/ Create(w) \/ Exists(w)

-----------------------------------------------------------------------------
(* sendReminders *)

Due == {b \in Open : ~bookings[b].reminded /\ bookings[b].start \in now..now + Ahead - 1}

NextReminder(w, rest) ==
    IF rest = {} THEN Goto(w, Idle)
    ELSE \E r \in rest : Goto(w, [pc |-> "claim", cur |-> r, todo |-> rest \ {r}])

RemindScan(w) ==
    /\ worker[w] = Idle /\ Due # {}
    /\ NextReminder(w, {[b |-> b, moves |-> bookings[b].moves] : b \in Due})
    /\ UNCHANGED <<now, paying, schedule, bookings, widget, faults, passed, overtaken>>

\* Mutant: the reminder is marked as sent whoever has marked it before.
Claim_Unguarded(w) ==
    /\ At(w, "claim")
    /\ bookings' = [bookings EXCEPT ![worker[w].cur.b].reminded = TRUE]
    /\ Then(w, "send")
    /\ UNCHANGED <<now, paying, schedule, widget, faults, passed, overtaken>>

\* Only one pass finds reminderSentAt still empty.
Claim(w) ==
    /\ At(w, "claim")
    /\ LET b == worker[w].cur.b
       IN \/ /\ ~bookings[b].reminded
             /\ bookings' = [bookings EXCEPT ![b].reminded = TRUE]
             /\ Then(w, "send")
          \/ /\ bookings[b].reminded
             /\ NextReminder(w, worker[w].todo)
             /\ UNCHANGED bookings
    /\ UNCHANGED <<now, paying, schedule, widget, faults, passed, overtaken>>

Send(w) ==
    /\ At(w, "send")
    /\ LET r == worker[w].cur
       IN bookings' = IF bookings[r.b].moves = r.moves
                      THEN [bookings EXCEPT ![r.b].sent = @ + 1] ELSE bookings
    /\ NextReminder(w, worker[w].todo)
    /\ UNCHANGED <<now, paying, schedule, widget, faults, passed, overtaken>>

Remind(w) == RemindScan(w) \/ Claim(w) \/ Send(w)

-----------------------------------------------------------------------------

Killed(w) ==
    /\ worker[w] # Idle /\ Fault
    /\ Goto(w, Idle)
    /\ UNCHANGED <<now, paying, schedule, bookings, widget, passed, overtaken>>

Tick ==
    /\ now < LastTime
    /\ now' = now + 1
    /\ UNCHANGED <<paying, schedule, bookings, worker, widget, faults, passed, overtaken>>

\* The subscription lapses, or is renewed.
Subscription ==
    /\ paying' = ~paying
    /\ UNCHANGED <<now, schedule, bookings, worker, widget, faults, passed, overtaken>>

Dashboard ==
    \/ \E s \in Schedules : Pause(s) \/ Resume(s) \/ CancelSchedule(s)
    \/ \E s \in Schedules, t \in now + 1..LastTime : CreateSchedule(s, t)
    \/ \E t \in now..LastTime : Book(t)
    \/ \E b \in Made, t \in 0..LastTime : Move(b, t)
    \/ \E b \in Made : CancelBooking(b)

Widget == (\E t \in now + 1..LastTime : WidgetBook(t)) \/ (\E s \in Schedules : WidgetSchedule(s))
          \/ WidgetLink \/ WidgetFails

Next ==
    \/ \E w \in Workers : Materialise(w) \/ Refused(w) \/ Remind(w) \/ Killed(w)
    \/ Dashboard \/ Widget \/ Tick \/ Subscription

Spec == Init /\ [][Next]_vars

\* The cron daemons run their passes every few minutes and every hour, and the
\* runtime resumes a pass whose call has returned.
FairSpec == Spec /\ \A w \in Workers : WF_vars(Materialise(w)) /\ WF_vars(Remind(w))

-----------------------------------------------------------------------------
(* Properties *)

\* Every variable stays in its type: no pass makes more visits of a schedule
\* than the valve of the worker's loop allows.
TypeOK ==
    /\ now \in 0..LastTime
    /\ paying \in BOOLEAN
    /\ schedule \in [Schedules -> Schedule]
    /\ bookings \in Seq(Booking) /\ Len(bookings) <= MaxBookings
    /\ worker \in [Workers -> {Idle} \cup PassWork \cup RemindWork]
    /\ widget \in {Idle} \cup WidgetWork
    /\ faults \in 0..MaxFaults
    /\ passed \in [Schedules -> [Starts -> Reasons \cup {"not"}]]
    /\ overtaken \in BOOLEAN

\* A schedule moves past a visit as made, or as made by another replica, only
\* if the visit is there or a visit of the schedule has been moved: passes
\* that overlap, are killed or have their transaction refused lose none.
NoVisitLost ==
    \A s \in Schedules, t \in Starts : passed[s][t] \in {"made", "exists"} =>
        \E b \in Made : bookings[b].sched = s /\ (bookings[b].orig = t \/ bookings[b].moves > 0)

\* Overlapping passes, and crashes between the claim and the message, never
\* remind a customer twice of the same time of a booking.
RemindedOnce == \A b \in Made : bookings[b].sent <= 1

Sending(b) == \E w \in Workers : At(w, "send") /\ worker[w].cur.b = b

\* Nobody is marked as reminded of a time no reminder has named, unless a pass
\* died with the mark, or read the booking before it moved: the move asks for
\* a reminder of its own.
MarkedIsReminded ==
    \A b \in Made : bookings[b].reminded =>
        bookings[b].sent > 0 \/ Sending(b) \/ faults > 0 \/ overtaken

\* Neither twice nor not at all.
RemindedAsMarked == RemindedOnce /\ MarkedIsReminded

\* A schedule in arrears is brought up to its horizon, past what was missed,
\* as long as it stays active and its business goes on paying.
InArrears(s) == schedule[s].status = "ACTIVE" /\ schedule[s].next <= now + Look /\ paying
RunsCatchUp ==
    \A s \in Schedules : InArrears(s) ~> (~InArrears(s) \/ Len(bookings) = MaxBookings)
=============================================================================
