--------------------------- MODULE RecurringProofs ---------------------------
(***************************************************************************)
(* The schedules and the reminders, for any number of passes that overlap, *)
(* are killed or have their writes refused, any number of schedules, and   *)
(* any horizon, bookings and moves.                                        *)
(***************************************************************************)
EXTENDS Recurring, SequenceTheorems, TLAPS

-----------------------------------------------------------------------------
(* What a pass carries *)

LEMMA Bounds ==
    /\ Look \in Nat /\ Ahead \in Nat /\ PerTick \in Nat /\ LastTime \in Nat
    /\ MaxBookings \in Nat /\ MaxMoves \in Nat /\ MaxFaults \in Nat
    /\ Starts \subseteq Nat
BY BoundsAssumption DEF Starts

\* A pass that is about to write a visit has one left of its valve, and the visit
\* is inside the window it computed.
WorkOK(c) ==
    /\ c \in {Idle} \cup PassWork \cup RemindWork
    /\ c.pc \in {"skip", "create", "exists"} => c.cur.made < PerTick /\ c.cur.cursor <= c.at + Look

PassesOK == worker \in [Workers -> {Idle} \cup PassWork \cup RemindWork]
            /\ \A w \in Workers : WorkOK(worker[w])

ClockOK == now \in 0..LastTime
PlansOK == schedule \in [Schedules -> Schedule]
PastOK  == passed \in [Schedules -> [Starts -> Reasons \cup {"not"}]]

PassShape(c) == c = [pc |-> c.pc, at |-> c.at, cur |-> c.cur, todo |-> c.todo]

LEMMA BusyPass ==
    ASSUME NEW c, WorkOK(c), c.pc \in {"access", "visit", "skip", "create", "exists"}
    PROVE  /\ c \in PassWork /\ c.at \in 0..LastTime /\ c.cur \in Snapshot /\ c.todo \subseteq Snapshot
           /\ c.cur.s \in Schedules /\ c.cur.cursor \in Starts /\ c.cur.made \in 0..PerTick
           /\ c.cur = [s |-> c.cur.s, cursor |-> c.cur.cursor, made |-> c.cur.made]
           /\ PassShape(c)
<1>1. c \in PassWork  BY DEF WorkOK, PassWork, RemindWork, Idle
<1>2. /\ c.at \in 0..LastTime /\ c.cur \in Snapshot /\ c.todo \subseteq Snapshot
      /\ PassShape(c)
  BY <1>1 DEF PassWork, PassShape
<1> QED BY <1>1, <1>2 DEF Snapshot

LEMMA BusyReminder ==
    ASSUME NEW c, WorkOK(c), c.pc \in {"claim", "send"}
    PROVE  /\ c \in RemindWork /\ c.cur \in Reminder /\ c.todo \subseteq Reminder
           /\ c.cur.b \in Ids /\ c.cur.moves \in 0..MaxMoves
           /\ c = [pc |-> c.pc, cur |-> c.cur, todo |-> c.todo]
<1>1. c \in RemindWork  BY DEF WorkOK, PassWork, RemindWork, Idle
<1>2. /\ c.cur \in Reminder /\ c.todo \subseteq Reminder
      /\ c = [pc |-> c.pc, cur |-> c.cur, todo |-> c.todo]
  BY <1>1 DEF RemindWork
<1> QED BY <1>1, <1>2 DEF Reminder

LEMMA IdleWork == WorkOK(Idle) /\ Idle.pc = "idle"
BY DEF WorkOK, Idle

\* A pass goes on to a place where nothing is promised of its visit.
LEMMA PassWorkOK ==
    ASSUME NEW pc \in {"access", "visit"}, NEW at \in 0..LastTime, NEW cur \in Snapshot,
           NEW todo \in SUBSET Snapshot
    PROVE  WorkOK([pc |-> pc, at |-> at, cur |-> cur, todo |-> todo])
BY DEF WorkOK, PassWork

LEMMA PassGoesOn ==
    ASSUME NEW c, PassShape(c), NEW pc, NEW cur
    PROVE  /\ [c EXCEPT !.pc = pc] = [pc |-> pc, at |-> c.at, cur |-> c.cur, todo |-> c.todo]
           /\ [c EXCEPT !.pc = pc, !.cur = cur]
                = [pc |-> pc, at |-> c.at, cur |-> cur, todo |-> c.todo]
<1>1. PICK n : n = [c EXCEPT !.pc = pc]  OBVIOUS
<1>2. /\ n.pc = pc /\ n.at = c.at /\ n.cur = c.cur /\ n.todo = c.todo
      /\ n = [pc |-> n.pc, at |-> n.at, cur |-> n.cur, todo |-> n.todo]
  BY <1>1 DEF PassShape
<1>3. PICK m : m = [c EXCEPT !.pc = pc, !.cur = cur]  OBVIOUS
<1>4. /\ m.pc = pc /\ m.at = c.at /\ m.cur = cur /\ m.todo = c.todo
      /\ m = [pc |-> m.pc, at |-> m.at, cur |-> m.cur, todo |-> m.todo]
  BY <1>3 DEF PassShape
<1> QED BY <1>1, <1>2, <1>3, <1>4

LEMMA NextScheduleOK ==
    ASSUME NEW w \in Workers, PassesOK, NextSchedule(w),
           worker[w].pc \in {"access", "visit", "skip", "create", "exists"}
    PROVE  \E c : Goto(w, c) /\ WorkOK(c) /\ c.pc \in {"idle", "access"}
<1>1. WorkOK(worker[w])  BY DEF PassesOK
<1>2. CASE Goto(w, Idle)  BY <1>2, IdleWork
<1>3. CASE \E c \in worker[w].todo :
             Goto(w, [worker[w] EXCEPT !.pc = "access", !.cur = c, !.todo = @ \ {c}])
  <2> PICK o : o = worker[w]  OBVIOUS
  <2>1. PICK c \in o.todo :
          Goto(w, [o EXCEPT !.pc = "access", !.cur = c, !.todo = @ \ {c}])
    BY <1>3
  <2>2. PassShape(o) /\ o.at \in 0..LastTime /\ o.todo \subseteq Snapshot
    BY <1>1, BusyPass
  <2>3. PICK n : n = [o EXCEPT !.pc = "access", !.cur = c, !.todo = @ \ {c}]  OBVIOUS
  <2>4. /\ PassShape(n) /\ n.pc = "access" /\ n.at = o.at /\ n.cur = c
        /\ n.todo = o.todo \ {c}
    BY <2>2, <2>3 DEF PassShape
  <2>5. WorkOK(n)
    <3>1. n = [pc |-> "access", at |-> o.at, cur |-> c, todo |-> o.todo \ {c}]
      BY <2>4 DEF PassShape
    <3> QED BY <2>1, <2>2, <3>1, PassWorkOK
  <2> QED BY <2>1, <2>3, <2>4, <2>5
<1> QED BY <1>2, <1>3 DEF NextSchedule

\* The cursor moves on by one visit, which is still a time that can be written.
LEMMA AdvanceOK ==
    ASSUME NEW w \in Workers, PassesOK, PlansOK, PastOK, NEW why \in Reasons, Advance(w, why),
           worker[w].pc \in {"visit", "skip", "create", "exists"},
           worker[w].cur.made < PerTick, worker[w].cur.cursor <= worker[w].at + Look
    PROVE  /\ PlansOK' /\ PastOK'
           /\ \E c : Goto(w, c) /\ WorkOK(c) /\ c.pc = "visit"
<1>1. WorkOK(worker[w])  BY DEF PassesOK
<1> DEFINE o == worker[w]
<1>2. /\ o.at \in 0..LastTime /\ o.todo \subseteq Snapshot /\ o.cur.s \in Schedules
      /\ o.cur.cursor \in Starts /\ o.cur.made \in 0..PerTick
      /\ PassShape(o)
  BY <1>1, BusyPass
<1>3. PICK s \in Schedules : s = o.cur.s  BY <1>2
<1>4. PICK t \in Starts : t = o.cur.cursor  BY <1>2
<1>5. t + 1 \in Starts /\ o.cur.made + 1 \in 0..PerTick
  BY <1>2, <1>4, Bounds DEF Starts
<1>6. /\ schedule' = [schedule EXCEPT ![s].next = t + 1]
      /\ passed' = IF passed[s][t] = "not" THEN [passed EXCEPT ![s][t] = why] ELSE passed
      /\ Goto(w, [o EXCEPT !.pc = "visit", !.cur = [s |-> s, cursor |-> t + 1, made |-> o.cur.made + 1]])
  BY <1>3, <1>4 DEF Advance, Start
<1>7. PlansOK'  BY <1>5, <1>6 DEF PlansOK, Schedule
<1>8. PastOK'  BY <1>6 DEF PastOK
<1>9. PICK cur \in Snapshot : cur = [s |-> s, cursor |-> t + 1, made |-> o.cur.made + 1]
  BY <1>5 DEF Snapshot
<1>10. PICK n : n = [pc |-> "visit", at |-> o.at, cur |-> cur, todo |-> o.todo]  OBVIOUS
<1>11. [o EXCEPT !.pc = "visit", !.cur = cur] = n  BY <1>1, <1>10, BusyPass, PassGoesOn
<1>12. WorkOK(n) /\ n.pc = "visit"  BY <1>2, <1>10, PassWorkOK
<1> QED BY <1>6, <1>7, <1>8, <1>9, <1>11, <1>12

LEMMA NextReminderOK ==
    ASSUME NEW w \in Workers, NEW rest \in SUBSET Reminder, NextReminder(w, rest)
    PROVE  \E c : /\ Goto(w, c) /\ WorkOK(c) /\ c.pc \in {"idle", "claim"}
                  /\ c.pc = "claim" => c.cur \in rest /\ c.todo \subseteq rest
<1>1. CASE Goto(w, Idle)  BY <1>1, IdleWork
<1>2. CASE \E r \in rest : Goto(w, [pc |-> "claim", cur |-> r, todo |-> rest \ {r}])
  <2>1. PICK r \in rest : Goto(w, [pc |-> "claim", cur |-> r, todo |-> rest \ {r}])
    BY <1>2
  <2>2. PICK n : n = [pc |-> "claim", cur |-> r, todo |-> rest \ {r}]  OBVIOUS
  <2>3. n \in RemindWork  BY <2>2 DEF RemindWork
  <2>4. WorkOK(n)  BY <2>2, <2>3 DEF WorkOK
  <2> QED BY <2>1, <2>2, <2>4
<1> QED BY <1>1, <1>2 DEF NextReminder

-----------------------------------------------------------------------------
(* The bookings: rows are added and changed, never taken away *)

Rows == /\ bookings \in Seq(Booking) /\ Len(bookings) <= MaxBookings
        /\ \A b \in Made : bookings[b].moves = 0 => bookings[b].start = bookings[b].orig

NewRow(n) == /\ n \in Booking /\ n.moves = 0 /\ n.start = n.orig /\ n.reminded = FALSE /\ n.sent = 0

\* What may become of a row in one step.
Later(o, n) ==
    /\ n \in Booking /\ n.orig = o.orig /\ n.moves >= o.moves
    /\ n.sched # o.sched => o.sched = OneOff /\ widget' = Idle
    /\ n.moves = 0 => n.start = o.start

Adds(n)       == NewRow(n) /\ Len(bookings) < MaxBookings /\ bookings' = Append(bookings, n)
Changes(b, n) == b \in Made /\ Later(bookings[b], n) /\ bookings' = [bookings EXCEPT ![b] = n]

RowsStep == \/ UNCHANGED bookings
            \/ \E n : Adds(n)
            \/ \E b, n : Changes(b, n)

LEMMA MadeRows ==
    ASSUME Rows
    PROVE  /\ Len(bookings) \in Nat /\ Made = 1..Len(bookings) /\ Made \subseteq Ids
           /\ \A b \in Made : bookings[b] \in Booking
<1>1. Len(bookings) \in Nat /\ Made = 1..Len(bookings) /\ bookings \in [1..Len(bookings) -> Booking]
  BY LenProperties DEF Rows, Made
<1>2. Len(bookings) <= MaxBookings  BY DEF Rows
<1>3. Made \subseteq Ids  BY <1>1, <1>2, Bounds DEF Ids
<1> QED BY <1>1, <1>3

LEMMA BookingFields ==
    ASSUME NEW b \in Booking
    PROVE  /\ b.sched \in Schedules \cup {OneOff} /\ b.start \in Starts /\ b.orig \in Starts
           /\ b.reminded \in BOOLEAN /\ b.moves \in 0..MaxMoves /\ b.sent \in Nat
           /\ b.status \in {"OPEN", "CANCELLED"}
BY DEF Booking

LEMMA SameLater ==
    ASSUME NEW b \in Booking
    PROVE  Later(b, b)
<1>1. b.moves \in Nat  BY BookingFields, Bounds
<1> QED BY <1>1 DEF Later

LEMMA AddedRows ==
    ASSUME Rows, NEW n, Adds(n)
    PROVE  /\ bookings' \in Seq(Booking) /\ Len(bookings') = Len(bookings) + 1
           /\ Made' = Made \cup {Len(bookings) + 1} /\ Len(bookings) + 1 \notin Made
           /\ \A b \in Made : bookings'[b] = bookings[b]
           /\ bookings'[Len(bookings) + 1] = n /\ RowsStep
<1>1. Len(bookings) \in Nat /\ Made = 1..Len(bookings)  BY MadeRows
<1>2. n \in Booking /\ bookings \in Seq(Booking) /\ bookings' = Append(bookings, n)
  BY DEF Adds, NewRow, Rows
<1>3. /\ bookings' \in Seq(Booking) /\ Len(bookings') = Len(bookings) + 1
      /\ \A b \in 1..Len(bookings) : bookings'[b] = bookings[b]
      /\ bookings'[Len(bookings) + 1] = n
  BY <1>2, AppendProperties
<1>4. Made' = 1..Len(bookings) + 1  BY <1>3, LenProperties DEF Made
<1> QED BY <1>1, <1>3, <1>4 DEF RowsStep

LEMMA ChangedRows ==
    ASSUME Rows, NEW d, NEW n, Changes(d, n)
    PROVE  /\ bookings' \in Seq(Booking) /\ Len(bookings') = Len(bookings) /\ Made' = Made
           /\ \A b \in Made : bookings'[b] = IF b = d THEN n ELSE bookings[b]
           /\ RowsStep
<1>1. Len(bookings) \in Nat /\ Made = 1..Len(bookings)  BY MadeRows
<1>2. /\ n \in Booking /\ bookings \in Seq(Booking) /\ bookings' = [bookings EXCEPT ![d] = n]
      /\ d \in 1..Len(bookings)
  BY <1>1 DEF Changes, Later, Rows
<1>3. /\ bookings' \in Seq(Booking) /\ Len(bookings') = Len(bookings)
      /\ \A b \in 1..Len(bookings) : bookings'[b] = IF b = d THEN n ELSE bookings[b]
  BY <1>2, ExceptSeq
<1>4. Made' = Made  BY <1>1, <1>3, LenProperties DEF Made
<1> QED BY <1>1, <1>3, <1>4 DEF RowsStep

LEMMA RowsAfter ==
    ASSUME Rows, RowsStep
    PROVE  /\ Rows' /\ Made \subseteq Made'
           /\ \A b \in Made : Later(bookings[b], bookings'[b])
           /\ \A b \in Made' \ Made : NewRow(bookings'[b])
<1>1. /\ Len(bookings) \in Nat /\ Made = 1..Len(bookings)
      /\ \A b \in Made : bookings[b] \in Booking
  BY MadeRows
<1>2. CASE UNCHANGED bookings
  BY <1>1, <1>2, SameLater DEF Rows, Made
<1>3. ASSUME NEW n, Adds(n)
      PROVE  /\ Rows' /\ Made \subseteq Made'
             /\ \A b \in Made : Later(bookings[b], bookings'[b])
             /\ \A b \in Made' \ Made : NewRow(bookings'[b])
  <2>1. /\ bookings' \in Seq(Booking) /\ Len(bookings') = Len(bookings) + 1
        /\ Made' = Made \cup {Len(bookings) + 1} /\ bookings'[Len(bookings) + 1] = n
        /\ \A b \in Made : bookings'[b] = bookings[b]
    BY <1>3, AddedRows
  <2>2. Len(bookings') <= MaxBookings  BY <1>1, <1>3, <2>1, Bounds DEF Adds
  <2>3. \A b \in Made : bookings'[b] = bookings[b] /\ b \in Made'  BY <2>1
  <2>4. \A b \in Made' : b \notin Made => bookings'[b] = n  BY <2>1
  <2>5. \A b \in Made' : bookings'[b].moves = 0 => bookings'[b].start = bookings'[b].orig
    BY <1>3, <2>3, <2>4 DEF Rows, Adds, NewRow
  <2>6. Rows'  BY <2>1, <2>2, <2>5 DEF Rows
  <2>7. \A b \in Made : Later(bookings[b], bookings'[b])  BY <1>1, <2>3, SameLater
  <2> QED BY <1>3, <2>3, <2>4, <2>6, <2>7 DEF Adds
<1>4. ASSUME NEW d, NEW n, Changes(d, n)
      PROVE  /\ Rows' /\ Made \subseteq Made'
             /\ \A b \in Made : Later(bookings[b], bookings'[b])
             /\ \A b \in Made' \ Made : NewRow(bookings'[b])
  <2>1. Later(bookings[d], n)  BY <1>4 DEF Changes
  <2>2. /\ bookings' \in Seq(Booking) /\ Len(bookings') = Len(bookings)
        /\ \A b \in Made : bookings'[b] = IF b = d THEN n ELSE bookings[b]
    BY <1>4, ChangedRows
  <2>3. Made' = Made  BY <1>4, ChangedRows
  <2>4. \A b \in Made : Later(bookings[b], bookings'[b])
    <3>1. ASSUME NEW b \in Made, b # d  PROVE Later(bookings[b], bookings'[b])
      BY <1>1, <2>2, <3>1, SameLater
    <3>2. ASSUME NEW b \in Made, b = d  PROVE Later(bookings[b], bookings'[b])
      BY <1>1, <2>1, <2>2, <3>2
    <3> QED BY <3>1, <3>2
  <2>5. ASSUME NEW b \in Made', bookings'[b].moves = 0
        PROVE  bookings'[b].start = bookings'[b].orig
    <3>1. Later(bookings[b], bookings'[b]) /\ bookings[b] \in Booking  BY <1>1, <2>3, <2>4
    <3>2. bookings[b].moves \in Nat /\ bookings'[b].moves >= bookings[b].moves
      BY <3>1, BookingFields, Bounds DEF Later
    <3>3. bookings[b].moves = 0  BY <2>5, <3>2
    <3> QED BY <2>3, <2>5, <3>1, <3>3 DEF Later, Rows
  <2>6. Rows'  BY <2>2, <2>5 DEF Rows
  <2> QED BY <2>3, <2>4, <2>6
<1> QED BY <1>2, <1>3, <1>4 DEF RowsStep

\* The visit at t of the schedule s is there, or one of its visits was moved.
VisitThere(s, t) == \E b \in Made : bookings[b].sched = s /\ (bookings[b].orig = t \/ bookings[b].moves > 0)

LEMMA VisitStays ==
    ASSUME Rows, RowsStep, NEW s \in Schedules, NEW t, VisitThere(s, t)
    PROVE  VisitThere(s, t)'
<1>1. PICK b \in Made : bookings[b].sched = s /\ (bookings[b].orig = t \/ bookings[b].moves > 0)
  BY DEF VisitThere
<1>2. b \in Made' /\ Later(bookings[b], bookings'[b]) /\ bookings[b] \in Booking
  BY RowsAfter, MadeRows
<1>3. bookings'[b].sched = s  BY <1>1, <1>2, OneOffAssumption DEF Later
<1>4. /\ bookings'[b].orig = bookings[b].orig /\ bookings'[b].moves >= bookings[b].moves
      /\ bookings[b].moves \in Nat /\ bookings'[b].moves \in Nat
  BY <1>2, BookingFields, Bounds DEF Later
<1> QED BY <1>1, <1>2, <1>3, <1>4 DEF VisitThere

LEMMA TakenIsThere ==
    ASSUME Rows, NEW s, NEW t, Taken(s, t)
    PROVE  VisitThere(s, t)
<1>1. PICK b \in Made : bookings[b].sched = s /\ bookings[b].start = t  BY DEF Taken
<1>2. bookings[b].moves \in Nat  BY MadeRows, BookingFields, Bounds
<1> QED BY <1>1, <1>2 DEF VisitThere, Rows

-----------------------------------------------------------------------------
(* No visit is lost *)

\* The booking of a widget's request is there, and no schedule has it yet.
WidgetOK ==
    /\ widget \in {Idle} \cup WidgetWork
    /\ widget # Idle => /\ widget.bk \in Made /\ bookings[widget.bk].sched = OneOff
                        /\ bookings[widget.bk].orig <= LastTime

OthersOK == paying \in BOOLEAN /\ faults \in 0..MaxFaults /\ overtaken \in BOOLEAN

TypeInv == ClockOK /\ PlansOK /\ PastOK /\ PassesOK /\ Rows /\ WidgetOK /\ OthersOK

\* What a pass found to exist is there; what it is to remind of, as it was or moved on.
FoundThere(w) == worker[w].pc = "exists" => VisitThere(worker[w].cur.s, worker[w].cur.cursor)
HeldThere(c) == c.pc \in {"claim", "send"} =>
                  \A r \in c.todo \cup {c.cur} : r.b \in Made /\ r.moves <= bookings[r.b].moves

ThereInv ==
    /\ \A s \in Schedules, t \in Starts : passed[s][t] \in {"made", "exists"} => VisitThere(s, t)
    /\ \A w \in Workers : FoundThere(w) /\ HeldThere(worker[w])

\* What a step may do to each variable.
PassDoes(w) == \E c : /\ Goto(w, c) /\ WorkOK(c)
                      /\ c.pc = "exists" => VisitThere(c.cur.s, c.cur.cursor)'
                      /\ HeldThere(c)'
Reports == \A s \in Schedules, t \in Starts : passed'[s][t] \in {"made", "exists"} =>
               passed'[s][t] = passed[s][t] \/ VisitThere(s, t)'
WidgetStep == widget' = widget \/ widget' = Idle \/ WidgetOK'
Effects == /\ RowsStep /\ WidgetStep /\ Reports /\ ClockOK' /\ PlansOK' /\ PastOK' /\ OthersOK'
           /\ UNCHANGED worker \/ \E w \in Workers : PassDoes(w)

LEMMA RemindersStay ==
    ASSUME Rows, RowsStep, NEW R \in SUBSET Reminder,
           \A r \in R : r.b \in Made /\ r.moves <= bookings[r.b].moves
    PROVE  \A r \in R : r.b \in Made' /\ r.moves <= bookings'[r.b].moves
<1> SUFFICES ASSUME NEW r \in R  PROVE r.b \in Made' /\ r.moves <= bookings'[r.b].moves
  OBVIOUS
<1>1. r.moves \in Nat  BY Bounds DEF Reminder
<1>2. r.b \in Made' /\ Later(bookings[r.b], bookings'[r.b]) /\ bookings[r.b] \in Booking
  BY RowsAfter, MadeRows
<1>3. /\ bookings'[r.b].moves >= bookings[r.b].moves /\ bookings[r.b].moves \in Nat
      /\ bookings'[r.b].moves \in Nat
  BY <1>2, BookingFields, Bounds DEF Later
<1> QED BY <1>1, <1>2, <1>3

LEMMA HeldStays ==
    ASSUME Rows, RowsStep, NEW c, WorkOK(c), HeldThere(c)
    PROVE  HeldThere(c)'
<1>1. SUFFICES ASSUME c.pc \in {"claim", "send"}
               PROVE  \A r \in c.todo \cup {c.cur} : r.b \in Made' /\ r.moves <= bookings'[r.b].moves
  BY DEF HeldThere
<1>2. c.todo \cup {c.cur} \in SUBSET Reminder  BY <1>1, BusyReminder
<1>3. \A r \in c.todo \cup {c.cur} : r.b \in Made /\ r.moves <= bookings[r.b].moves
  BY <1>1 DEF HeldThere
<1> QED BY <1>2, <1>3, RemindersStay

LEMMA EffectsKeep ==
    ASSUME TypeInv, ThereInv, Effects
    PROVE  TypeInv' /\ ThereInv'
<1> USE DEF TypeInv, Effects
<1>1. /\ Rows' /\ Made \subseteq Made'
      /\ \A b \in Made : Later(bookings[b], bookings'[b])
  BY RowsAfter
<1>2. WidgetOK'
  <2>1. CASE widget' = widget
    <3>1. ASSUME widget # Idle
          PROVE  /\ widget.bk \in Made' /\ bookings'[widget.bk].sched = OneOff
                 /\ bookings'[widget.bk].orig <= LastTime
      <4>1. /\ widget.bk \in Made /\ bookings[widget.bk].sched = OneOff
            /\ bookings[widget.bk].orig <= LastTime
        BY <3>1 DEF WidgetOK
      <4>2. widget.bk \in Made' /\ Later(bookings[widget.bk], bookings'[widget.bk])
        BY <1>1, <4>1
      <4> QED BY <2>1, <3>1, <4>1, <4>2 DEF Later
    <3> QED BY <2>1, <3>1 DEF WidgetOK
  <2>2. CASE widget' = Idle  BY <2>2 DEF WidgetOK
  <2> QED BY <2>1, <2>2 DEF WidgetStep
<1>3. ASSUME NEW s \in Schedules, NEW t, VisitThere(s, t)  PROVE VisitThere(s, t)'
  BY <1>3, VisitStays
<1>4. ASSUME NEW w \in Workers, worker'[w] = worker[w]  PROVE FoundThere(w)'
  <2>1. CASE worker[w].pc = "exists"
    <3>1. PICK s : s = worker[w].cur.s  OBVIOUS
    <3>2. PICK t : t = worker[w].cur.cursor  OBVIOUS
    <3>3. s \in Schedules /\ VisitThere(s, t)
      BY <2>1, <3>1, <3>2, BusyPass DEF PassesOK, ThereInv, FoundThere
    <3>4. VisitThere(s, t)'  BY <1>3, <3>3
    <3> QED BY <1>4, <3>1, <3>2, <3>4 DEF FoundThere, VisitThere
  <2>2. CASE worker[w].pc # "exists"  BY <1>4, <2>2 DEF FoundThere
  <2> QED BY <2>1, <2>2
<1>5. ASSUME NEW w \in Workers, worker'[w] = worker[w]  PROVE HeldThere(worker[w])'
  <2>1. PICK c : c = worker[w]  OBVIOUS
  <2>2. WorkOK(c) /\ HeldThere(c)  BY <2>1 DEF PassesOK, ThereInv
  <2>3. HeldThere(c)'  BY <2>2, HeldStays
  <2> QED BY <1>5, <2>1, <2>3 DEF HeldThere
<1>6. PassesOK' /\ \A w \in Workers : FoundThere(w)' /\ HeldThere(worker[w])'
  <2>1. CASE UNCHANGED worker  BY <1>4, <1>5, <2>1 DEF PassesOK
  <2>2. CASE \E w \in Workers : PassDoes(w)
    <3> PICK w \in Workers : PassDoes(w)  BY <2>2
    <3>1. PICK c :
            /\ Goto(w, c) /\ WorkOK(c)
            /\ c.pc = "exists" => VisitThere(c.cur.s, c.cur.cursor)'
            /\ HeldThere(c)'
      BY DEF PassDoes
    <3>2. /\ worker' = [worker EXCEPT ![w] = c]
          /\ worker \in [Workers -> {Idle} \cup PassWork \cup RemindWork]
          /\ c \in {Idle} \cup PassWork \cup RemindWork
      BY <3>1 DEF Goto, PassesOK, WorkOK
    <3>3. /\ worker' \in [Workers -> {Idle} \cup PassWork \cup RemindWork]
          /\ \A v \in Workers : worker'[v] = IF v = w THEN c ELSE worker[v]
      BY <3>2
    <3>4. PassesOK'  BY <3>1, <3>3 DEF PassesOK
    <3>5. FoundThere(w)'  BY <3>1, <3>3 DEF FoundThere, VisitThere
    <3>6. HeldThere(worker[w])'  BY <3>1, <3>3 DEF HeldThere
    <3>7. ASSUME NEW v \in Workers, v # w  PROVE FoundThere(v)' /\ HeldThere(worker[v])'
      BY <1>4, <1>5, <3>3, <3>7
    <3> QED BY <3>4, <3>5, <3>6, <3>7
  <2> QED BY <2>1, <2>2
<1>7. ASSUME NEW s \in Schedules, NEW t \in Starts, passed'[s][t] \in {"made", "exists"}
      PROVE  VisitThere(s, t)'
  BY <1>3, <1>7 DEF ThereInv, Reports
<1>8. ThereInv'  BY <1>6, <1>7 DEF ThereInv
<1> QED BY <1>1, <1>2, <1>6, <1>8

LEMMA SameEffects ==
    ASSUME TypeInv
    PROVE  /\ UNCHANGED bookings => RowsStep
           /\ UNCHANGED widget => WidgetStep
           /\ UNCHANGED passed => Reports /\ PastOK'
           /\ UNCHANGED schedule => PlansOK'
           /\ UNCHANGED now => ClockOK'
           /\ UNCHANGED <<paying, faults, overtaken>> => OthersOK'
           /\ UNCHANGED <<paying, overtaken>> /\ Fault => OthersOK'
<1>1. UNCHANGED bookings => RowsStep  BY DEF RowsStep
<1>2. UNCHANGED widget => WidgetStep  BY DEF WidgetStep
<1>3. UNCHANGED passed => Reports /\ PastOK'  BY DEF TypeInv, Reports, PastOK
<1>4. UNCHANGED schedule => PlansOK'  BY DEF TypeInv, PlansOK
<1>5. UNCHANGED now => ClockOK'  BY DEF TypeInv, ClockOK
<1>6. UNCHANGED <<paying, faults, overtaken>> => OthersOK'  BY DEF TypeInv, OthersOK
<1>7. ASSUME Fault  PROVE faults' \in 0..MaxFaults  BY <1>7, Bounds DEF TypeInv, OthersOK, Fault
<1>8. UNCHANGED <<paying, overtaken>> /\ Fault => OthersOK'  BY <1>7 DEF TypeInv, OthersOK
<1> QED BY <1>1, <1>2, <1>3, <1>4, <1>5, <1>6, <1>8

\* A pass that goes on, without a word about a visit.
LEMMA Goes ==
    ASSUME NEW w \in Workers, NEW c, Goto(w, c), WorkOK(c), c.pc \notin {"exists", "claim", "send"}
    PROVE  PassDoes(w)
BY DEF PassDoes, HeldThere

LEMMA AdvanceReports ==
    ASSUME NEW w \in Workers, TypeInv, NEW why \in Reasons, Advance(w, why),
           NEW s \in Schedules, NEW t \in Starts, s = worker[w].cur.s, t = worker[w].cur.cursor,
           why \in {"made", "exists"} => VisitThere(s, t)'
    PROVE  Reports
<1>1. passed' = IF passed[s][t] = "not" THEN [passed EXCEPT ![s][t] = why] ELSE passed
  BY DEF Advance, Start
<1>2. passed \in [Schedules -> [Starts -> Reasons \cup {"not"}]]  BY DEF TypeInv, PastOK
<1>3. ASSUME NEW r \in Schedules, NEW u \in Starts, passed'[r][u] \in {"made", "exists"}
      PROVE  passed'[r][u] = passed[r][u] \/ VisitThere(r, u)'
  <2>1. passed'[r][u] = passed[r][u] \/ (r = s /\ u = t /\ passed'[r][u] = why)
    BY <1>1, <1>2
  <2>2. ASSUME r = s, u = t, passed'[r][u] = why  PROVE VisitThere(r, u)'
    <3>1. why \in {"made", "exists"}  BY <1>3, <2>2
    <3> QED BY <2>2, <3>1
  <2> QED BY <2>1, <2>2
<1> QED BY <1>3 DEF Reports

LEMMA ThenOK ==
    ASSUME NEW w \in Workers, WorkOK(worker[w]),
           NEW pc \in {"access", "visit", "skip", "create", "exists"}, Then(w, pc),
           worker[w].pc \in {"access", "visit", "skip", "create", "exists"},
           pc \in {"skip", "create", "exists"} =>
               worker[w].cur.made < PerTick /\ worker[w].cur.cursor <= worker[w].at + Look
    PROVE  \E c : Goto(w, c) /\ WorkOK(c) /\ c.pc = pc /\ c.cur = worker[w].cur
<1>1. PICK o : o = worker[w]  OBVIOUS
<1>2. /\ PassShape(o) /\ o.at \in 0..LastTime /\ o.cur \in Snapshot /\ o.todo \subseteq Snapshot
      /\ pc \in {"skip", "create", "exists"} => o.cur.made < PerTick /\ o.cur.cursor <= o.at + Look
  BY <1>1, BusyPass
<1>3. PICK n : n = [pc |-> pc, at |-> o.at, cur |-> o.cur, todo |-> o.todo]  OBVIOUS
<1>4. [worker EXCEPT ![w].pc = pc] = [worker EXCEPT ![w] = [o EXCEPT !.pc = pc]]  BY <1>1
<1>5. Goto(w, n)  BY <1>2, <1>3, <1>4, PassGoesOn DEF Goto, Then
<1>6. n \in PassWork  BY <1>2, <1>3 DEF PassWork
<1>7. WorkOK(n)  BY <1>2, <1>3, <1>6 DEF WorkOK
<1> QED BY <1>1, <1>3, <1>5, <1>7

LEMMA ScanEffects ==
    ASSUME TypeInv, ThereInv, NEW w \in Workers, Scan(w)
    PROVE  Effects
<1>1. now \in 0..LastTime /\ schedule \in [Schedules -> Schedule]
  BY DEF TypeInv, ClockOK, PlansOK
<1>2. Found \subseteq Snapshot  BY <1>1, Bounds DEF Found, Snapshot, Schedule
<1>3. PICK c \in Found : Goto(w, [pc |-> "access", at |-> now, cur |-> c, todo |-> Found \ {c}])
  BY DEF Scan
<1>4. PICK n : n = [pc |-> "access", at |-> now, cur |-> c, todo |-> Found \ {c}]  OBVIOUS
<1>5. PassDoes(w)
  <2>1. c \in Snapshot /\ Found \ {c} \in SUBSET Snapshot  BY <1>2
  <2>2. WorkOK(n) /\ n.pc = "access"  BY <1>1, <1>4, <2>1, PassWorkOK
  <2> QED BY <1>3, <1>4, <2>2, Goes
<1> QED BY <1>5, SameEffects DEF Scan, Effects

LEMMA NextScheduleDoes ==
    ASSUME NEW w \in Workers, TypeInv, NextSchedule(w),
           worker[w].pc \in {"access", "visit", "skip", "create", "exists"}
    PROVE  PassDoes(w)
BY NextScheduleOK, Goes DEF TypeInv

LEMMA AccessEffects ==
    ASSUME TypeInv, ThereInv, NEW w \in Workers, Access(w)
    PROVE  Effects
<1>1. WorkOK(worker[w]) /\ worker[w].pc = "access"  BY DEF TypeInv, PassesOK, Access, At
<1>2. PassDoes(w)
  <2>1. CASE Then(w, "visit")
    <3>1. PICK c : Goto(w, c) /\ WorkOK(c) /\ c.pc = "visit"  BY <1>1, <2>1, ThenOK
    <3> QED BY <3>1, Goes
  <2>2. CASE NextSchedule(w)  BY <1>1, <2>2, NextScheduleDoes
  <2> QED BY <2>1, <2>2 DEF Access
<1> QED BY <1>2, SameEffects DEF Access, Effects

\* A pass that advances its schedule, having said the truth about the visit.
LEMMA AdvanceEffects ==
    ASSUME TypeInv, NEW w \in Workers, NEW why \in Reasons, Advance(w, why),
           worker[w].pc \in {"visit", "skip", "create", "exists"},
           worker[w].cur.made < PerTick, worker[w].cur.cursor <= worker[w].at + Look,
           NEW s \in Schedules, NEW t \in Starts, s = worker[w].cur.s, t = worker[w].cur.cursor,
           why \in {"made", "exists"} => VisitThere(s, t)'
    PROVE  Reports /\ PlansOK' /\ PastOK' /\ PassDoes(w)
<1>1. Reports  BY AdvanceReports
<1>2. PassesOK /\ PlansOK /\ PastOK  BY DEF TypeInv
<1>3. PICK c : PlansOK' /\ PastOK' /\ Goto(w, c) /\ WorkOK(c) /\ c.pc = "visit"  BY <1>2, AdvanceOK
<1>4. PassDoes(w)  BY <1>3, Goes
<1> QED BY <1>1, <1>3, <1>4

\* Where a pass stands: its schedule and its cursor.
LEMMA PassAt ==
    ASSUME TypeInv, NEW w \in Workers,
           worker[w].pc \in {"access", "visit", "skip", "create", "exists"}
    PROVE  /\ \E s \in Schedules, t \in Starts : s = worker[w].cur.s /\ t = worker[w].cur.cursor
           /\ worker[w].cur.made \in 0..PerTick /\ worker[w].at \in 0..LastTime
           /\ worker[w].pc \in {"skip", "create", "exists"} =>
                worker[w].cur.made < PerTick /\ worker[w].cur.cursor <= worker[w].at + Look
<1>1. WorkOK(worker[w])  BY DEF TypeInv, PassesOK
<1>2. /\ worker[w].cur.s \in Schedules /\ worker[w].cur.cursor \in Starts
      /\ worker[w].cur.made \in 0..PerTick /\ worker[w].at \in 0..LastTime
  BY <1>1, BusyPass
<1> QED BY <1>1, <1>2 DEF WorkOK

LEMMA VisitEffects ==
    ASSUME TypeInv, ThereInv, NEW w \in Workers, Visit(w)
    PROVE  Effects
<1>1. worker[w].pc = "visit" /\ WorkOK(worker[w])  BY DEF Visit, At, TypeInv, PassesOK
<1>2. PICK s \in Schedules, t \in Starts : s = worker[w].cur.s /\ t = worker[w].cur.cursor
  BY <1>1, PassAt
<1>3. worker[w].cur.made \in 0..PerTick /\ worker[w].at \in 0..LastTime  BY <1>1, PassAt
<1>4. UNCHANGED <<now, paying, bookings, widget, faults, overtaken>>  BY DEF Visit
<1>5. CASE NextSchedule(w) /\ UNCHANGED <<schedule, passed>>
  <2>1. PassDoes(w)  BY <1>1, <1>5, NextScheduleDoes
  <2> QED BY <1>4, <1>5, <2>1, SameEffects DEF Effects
<1>6. CASE worker[w].cur.made # PerTick /\ ~(worker[w].cur.cursor > worker[w].at + Look)
  <2>1. worker[w].cur.made < PerTick /\ worker[w].cur.cursor <= worker[w].at + Look
    BY <1>2, <1>3, <1>6, Bounds
  <2>2. ASSUME NEW why \in {"past", "address"}, Advance(w, why)  PROVE Effects
    <3>1. why \in Reasons /\ why \notin {"made", "exists"}  BY DEF Reasons
    <3>2. Reports /\ PlansOK' /\ PastOK' /\ PassDoes(w)
      BY <1>1, <1>2, <2>1, <2>2, <3>1, AdvanceEffects
    <3> QED BY <1>4, <3>2, SameEffects DEF Effects
  <2>3. ASSUME NEW pc \in {"skip", "create"}, Then(w, pc), UNCHANGED <<schedule, passed>>
        PROVE  Effects
    <3>1. PICK c : Goto(w, c) /\ WorkOK(c) /\ c.pc = pc  BY <1>1, <2>1, <2>3, ThenOK
    <3>2. PassDoes(w)  BY <3>1, Goes
    <3> QED BY <1>4, <2>3, <3>2, SameEffects DEF Effects
  <2> QED BY <1>6, <2>2, <2>3 DEF Visit
<1> QED BY <1>5, <1>6 DEF Visit

LEMMA SkipEffects ==
    ASSUME TypeInv, ThereInv, NEW w \in Workers, Skip(w)
    PROVE  Effects
<1>1. worker[w].pc = "skip" /\ Advance(w, "conflict")  BY DEF Skip, At
<1>2. PICK s \in Schedules, t \in Starts : s = worker[w].cur.s /\ t = worker[w].cur.cursor
  BY <1>1, PassAt
<1>3. worker[w].cur.made < PerTick /\ worker[w].cur.cursor <= worker[w].at + Look
  BY <1>1, PassAt
<1>4. Reports /\ PlansOK' /\ PastOK' /\ PassDoes(w)
  BY <1>1, <1>2, <1>3, AdvanceEffects DEF Reasons
<1> QED BY <1>4, SameEffects DEF Skip, Effects

LEMMA NewVisit ==
    ASSUME NEW s \in Schedules \cup {OneOff}, NEW t \in Starts
    PROVE  /\ NewRow(NewBooking(s, t)) /\ NewBooking(s, t).sched = s
           /\ NewBooking(s, t).orig = t
BY Bounds DEF NewRow, NewBooking, Booking

LEMMA CreateEffects ==
    ASSUME TypeInv, ThereInv, NEW w \in Workers, Create(w)
    PROVE  Effects /\ (UNCHANGED bookings \/ \E n : Adds(n))
<1>1. worker[w].pc = "create" /\ WorkOK(worker[w])  BY DEF Create, At, TypeInv, PassesOK
<1>2. PICK s \in Schedules, t \in Starts : s = worker[w].cur.s /\ t = worker[w].cur.cursor
  BY <1>1, PassAt
<1>3. worker[w].cur.made < PerTick /\ worker[w].cur.cursor <= worker[w].at + Look
  BY <1>1, PassAt
<1>4. UNCHANGED <<now, paying, widget, faults, overtaken>>  BY DEF Create
<1>5. CASE /\ ~Taken(worker[w].cur.s, Start(w)) /\ Len(bookings) < MaxBookings
           /\ bookings' = Append(bookings, NewBooking(worker[w].cur.s, Start(w)))
           /\ Advance(w, "made")
  <2>1. PICK n : n = NewBooking(s, t)  OBVIOUS
  <2>2. NewRow(n) /\ n.sched = s /\ n.orig = t  BY <2>1, NewVisit
  <2>3. Adds(n)  BY <1>2, <1>5, <2>1, <2>2 DEF Adds, Start
  <2>4. Len(bookings) + 1 \in Made' /\ bookings'[Len(bookings) + 1] = n /\ RowsStep
    BY <2>3, AddedRows DEF TypeInv
  <2>5. VisitThere(s, t)'  BY <2>2, <2>4 DEF VisitThere
  <2>6. Reports /\ PlansOK' /\ PastOK' /\ PassDoes(w)
    BY <1>1, <1>2, <1>3, <1>5, <2>5, AdvanceEffects DEF Reasons
  <2> QED BY <1>4, <2>3, <2>4, <2>6, SameEffects DEF Effects
<1>6. CASE /\ Taken(worker[w].cur.s, Start(w)) /\ Then(w, "exists")
           /\ UNCHANGED <<bookings, schedule, passed>>
  <2>1. VisitThere(s, t)  BY <1>2, <1>6, TakenIsThere DEF TypeInv, Start
  <2>2. VisitThere(s, t)'  BY <1>6, <2>1 DEF VisitThere, Made
  <2>3. PICK c : Goto(w, c) /\ WorkOK(c) /\ c.pc = "exists" /\ c.cur = worker[w].cur
    BY <1>1, <1>3, <1>6, ThenOK
  <2>4. PassDoes(w)
    <3>1. c.cur.s = s /\ c.cur.cursor = t  BY <1>2, <2>3
    <3>2. VisitThere(c.cur.s, c.cur.cursor)'  BY <2>2, <3>1
    <3> QED BY <2>3, <3>2 DEF PassDoes, HeldThere
  <2> QED BY <1>4, <1>6, <2>4, SameEffects DEF Effects
<1> QED BY <1>5, <1>6 DEF Create

LEMMA ExistsEffects ==
    ASSUME TypeInv, ThereInv, NEW w \in Workers, Exists(w)
    PROVE  Effects
<1>1. worker[w].pc = "exists" /\ Advance(w, "exists")  BY DEF Exists, At
<1>2. PICK s \in Schedules, t \in Starts : s = worker[w].cur.s /\ t = worker[w].cur.cursor
  BY <1>1, PassAt
<1>3. worker[w].cur.made < PerTick /\ worker[w].cur.cursor <= worker[w].at + Look
  BY <1>1, PassAt
<1>4. VisitThere(s, t)  BY <1>1, <1>2 DEF ThereInv, FoundThere
<1>5. VisitThere(s, t)'  BY <1>4 DEF VisitThere, Made, Exists
<1>6. Reports /\ PlansOK' /\ PastOK' /\ PassDoes(w)
  BY <1>1, <1>2, <1>3, <1>5, AdvanceEffects DEF Reasons
<1> QED BY <1>6, SameEffects DEF Exists, Effects

LEMMA RefusedEffects ==
    ASSUME TypeInv, ThereInv, NEW w \in Workers, Refused(w)
    PROVE  Effects
<1>1. worker[w].pc = "create" /\ NextSchedule(w)  BY DEF Refused, At
<1>2. PassDoes(w)  BY <1>1, NextScheduleDoes
<1> QED BY <1>2, SameEffects DEF Refused, Effects

LEMMA KilledEffects ==
    ASSUME TypeInv, ThereInv, NEW w \in Workers, Killed(w)
    PROVE  Effects
<1>1. PassDoes(w)  BY IdleWork, Goes DEF Killed
<1> QED BY <1>1, SameEffects DEF Killed, Effects

-----------------------------------------------------------------------------
(* The reminders, and what changes a row *)

LEMMA NextReminderDoes ==
    ASSUME NEW w \in Workers, TypeInv, RowsStep, NEW R \in SUBSET Reminder, NextReminder(w, R),
           \A r \in R : r.b \in Made /\ r.moves <= bookings[r.b].moves
    PROVE  PassDoes(w)
<1>1. PICK c : /\ Goto(w, c) /\ WorkOK(c) /\ c.pc \in {"idle", "claim"}
               /\ c.pc = "claim" => c.cur \in R /\ c.todo \subseteq R
  BY NextReminderOK
<1>2. \A r \in R : r.b \in Made' /\ r.moves <= bookings'[r.b].moves
  BY RemindersStay DEF TypeInv
<1>3. HeldThere(c)'  BY <1>1, <1>2 DEF HeldThere
<1> QED BY <1>1, <1>3 DEF PassDoes

LEMMA RemindScanEffects ==
    ASSUME TypeInv, ThereInv, NEW w \in Workers, RemindScan(w)
    PROVE  Effects
<1>1. PICK R : R = {[b |-> b, moves |-> bookings[b].moves] : b \in Due}  OBVIOUS
<1>2. \A b \in Due : b \in Made /\ b \in Ids /\ bookings[b].moves \in 0..MaxMoves
  BY MadeRows, BookingFields DEF TypeInv, Due, Open
<1>3. R \in SUBSET Reminder  BY <1>1, <1>2 DEF Reminder
<1>4. \A r \in R : r.b \in Made /\ r.moves <= bookings[r.b].moves  BY <1>1, <1>2, Bounds
<1>5. RowsStep /\ NextReminder(w, R)  BY <1>1 DEF RemindScan, RowsStep
<1>6. PassDoes(w)  BY <1>3, <1>4, <1>5, NextReminderDoes
<1> QED BY <1>6, SameEffects DEF RemindScan, Effects

\* A pass that goes on with the reminder it has.
LEMMA ThenSendOK ==
    ASSUME NEW w \in Workers, TypeInv, worker[w].pc = "claim", Then(w, "send")
    PROVE  \E c : /\ Goto(w, c) /\ WorkOK(c) /\ c.pc = "send" /\ c.cur = worker[w].cur
                  /\ c.todo = worker[w].todo
<1>1. PICK o : o = worker[w]  OBVIOUS
<1>2. WorkOK(o) /\ o.pc = "claim"  BY <1>1 DEF TypeInv, PassesOK
<1>3. o.cur \in Reminder /\ o.todo \subseteq Reminder
      /\ o = [pc |-> o.pc, cur |-> o.cur, todo |-> o.todo]
  BY <1>2, BusyReminder
<1>4. PICK n : n = [o EXCEPT !.pc = "send"]  OBVIOUS
<1>5. n = [pc |-> "send", cur |-> o.cur, todo |-> o.todo]  BY <1>3, <1>4
<1>6. n \in RemindWork  BY <1>3, <1>5 DEF RemindWork
<1>7. WorkOK(n)  BY <1>5, <1>6 DEF WorkOK
<1>8. Goto(w, n)  BY <1>1, <1>4 DEF Goto, Then
<1> QED BY <1>1, <1>5, <1>7, <1>8

LEMMA CurrentReminder ==
    ASSUME TypeInv, ThereInv, NEW w \in Workers, worker[w].pc \in {"claim", "send"}
    PROVE  /\ worker[w].cur.b \in Made /\ worker[w].todo \in SUBSET Reminder
           /\ \A r \in worker[w].todo : r.b \in Made /\ r.moves <= bookings[r.b].moves
           /\ worker[w].cur.moves \in Nat /\ worker[w].cur.moves <= bookings[worker[w].cur.b].moves
<1>1. WorkOK(worker[w])  BY DEF TypeInv, PassesOK
<1>2. worker[w].todo \in SUBSET Reminder /\ worker[w].cur.moves \in Nat
  BY <1>1, BusyReminder, Bounds
<1> QED BY <1>2 DEF ThereInv, HeldThere

LEMMA MarkedRow ==
    ASSUME NEW o \in Booking
    PROVE  LET n == [o EXCEPT !.reminded = TRUE]
           IN  Later(o, n) /\ n.reminded = TRUE /\ n.moves = o.moves /\ n.sent = o.sent
<1>1. PICK n : n = [o EXCEPT !.reminded = TRUE]  OBVIOUS
<1>2. /\ n \in Booking /\ n.orig = o.orig /\ n.moves = o.moves /\ n.sched = o.sched
      /\ n.start = o.start /\ n.sent = o.sent /\ n.reminded = TRUE
  BY <1>1 DEF Booking
<1>3. o.moves \in Nat  BY BookingFields, Bounds
<1> QED BY <1>1, <1>2, <1>3 DEF Later

LEMMA SentRow ==
    ASSUME NEW o \in Booking
    PROVE  LET n == [o EXCEPT !.sent = @ + 1]
           IN  Later(o, n) /\ n.reminded = o.reminded /\ n.moves = o.moves /\ n.sent = o.sent + 1
<1>1. PICK n : n = [o EXCEPT !.sent = @ + 1]  OBVIOUS
<1>2. /\ n \in Booking /\ n.orig = o.orig /\ n.moves = o.moves /\ n.sched = o.sched
      /\ n.start = o.start /\ n.reminded = o.reminded /\ n.sent = o.sent + 1
  BY <1>1 DEF Booking
<1>3. o.moves \in Nat  BY BookingFields, Bounds
<1> QED BY <1>1, <1>2, <1>3 DEF Later

LEMMA CancelledRow ==
    ASSUME NEW o \in Booking
    PROVE  LET n == [o EXCEPT !.status = "CANCELLED"]
           IN  Later(o, n) /\ n.reminded = o.reminded /\ n.moves = o.moves /\ n.sent = o.sent
<1>1. PICK n : n = [o EXCEPT !.status = "CANCELLED"]  OBVIOUS
<1>2. /\ n \in Booking /\ n.orig = o.orig /\ n.moves = o.moves /\ n.sched = o.sched
      /\ n.start = o.start /\ n.sent = o.sent /\ n.reminded = o.reminded
  BY <1>1 DEF Booking
<1>3. o.moves \in Nat  BY BookingFields, Bounds
<1> QED BY <1>1, <1>2, <1>3 DEF Later

LEMMA LinkedRow ==
    ASSUME NEW o \in Booking, NEW s \in Schedules, o.sched = OneOff, widget' = Idle
    PROVE  LET n == [o EXCEPT !.sched = s]
           IN  Later(o, n) /\ n.reminded = o.reminded /\ n.moves = o.moves /\ n.sent = o.sent
<1>1. PICK n : n = [o EXCEPT !.sched = s]  OBVIOUS
<1>2. /\ n \in Booking /\ n.orig = o.orig /\ n.moves = o.moves
      /\ n.start = o.start /\ n.sent = o.sent /\ n.reminded = o.reminded
  BY <1>1 DEF Booking
<1>3. o.moves \in Nat  BY BookingFields, Bounds
<1> QED BY <1>1, <1>2, <1>3 DEF Later

LEMMA MovedRow ==
    ASSUME NEW o \in Booking, NEW t \in Starts, o.moves < MaxMoves
    PROVE  LET n == Moved(o, t)
           IN  Later(o, n) /\ n.reminded = FALSE /\ n.moves = o.moves + 1 /\ n.sent = 0
<1>1. PICK n : n = Moved(o, t)  OBVIOUS
<1>2. PICK m : m = o.moves + 1  OBVIOUS
<1>3. m \in 0..MaxMoves /\ m > 0 /\ m >= o.moves  BY <1>2, BookingFields, Bounds
<1>4. n = [o EXCEPT !.start = t, !.reminded = FALSE, !.moves = m, !.sent = 0]
  BY <1>1, <1>2 DEF Moved
<1>5. /\ n.orig = o.orig /\ n.moves = m /\ n.sched = o.sched /\ n.status = o.status
      /\ n.start = t /\ n.sent = 0 /\ n.reminded = FALSE
  BY <1>4 DEF Booking
<1>6. n = [sched |-> n.sched, start |-> n.start, status |-> n.status, reminded |-> n.reminded,
           orig |-> n.orig, moves |-> n.moves, sent |-> n.sent]
  BY <1>4 DEF Booking
<1>7. /\ n.sched \in Schedules \cup {OneOff} /\ n.start \in Starts /\ n.orig \in Starts
      /\ n.reminded \in BOOLEAN /\ n.moves \in 0..MaxMoves /\ n.sent \in Nat
      /\ n.status \in {"OPEN", "CANCELLED"}
  <2>1. n.reminded \in BOOLEAN  BY <1>5
  <2>2. n.sent \in Nat /\ n.moves \in 0..MaxMoves /\ n.start \in Starts  BY <1>3, <1>5
  <2> QED BY <1>5, <2>1, <2>2, BookingFields
<1>8. n \in Booking  BY ONLY <1>6, <1>7 DEF Booking
<1> QED BY <1>1, <1>2, <1>3, <1>5, <1>8 DEF Later

\* Everything but the daemons.
LEMMA DeskEffects ==
    ASSUME UNCHANGED worker, RowsStep, WidgetStep, Reports, ClockOK', PlansOK', PastOK', OthersOK'
    PROVE  Effects
BY DEF Effects

LEMMA ClaimRows ==
    ASSUME TypeInv, ThereInv, NEW w \in Workers, Claim(w), NEW d, d = worker[w].cur.b
    PROVE  /\ d \in Made
           /\ \/ /\ ~bookings[d].reminded /\ Then(w, "send")
                 /\ Changes(d, [bookings[d] EXCEPT !.reminded = TRUE])
              \/ /\ bookings[d].reminded /\ NextReminder(w, worker[w].todo) /\ UNCHANGED bookings
<1>1. worker[w].pc = "claim"  BY DEF Claim, At
<1>2. d \in Made /\ bookings[d] \in Booking
  BY <1>1, CurrentReminder, MadeRows DEF TypeInv
<1>3. CASE ~bookings[d].reminded /\ bookings' = [bookings EXCEPT ![d].reminded = TRUE] /\ Then(w, "send")
  <2>1. PICK o \in Booking : o = bookings[d]  BY <1>2
  <2>2. PICK n : n = [o EXCEPT !.reminded = TRUE]  OBVIOUS
  <2>3. Later(o, n)  BY <2>2, MarkedRow
  <2>4. bookings' = [bookings EXCEPT ![d] = n]  BY <1>3, <2>1, <2>2
  <2>5. Changes(d, n)  BY <1>2, <2>1, <2>3, <2>4 DEF Changes
  <2> QED BY <1>2, <1>3, <2>1, <2>2, <2>5
<1> QED BY <1>2, <1>3 DEF Claim

LEMMA ClaimEffects ==
    ASSUME TypeInv, ThereInv, NEW w \in Workers, Claim(w)
    PROVE  Effects
<1>1. PICK d : d = worker[w].cur.b  OBVIOUS
<1>2. worker[w].pc = "claim" /\ WorkOK(worker[w])  BY DEF Claim, At, TypeInv, PassesOK
<1>3. UNCHANGED <<now, paying, schedule, widget, faults, passed, overtaken>>  BY DEF Claim
<1>4. RowsStep /\ PassDoes(w)
  <2>1. CASE Then(w, "send") /\ Changes(d, [bookings[d] EXCEPT !.reminded = TRUE])
    <3>1. RowsStep  BY <2>1 DEF RowsStep
    <3>2. PICK c : /\ Goto(w, c) /\ WorkOK(c) /\ c.pc = "send" /\ c.cur = worker[w].cur
                   /\ c.todo = worker[w].todo
      BY <1>2, <2>1, ThenSendOK
    <3>3. HeldThere(c)  BY <1>2, <3>2 DEF ThereInv, HeldThere
    <3>4. HeldThere(c)'  BY <3>1, <3>2, <3>3, HeldStays DEF TypeInv
    <3> QED BY <3>1, <3>2, <3>4 DEF PassDoes
  <2>2. CASE NextReminder(w, worker[w].todo) /\ UNCHANGED bookings
    <3>1. RowsStep  BY <2>2 DEF RowsStep
    <3>2. PassDoes(w)  BY <1>2, <2>2, <3>1, CurrentReminder, NextReminderDoes
    <3> QED BY <3>1, <3>2
  <2> QED BY <1>1, <2>1, <2>2, ClaimRows
<1> QED BY <1>3, <1>4, SameEffects DEF Effects

LEMMA SendRows ==
    ASSUME TypeInv, ThereInv, NEW w \in Workers, Send(w), NEW d, d = worker[w].cur.b
    PROVE  /\ d \in Made
           /\ IF bookings[d].moves = worker[w].cur.moves
              THEN Changes(d, [bookings[d] EXCEPT !.sent = @ + 1]) ELSE UNCHANGED bookings
<1>1. worker[w].pc = "send"  BY DEF Send, At
<1>2. d \in Made /\ bookings[d] \in Booking
  BY <1>1, CurrentReminder, MadeRows DEF TypeInv
<1>3. CASE bookings[d].moves = worker[w].cur.moves
  <2>1. PICK o \in Booking : o = bookings[d]  BY <1>2
  <2>2. PICK n : n = [o EXCEPT !.sent = @ + 1]  OBVIOUS
  <2>3. Later(o, n)  BY <2>2, SentRow
  <2>4. bookings' = [bookings EXCEPT ![d].sent = @ + 1]  BY <1>3 DEF Send
  <2>5. bookings' = [bookings EXCEPT ![d] = n]  BY <2>1, <2>2, <2>4
  <2>6. Changes(d, n)  BY <1>2, <2>1, <2>3, <2>5 DEF Changes
  <2> QED BY <1>2, <1>3, <2>1, <2>2, <2>6
<1> QED BY <1>2, <1>3 DEF Send

LEMMA SendEffects ==
    ASSUME TypeInv, ThereInv, NEW w \in Workers, Send(w)
    PROVE  Effects
<1>1. PICK d : d = worker[w].cur.b  OBVIOUS
<1>2. RowsStep  BY <1>1, SendRows DEF RowsStep
<1>3. PassDoes(w)  BY <1>2, CurrentReminder, NextReminderDoes DEF Send, At
<1> QED BY <1>2, <1>3, SameEffects DEF Send, Effects

-----------------------------------------------------------------------------
(* The dashboard and the widget *)

LEMMA PlansEffects ==
    ASSUME TypeInv, NEW s \in Schedules,
           \/ \E t \in now + 1..LastTime : CreateSchedule(s, t)
           \/ Pause(s) \/ Resume(s) \/ CancelSchedule(s)
    PROVE  Effects
<1>1. schedule \in [Schedules -> Schedule] /\ now \in 0..LastTime
  BY DEF TypeInv, PlansOK, ClockOK
<1>2. UNCHANGED <<worker, now, paying, faults, bookings, widget, passed, overtaken>>
  BY DEF CreateSchedule, Pause, Resume, CancelSchedule, desk
<1>3. PlansOK'
  <2>1. ASSUME NEW t \in now + 1..LastTime, CreateSchedule(s, t)  PROVE PlansOK'
    <3>1. t \in Starts  BY <1>1, Bounds DEF Starts
    <3>2. [schedule[s] EXCEPT !.status = "ACTIVE", !.next = t] \in Schedule
      BY <1>1, <3>1 DEF Schedule
    <3>3. schedule' = [schedule EXCEPT ![s] = [schedule[s] EXCEPT !.status = "ACTIVE", !.next = t]]
      BY <1>1, <2>1 DEF CreateSchedule
    <3> QED BY <1>1, <3>2, <3>3 DEF PlansOK
  <2>2. ASSUME NEW st \in {"ACTIVE", "PAUSED", "CANCELLED"}, SetStatus(s, st)  PROVE PlansOK'
    <3>1. [schedule[s] EXCEPT !.status = st] \in Schedule  BY <1>1 DEF Schedule
    <3> QED BY <1>1, <2>2, <3>1 DEF SetStatus, PlansOK
  <2> QED BY <2>1, <2>2 DEF Pause, Resume, CancelSchedule
<1> QED BY <1>2, <1>3, SameEffects, DeskEffects

LEMMA BookEffects ==
    ASSUME TypeInv, NEW t \in now..LastTime, Book(t)
    PROVE  Effects /\ \E n : Adds(n)
<1>1. t \in Starts  BY Bounds DEF TypeInv, ClockOK, Starts
<1>2. PICK n : n = NewBooking(OneOff, t)  OBVIOUS
<1>3. Adds(n)  BY <1>1, <1>2, NewVisit DEF Book, Adds
<1>4. RowsStep  BY <1>3 DEF RowsStep
<1> QED BY <1>3, <1>4, SameEffects, DeskEffects DEF Book, desk

LEMMA MoveRows ==
    ASSUME TypeInv, NEW b \in Made, NEW t \in 0..LastTime, Move(b, t)
    PROVE  Changes(b, Moved(bookings[b], t)) /\ bookings[b].moves < MaxMoves
<1>1. bookings[b] \in Booking /\ bookings[b].moves < MaxMoves
  BY MadeRows DEF TypeInv, Move
<1>2. t \in Starts  BY Bounds DEF Starts
<1>3. PICK o \in Booking : o = bookings[b]  BY <1>1
<1>4. PICK n : n = Moved(o, t)  OBVIOUS
<1>5. Later(o, n)  BY <1>1, <1>2, <1>3, <1>4, MovedRow
<1>6. bookings' = [bookings EXCEPT ![b] = n]  BY <1>3, <1>4 DEF Move
<1> QED BY <1>1, <1>3, <1>4, <1>5, <1>6 DEF Changes

LEMMA MoveEffects ==
    ASSUME TypeInv, NEW b \in Made, NEW t \in 0..LastTime, Move(b, t)
    PROVE  Effects
<1>1. RowsStep  BY MoveRows DEF RowsStep
<1>2. overtaken' \in BOOLEAN  BY DEF Move, TypeInv, OthersOK
<1>3. UNCHANGED <<worker, now, paying, faults, schedule, widget, passed>>  BY DEF Move, desk
<1>4. OthersOK'  BY <1>2, <1>3 DEF TypeInv, OthersOK
<1> QED BY <1>1, <1>3, <1>4, SameEffects, DeskEffects

LEMMA CancelEffects ==
    ASSUME TypeInv, NEW b \in Made, CancelBooking(b)
    PROVE  Effects /\ Changes(b, [bookings[b] EXCEPT !.status = "CANCELLED"])
<1>1. PICK o \in Booking : o = bookings[b]  BY MadeRows DEF TypeInv
<1>2. PICK n : n = [o EXCEPT !.status = "CANCELLED"]  OBVIOUS
<1>3. Later(o, n)  BY <1>2, CancelledRow
<1>4. bookings' = [bookings EXCEPT ![b] = n]  BY <1>1, <1>2 DEF CancelBooking
<1>5. Changes(b, n)  BY <1>1, <1>3, <1>4 DEF Changes
<1>6. RowsStep  BY <1>5 DEF RowsStep
<1> QED BY <1>1, <1>2, <1>5, <1>6, SameEffects, DeskEffects DEF CancelBooking, desk

LEMMA WidgetBookEffects ==
    ASSUME TypeInv, NEW t \in now + 1..LastTime, WidgetBook(t)
    PROVE  Effects /\ \E n : Adds(n)
<1>1. t \in Starts /\ t <= LastTime  BY Bounds DEF TypeInv, ClockOK, Starts
<1>2. PICK n : n = NewBooking(OneOff, t)  OBVIOUS
<1>3. NewRow(n) /\ n.sched = OneOff /\ n.orig = t  BY <1>1, <1>2, NewVisit
<1>4. Adds(n)  BY <1>2, <1>3 DEF WidgetBook, Adds
<1>5. PICK k : k = Len(bookings) + 1  OBVIOUS
<1>6. /\ k \in Made' /\ bookings'[k] = n /\ Len(bookings') = k /\ RowsStep
  BY <1>4, <1>5, AddedRows DEF TypeInv
<1>7. k \in Ids  BY <1>5, MadeRows, Bounds DEF TypeInv, Ids, WidgetBook
<1>8. widget' = [pc |-> "schedule", bk |-> k]  BY <1>5 DEF WidgetBook
<1>9. widget' \in WidgetWork /\ widget'.bk = k  BY <1>7, <1>8 DEF WidgetWork
<1>10. WidgetOK'  BY <1>1, <1>3, <1>6, <1>9 DEF WidgetOK
<1>11. WidgetStep  BY <1>10 DEF WidgetStep
<1> QED BY <1>4, <1>6, <1>11, SameEffects, DeskEffects DEF WidgetBook, desk

LEMMA WidgetScheduleEffects ==
    ASSUME TypeInv, NEW s \in Schedules, WidgetSchedule(s)
    PROVE  Effects
<1>1. widget \in WidgetWork /\ widget # Idle /\ widget.pc = "schedule"
  BY DEF WidgetSchedule, TypeInv, WidgetOK, WidgetWork, Idle
<1>2. PICK k : k = widget.bk  OBVIOUS
<1>3. k \in Ids /\ k \in Made /\ bookings[k].sched = OneOff /\ bookings[k].orig <= LastTime
  BY <1>1, <1>2 DEF TypeInv, WidgetOK, WidgetWork
<1>4. PICK t : t = bookings[k].orig + 1  OBVIOUS
<1>5. t \in Starts
  <2>1. bookings[k].orig \in Starts  BY <1>3, MadeRows, BookingFields DEF TypeInv
  <2> QED BY <1>3, <1>4, <2>1, Bounds DEF Starts
<1>6. PlansOK'
  <2>1. schedule \in [Schedules -> Schedule]  BY DEF TypeInv, PlansOK
  <2>2. PICK n : n = [schedule[s] EXCEPT !.status = "ACTIVE", !.next = t, !.address = TRUE]  OBVIOUS
  <2>3. n \in Schedule  BY <1>5, <2>1, <2>2 DEF Schedule
  <2>4. schedule' = [schedule EXCEPT ![s] = n]
    BY <1>2, <1>4, <2>1, <2>2 DEF WidgetSchedule
  <2> QED BY <2>1, <2>3, <2>4 DEF PlansOK
<1>7. widget' = [pc |-> "link", bk |-> k, s |-> s]  BY <1>2 DEF WidgetSchedule
<1>8. widget' \in WidgetWork /\ widget'.bk = k  BY <1>3, <1>7 DEF WidgetWork
<1>9. WidgetOK'  BY <1>3, <1>8 DEF WidgetOK, WidgetSchedule, Made
<1>10. WidgetStep  BY <1>9 DEF WidgetStep
<1> QED BY <1>6, <1>10, SameEffects, DeskEffects DEF WidgetSchedule, desk

LEMMA WidgetLinkEffects ==
    ASSUME TypeInv, WidgetLink
    PROVE  /\ Effects
           /\ UNCHANGED bookings \/ \E s \in Schedules, b \in Made :
                bookings[b].sched = OneOff /\ Changes(b, [bookings[b] EXCEPT !.sched = s])
<1>1. widget \in WidgetWork /\ widget # Idle /\ widget.pc = "link"
  BY DEF WidgetLink, TypeInv, WidgetOK, WidgetWork, Idle
<1>2. PICK k : k = widget.bk  OBVIOUS
<1>3. PICK s \in Schedules : s = widget.s  BY <1>1 DEF WidgetWork
<1>4. k \in Made /\ bookings[k].sched = OneOff  BY <1>1, <1>2 DEF TypeInv, WidgetOK
<1>5. widget' = Idle  BY DEF WidgetLink
<1>6. UNCHANGED bookings \/ Changes(k, [bookings[k] EXCEPT !.sched = s])
  <2>1. CASE bookings' = [bookings EXCEPT ![k].sched = s]
    <3>1. PICK o \in Booking : o = bookings[k]  BY <1>4, MadeRows DEF TypeInv
    <3>2. PICK n : n = [o EXCEPT !.sched = s]  OBVIOUS
    <3>3. Later(o, n)  BY <1>4, <1>5, <3>1, <3>2, LinkedRow
    <3>4. bookings' = [bookings EXCEPT ![k] = n]  BY <2>1, <3>1, <3>2
    <3> QED BY <1>4, <3>1, <3>2, <3>3, <3>4 DEF Changes
  <2> QED BY <1>2, <1>3, <2>1 DEF WidgetLink
<1>7. RowsStep  BY <1>6 DEF RowsStep
<1> QED BY <1>4, <1>6, <1>7, SameEffects, DeskEffects DEF WidgetLink, WidgetStep, desk

LEMMA OtherEffects ==
    ASSUME TypeInv, WidgetFails \/ Tick \/ Subscription
    PROVE  Effects /\ UNCHANGED <<bookings, worker, overtaken>>
<1>1. CASE WidgetFails
  BY <1>1, SameEffects, DeskEffects DEF WidgetFails, WidgetStep
<1>2. CASE Tick
  <2>1. ClockOK'  BY <1>2, Bounds DEF Tick, TypeInv, ClockOK
  <2> QED BY <1>2, <2>1, SameEffects, DeskEffects DEF Tick
<1>3. CASE Subscription
  <2>1. paying' \in BOOLEAN  BY <1>3 DEF Subscription, TypeInv, OthersOK
  <2>2. OthersOK'  BY <1>3, <2>1 DEF Subscription, TypeInv, OthersOK
  <2> QED BY <1>3, <2>2, SameEffects, DeskEffects DEF Subscription
<1> QED BY <1>1, <1>2, <1>3

LEMMA NextEffects ==
    ASSUME TypeInv, ThereInv, Next
    PROVE  Effects
<1>1. ASSUME NEW w \in Workers, Materialise(w) \/ Refused(w) \/ Remind(w) \/ Killed(w)
      PROVE  Effects
  BY <1>1, ScanEffects, AccessEffects, VisitEffects, SkipEffects, CreateEffects, ExistsEffects,
     RefusedEffects, KilledEffects, RemindScanEffects, ClaimEffects, SendEffects
     DEF Materialise, Remind
<1>2. CASE Dashboard
  BY <1>2, PlansEffects, BookEffects, MoveEffects, CancelEffects DEF Dashboard
<1>3. CASE Widget
  BY <1>3, WidgetBookEffects, WidgetScheduleEffects, WidgetLinkEffects, OtherEffects DEF Widget
<1>4. CASE Tick \/ Subscription  BY <1>4, OtherEffects
<1> QED BY <1>1, <1>2, <1>3, <1>4 DEF Next

LEMMA InitThere ==
    ASSUME Init
    PROVE  TypeInv /\ ThereInv
<1>1. ClockOK /\ PlansOK /\ PastOK /\ OthersOK
  <2>1. ClockOK  BY Bounds DEF Init, ClockOK
  <2>2. PlansOK  BY Bounds DEF Init, PlansOK, Schedule, Starts
  <2>3. PastOK  BY DEF Init, PastOK
  <2>4. faults \in 0..MaxFaults  BY Bounds DEF Init
  <2>5. paying \in BOOLEAN /\ overtaken \in BOOLEAN  BY DEF Init
  <2> QED BY <2>1, <2>2, <2>3, <2>4, <2>5 DEF OthersOK
<1>2. bookings = <<>> /\ Made = {} /\ Rows  BY Bounds DEF Init, Made, Rows
<1>3. PassesOK  BY IdleWork DEF Init, PassesOK
<1>4. WidgetOK  BY DEF Init, WidgetOK
<1>5. ThereInv  BY IdleWork DEF Init, ThereInv, FoundThere, HeldThere
<1> QED BY <1>1, <1>2, <1>3, <1>4, <1>5 DEF TypeInv

LEMMA NextThere ==
    ASSUME TypeInv, ThereInv, [Next]_vars
    PROVE  TypeInv' /\ ThereInv'
<1>1. CASE Next  BY <1>1, NextEffects, EffectsKeep
<1>2. CASE UNCHANGED vars
  <2>1. UNCHANGED worker  BY <1>2 DEF vars
  <2>2. Effects  BY <1>2, <2>1, SameEffects, DeskEffects DEF vars
  <2> QED BY <2>2, EffectsKeep
<1> QED BY <1>1, <1>2

\* Passes that overlap, are killed or have their transaction refused lose no visit:
\* recurringWorker moves nextRunDate past a visit as made, or as made by another
\* replica, only if it is there or a visit of the schedule was moved.
THEOREM NoVisitIsLost == Spec => []NoVisitLost
<1>1. Init => TypeInv /\ ThereInv  BY InitThere
<1>2. TypeInv /\ ThereInv /\ [Next]_vars => TypeInv' /\ ThereInv'  BY NextThere
<1>3. TypeInv /\ ThereInv => NoVisitLost  BY DEF ThereInv, NoVisitLost, VisitThere
<1> QED BY <1>1, <1>2, <1>3, PTL DEF Spec

-----------------------------------------------------------------------------
(* Nobody is reminded twice, or marked and not reminded *)

Unsent == \A b \in Made : /\ ~bookings[b].reminded => bookings[b].sent = 0
                          /\ bookings[b].sent <= 1

\* A reminder that names another start than the booking has was overtaken.
HeldFresh(c) == c.pc \in {"claim", "send"} =>
                  \A r \in c.todo \cup {c.cur} : r.moves # bookings[r.b].moves => overtaken

\* A pass that is to send the reminder of the start its booking has holds the
\* mark of that start, and holds it alone.
Sends(w)  == worker[w].pc = "send" /\ worker[w].cur.moves = bookings[worker[w].cur.b].moves
SendsOK   == \A w \in Workers : Sends(w) =>
                /\ bookings[worker[w].cur.b].reminded /\ bookings[worker[w].cur.b].sent = 0
OneSender == \A v, w \in Workers :
                Sends(v) /\ Sends(w) /\ worker[v].cur.b = worker[w].cur.b => v = w

RemindInv == /\ Unsent /\ SendsOK /\ OneSender /\ MarkedIsReminded
             /\ \A w \in Workers : HeldFresh(worker[w])

SameMark(b) == /\ bookings'[b].reminded = bookings[b].reminded
               /\ bookings'[b].moves = bookings[b].moves /\ bookings'[b].sent = bookings[b].sent

\* The rows' marks stay, new rows have none.
Kept == /\ Made \subseteq Made' /\ \A b \in Made : SameMark(b)
        /\ \A b \in Made' \ Made : NewRow(bookings'[b])

LEMMA KeptRows ==
    ASSUME Rows
    PROVE  /\ UNCHANGED bookings => Kept
           /\ (\E n : Adds(n)) => Kept
           /\ \A b, n : /\ Changes(b, n) /\ n.reminded = bookings[b].reminded
                        /\ n.moves = bookings[b].moves /\ n.sent = bookings[b].sent
                        => Kept
<1>1. UNCHANGED bookings => Kept  BY DEF Kept, SameMark, Made
<1>2. ASSUME NEW n, Adds(n)  PROVE Kept
  BY <1>2, AddedRows DEF Kept, SameMark, Adds
<1>3. ASSUME NEW b, NEW n, Changes(b, n), n.reminded = bookings[b].reminded,
             n.moves = bookings[b].moves, n.sent = bookings[b].sent
      PROVE  Kept
  BY <1>3, ChangedRows DEF Kept, SameMark
<1> QED BY <1>1, <1>2, <1>3

\* What a pass is to send is a row that is there.
LEMMA SenderThere ==
    ASSUME TypeInv, ThereInv, NEW w \in Workers, worker[w].pc = "send"
    PROVE  worker[w].cur.b \in Made
BY CurrentReminder

\* A pass that stops with a reminder unsent died, a pass that starts has none to send.
Calm(w) == \/ worker'[w] = worker[w]
           \/ /\ worker'[w].pc # "send" /\ HeldFresh(worker[w])'
              /\ worker[w].pc = "send" => faults' > 0

LEMMA CalmStep ==
    ASSUME TypeInv, ThereInv, RemindInv, Kept, \A w \in Workers : Calm(w),
           overtaken' = overtaken, faults > 0 => faults' > 0
    PROVE  RemindInv'
<1> USE DEF RemindInv
<1>1. \A b \in Made : b \in Made' /\ SameMark(b)  BY DEF Kept
<1>2. \A b \in Made' : b \notin Made => bookings'[b].reminded = FALSE /\ bookings'[b].sent = 0
  BY DEF Kept, NewRow
<1>3. Unsent'  BY <1>1, <1>2 DEF Unsent, SameMark
<1>4. ASSUME NEW w \in Workers  PROVE HeldFresh(worker[w])'
  <2>1. CASE worker'[w] = worker[w]
    <3>1. PICK c : c = worker[w]  OBVIOUS
    <3>2. \A r \in c.todo \cup {c.cur} : c.pc \in {"claim", "send"} =>
             r.b \in Made /\ (r.moves # bookings[r.b].moves => overtaken)
      BY <3>1 DEF ThereInv, HeldThere, HeldFresh
    <3> QED BY <1>1, <2>1, <3>1, <3>2 DEF HeldFresh, SameMark
  <2> QED BY <2>1 DEF Calm
<1>5. ASSUME NEW w \in Workers, Sends(w)'
      PROVE  /\ Sends(w) /\ worker'[w] = worker[w] /\ worker[w].cur.b \in Made
             /\ SameMark(worker[w].cur.b)
  <2>1. worker'[w] = worker[w] /\ worker[w].pc = "send"  BY <1>5 DEF Sends, Calm
  <2>2. worker[w].cur.b \in Made  BY <2>1, SenderThere
  <2>3. SameMark(worker[w].cur.b)  BY <1>1, <2>2
  <2> QED BY <1>5, <2>1, <2>2, <2>3 DEF Sends, SameMark
<1>6. SendsOK'  BY <1>5 DEF SendsOK, SameMark
<1>7. OneSender'  BY <1>5 DEF OneSender
<1>8. MarkedIsReminded'
  <2> SUFFICES ASSUME NEW b \in Made', bookings'[b].reminded, ~(faults' > 0), ~overtaken',
                      ~(bookings'[b].sent > 0)
               PROVE  Sending(b)'
    BY DEF MarkedIsReminded
  <2>1. b \in Made /\ SameMark(b)  BY <1>1, <1>2
  <2>2. Sending(b)  BY <2>1 DEF MarkedIsReminded, SameMark
  <2>3. PICK w \in Workers : worker[w].pc = "send" /\ worker[w].cur.b = b
    BY <2>2 DEF Sending, At
  <2>4. worker'[w] = worker[w]  BY <2>3 DEF Calm
  <2> QED BY <2>3, <2>4 DEF Sending, At
<1> QED BY <1>3, <1>4, <1>6, <1>7, <1>8

LEMMA OneGoes ==
    ASSUME TypeInv, NEW w \in Workers, NEW c, Goto(w, c)
    PROVE  \A v \in Workers : worker'[v] = IF v = w THEN c ELSE worker[v]
BY DEF TypeInv, PassesOK, Goto

LEMMA MaterialiseGoes ==
    ASSUME TypeInv, NEW w \in Workers, Materialise(w) \/ Refused(w)
    PROVE  /\ worker[w].pc \notin {"claim", "send"}
           /\ \E c : Goto(w, c) /\ c.pc \notin {"claim", "send"}
<1> DEFINE Busy == worker[w].pc \in {"access", "visit", "skip", "create", "exists"}
<1>1. ASSUME Busy, NextSchedule(w)
      PROVE  \E c : Goto(w, c) /\ c.pc \notin {"claim", "send"}
  BY <1>1, NextScheduleOK DEF TypeInv
<1>2. ASSUME Busy  PROVE PassShape(worker[w])
  BY <1>2, BusyPass DEF TypeInv, PassesOK
<1>3. ASSUME Busy, NEW pc \in {"visit", "skip", "create", "exists"}, Then(w, pc)
      PROVE  \E c : Goto(w, c) /\ c.pc \notin {"claim", "send"}
  <2>1. PICK c : c = [worker[w] EXCEPT !.pc = pc]  OBVIOUS
  <2>2. c.pc = pc  BY <1>2, <1>3, <2>1, PassGoesOn
  <2> QED BY <1>3, <2>1, <2>2 DEF Goto, Then
<1>4. ASSUME Busy, NEW why, Advance(w, why)
      PROVE  \E c : Goto(w, c) /\ c.pc \notin {"claim", "send"}
  <2>1. PICK k : k = [s |-> worker[w].cur.s, cursor |-> Start(w) + 1, made |-> worker[w].cur.made + 1]
    OBVIOUS
  <2>2. PICK c : c = [worker[w] EXCEPT !.pc = "visit", !.cur = k]  OBVIOUS
  <2>3. c.pc = "visit"  BY <1>2, <1>4, <2>2, PassGoesOn
  <2> QED BY <1>4, <2>1, <2>2, <2>3 DEF Advance
<1>5. CASE Scan(w)
  <2>1. PICK k : Goto(w, [pc |-> "access", at |-> now, cur |-> k, todo |-> Found \ {k}])
    BY <1>5 DEF Scan
  <2>2. PICK c : c = [pc |-> "access", at |-> now, cur |-> k, todo |-> Found \ {k}]  OBVIOUS
  <2> QED BY <1>5, <2>1, <2>2, IdleWork DEF Scan
<1>6. CASE Access(w)  BY <1>1, <1>3, <1>6 DEF Access, At
<1>7. CASE Visit(w)  BY <1>1, <1>3, <1>4, <1>7 DEF Visit, At
<1>8. CASE Skip(w) \/ Exists(w)  BY <1>4, <1>8 DEF Skip, Exists, At
<1>9. CASE Create(w)  BY <1>3, <1>4, <1>9 DEF Create, At
<1>10. CASE Refused(w)  BY <1>1, <1>10 DEF Refused, At
<1> QED BY <1>5, <1>6, <1>7, <1>8, <1>9, <1>10 DEF Materialise

LEMMA MaterialiseReminds ==
    ASSUME TypeInv, ThereInv, RemindInv, NEW w \in Workers, Materialise(w) \/ Refused(w)
    PROVE  RemindInv'
<1>1. UNCHANGED bookings \/ \E n : Adds(n)
  BY CreateEffects DEF Materialise, Scan, Access, Visit, Skip, Exists, Refused
<1>2. Kept  BY <1>1, KeptRows DEF TypeInv
<1>3. overtaken' = overtaken  BY DEF Materialise, Scan, Access, Visit, Skip, Create, Exists, Refused
<1>4. faults > 0 => faults' > 0
  BY Bounds DEF Materialise, Scan, Access, Visit, Skip, Create, Exists, Refused, Fault, TypeInv, OthersOK
<1>5. PICK c : Goto(w, c) /\ c.pc \notin {"claim", "send"} /\ worker[w].pc \notin {"claim", "send"}
  BY MaterialiseGoes
<1>6. ASSUME NEW v \in Workers  PROVE Calm(v)
  BY <1>5, OneGoes DEF Calm, HeldFresh
<1> QED BY <1>2, <1>3, <1>4, <1>6, CalmStep

LEMMA KilledReminds ==
    ASSUME TypeInv, ThereInv, RemindInv, NEW w \in Workers, Killed(w)
    PROVE  RemindInv'
<1>1. Kept  BY KeptRows DEF TypeInv, Killed
<1>2. faults' > 0  BY Bounds DEF Killed, Fault, TypeInv, OthersOK
<1>3. Goto(w, Idle)  BY DEF Killed
<1>4. ASSUME NEW v \in Workers  PROVE Calm(v)
  BY <1>2, <1>3, OneGoes, IdleWork DEF Calm, HeldFresh
<1> QED BY <1>1, <1>2, <1>4, CalmStep DEF Killed

\* A pass that takes up reminders as they are has none to send yet.
LEMMA NextReminderFresh ==
    ASSUME NEW w \in Workers, TypeInv, NEW R \in SUBSET Reminder, NextReminder(w, R),
           \A r \in R : r.moves # bookings[r.b].moves => overtaken,
           overtaken => overtaken', \A r \in R : bookings'[r.b].moves = bookings[r.b].moves
    PROVE  /\ worker'[w].pc # "send" /\ HeldFresh(worker[w])'
           /\ \A v \in Workers : v # w => worker'[v] = worker[v]
<1>1. PICK c : /\ Goto(w, c) /\ c.pc \in {"idle", "claim"}
               /\ c.pc = "claim" => c.cur \in R /\ c.todo \subseteq R
  BY NextReminderOK
<1>2. worker'[w] = c /\ \A v \in Workers : v # w => worker'[v] = worker[v]
  BY <1>1, OneGoes
<1> QED BY <1>1, <1>2 DEF HeldFresh

LEMMA RemindScanReminds ==
    ASSUME TypeInv, ThereInv, RemindInv, NEW w \in Workers, RemindScan(w)
    PROVE  RemindInv'
<1>1. PICK R : R = {[b |-> b, moves |-> bookings[b].moves] : b \in Due}  OBVIOUS
<1>2. \A b \in Due : b \in Ids /\ bookings[b].moves \in 0..MaxMoves
  BY MadeRows, BookingFields DEF TypeInv, Due, Open
<1>3. R \in SUBSET Reminder  BY <1>1, <1>2 DEF Reminder
<1>4. \A r \in R : r.moves = bookings[r.b].moves  BY <1>1
<1>5. NextReminder(w, R) /\ UNCHANGED <<bookings, faults, overtaken>>  BY <1>1 DEF RemindScan
<1>6. /\ worker'[w].pc # "send" /\ HeldFresh(worker[w])'
      /\ \A v \in Workers : v # w => worker'[v] = worker[v]
  BY <1>3, <1>4, <1>5, NextReminderFresh
<1>7. worker[w].pc # "send"  BY IdleWork DEF RemindScan
<1>8. ASSUME NEW v \in Workers  PROVE Calm(v)  BY <1>6, <1>7 DEF Calm
<1>9. Kept  BY <1>5, KeptRows DEF TypeInv
<1> QED BY <1>5, <1>8, <1>9, CalmStep

\* Only one pass takes the mark of a start: the next finds it taken.
LEMMA ClaimReminds ==
    ASSUME TypeInv, ThereInv, RemindInv, NEW w \in Workers, Claim(w)
    PROVE  RemindInv'
<1>1. PICK d : d = worker[w].cur.b  OBVIOUS
<1>2. worker[w].pc = "claim" /\ UNCHANGED <<faults, overtaken>>  BY DEF Claim, At
<1>3. worker[w].todo \in SUBSET Reminder  BY <1>2, CurrentReminder
<1>4. \A r \in worker[w].todo \cup {worker[w].cur} :
        r.b \in Made /\ (r.moves # bookings[r.b].moves => overtaken)
  BY <1>2 DEF ThereInv, HeldThere, RemindInv, HeldFresh
<1>5. CASE NextReminder(w, worker[w].todo) /\ UNCHANGED bookings
  <2>1. /\ worker'[w].pc # "send" /\ HeldFresh(worker[w])'
        /\ \A v \in Workers : v # w => worker'[v] = worker[v]
    BY <1>2, <1>3, <1>4, <1>5, NextReminderFresh
  <2>2. ASSUME NEW v \in Workers  PROVE Calm(v)  BY <1>2, <2>1 DEF Calm
  <2>3. Kept  BY <1>5, KeptRows DEF TypeInv
  <2> QED BY <1>2, <2>2, <2>3, CalmStep
<1>6. CASE /\ ~bookings[d].reminded /\ Then(w, "send") /\ d \in Made
           /\ Changes(d, [bookings[d] EXCEPT !.reminded = TRUE])
  <2> USE DEF RemindInv
  <2>1. PICK n : n = [bookings[d] EXCEPT !.reminded = TRUE]  OBVIOUS
  <2>2. /\ n.reminded = TRUE /\ n.moves = bookings[d].moves /\ n.sent = bookings[d].sent
    BY <1>6, <2>1, MadeRows, MarkedRow DEF TypeInv
  <2>3. Made' = Made /\ \A b \in Made : bookings'[b] = IF b = d THEN n ELSE bookings[b]
    BY <1>6, <2>1, ChangedRows DEF TypeInv
  <2>4. /\ bookings'[d].reminded = TRUE
        /\ \A b \in Made : /\ b # d => SameMark(b)
                           /\ bookings'[b].moves = bookings[b].moves
                           /\ bookings'[b].sent = bookings[b].sent
    BY <1>6, <2>2, <2>3 DEF SameMark
  <2>5. bookings[d].sent = 0  BY <1>6 DEF Unsent
  <2>6. PICK c : Goto(w, c) /\ c.pc = "send" /\ c.cur = worker[w].cur /\ c.todo = worker[w].todo
    BY <1>2, <1>6, ThenSendOK
  <2>7. \A v \in Workers : worker'[v] = IF v = w THEN c ELSE worker[v]  BY <2>6, OneGoes
  <2>8. Unsent'  BY <2>3, <2>4 DEF Unsent, SameMark
  <2>9. ASSUME NEW v \in Workers  PROVE HeldFresh(worker[v])'
    <3>1. CASE v = w  BY <1>2, <1>4, <2>4, <2>6, <2>7, <3>1 DEF HeldFresh
    <3>2. CASE v # w
      <4>1. PICK o : o = worker[v]  OBVIOUS
      <4>2. \A r \in o.todo \cup {o.cur} : o.pc \in {"claim", "send"} =>
               r.b \in Made /\ (r.moves # bookings[r.b].moves => overtaken)
        BY <4>1 DEF ThereInv, HeldThere, HeldFresh
      <4> QED BY <1>2, <2>4, <2>7, <3>2, <4>1, <4>2 DEF HeldFresh
    <3> QED BY <3>1, <3>2
  <2>10. ASSUME NEW v \in Workers, v # w, Sends(v)'
         PROVE  /\ Sends(v) /\ worker'[v] = worker[v] /\ worker[v].cur.b # d
                /\ worker[v].cur.b \in Made /\ SameMark(worker[v].cur.b)
    <3>1. worker'[v] = worker[v] /\ worker[v].pc = "send"  BY <2>7, <2>10 DEF Sends
    <3>2. worker[v].cur.b \in Made  BY <3>1, SenderThere
    <3>3. Sends(v)  BY <2>4, <2>10, <3>1, <3>2 DEF Sends
    <3>4. worker[v].cur.b # d  BY <1>6, <3>3 DEF SendsOK
    <3> QED BY <2>4, <3>1, <3>2, <3>3, <3>4
  <2>11. worker'[w].cur.b = d  BY <1>1, <2>6, <2>7
  <2>12. SendsOK'
    <3> SUFFICES ASSUME NEW v \in Workers, Sends(v)'
                 PROVE  bookings'[worker'[v].cur.b].reminded /\ bookings'[worker'[v].cur.b].sent = 0
      BY DEF SendsOK
    <3>1. CASE v = w  BY <1>6, <2>4, <2>5, <2>11, <3>1
    <3>2. CASE v # w  BY <2>10, <3>2 DEF SendsOK, SameMark
    <3> QED BY <3>1, <3>2
  <2>13. OneSender'
    <3> SUFFICES ASSUME NEW u \in Workers, NEW v \in Workers, Sends(u)', Sends(v)',
                        worker'[u].cur.b = worker'[v].cur.b
                 PROVE  u = v
      BY DEF OneSender
    <3>1. CASE u = w \/ v = w  BY <2>10, <2>11, <3>1
    <3>2. CASE u # w /\ v # w  BY <2>10, <3>2 DEF OneSender
    <3> QED BY <3>1, <3>2
  <2>14. MarkedIsReminded'
    <3> SUFFICES ASSUME NEW b \in Made', bookings'[b].reminded, ~(faults' > 0), ~overtaken',
                        ~(bookings'[b].sent > 0)
                 PROVE  Sending(b)'
      BY DEF MarkedIsReminded
    <3>1. CASE b = d  BY <2>6, <2>7, <2>11, <3>1 DEF Sending, At
    <3>2. CASE b # d
      <4>1. b \in Made /\ SameMark(b)  BY <2>3, <2>4, <3>2
      <4>2. Sending(b)  BY <1>2, <4>1 DEF MarkedIsReminded, SameMark
      <4>3. PICK v \in Workers : worker[v].pc = "send" /\ worker[v].cur.b = b
        BY <4>2 DEF Sending, At
      <4>4. worker'[v] = worker[v]  BY <1>2, <2>7, <4>3
      <4> QED BY <4>3, <4>4 DEF Sending, At
    <3> QED BY <3>1, <3>2
  <2> QED BY <2>8, <2>9, <2>12, <2>13, <2>14
<1> QED BY <1>1, <1>5, <1>6, ClaimRows

\* The pass that holds the mark is the only one to send.
LEMMA SendReminds ==
    ASSUME TypeInv, ThereInv, RemindInv, NEW w \in Workers, Send(w)
    PROVE  RemindInv'
<1> USE DEF RemindInv
<1>1. PICK d : d = worker[w].cur.b  OBVIOUS
<1>2. /\ worker[w].pc = "send" /\ NextReminder(w, worker[w].todo)
      /\ UNCHANGED <<faults, overtaken>>
  BY DEF Send, At
<1>3. worker[w].todo \in SUBSET Reminder  BY <1>2, CurrentReminder
<1>4. \A r \in worker[w].todo \cup {worker[w].cur} :
        r.b \in Made /\ (r.moves # bookings[r.b].moves => overtaken)
  BY <1>2 DEF ThereInv, HeldThere, HeldFresh
<1>5. d \in Made  BY <1>1, <1>4
<1>6. CASE bookings[d].moves = worker[w].cur.moves
  <2>1. PICK n : n = [bookings[d] EXCEPT !.sent = @ + 1]  OBVIOUS
  <2>2. Sends(w) /\ bookings[d].reminded /\ bookings[d].sent = 0
    BY <1>1, <1>2, <1>6 DEF Sends, SendsOK
  <2>3. Changes(d, n)  BY <1>1, <1>6, <2>1, SendRows
  <2>4. n.reminded = bookings[d].reminded /\ n.moves = bookings[d].moves /\ n.sent = 1
    <3>1. PICK o \in Booking : o = bookings[d]  BY <1>5, MadeRows DEF TypeInv
    <3>2. n.reminded = o.reminded /\ n.moves = o.moves /\ n.sent = o.sent + 1
      BY <2>1, <3>1, SentRow
    <3>3. n.sent = 1  BY <2>2, <3>1, <3>2
    <3> QED BY <3>1, <3>2, <3>3
  <2>5. Made' = Made /\ \A b \in Made : bookings'[b] = IF b = d THEN n ELSE bookings[b]
    BY <2>3, ChangedRows DEF TypeInv
  <2>6. /\ bookings'[d].reminded /\ bookings'[d].sent = 1
        /\ \A b \in Made : /\ b # d => SameMark(b)
                           /\ bookings'[b].moves = bookings[b].moves
    BY <1>5, <2>2, <2>4, <2>5 DEF SameMark
  <2>7. /\ worker'[w].pc # "send" /\ HeldFresh(worker[w])'
        /\ \A v \in Workers : v # w => worker'[v] = worker[v]
    BY <1>2, <1>3, <1>4, <2>6, NextReminderFresh
  <2>8. Unsent'  BY <2>5, <2>6 DEF Unsent, SameMark
  <2>9. ASSUME NEW v \in Workers  PROVE HeldFresh(worker[v])'
    <3>1. CASE v # w
      <4>1. PICK o : o = worker[v]  OBVIOUS
      <4>2. \A r \in o.todo \cup {o.cur} : o.pc \in {"claim", "send"} =>
               r.b \in Made /\ (r.moves # bookings[r.b].moves => overtaken)
        BY <4>1 DEF ThereInv, HeldThere, HeldFresh
      <4> QED BY <1>2, <2>6, <2>7, <3>1, <4>1, <4>2 DEF HeldFresh
    <3> QED BY <2>7, <3>1
  <2>10. ASSUME NEW v \in Workers, Sends(v)'
         PROVE  /\ Sends(v) /\ worker'[v] = worker[v] /\ SameMark(worker[v].cur.b)
    <3>1. v # w /\ worker'[v] = worker[v] /\ worker[v].pc = "send"
      BY <2>7, <2>10 DEF Sends
    <3>2. worker[v].cur.b \in Made  BY <3>1, SenderThere
    <3>3. Sends(v)  BY <2>6, <2>10, <3>1, <3>2 DEF Sends
    <3>4. worker[v].cur.b # d  BY <1>1, <2>2, <3>1, <3>3 DEF OneSender
    <3> QED BY <2>6, <3>1, <3>2, <3>3, <3>4
  <2>11. SendsOK'  BY <2>10 DEF SendsOK, SameMark
  <2>12. OneSender'  BY <2>10 DEF OneSender
  <2>13. MarkedIsReminded'
    <3> SUFFICES ASSUME NEW b \in Made', bookings'[b].reminded, ~(faults' > 0), ~overtaken',
                        ~(bookings'[b].sent > 0)
                 PROVE  Sending(b)'
      BY DEF MarkedIsReminded
    <3>1. b # d  BY <2>6
    <3>2. b \in Made /\ SameMark(b)  BY <2>5, <2>6, <3>1
    <3>3. Sending(b)  BY <1>2, <3>2 DEF MarkedIsReminded, SameMark
    <3>4. PICK v \in Workers : worker[v].pc = "send" /\ worker[v].cur.b = b
      BY <3>3 DEF Sending, At
    <3>5. worker'[v] = worker[v]  BY <1>1, <2>7, <3>1, <3>4
    <3> QED BY <3>4, <3>5 DEF Sending, At
  <2> QED BY <2>8, <2>9, <2>11, <2>12, <2>13
<1>7. CASE bookings[d].moves # worker[w].cur.moves
  <2>1. overtaken /\ overtaken'  BY <1>1, <1>2, <1>4, <1>7
  <2>2. UNCHANGED bookings /\ Made' = Made  BY <1>1, <1>7, SendRows DEF Made
  <2>3. /\ worker'[w].pc # "send"
        /\ \A v \in Workers : v # w => worker'[v] = worker[v]
    BY <1>2, <1>3, <1>4, <2>2, NextReminderFresh
  <2>4. ASSUME NEW v \in Workers, Sends(v)'
        PROVE  Sends(v) /\ worker'[v] = worker[v]
    BY <2>2, <2>3, <2>4 DEF Sends
  <2>5. Unsent'  BY <2>2 DEF Unsent
  <2>6. SendsOK' /\ OneSender'  BY <2>2, <2>4 DEF SendsOK, OneSender
  <2>7. MarkedIsReminded' /\ \A v \in Workers : HeldFresh(worker[v])'
    BY <2>1 DEF MarkedIsReminded, HeldFresh
  <2> QED BY <2>5, <2>6, <2>7
<1> QED BY <1>6, <1>7

\* A move asks for a reminder of its own, and leaves the one that is under way
\* with the start it has read.
LEMMA MoveReminds ==
    ASSUME TypeInv, ThereInv, RemindInv, NEW d \in Made, NEW t \in 0..LastTime, Move(d, t)
    PROVE  RemindInv'
<1> USE DEF RemindInv
<1>1. PICK n : n = Moved(bookings[d], t)  OBVIOUS
<1>2. Changes(d, n) /\ bookings[d].moves < MaxMoves  BY <1>1, MoveRows
<1>3. t \in Starts /\ bookings[d] \in Booking  BY Bounds, MadeRows DEF Starts, TypeInv
<1>4. n.reminded = FALSE /\ n.moves = bookings[d].moves + 1 /\ n.sent = 0
  BY <1>1, <1>2, <1>3, MovedRow
<1>5. Made' = Made /\ \A b \in Made : bookings'[b] = IF b = d THEN n ELSE bookings[b]
  BY <1>2, ChangedRows DEF TypeInv
<1>6. /\ bookings'[d].reminded = FALSE /\ bookings'[d].moves = bookings[d].moves + 1
      /\ bookings'[d].sent = 0 /\ \A b \in Made : b # d => SameMark(b)
  BY <1>4, <1>5 DEF SameMark
<1>7. /\ UNCHANGED <<worker, faults>>
      /\ overtaken' = (overtaken \/ \E w \in Workers : Holds(w, d))
  BY DEF Move, desk
<1>8. Unsent'  BY <1>5, <1>6 DEF Unsent, SameMark
<1>9. ASSUME NEW w \in Workers  PROVE HeldFresh(worker[w])'
  <2>1. PICK o : o = worker[w]  OBVIOUS
  <2>2. SUFFICES ASSUME o.pc \in {"claim", "send"}, NEW r \in o.todo \cup {o.cur}, ~overtaken'
                 PROVE  r.moves = bookings'[r.b].moves
    BY <1>7, <2>1 DEF HeldFresh
  <2>3. ~Holds(w, d) /\ ~overtaken  BY <1>7, <2>2
  <2>4. r.b # d  BY <2>1, <2>2, <2>3 DEF Holds
  <2>5. r.b \in Made /\ r.moves = bookings[r.b].moves
    BY <2>1, <2>2, <2>3 DEF ThereInv, HeldThere, HeldFresh
  <2> QED BY <1>6, <2>4, <2>5 DEF SameMark
<1>10. ASSUME NEW w \in Workers, Sends(w)'
       PROVE  Sends(w) /\ worker'[w] = worker[w] /\ SameMark(worker[w].cur.b)
  <2>1. worker'[w] = worker[w] /\ worker[w].pc = "send"  BY <1>7, <1>10 DEF Sends
  <2>2. worker[w].cur.b \in Made /\ worker[w].cur.moves <= bookings[worker[w].cur.b].moves
        /\ worker[w].cur.moves \in Nat
    BY <2>1, CurrentReminder
  <2>3. worker[w].cur.b # d
    <3> SUFFICES ASSUME worker[w].cur.b = d  PROVE FALSE
      OBVIOUS
    <3>1. worker[w].cur.moves = bookings[d].moves + 1  BY <1>6, <1>10, <2>1 DEF Sends
    <3>2. bookings[d].moves \in Nat  BY <1>3, BookingFields, Bounds
    <3> QED BY <2>2, <3>1, <3>2
  <2>4. SameMark(worker[w].cur.b)  BY <1>6, <2>2, <2>3
  <2> QED BY <1>10, <2>1, <2>4 DEF Sends, SameMark
<1>11. SendsOK'  BY <1>10 DEF SendsOK, SameMark
<1>12. OneSender'  BY <1>10 DEF OneSender
<1>13. MarkedIsReminded'
  <2> SUFFICES ASSUME NEW b \in Made', bookings'[b].reminded, ~(faults' > 0), ~overtaken',
                      ~(bookings'[b].sent > 0)
               PROVE  Sending(b)'
    BY DEF MarkedIsReminded
  <2>1. b \in Made /\ SameMark(b)  BY <1>5, <1>6
  <2>2. Sending(b)  BY <1>7, <2>1 DEF MarkedIsReminded, SameMark
  <2> QED BY <1>7, <2>2 DEF Sending, At
<1> QED BY <1>8, <1>9, <1>11, <1>12, <1>13

\* The dashboard, the widget, the clock and the subscription move no mark.
LEMMA DeskReminds ==
    ASSUME TypeInv, ThereInv, RemindInv, UNCHANGED <<worker, overtaken>>, Kept,
           faults > 0 => faults' > 0
    PROVE  RemindInv'
<1>1. \A w \in Workers : Calm(w)  BY DEF Calm
<1> QED BY <1>1, CalmStep

LEMMA NextReminds ==
    ASSUME TypeInv, ThereInv, RemindInv, [Next]_vars
    PROVE  RemindInv'
<1>1. ASSUME NEW w \in Workers, Materialise(w) \/ Refused(w) \/ Remind(w) \/ Killed(w)
      PROVE  RemindInv'
  BY <1>1, MaterialiseReminds, RemindScanReminds, ClaimReminds, SendReminds, KilledReminds DEF Remind
<1>2. ASSUME NEW s \in Schedules, NEW t, CreateSchedule(s, t) \/ Pause(s) \/ Resume(s) \/ CancelSchedule(s)
      PROVE  RemindInv'
  <2>1. UNCHANGED <<worker, overtaken, bookings, faults>>
    BY <1>2 DEF CreateSchedule, Pause, Resume, CancelSchedule, desk
  <2> QED BY <2>1, KeptRows, DeskReminds DEF TypeInv
<1>3. ASSUME NEW t \in now..LastTime, Book(t)  PROVE RemindInv'
  BY <1>3, BookEffects, KeptRows, DeskReminds DEF TypeInv, Book, desk
<1>4. ASSUME NEW b \in Made, CancelBooking(b)  PROVE RemindInv'
  <2>1. PICK n : n = [bookings[b] EXCEPT !.status = "CANCELLED"]  OBVIOUS
  <2>2. Changes(b, n)  BY <1>4, <2>1, CancelEffects
  <2>3. /\ n.reminded = bookings[b].reminded /\ n.moves = bookings[b].moves
        /\ n.sent = bookings[b].sent
    BY <2>1, MadeRows, CancelledRow DEF TypeInv
  <2>4. Kept  BY <2>2, <2>3, KeptRows DEF TypeInv
  <2> QED BY <1>4, <2>4, DeskReminds DEF CancelBooking, desk
<1>5. CASE Dashboard  BY <1>2, <1>3, <1>4, <1>5, MoveReminds DEF Dashboard
<1>6. ASSUME NEW t \in now + 1..LastTime, WidgetBook(t)  PROVE RemindInv'
  BY <1>6, WidgetBookEffects, KeptRows, DeskReminds DEF TypeInv, WidgetBook, desk
<1>7. ASSUME NEW s \in Schedules, WidgetSchedule(s)  PROVE RemindInv'
  BY <1>7, KeptRows, DeskReminds DEF TypeInv, WidgetSchedule, desk
<1>8. CASE WidgetLink
  <2>1. ASSUME NEW s \in Schedules, NEW b \in Made, bookings[b].sched = OneOff,
               Changes(b, [bookings[b] EXCEPT !.sched = s])
        PROVE  Kept
    <3>1. PICK n : n = [bookings[b] EXCEPT !.sched = s]  OBVIOUS
    <3>2. widget' = Idle  BY <1>8 DEF WidgetLink
    <3>3. /\ n.reminded = bookings[b].reminded /\ n.moves = bookings[b].moves
          /\ n.sent = bookings[b].sent
      BY <2>1, <3>1, <3>2, MadeRows, LinkedRow DEF TypeInv
    <3> QED BY <2>1, <3>1, <3>3, KeptRows DEF TypeInv
  <2>2. Kept  BY <1>8, <2>1, WidgetLinkEffects, KeptRows DEF TypeInv
  <2> QED BY <1>8, <2>2, DeskReminds DEF WidgetLink, desk
<1>9. CASE WidgetFails \/ Tick \/ Subscription
  <2>1. UNCHANGED <<bookings, worker, overtaken>>  BY <1>9, OtherEffects
  <2>2. faults > 0 => faults' > 0
    BY <1>9, Bounds DEF WidgetFails, Tick, Subscription, Fault, TypeInv, OthersOK
  <2> QED BY <2>1, <2>2, KeptRows, DeskReminds DEF TypeInv
<1>10. CASE Widget  BY <1>6, <1>7, <1>8, <1>9, <1>10 DEF Widget
<1>11. CASE UNCHANGED vars  BY <1>11, KeptRows, DeskReminds DEF vars, TypeInv
<1> QED BY <1>1, <1>5, <1>9, <1>10, <1>11 DEF Next

\* The claim of sendReminders keeps passes that overlap from reminding twice of
\* one start of a booking; what is marked was reminded of, unless the pass died
\* with the mark or the booking moved under it.
THEOREM RemindersAsMarked == Spec => []RemindedAsMarked
<1>1. Init => TypeInv /\ ThereInv /\ RemindInv
  <2>1. Init => RemindInv
    BY IdleWork DEF Init, RemindInv, Unsent, SendsOK, OneSender, Sends, MarkedIsReminded, HeldFresh, Made
  <2> QED BY <2>1, InitThere
<1>2. TypeInv /\ ThereInv /\ RemindInv /\ [Next]_vars => TypeInv' /\ ThereInv' /\ RemindInv'
  BY NextThere, NextReminds
<1>3. RemindInv => RemindedAsMarked
  BY DEF RemindInv, RemindedAsMarked, RemindedOnce, Unsent
<1> QED BY <1>1, <1>2, <1>3, PTL DEF Spec

\* Every variable of the schedules stays in its type: recurringWorker makes no more
\* visits of a schedule in a pass than its valve allows.
THEOREM RecurringTypes == Spec => []TypeOK
<1>1. Init => TypeInv /\ ThereInv  BY InitThere
<1>2. TypeInv /\ ThereInv /\ [Next]_vars => TypeInv' /\ ThereInv'  BY NextThere
<1>3. TypeInv => TypeOK
  BY DEF TypeInv, ClockOK, PlansOK, PastOK, PassesOK, Rows, WidgetOK, OthersOK, TypeOK
<1> QED BY <1>1, <1>2, <1>3, PTL DEF Spec
=============================================================================
