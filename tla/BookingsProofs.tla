--------------------------- MODULE BookingsProofs ---------------------------
EXTENDS Bookings, FiniteSetTheorems, TLAPS

LEMMA StatusFacts ==
    /\ Terminal \cup Open = Status /\ Terminal \cap Open = {}
    /\ OpenJob \subseteq Open
    /\ {"REQUESTED", "CONFIRMED", "ASSIGNED", "IN_PROGRESS"} \subseteq Open
    /\ {"COMPLETED", "CANCELLED"} \subseteq Terminal
    /\ \A s \in Open : StatusAfterAssign(s) \in Open
BY DEF Terminal, Open, Status, OpenJob, StatusAfterAssign

\* The program counter tells which record a busy slot holds.
LEMMA KindOfWork ==
    ASSUME NEW w \in Work \cup {Idle}
    PROVE  /\ w.pc \in {"assignCleaner", "assignFree", "assignCreate", "assignStatus"}
                => w \in AssignWork
           /\ w.pc \in {"confirmWrite", "completeWrite", "stamp", "cancelWrite",
                        "unassignCount", "unassignWrite", "startWrite"} => w \in BookingWork
           /\ w.pc \in {"completeRead", "cancelRead"} => w \in RereadWork
           /\ w.pc = "startRead" => w \in GateWork
           /\ w.pc \in {"clockInRead", "clockOutWrite", "checkOut", "stillOnSite",
                        "unassignBooking"} => w \in RowRead
           /\ w.pc \in {"clockInWrite", "unassignDelete"} => w \in RowWork
           /\ w.pc \in {"moveCheck", "moveWrite", "portalLock", "portalCheck",
                        "portalWrite"} => w \in MoveWork
           /\ w.pc \in {"suspendProfile", "releaseFind", "releaseCommit", "limit",
                        "profile", "activate"} => w \in RosterWork
           /\ w.pc = "idle" <=> w = Idle
<1>1. Idle.pc = "idle"  BY DEF Idle
<1>2. CASE w = Idle  BY <1>1, <1>2
<1>3. CASE w \in Work
  <2>1. CASE w \in AssignWork  BY <2>1, <1>1 DEF AssignWork
  <2>2. CASE w \in BookingWork BY <2>2, <1>1 DEF BookingWork
  <2>3. CASE w \in RereadWork  BY <2>3, <1>1 DEF RereadWork
  <2>4. CASE w \in GateWork    BY <2>4, <1>1 DEF GateWork
  <2>5. CASE w \in RowWork     BY <2>5, <1>1 DEF RowWork
  <2>6. CASE w \in MoveWork    BY <2>6, <1>1 DEF MoveWork
  <2>7. CASE w \in RosterWork  BY <2>7, <1>1 DEF RosterWork
  <2>8. CASE w \in RowRead     BY <2>8, <1>1 DEF RowRead
  <2> QED BY <1>3, <2>1, <2>2, <2>3, <2>4, <2>5, <2>6, <2>7, <2>8 DEF Work
<1> QED BY <1>2, <1>3

\* What a step of request r may do to the bookkeeping of the slots.
LEMMA GotoOK ==
    ASSUME TypeOK, NEW r \in Requests, NEW w \in Work, Goto(r, w)
    PROVE  /\ req' \in [Requests -> Work \cup {Idle}]
           /\ req'[r] = w
           /\ \A s \in Requests \ {r} : req'[s] = req[s]
           /\ crashes' \in 0..MaxCrashes
           /\ overlap' \in [Bookings -> SUBSET Requests]
BY DEF Goto, TypeOK

LEMMA ReturnOK ==
    ASSUME TypeOK, NEW r \in Requests, Return(r)
    PROVE  /\ req' \in [Requests -> Work \cup {Idle}]
           /\ req'[r] = Idle
           /\ \A s \in Requests \ {r} : req'[s] = req[s]
           /\ crashes' \in 0..MaxCrashes
           /\ overlap' \in [Bookings -> SUBSET Requests]
BY DEF Return, TypeOK

\* Stamping a row keeps its type and its key.
LEMMA StampOK ==
    ASSUME NEW a \in Row
    PROVE  /\ [a EXCEPT !.in = TRUE] \in Row /\ [a EXCEPT !.in = TRUE].id = a.id
           /\ [a EXCEPT !.out = TRUE] \in Row /\ [a EXCEPT !.out = TRUE].id = a.id
BY DEF Row

LEMMA RowsAreRows ==
    ASSUME TypeOK, NEW i, NEW a \in RowsWithId(i)
    PROVE  a \in assignments /\ a \in Row
BY DEF RowsWithId, TypeOK

\* A table update by primary key keeps rows typed and keys distinct.
LEMMA ReplaceOK ==
    ASSUME TypeOK, NEW a \in assignments, NEW new \in Row, new.id = a.id,
           assignments' = (assignments \ {a}) \cup {new}, nextRow' = nextRow
    PROVE  /\ assignments' \in SUBSET Row
           /\ \A x \in assignments' : x.id < nextRow'
           /\ \A x, y \in assignments' : x.id = y.id => x = y
BY DEF TypeOK

LEMMA MoveIsWork ==
    ASSUME NEW b \in Bookings, NEW t \in Times, status[b] \in Open,
           NEW pc \in {"moveCheck", "portalLock"}
    PROVE  Move(b, t, pc) \in Work /\ Move(b, t, pc).pc = pc
BY DEF Move, MoveWork, Work

\* Beginning a handler keeps the types.
LEMMA BeginTypeOK ==
    ASSUME TypeOK, NEW r \in Requests, NEW w \in Work, Begin(r, w), UNCHANGED db
    PROVE  TypeOK'
<1>1. req[r].pc = "idle"  BY DEF Begin, Idle
<1> QED BY <1>1, GotoOK DEF Begin, db, TypeOK

LEMMA AssignTypeOK ==
    ASSUME TypeOK, NEW r \in Requests, Assign(r)
    PROVE  TypeOK'
<1> USE StatusFacts, BoundsAssumption
<1>0. req[r] \in Work \cup {Idle}  BY DEF TypeOK
<1>1. ASSUME NEW b \in Bookings, NEW c \in Cleaners, NEW lead \in BOOLEAN,
             AssignRead(r, b, c, lead)
      PROVE  TypeOK'
  BY <1>1, <1>0, KindOfWork, GotoOK, ReturnOK
     DEF AssignRead, Begin, Idle, Times, At, Then, db, TypeOK, Work, AssignWork
<1>2. ASSUME AssignCleaner(r)
      PROVE  TypeOK'
  BY <1>2, <1>0, KindOfWork, GotoOK, ReturnOK
     DEF AssignCleaner, At, Then, db, TypeOK, Work, AssignWork
<1>3. ASSUME AssignFree(r)
      PROVE  TypeOK'
  BY <1>3, <1>0, KindOfWork, GotoOK, ReturnOK
     DEF AssignFree, At, Then, db, TypeOK, Work, AssignWork
<1>4. ASSUME AssignCreate(r)
      PROVE  TypeOK'
  <2>1. req[r] \in AssignWork
    BY <1>4, <1>0, KindOfWork DEF AssignCreate, At
  <2> DEFINE new == [id |-> nextRow, bk |-> req[r].bk, cl |-> req[r].cl,
                     lead |-> req[r].lead, in |-> FALSE, out |-> FALSE]
  <2>2. new \in Row /\ new.id = nextRow
    BY <2>1 DEF AssignWork, Row, TypeOK
  <2>3. assignments' = assignments \cup {new} /\ nextRow < MaxRows /\ nextRow' = nextRow + 1
    BY <1>4 DEF AssignCreate
  <2>4. /\ assignments' \in SUBSET Row
        /\ nextRow' \in 0..MaxRows
        /\ \A x \in assignments' : x.id < nextRow'
        /\ \A x, y \in assignments' : x.id = y.id => x = y
    <3> HIDE DEF new
    <3> QED BY <2>2, <2>3 DEF TypeOK, Row
  <2>5. [req[r] EXCEPT !.pc = "assignStatus"] \in Work
    BY <2>1 DEF AssignWork, Work
  <2>6. CASE Then(r, "assignStatus")
    BY <1>4, <2>1, <2>4, <2>5, <2>6, GotoOK DEF AssignCreate, At, Then, TypeOK
  <2>7. CASE Return(r)
    BY <1>4, <2>1, <2>4, <2>7, ReturnOK DEF AssignCreate, At, TypeOK
  <2> QED BY <1>4, <2>6, <2>7 DEF AssignCreate
<1>5. ASSUME AssignStatus(r)
      PROVE  TypeOK'
  BY <1>5, <1>0, KindOfWork, GotoOK, ReturnOK
     DEF AssignStatus, At, Then, db, TypeOK, Work, AssignWork
<1> QED BY <1>1, <1>2, <1>3, <1>4, <1>5 DEF Assign

LEMMA ConfirmTypeOK ==
    ASSUME TypeOK, NEW r \in Requests, Confirm(r)
    PROVE  TypeOK'
<1> USE StatusFacts, BoundsAssumption
<1>0. req[r] \in Work \cup {Idle}  BY DEF TypeOK
<1>1. ASSUME NEW b \in Bookings,
             ConfirmRead(r, b)
      PROVE  TypeOK'
  BY <1>1, <1>0, KindOfWork, GotoOK, ReturnOK
     DEF ConfirmRead, Begin, Idle, Open, Terminal, Status, At, Then, db, TypeOK, Work, BookingWork
<1>2. ASSUME ConfirmWrite(r)
      PROVE  TypeOK'
  BY <1>2, <1>0, KindOfWork, GotoOK, ReturnOK
     DEF ConfirmWrite, Status, At, Then, db, TypeOK, Work, BookingWork
<1> QED BY <1>1, <1>2 DEF Confirm

LEMMA ClockTypeOK ==
    ASSUME TypeOK, NEW r \in Requests, Clock(r)
    PROVE  TypeOK'
<1> USE StatusFacts, BoundsAssumption
<1>0. req[r] \in Work \cup {Idle}  BY DEF TypeOK
<1>1. ASSUME NEW a \in assignments,
             ClockInFind(r, a)
      PROVE  TypeOK'
  <2> DEFINE w == [pc |-> "clockInRead", row |-> a]
  <2>1. w \in Work  BY <1>1 DEF RowRead, Work, TypeOK
  <2>2. Begin(r, w) /\ UNCHANGED db  BY <1>1 DEF ClockInFind
  <2> HIDE DEF w
  <2> QED BY <2>1, <2>2, BeginTypeOK
<1>2. ASSUME NEW a \in assignments,
             ClockOutRead(r, a)
      PROVE  TypeOK'
  <2> DEFINE w == [pc |-> "clockOutWrite", row |-> a]
  <2>1. w \in Work  BY <1>2 DEF RowRead, Work, TypeOK
  <2>2. Begin(r, w) /\ UNCHANGED db  BY <1>2 DEF ClockOutRead
  <2> HIDE DEF w
  <2> QED BY <2>1, <2>2, BeginTypeOK
<1>3. ASSUME NEW b \in Bookings, NEW c \in Cleaners,
             StartGate(r, b, c)
      PROVE  TypeOK'
  BY <1>3, <1>0, KindOfWork, GotoOK, ReturnOK
     DEF StartGate, Begin, Idle, At, Then, db, TypeOK, Work, RowRead, RowWork, BookingWork, GateWork
<1>4. ASSUME ClockInRead(r)
      PROVE  TypeOK'
  <2>1. req[r] \in RowRead
    BY <1>4, <1>0, KindOfWork DEF ClockInRead, At
  <2>2. CASE Return(r) /\ UNCHANGED db
    BY <2>1, <2>2, <1>4, ReturnOK DEF ClockInRead, At, db, TypeOK
  <2>3. ASSUME NEW a \in RowsWithId(req[r].row.id), UNCHANGED db, status[a.bk] \in Open,
               Goto(r, [pc |-> "clockInWrite", row |-> a, seen |-> status[a.bk]])
        PROVE  TypeOK'
    <3> DEFINE w == [pc |-> "clockInWrite", row |-> a, seen |-> status[a.bk]]
    <3>1. w \in Work
      BY <2>3 DEF RowsWithId, Row, RowWork, Work, TypeOK
    <3>2. Goto(r, w)  BY <2>3
    <3>3. req[r].pc = "clockInRead"  BY <1>4 DEF ClockInRead, At
    <3> HIDE DEF w
    <3> QED BY <2>3, <3>1, <3>2, <3>3, GotoOK DEF db, TypeOK
  <2> QED BY <1>4, <2>2, <2>3 DEF ClockInRead
<1>5. ASSUME ClockInWrite(r)
      PROVE  TypeOK'
  <2>1. req[r] \in RowWork
    BY <1>5, <1>0, KindOfWork DEF ClockInWrite, At
  <2>2. CASE Gone(r)
    BY <2>1, <2>2, <1>5, ReturnOK DEF ClockInWrite, At, Gone, db, TypeOK
  <2>3. ASSUME NEW a \in RowsWithId(req[r].row.id), Replace(a, [a EXCEPT !.in = TRUE]),
               Return(r), nextRow' = nextRow, UNCHANGED <<start, cleaner, now, bizLock>>,
               status' = IF req[r].seen \in OpenJob
                         THEN [status EXCEPT ![req[r].row.bk] = "IN_PROGRESS"] ELSE status
        PROVE  TypeOK'
    <3>1. a \in assignments /\ [a EXCEPT !.in = TRUE] \in Row
          /\ [a EXCEPT !.in = TRUE].id = a.id
      BY RowsAreRows, StampOK
    <3>2. /\ assignments' \in SUBSET Row
          /\ \A x \in assignments' : x.id < nextRow'
          /\ \A x, y \in assignments' : x.id = y.id => x = y
      BY <3>1, <2>3, ReplaceOK DEF Replace
    <3>3. status' \in [Bookings -> Status]
      BY <2>3 DEF TypeOK, Status
    <3> QED BY <2>1, <2>3, <3>2, <3>3, <1>5, ReturnOK DEF ClockInWrite, At, TypeOK
  <2> QED BY <1>5, <2>2, <2>3 DEF ClockInWrite
<1>6. ASSUME StartRead(r)
      PROVE  TypeOK'
  <2>1. req[r] \in GateWork
    BY <1>6, <1>0, KindOfWork DEF StartRead, At
  <2>2. CASE Return(r) /\ UNCHANGED db
    BY <2>1, <2>2, <1>6, ReturnOK DEF StartRead, At, db, TypeOK
  <2>3. ASSUME NEW a \in RowsOf(req[r].bk), UNCHANGED db,
               Goto(r, [pc |-> "clockInRead", row |-> a])
        PROVE  TypeOK'
    <3>1. [pc |-> "clockInRead", row |-> a] \in Work
      BY <2>1 DEF RowsOf, Row, RowRead, Work, TypeOK
    <3> QED BY <2>1, <2>3, <3>1, <1>6, GotoOK DEF StartRead, At, db, TypeOK
  <2>4. ASSUME UNCHANGED db, status[req[r].bk] \in Open,
               Goto(r, [pc |-> "startWrite", bk |-> req[r].bk, seen |-> status[req[r].bk]])
        PROVE  TypeOK'
    <3>1. [pc |-> "startWrite", bk |-> req[r].bk, seen |-> status[req[r].bk]] \in Work
      BY <2>1, <2>4 DEF GateWork, BookingWork, Work
    <3> QED BY <2>1, <2>4, <3>1, <1>6, GotoOK DEF StartRead, At, db, TypeOK
  <2> QED BY <1>6, <2>2, <2>3, <2>4 DEF StartRead
<1>7. ASSUME StartWrite(r)
      PROVE  TypeOK'
  BY <1>7, <1>0, KindOfWork, GotoOK, ReturnOK
     DEF StartWrite, Status, At, Then, db, TypeOK, Work, RowRead, RowWork, BookingWork, GateWork
<1>8. ASSUME ClockOutWrite(r)
      PROVE  TypeOK'
  <2>1. req[r] \in RowRead
    BY <1>8, <1>0, KindOfWork DEF ClockOutWrite, At
  <2>2. CASE Gone(r)
    BY <2>1, <2>2, <1>8, ReturnOK DEF ClockOutWrite, At, Gone, db, TypeOK
  <2>3. ASSUME NEW a \in RowsWithId(req[r].row.id), Replace(a, [a EXCEPT !.out = TRUE]),
               Return(r), nextRow' = nextRow, UNCHANGED <<status, start, cleaner, now, bizLock>>
        PROVE  TypeOK'
    <3>1. a \in assignments /\ [a EXCEPT !.out = TRUE] \in Row
          /\ [a EXCEPT !.out = TRUE].id = a.id
      BY RowsAreRows, StampOK
    <3>2. /\ assignments' \in SUBSET Row
          /\ \A x \in assignments' : x.id < nextRow'
          /\ \A x, y \in assignments' : x.id = y.id => x = y
      BY <3>1, <2>3, ReplaceOK DEF Replace
    <3> QED BY <2>1, <2>3, <3>2, <1>8, ReturnOK DEF ClockOutWrite, At, TypeOK
  <2> QED BY <1>8, <2>2, <2>3 DEF ClockOutWrite
<1> QED BY <1>1, <1>2, <1>3, <1>4, <1>5, <1>6, <1>7, <1>8 DEF Clock

LEMMA CompleteTypeOK ==
    ASSUME TypeOK, NEW r \in Requests, Complete(r)
    PROVE  TypeOK'
<1> USE StatusFacts, BoundsAssumption
<1>0. req[r] \in Work \cup {Idle}  BY DEF TypeOK
<1>1. ASSUME NEW b \in Bookings,
             CompleteByStaff(r, b)
      PROVE  TypeOK'
  BY <1>1, <1>0, KindOfWork, GotoOK, ReturnOK
     DEF CompleteByStaff, Begin, Idle, At, Then, db, TypeOK, Work, BookingWork, RereadWork, RowRead
<1>2. ASSUME NEW a \in assignments,
             CompleteByCleaner(r, a)
      PROVE  TypeOK'
  BY <1>2, <1>0, KindOfWork, GotoOK, ReturnOK
     DEF CompleteByCleaner, Begin, Idle, Row, At, Then, db, TypeOK, Work, BookingWork, RereadWork, RowRead
<1>3. ASSUME CheckOutWrite(r)
      PROVE  TypeOK'
  <2>1. req[r] \in RowRead
    BY <1>3, <1>0, KindOfWork DEF CheckOutWrite, At
  <2>2. CASE Gone(r)
    BY <2>1, <2>2, <1>3, ReturnOK DEF CheckOutWrite, At, Gone, db, TypeOK
  <2>3. ASSUME NEW a \in RowsWithId(req[r].row.id), Replace(a, [a EXCEPT !.out = TRUE]),
               Then(r, "stillOnSite"), nextRow' = nextRow,
               UNCHANGED <<status, start, cleaner, now, bizLock>>
        PROVE  TypeOK'
    <3>1. a \in assignments /\ [a EXCEPT !.out = TRUE] \in Row
          /\ [a EXCEPT !.out = TRUE].id = a.id
      BY RowsAreRows, StampOK
    <3>2. /\ assignments' \in SUBSET Row
          /\ \A x \in assignments' : x.id < nextRow'
          /\ \A x, y \in assignments' : x.id = y.id => x = y
      BY <3>1, <2>3, ReplaceOK DEF Replace
    <3>3. [req[r] EXCEPT !.pc = "stillOnSite"] \in Work
      BY <2>1 DEF RowRead, Work
    <3> QED BY <2>1, <2>3, <3>2, <3>3, <1>3, GotoOK DEF CheckOutWrite, At, Then, TypeOK
  <2> QED BY <1>3, <2>2, <2>3 DEF CheckOutWrite
<1>4. ASSUME StillOnSite(r)
      PROVE  TypeOK'
  BY <1>4, <1>0, KindOfWork, GotoOK, ReturnOK
     DEF StillOnSite, Row, At, Then, db, TypeOK, Work, BookingWork, RereadWork, RowRead
<1>5. ASSUME CompleteRead(r)
      PROVE  TypeOK'
  BY <1>5, <1>0, KindOfWork, GotoOK, ReturnOK
     DEF CompleteRead, At, Then, db, TypeOK, Work, BookingWork, RereadWork, RowRead
<1>6. ASSUME CompleteWrite(r)
      PROVE  TypeOK'
  BY <1>6, <1>0, KindOfWork, GotoOK, ReturnOK
     DEF CompleteWrite, EndOverlap, Status, At, Then, db, TypeOK, Work, BookingWork, RereadWork, RowRead
<1>7. ASSUME StampCheckOuts(r)
      PROVE  TypeOK'
  <2>1. req[r] \in BookingWork
    BY <1>7, <1>0, KindOfWork DEF StampCheckOuts, At
  <2> DEFINE upd(a) == IF a \in OnSite(req[r].bk) THEN [a EXCEPT !.out = TRUE] ELSE a
  <2>2. ASSUME NEW a \in assignments PROVE upd(a) \in Row /\ upd(a).id = a.id
    <3>1. a \in Row  BY DEF TypeOK
    <3>2. [a EXCEPT !.out = TRUE] \in Row /\ [a EXCEPT !.out = TRUE].id = a.id
      BY <3>1 DEF Row
    <3> QED BY <3>1, <3>2
  <2>3. assignments' = {upd(a) : a \in assignments} /\ nextRow' = nextRow
    BY <1>7 DEF StampCheckOuts
  <2>4. /\ assignments' \in SUBSET Row
        /\ \A x \in assignments' : x.id < nextRow'
        /\ \A x, y \in assignments' : x.id = y.id => x = y
    <3> HIDE DEF upd
    <3> QED BY <2>2, <2>3 DEF TypeOK
  <2> QED BY <1>7, <2>1, <2>3, <2>4, ReturnOK DEF StampCheckOuts, At, TypeOK
<1> QED BY <1>1, <1>2, <1>3, <1>4, <1>5, <1>6, <1>7 DEF Complete

LEMMA CancelTypeOK ==
    ASSUME TypeOK, NEW r \in Requests, Cancel(r)
    PROVE  TypeOK'
<1> USE StatusFacts, BoundsAssumption
<1>0. req[r] \in Work \cup {Idle}  BY DEF TypeOK
<1>1. ASSUME NEW b \in Bookings,
             CancelByStaff(r, b)
      PROVE  TypeOK'
  BY <1>1, <1>0, KindOfWork, GotoOK, ReturnOK
     DEF CancelByStaff, Begin, Idle, At, Then, db, TypeOK, Work, BookingWork, RereadWork
<1>2. ASSUME NEW b \in Bookings,
             CancelByCustomer(r, b)
      PROVE  TypeOK'
  BY <1>2, <1>0, KindOfWork, GotoOK, ReturnOK
     DEF CancelByCustomer, Begin, Idle, At, Then, db, TypeOK, Work, BookingWork, RereadWork
<1>3. ASSUME CancelRead(r)
      PROVE  TypeOK'
  BY <1>3, <1>0, KindOfWork, GotoOK, ReturnOK
     DEF CancelRead, At, Then, db, TypeOK, Work, BookingWork, RereadWork
<1>4. ASSUME CancelWrite(r)
      PROVE  TypeOK'
  BY <1>4, <1>0, KindOfWork, GotoOK, ReturnOK
     DEF CancelWrite, Status, Idle, At, Then, db, TypeOK, Work, BookingWork, RereadWork
<1> QED BY <1>1, <1>2, <1>3, <1>4 DEF Cancel

LEMMA UnassignTypeOK ==
    ASSUME TypeOK, NEW r \in Requests, Unassign(r)
    PROVE  TypeOK'
<1> USE StatusFacts, BoundsAssumption
<1>0. req[r] \in Work \cup {Idle}  BY DEF TypeOK
<1>1. ASSUME NEW a \in assignments,
             UnassignFind(r, a)
      PROVE  TypeOK'
  BY <1>1, <1>0, KindOfWork, GotoOK, ReturnOK
     DEF UnassignFind, Begin, Idle, Row, At, Then, db, TypeOK, Work, RowRead, RowWork, BookingWork
<1>2. ASSUME UnassignBooking(r)
      PROVE  TypeOK'
  BY <1>2, <1>0, KindOfWork, GotoOK, ReturnOK
     DEF UnassignBooking, Row, At, Then, db, TypeOK, Work, RowRead, RowWork, BookingWork
<1>3. ASSUME UnassignDelete(r)
      PROVE  TypeOK'
  <2>1. req[r] \in RowWork
    BY <1>3, <1>0, KindOfWork DEF UnassignDelete, At
  <2>2. CASE Gone(r)
    BY <2>1, <2>2, <1>3, ReturnOK DEF UnassignDelete, At, Gone, db, TypeOK
  <2>3. ASSUME NEW a \in RowsWithId(req[r].row.id), ~Gone(r)
        PROVE  TypeOK'
    <3> DEFINE w == [pc |-> "unassignCount", bk |-> req[r].row.bk, seen |-> req[r].seen]
    <3>1. w \in Work
      BY <2>1 DEF RowWork, BookingWork, Row, Work
    <3>2. Goto(r, w) /\ assignments' \in SUBSET assignments
          /\ UNCHANGED <<status, start, cleaner, nextRow, now, bizLock>>
      BY <1>3, <2>3 DEF UnassignDelete
    <3> HIDE DEF w
    <3> QED BY <1>3, <2>1, <3>1, <3>2, GotoOK DEF UnassignDelete, At, TypeOK
  <2> QED BY <1>3, <2>2, <2>3 DEF UnassignDelete
<1>4. ASSUME UnassignCount(r)
      PROVE  TypeOK'
  BY <1>4, <1>0, KindOfWork, GotoOK, ReturnOK
     DEF UnassignCount, At, Then, db, TypeOK, Work, RowRead, RowWork, BookingWork
<1>5. ASSUME UnassignWrite(r)
      PROVE  TypeOK'
  BY <1>5, <1>0, KindOfWork, GotoOK, ReturnOK
     DEF UnassignWrite, Status, At, Then, db, TypeOK, Work, RowRead, RowWork, BookingWork
<1> QED BY <1>1, <1>2, <1>3, <1>4, <1>5 DEF Unassign

LEMMA RescheduleTypeOK ==
    ASSUME TypeOK, NEW r \in Requests, Reschedule(r)
    PROVE  TypeOK'
<1> USE StatusFacts, BoundsAssumption
<1>0. req[r] \in Work \cup {Idle}  BY DEF TypeOK
<1>1. ASSUME NEW b \in Bookings, NEW t \in Times,
             StaffMoveRead(r, b, t)
      PROVE  TypeOK'
  BY <1>1, MoveIsWork, GotoOK DEF StaffMoveRead, Begin, db, TypeOK, Idle
<1>2. ASSUME NEW b \in Bookings, NEW t \in Times,
             PortalMoveRead(r, b, t)
      PROVE  TypeOK'
  BY <1>2, MoveIsWork, GotoOK DEF PortalMoveRead, Begin, db, TypeOK, Idle
<1>3. ASSUME StaffMoveCheck(r)
      PROVE  TypeOK'
  BY <1>3, <1>0, KindOfWork, GotoOK, ReturnOK
     DEF StaffMoveCheck, At, Then, db, TypeOK, Work, MoveWork
<1>4. ASSUME StaffMoveWrite(r)
      PROVE  TypeOK'
  BY <1>4, <1>0, KindOfWork, GotoOK, ReturnOK
     DEF StaffMoveWrite, At, Then, db, TypeOK, Work, MoveWork
<1>5. ASSUME PortalLock(r)
      PROVE  TypeOK'
  BY <1>5, <1>0, KindOfWork, GotoOK, ReturnOK
     DEF PortalLock, At, Then, db, TypeOK, Work, MoveWork
<1>6. ASSUME PortalCheck(r)
      PROVE  TypeOK'
  <2>1. req[r] \in MoveWork
    BY <1>6, <1>0, KindOfWork DEF PortalCheck, At
  <2>2. CASE Return(r) /\ bizLock' = {}
    BY <2>1, <2>2, <1>6, ReturnOK DEF PortalCheck, At, TypeOK
  <2> DEFINE w == [req[r] EXCEPT !.pc = "portalWrite",
                     !.release = \E a \in RowsOf(req[r].bk) :
                                   ~CleanerFree(a.cl, req[r].to, req[r].bk)]
  <2>3. CASE Goto(r, w) /\ UNCHANGED bizLock
    <3>1. w \in Work /\ w.pc = "portalWrite"
      BY <2>1 DEF MoveWork, Work
    <3> HIDE DEF w
    <3> QED BY <2>1, <2>3, <3>1, <1>6, GotoOK DEF PortalCheck, At, TypeOK
  <2> QED BY <1>6, <2>2, <2>3 DEF PortalCheck
<1>7. ASSUME PortalMoveWrite(r)
      PROVE  TypeOK'
  BY <1>7, <1>0, KindOfWork, GotoOK, ReturnOK
     DEF PortalMoveWrite, RowsOf, Status, Open, Terminal, At, Then, db, TypeOK, Work, MoveWork
<1> QED BY <1>1, <1>2, <1>3, <1>4, <1>5, <1>6, <1>7 DEF Reschedule

LEMMA RosterTypeOK ==
    ASSUME TypeOK, NEW r \in Requests, Roster(r)
    PROVE  TypeOK'
<1> USE StatusFacts, BoundsAssumption
<1>0. req[r] \in Work \cup {Idle}  BY DEF TypeOK
<1>1. ASSUME NEW c \in Cleaners,
             Offboard(r, c)
      PROVE  TypeOK'
  BY <1>1, <1>0, KindOfWork, GotoOK, ReturnOK
     DEF Offboard, Begin, Idle, RosterChange, CleanerStatus, At, Then, db, TypeOK, Work, RosterWork
<1>2. ASSUME NEW c \in Cleaners,
             Suspend(r, c)
      PROVE  TypeOK'
  BY <1>2, <1>0, KindOfWork, GotoOK, ReturnOK
     DEF Suspend, Begin, Idle, RosterChange, CleanerStatus, At, Then, db, TypeOK, Work, RosterWork
<1>3. ASSUME NEW c \in Cleaners,
             Reactivate(r, c)
      PROVE  TypeOK'
  BY <1>3, <1>0, KindOfWork, GotoOK, ReturnOK
     DEF Reactivate, Begin, Idle, RosterChange, CleanerStatus, At, Then, db, TypeOK, Work, RosterWork
<1>4. ASSUME NEW c \in Cleaners,
             Onboard(r, c)
      PROVE  TypeOK'
  BY <1>4, <1>0, KindOfWork, GotoOK, ReturnOK
     DEF Onboard, Begin, Idle, RosterChange, CleanerStatus, At, Then, db, TypeOK, Work, RosterWork
<1>5. ASSUME SuspendProfile(r)
      PROVE  TypeOK'
  BY <1>5, <1>0, KindOfWork, GotoOK, ReturnOK
     DEF SuspendProfile, RosterChange, CleanerStatus, At, Then, db, TypeOK, Work, RosterWork
<1>6. ASSUME ReleaseFind(r)
      PROVE  TypeOK'
  <2>1. req[r] \in RosterWork
    BY <1>6, <1>0, KindOfWork DEF ReleaseFind, At
  <2> DEFINE up == {[row |-> a.id, bk |-> a.bk, seen |-> status[a.bk]]
                     : a \in Upcoming(req[r].cl, req[r].since)}
             w  == [req[r] EXCEPT !.pc = "releaseCommit", !.upcoming = up]
  <2>2. up \in SUBSET [row : Nat, bk : Bookings, seen : Status]
    BY DEF Upcoming, Row, TypeOK
  <2>3. w \in Work
    <3> HIDE DEF up
    <3>1. w \in RosterWork  BY <2>1, <2>2 DEF RosterWork
    <3> QED BY <3>1 DEF Work
  <2>4. Goto(r, w) /\ UNCHANGED db
    BY <1>6 DEF ReleaseFind
  <2> HIDE DEF w
  <2> QED BY <1>6, <2>1, <2>3, <2>4, GotoOK DEF ReleaseFind, At, db, TypeOK
<1>7. ASSUME ReleaseCommit(r)
      PROVE  TypeOK'
  BY <1>7, <1>0, KindOfWork, GotoOK, ReturnOK
     DEF ReleaseCommit, Status, At, Then, db, TypeOK, Work, RosterWork
<1>8. ASSUME LimitCheck(r)
      PROVE  TypeOK'
  BY <1>8, <1>0, KindOfWork, GotoOK, ReturnOK
     DEF LimitCheck, At, Then, db, TypeOK, Work, RosterWork
<1>9. ASSUME OnboardProfile(r)
      PROVE  TypeOK'
  BY <1>9, <1>0, KindOfWork, GotoOK, ReturnOK
     DEF OnboardProfile, At, Then, db, TypeOK, Work, RosterWork
<1>10. ASSUME Activate(r)
      PROVE  TypeOK'
  BY <1>10, <1>0, KindOfWork, GotoOK, ReturnOK
     DEF Activate, CleanerStatus, At, Then, db, TypeOK, Work, RosterWork
<1> QED BY <1>1, <1>2, <1>3, <1>4, <1>5, <1>6, <1>7, <1>8, <1>9, <1>10 DEF Roster

\* Types, distinct primary keys and the single holder of the business lock
\* (TypeOK) are kept by every handler, however many run at once.
THEOREM TypeCorrect == Spec => []TypeOK
<1>1. Init => TypeOK
  BY BoundsAssumption DEF Init, TypeOK, Status, CleanerStatus, Times
<1>2. TypeOK /\ [Next]_vars => TypeOK'
  <2> SUFFICES ASSUME TypeOK, [Next]_vars PROVE TypeOK'
    OBVIOUS
  <2>1. ASSUME NEW r \in Requests, Crash(r) PROVE TypeOK'
    BY <2>1, BoundsAssumption DEF Crash, TypeOK
  <2>2. CASE Tick
    BY <2>2, BoundsAssumption DEF Tick, TypeOK, Times
  <2>3. CASE UNCHANGED vars
    BY <2>3 DEF vars, TypeOK
  <2> QED
    BY <2>1, <2>2, <2>3, AssignTypeOK, ConfirmTypeOK, ClockTypeOK, CompleteTypeOK,
       CancelTypeOK, UnassignTypeOK, RescheduleTypeOK, RosterTypeOK DEF Next
<1> QED BY <1>1, <1>2, PTL DEF Spec

-----------------------------------------------------------------------------
(* Ended bookings and the handlers that do not know it *)

\* The three shapes of a handler's step: it goes on having read or written no
\* status, it returns having written only what it holds, or it ends a booking.
Continues(r) == \E w \in Work :
    /\ Goto(r, w) /\ status' = status
    /\ \A b \in Bookings : Holds(w, b) => status[b] \in Open \/ Holds(req[r], b)
Finishes(r) ==
    /\ Return(r)
    /\ \A b \in Bookings :
         status'[b] # status[b] => Holds(req[r], b) /\ status'[b] \in Open
Shape(r) == Continues(r) \/ Finishes(r) \/ CompleteWrite(r) \/ CancelWrite(r)

LEMMA WriteShape ==
    ASSUME TypeOK, NEW r \in Requests, NEW b \in Bookings, NEW s \in Open,
           Holds(req[r], b), Return(r), status' = [status EXCEPT ![b] = s]
    PROVE  Shape(r)
BY DEF Shape, Finishes, TypeOK

LEMMA AssignShape ==
    ASSUME TypeOK, NEW r \in Requests, Assign(r)
    PROVE  Shape(r)
<1> USE StatusFacts
<1>0. req[r] \in Work \cup {Idle}  BY DEF TypeOK
<1>1. ASSUME NEW b \in Bookings, NEW c \in Cleaners, NEW lead \in BOOLEAN,
             AssignRead(r, b, c, lead)
      PROVE  Shape(r)
  <2> DEFINE w == [pc |-> "assignCleaner", bk |-> b, cl |-> c, lead |-> lead,
                   seen |-> status[b], at |-> start[b]]
  <2>1. w \in Work  BY <1>1 DEF AssignRead, AssignWork, Work, TypeOK
  <2> QED BY <1>1, <2>1 DEF AssignRead, Begin, db, Holds, Shape, Continues
<1>2. ASSUME AssignCleaner(r)
      PROVE  Shape(r)
  BY <1>2, <1>0, KindOfWork, MoveIsWork
     DEF AssignCleaner, At, Then, db, TypeOK, Work, AssignWork, Holds, Shape, Continues, Finishes
<1>3. ASSUME AssignFree(r)
      PROVE  Shape(r)
  BY <1>3, <1>0, KindOfWork, MoveIsWork
     DEF AssignFree, At, Then, db, TypeOK, Work, AssignWork, Holds, Shape, Continues, Finishes
<1>4. ASSUME AssignCreate(r)
      PROVE  Shape(r)
  BY <1>4, <1>0, KindOfWork, MoveIsWork
     DEF AssignCreate, Row, At, Then, db, TypeOK, Work, AssignWork, Holds, Shape, Continues, Finishes
<1>5. ASSUME AssignStatus(r)
      PROVE  Shape(r)
  BY <1>5, <1>0, KindOfWork, MoveIsWork
     DEF AssignStatus, At, Then, db, TypeOK, Work, AssignWork, Holds, Shape, Continues, Finishes
<1> QED BY <1>1, <1>2, <1>3, <1>4, <1>5 DEF Assign

LEMMA ConfirmShape ==
    ASSUME TypeOK, NEW r \in Requests, Confirm(r)
    PROVE  Shape(r)
<1> USE StatusFacts
<1>0. req[r] \in Work \cup {Idle}  BY DEF TypeOK
<1>1. ASSUME NEW b \in Bookings,
             ConfirmRead(r, b)
      PROVE  Shape(r)
  <2> DEFINE w == [pc |-> "confirmWrite", bk |-> b, seen |-> status[b]]
  <2>1. w \in Work  BY <1>1 DEF ConfirmRead, BookingWork, Work
  <2> QED BY <1>1, <2>1 DEF ConfirmRead, Begin, db, Holds, Shape, Continues
<1>2. ASSUME ConfirmWrite(r)
      PROVE  Shape(r)
  <2>1. req[r] \in BookingWork  BY <1>2, <1>0, KindOfWork DEF ConfirmWrite, At
  <2>2. Holds(req[r], req[r].bk) /\ req[r].bk \in Bookings
    BY <1>2, <2>1 DEF ConfirmWrite, At, Holds, BookingWork
  <2> QED BY <1>2, <2>2, WriteShape DEF ConfirmWrite
<1> QED BY <1>1, <1>2 DEF Confirm

LEMMA ClockShape ==
    ASSUME TypeOK, NEW r \in Requests, Clock(r)
    PROVE  Shape(r)
<1> USE StatusFacts
<1>0. req[r] \in Work \cup {Idle}  BY DEF TypeOK
<1>1. ASSUME NEW a \in assignments,
             ClockInFind(r, a)
      PROVE  Shape(r)
  <2> DEFINE w == [pc |-> "clockInRead", row |-> a]
  <2>1. w \in Work  BY <1>1 DEF ClockInFind, RowRead, Work, TypeOK
  <2> QED BY <1>1, <2>1 DEF ClockInFind, Begin, db, Holds, Shape, Continues
<1>2. ASSUME NEW a \in assignments,
             ClockOutRead(r, a)
      PROVE  Shape(r)
  <2> DEFINE w == [pc |-> "clockOutWrite", row |-> a]
  <2>1. w \in Work  BY <1>2 DEF ClockOutRead, RowRead, Work, TypeOK
  <2> QED BY <1>2, <2>1 DEF ClockOutRead, Begin, db, Holds, Shape, Continues
<1>3. ASSUME NEW b \in Bookings, NEW c \in Cleaners,
             StartGate(r, b, c)
      PROVE  Shape(r)
  <2> DEFINE w == [pc |-> "startRead", bk |-> b, cl |-> c]
  <2>1. w \in Work  BY <1>3 DEF StartGate, GateWork, Work, TypeOK
  <2> QED BY <1>3, <2>1 DEF StartGate, Begin, db, Holds, Shape, Continues
<1>4. ASSUME ClockInRead(r)
      PROVE  Shape(r)
  BY <1>4, <1>0, KindOfWork, MoveIsWork
     DEF ClockInRead, RowsWithId, Row, At, Then, db, TypeOK, Work, RowRead, RowWork, BookingWork, GateWork, Holds, Shape, Continues, Finishes
<1>5. ASSUME ClockInWrite(r)
      PROVE  Shape(r)
  <2>1. req[r] \in RowWork  BY <1>5, <1>0, KindOfWork DEF ClockInWrite, At
  <2>2. Holds(req[r], req[r].row.bk) /\ req[r].row.bk \in Bookings
    BY <1>5, <2>1 DEF ClockInWrite, At, Holds, RowWork, Row
  <2>3. CASE Gone(r)
    BY <2>3 DEF Gone, db, Shape, Finishes
  <2>4. CASE status' = status /\ Return(r)
    BY <2>4 DEF Shape, Finishes
  <2>5. CASE status' = [status EXCEPT ![req[r].row.bk] = "IN_PROGRESS"] /\ Return(r)
    BY <2>2, <2>5, WriteShape
  <2> QED BY <1>5, <2>3, <2>4, <2>5 DEF ClockInWrite
<1>6. ASSUME StartRead(r)
      PROVE  Shape(r)
  BY <1>6, <1>0, KindOfWork, MoveIsWork
     DEF StartRead, RowsOf, Row, At, Then, db, TypeOK, Work, RowRead, RowWork, BookingWork, GateWork, Holds, Shape, Continues, Finishes
<1>7. ASSUME StartWrite(r)
      PROVE  Shape(r)
  <2>1. req[r] \in BookingWork  BY <1>7, <1>0, KindOfWork DEF StartWrite, At
  <2>2. Holds(req[r], req[r].bk) /\ req[r].bk \in Bookings
    BY <1>7, <2>1 DEF StartWrite, At, Holds, BookingWork
  <2> QED BY <1>7, <2>2, WriteShape DEF StartWrite
<1>8. ASSUME ClockOutWrite(r)
      PROVE  Shape(r)
  BY <1>8, <1>0, KindOfWork, MoveIsWork
     DEF ClockOutWrite, RowsWithId, Gone, Replace, Row, At, Then, db, TypeOK, Work, RowRead, RowWork, BookingWork, GateWork, Holds, Shape, Continues, Finishes
<1> QED BY <1>1, <1>2, <1>3, <1>4, <1>5, <1>6, <1>7, <1>8 DEF Clock

LEMMA CompleteShape ==
    ASSUME TypeOK, NEW r \in Requests, Complete(r)
    PROVE  Shape(r)
<1> USE StatusFacts
<1>0. req[r] \in Work \cup {Idle}  BY DEF TypeOK
<1>1. ASSUME NEW b \in Bookings,
             CompleteByStaff(r, b)
      PROVE  Shape(r)
  <2> DEFINE w == [pc |-> "completeWrite", bk |-> b, seen |-> status[b]]
  <2>1. w \in Work  BY <1>1 DEF CompleteByStaff, BookingWork, Work, TypeOK
  <2> QED BY <1>1, <2>1 DEF CompleteByStaff, Begin, db, Holds, Shape, Continues
<1>2. ASSUME NEW a \in assignments,
             CompleteByCleaner(r, a)
      PROVE  Shape(r)
  <2> DEFINE w == [pc |-> "checkOut", row |-> a]
  <2>1. w \in Work  BY <1>2 DEF CompleteByCleaner, RowRead, Work, TypeOK
  <2> QED BY <1>2, <2>1 DEF CompleteByCleaner, Begin, db, Holds, Shape, Continues
<1>3. ASSUME CheckOutWrite(r)
      PROVE  Shape(r)
  BY <1>3, <1>0, KindOfWork, MoveIsWork
     DEF CheckOutWrite, RowsWithId, Gone, Replace, Row, At, Then, db, TypeOK, Work, BookingWork, RereadWork, RowRead, Holds, Shape, Continues, Finishes
<1>4. ASSUME StillOnSite(r)
      PROVE  Shape(r)
  BY <1>4, <1>0, KindOfWork, MoveIsWork
     DEF StillOnSite, Row, At, Then, db, TypeOK, Work, BookingWork, RereadWork, RowRead, Holds, Shape, Continues, Finishes
<1>5. ASSUME CompleteRead(r)
      PROVE  Shape(r)
  BY <1>5, <1>0, KindOfWork, MoveIsWork
     DEF CompleteRead, At, Then, db, TypeOK, Work, BookingWork, RereadWork, RowRead, Holds, Shape, Continues, Finishes
<1>6. ASSUME CompleteWrite(r)
      PROVE  Shape(r)
  BY <1>6 DEF Shape
<1>7. ASSUME StampCheckOuts(r)
      PROVE  Shape(r)
  BY <1>7, <1>0, KindOfWork, MoveIsWork
     DEF StampCheckOuts, OnSite, RowsOf, Row, At, Then, db, TypeOK, Work, BookingWork, RereadWork, RowRead, Holds, Shape, Continues, Finishes
<1> QED BY <1>1, <1>2, <1>3, <1>4, <1>5, <1>6, <1>7 DEF Complete

LEMMA CancelShape ==
    ASSUME TypeOK, NEW r \in Requests, Cancel(r)
    PROVE  Shape(r)
<1> USE StatusFacts
<1>0. req[r] \in Work \cup {Idle}  BY DEF TypeOK
<1>1. ASSUME NEW b \in Bookings,
             CancelByStaff(r, b)
      PROVE  Shape(r)
  <2> DEFINE w == [pc |-> "cancelWrite", bk |-> b, seen |-> status[b]]
  <2>1. w \in Work  BY <1>1 DEF CancelByStaff, BookingWork, Work, TypeOK
  <2> QED BY <1>1, <2>1 DEF CancelByStaff, Begin, db, Holds, Shape, Continues
<1>2. ASSUME NEW b \in Bookings,
             CancelByCustomer(r, b)
      PROVE  Shape(r)
  <2> DEFINE w == [pc |-> "cancelRead", bk |-> b]
  <2>1. w \in Work  BY <1>2 DEF CancelByCustomer, RereadWork, Work, TypeOK
  <2> QED BY <1>2, <2>1 DEF CancelByCustomer, Begin, db, Holds, Shape, Continues
<1>3. ASSUME CancelRead(r)
      PROVE  Shape(r)
  BY <1>3, <1>0, KindOfWork, MoveIsWork
     DEF CancelRead, At, Then, db, TypeOK, Work, BookingWork, RereadWork, Holds, Shape, Continues, Finishes
<1>4. ASSUME CancelWrite(r)
      PROVE  Shape(r)
  BY <1>4 DEF Shape
<1> QED BY <1>1, <1>2, <1>3, <1>4 DEF Cancel

LEMMA UnassignShape ==
    ASSUME TypeOK, NEW r \in Requests, Unassign(r)
    PROVE  Shape(r)
<1> USE StatusFacts
<1>0. req[r] \in Work \cup {Idle}  BY DEF TypeOK
<1>1. ASSUME NEW a \in assignments,
             UnassignFind(r, a)
      PROVE  Shape(r)
  <2> DEFINE w == [pc |-> "unassignBooking", row |-> a]
  <2>1. w \in Work  BY <1>1 DEF UnassignFind, RowRead, Work, TypeOK
  <2> QED BY <1>1, <2>1 DEF UnassignFind, Begin, db, Holds, Shape, Continues
<1>2. ASSUME UnassignBooking(r)
      PROVE  Shape(r)
  BY <1>2, <1>0, KindOfWork, MoveIsWork
     DEF UnassignBooking, Row, At, Then, db, TypeOK, Work, RowRead, RowWork, BookingWork, Holds, Shape, Continues, Finishes
<1>3. ASSUME UnassignDelete(r)
      PROVE  Shape(r)
  BY <1>3, <1>0, KindOfWork, MoveIsWork
     DEF UnassignDelete, RowsWithId, Gone, Row, At, Then, db, TypeOK, Work, RowRead, RowWork, BookingWork, Holds, Shape, Continues, Finishes
<1>4. ASSUME UnassignCount(r)
      PROVE  Shape(r)
  BY <1>4, <1>0, KindOfWork, MoveIsWork
     DEF UnassignCount, At, Then, db, TypeOK, Work, RowRead, RowWork, BookingWork, Holds, Shape, Continues, Finishes
<1>5. ASSUME UnassignWrite(r)
      PROVE  Shape(r)
  <2>1. req[r] \in BookingWork  BY <1>5, <1>0, KindOfWork DEF UnassignWrite, At
  <2>2. Holds(req[r], req[r].bk) /\ req[r].bk \in Bookings
    BY <1>5, <2>1 DEF UnassignWrite, At, Holds, BookingWork
  <2> QED BY <1>5, <2>2, WriteShape DEF UnassignWrite
<1> QED BY <1>1, <1>2, <1>3, <1>4, <1>5 DEF Unassign

LEMMA RescheduleShape ==
    ASSUME TypeOK, NEW r \in Requests, Reschedule(r)
    PROVE  Shape(r)
<1> USE StatusFacts
<1>0. req[r] \in Work \cup {Idle}  BY DEF TypeOK
<1>1. ASSUME NEW b \in Bookings, NEW t \in Times,
             StaffMoveRead(r, b, t)
      PROVE  Shape(r)
  <2> DEFINE w == Move(b, t, "moveCheck")
  <2>1. status[b] \in Open /\ Goto(r, w) /\ status' = status
    BY <1>1 DEF StaffMoveRead, Begin, db
  <2>2. w \in Work /\ w.pc = "moveCheck" /\ w.bk = b
    BY <2>1, MoveIsWork DEF Move
  <2>3. ASSUME NEW o \in Bookings, Holds(w, o)  PROVE o = b
    <3> HIDE DEF w
    <3> QED BY <2>2, <2>3 DEF Holds
  <2> HIDE DEF w
  <2> QED BY <2>1, <2>2, <2>3 DEF Shape, Continues
<1>2. ASSUME NEW b \in Bookings, NEW t \in Times,
             PortalMoveRead(r, b, t)
      PROVE  Shape(r)
  <2> DEFINE w == Move(b, t, "portalLock")
  <2>1. status[b] \in Open /\ Goto(r, w) /\ status' = status
    BY <1>2 DEF PortalMoveRead, Begin, db
  <2>2. w \in Work /\ w.pc = "portalLock" /\ w.bk = b
    BY <2>1, MoveIsWork DEF Move
  <2>3. ASSUME NEW o \in Bookings, Holds(w, o)  PROVE o = b
    <3> HIDE DEF w
    <3> QED BY <2>2, <2>3 DEF Holds
  <2> HIDE DEF w
  <2> QED BY <2>1, <2>2, <2>3 DEF Shape, Continues
<1>3. ASSUME StaffMoveCheck(r)
      PROVE  Shape(r)
  BY <1>3, <1>0, KindOfWork, MoveIsWork
     DEF StaffMoveCheck, At, Then, db, TypeOK, Work, MoveWork, Holds, Shape, Continues, Finishes
<1>4. ASSUME StaffMoveWrite(r)
      PROVE  Shape(r)
  BY <1>4, <1>0, KindOfWork, MoveIsWork
     DEF StaffMoveWrite, At, Then, db, TypeOK, Work, MoveWork, Holds, Shape, Continues, Finishes
<1>5. ASSUME PortalLock(r)
      PROVE  Shape(r)
  BY <1>5, <1>0, KindOfWork, MoveIsWork
     DEF PortalLock, At, Then, db, TypeOK, Work, MoveWork, Holds, Shape, Continues, Finishes
<1>6. ASSUME PortalCheck(r)
      PROVE  Shape(r)
  BY <1>6, <1>0, KindOfWork, MoveIsWork
     DEF PortalCheck, At, Then, db, TypeOK, Work, MoveWork, Holds, Shape, Continues, Finishes
<1>7. ASSUME PortalMoveWrite(r)
      PROVE  Shape(r)
  BY <1>7, <1>0, KindOfWork, MoveIsWork
     DEF PortalMoveWrite, RowsOf, Status, Open, Terminal, At, Then, db, TypeOK, Work, MoveWork, Holds, Shape, Continues, Finishes
<1> QED BY <1>1, <1>2, <1>3, <1>4, <1>5, <1>6, <1>7 DEF Reschedule

LEMMA RosterShape ==
    ASSUME TypeOK, NEW r \in Requests, Roster(r)
    PROVE  Shape(r)
<1> USE StatusFacts
<1>0. req[r] \in Work \cup {Idle}  BY DEF TypeOK
<1>1. ASSUME NEW c \in Cleaners,
             Offboard(r, c)
      PROVE  Shape(r)
  BY <1>1, <1>0, KindOfWork, MoveIsWork
     DEF Offboard, Begin, Idle, RosterChange, CleanerStatus, At, Then, db, TypeOK, Work, RosterWork, Holds, Shape, Continues, Finishes
<1>2. ASSUME NEW c \in Cleaners,
             Suspend(r, c)
      PROVE  Shape(r)
  BY <1>2, <1>0, KindOfWork, MoveIsWork
     DEF Suspend, Begin, Idle, RosterChange, CleanerStatus, At, Then, db, TypeOK, Work, RosterWork, Holds, Shape, Continues, Finishes
<1>3. ASSUME NEW c \in Cleaners,
             Reactivate(r, c)
      PROVE  Shape(r)
  BY <1>3, <1>0, KindOfWork, MoveIsWork
     DEF Reactivate, Begin, Idle, RosterChange, CleanerStatus, At, Then, db, TypeOK, Work, RosterWork, Holds, Shape, Continues, Finishes
<1>4. ASSUME NEW c \in Cleaners,
             Onboard(r, c)
      PROVE  Shape(r)
  BY <1>4, <1>0, KindOfWork, MoveIsWork
     DEF Onboard, Begin, Idle, RosterChange, CleanerStatus, At, Then, db, TypeOK, Work, RosterWork, Holds, Shape, Continues, Finishes
<1>5. ASSUME SuspendProfile(r)
      PROVE  Shape(r)
  BY <1>5, <1>0, KindOfWork, MoveIsWork
     DEF SuspendProfile, RosterChange, CleanerStatus, At, Then, db, TypeOK, Work, RosterWork, Holds, Shape, Continues, Finishes
<1>6. ASSUME ReleaseFind(r)
      PROVE  Shape(r)
  <2>1. req[r] \in RosterWork
    BY <1>6, <1>0, KindOfWork DEF ReleaseFind, At
  <2> DEFINE up == {[row |-> a.id, bk |-> a.bk, seen |-> status[a.bk]]
                     : a \in Upcoming(req[r].cl, req[r].since)}
             w  == [req[r] EXCEPT !.pc = "releaseCommit", !.upcoming = up]
  <2>2. up \in SUBSET [row : Nat, bk : Bookings, seen : Status]
    BY DEF Upcoming, Row, TypeOK
  <2>3. \A u \in up : status[u.bk] = u.seen
    OBVIOUS
  <2>4. w \in RosterWork /\ w.pc = "releaseCommit" /\ w.upcoming = up
    <3> HIDE DEF up
    <3> QED BY <2>1, <2>2 DEF RosterWork
  <2>5. Goto(r, w) /\ status' = status
    BY <1>6 DEF ReleaseFind, db
  <2> HIDE DEF w, up
  <2>6. ASSUME NEW b \in Bookings, Holds(w, b)  PROVE status[b] \in Open
    BY <2>3, <2>4, <2>6 DEF Holds
  <2> QED BY <2>4, <2>5, <2>6 DEF Work, Shape, Continues
<1>7. ASSUME ReleaseCommit(r)
      PROVE  Shape(r)
  <2>1. ASSUME NEW b \in Bookings, status'[b] # status[b]
        PROVE  /\ status'[b] = "CONFIRMED"
               /\ \E u \in req[r].upcoming : u.bk = b /\ u.seen = "ASSIGNED"
    BY <1>7, <2>1 DEF ReleaseCommit
  <2> QED BY <1>7, <2>1 DEF ReleaseCommit, At, Holds, Shape, Finishes
<1>8. ASSUME LimitCheck(r)
      PROVE  Shape(r)
  BY <1>8, <1>0, KindOfWork, MoveIsWork
     DEF LimitCheck, At, Then, db, TypeOK, Work, RosterWork, Holds, Shape, Continues, Finishes
<1>9. ASSUME OnboardProfile(r)
      PROVE  Shape(r)
  BY <1>9, <1>0, KindOfWork, MoveIsWork
     DEF OnboardProfile, At, Then, db, TypeOK, Work, RosterWork, Holds, Shape, Continues, Finishes
<1>10. ASSUME Activate(r)
      PROVE  Shape(r)
  BY <1>10, <1>0, KindOfWork, MoveIsWork
     DEF Activate, CleanerStatus, At, Then, db, TypeOK, Work, RosterWork, Holds, Shape, Continues, Finishes
<1> QED BY <1>1, <1>2, <1>3, <1>4, <1>5, <1>6, <1>7, <1>8, <1>9, <1>10 DEF Roster

\* Only a step of a holder changes an ended booking, and every new holder was
\* in flight when the booking ended.
LEMMA OverlapStep ==
    ASSUME TypeOK, OverlapInv, NEW r \in Requests, Shape(r)
    PROVE  /\ OverlapInv'
           /\ \A b \in Bookings : status[b] \in Terminal /\ status'[b] # status[b]
                => r \in overlap[b] /\ req'[r] # req[r]
<1> USE StatusFacts
<1>0. ASSUME NEW b \in Bookings  PROVE ~Holds(Idle, b)
  BY DEF Holds, Idle
<1>1. CASE Continues(r)
  BY <1>1 DEF Continues, Goto, OverlapInv, TypeOK
<1>2. CASE Finishes(r)
  <2>1. ASSUME NEW s \in Requests, NEW b \in Bookings, Holds(req'[s], b),
               status'[b] \in Terminal
        PROVE  s \in overlap'[b]
    BY <1>0, <1>2, <2>1 DEF Finishes, Return, OverlapInv, TypeOK
  <2>2. ASSUME NEW b \in Bookings, status[b] \in Terminal, status'[b] # status[b]
        PROVE  r \in overlap[b] /\ req'[r] # req[r]
    BY <1>0, <1>2, <2>2 DEF Finishes, Return, OverlapInv, TypeOK
  <2> QED BY <2>1, <2>2 DEF OverlapInv, Holds
<1>3. CASE CompleteWrite(r)
  <2> DEFINE e == req[r].bk
  <2>1. /\ status' = [status EXCEPT ![e] = "COMPLETED"]
        /\ overlap' = [overlap EXCEPT ![e] = {s \in Requests \ {r} : req[s] # Idle}]
        /\ req' = [req EXCEPT ![r].pc = "stamp"]
        /\ req[r].pc = "completeWrite"
    BY <1>3 DEF CompleteWrite, EndOverlap, At
  <2>2. Holds(req[r], e) /\ req'[r].pc = "stamp"
    <3>1. req[r] \in BookingWork
      BY <2>1, KindOfWork DEF TypeOK
    <3> QED BY <2>1, <3>1 DEF Holds, BookingWork, TypeOK
  <2>3. ASSUME NEW s \in Requests, NEW b \in Bookings, Holds(req'[s], b),
               status'[b] \in Terminal
        PROVE  s \in overlap'[b]
    <3>1. s # r  BY <2>2, <2>3 DEF Holds
    <3>2. req'[s] = req[s]  BY <2>1, <3>1 DEF TypeOK
    <3>3. CASE b = e  BY <1>0, <2>1, <2>3, <3>1, <3>2, <3>3 DEF TypeOK
    <3>4. CASE b # e  BY <2>1, <2>3, <3>2, <3>4 DEF TypeOK, OverlapInv
    <3> QED BY <3>3, <3>4
  <2>4. req'[r] # req[r]  BY <2>1, <2>2
  <2> HIDE DEF e
  <2> QED BY <2>1, <2>2, <2>3, <2>4 DEF OverlapInv, TypeOK, Holds
<1>4. CASE CancelWrite(r)
  <2> DEFINE e == req[r].bk
  <2>1. /\ status' = [status EXCEPT ![e] = "CANCELLED"]
        /\ overlap' = [b \in Bookings |->
                        IF b = e THEN {s \in Requests \ {r} : req[s] # Idle}
                                 ELSE overlap[b] \ {r}]
        /\ req' = [req EXCEPT ![r] = Idle]
        /\ req[r].pc = "cancelWrite"
    BY <1>4 DEF CancelWrite, At
  <2>2. Holds(req[r], e)
    BY <2>1 DEF Holds
  <2>3. ASSUME NEW s \in Requests, NEW b \in Bookings, Holds(req'[s], b),
               status'[b] \in Terminal
        PROVE  s \in overlap'[b]
    <3>1. s # r  BY <1>0, <2>1, <2>3 DEF TypeOK
    <3>2. req'[s] = req[s]  BY <2>1, <3>1 DEF TypeOK
    <3>3. CASE b = e  BY <1>0, <2>1, <2>3, <3>1, <3>2, <3>3 DEF TypeOK
    <3>4. CASE b # e  BY <2>1, <2>3, <3>1, <3>2, <3>4 DEF TypeOK, OverlapInv
    <3> QED BY <3>3, <3>4
  <2>4. req'[r] # req[r]
    BY <2>1 DEF Idle, TypeOK
  <2> HIDE DEF e
  <2> QED BY <2>1, <2>2, <2>3, <2>4 DEF OverlapInv, TypeOK, Holds
<1> QED BY <1>1, <1>2, <1>3, <1>4 DEF Shape

\* A step keeps OverlapInv, and what it does to ended bookings it does on
\* behalf of a request that overlapped their end.
LEMMA NextOverlap ==
    ASSUME TypeOK, OverlapInv, [Next]_vars
    PROVE  /\ OverlapInv'
           /\ \A b \in Bookings : status[b] \in Terminal /\ status'[b] # status[b]
                => \E r \in overlap[b] : req'[r] # req[r]
<1>1. ASSUME NEW r \in Requests, Shape(r)
      PROVE  /\ OverlapInv'
             /\ \A b \in Bookings : status[b] \in Terminal /\ status'[b] # status[b]
                  => \E s \in overlap[b] : req'[s] # req[s]
  BY <1>1, OverlapStep
<1>2. CASE \E r \in Requests : \/ Assign(r) \/ Confirm(r) \/ Clock(r) \/ Complete(r)
                              \/ Cancel(r) \/ Unassign(r) \/ Reschedule(r) \/ Roster(r)
  BY <1>1, <1>2, AssignShape, ConfirmShape, ClockShape, CompleteShape, CancelShape,
     UnassignShape, RescheduleShape, RosterShape
<1>3. CASE \E r \in Requests : Crash(r)
  <2>1. PICK r \in Requests : Crash(r)  BY <1>3
  <2>2. \A b \in Bookings : ~Holds(Idle, b)  BY DEF Holds, Idle
  <2> QED BY <2>1, <2>2 DEF Crash, OverlapInv, TypeOK
<1>4. CASE Tick  BY <1>4 DEF Tick, OverlapInv
<1>5. CASE UNCHANGED vars  BY <1>5 DEF vars, OverlapInv
<1> QED BY <1>2, <1>3, <1>4, <1>5 DEF Next

\* In every interleaving of any number of handlers, a handler that still takes
\* an ended booking for open was in flight when it ended.
THEOREM OverlapIsKnown == Spec => []OverlapInv
<1>1. Init => OverlapInv
  BY DEF Init, OverlapInv, Holds, Idle
<1>2. TypeOK /\ OverlapInv /\ [Next]_vars => OverlapInv'
  BY NextOverlap
<1> QED BY <1>1, <1>2, TypeCorrect, PTL DEF Spec

\* However many handlers interleave, only a request already in flight when a
\* booking ended can change its status afterwards.
THEOREM EndedChangesOnlyByOverlap == Spec => RevivedOnlyByOverlap
<1>1. TypeOK /\ OverlapInv /\ [Next]_vars
        => [\A b \in Bookings : status[b] \in Terminal /\ status'[b] # status[b]
              => \E r \in overlap[b] : req'[r] # req[r]]_vars
  BY NextOverlap
<1> QED BY <1>1, TypeCorrect, OverlapIsKnown, PTL DEF Spec, RevivedOnlyByOverlap

-----------------------------------------------------------------------------
(* One request at a time *)

NoOverlap == \A b \in Bookings : overlap[b] = {}

\* With one slot nobody else is in flight when a booking ends.
LEMMA SerialStep ==
    ASSUME \A r, s \in Requests : r = s, TypeOK, NoOverlap, [Next]_vars
    PROVE  NoOverlap'
<1>1. ASSUME NEW r \in Requests, Shape(r)  PROVE NoOverlap'
  <2>1. Requests \ {r} = {}  OBVIOUS
  <2>2. CASE Continues(r)  BY <2>2 DEF Continues, Goto, NoOverlap
  <2>3. CASE Finishes(r)  BY <2>3 DEF Finishes, Return, NoOverlap
  <2>4. CASE CompleteWrite(r)
    <3>1. overlap' = [overlap EXCEPT ![req[r].bk] = {}]
      BY <2>1, <2>4 DEF CompleteWrite, EndOverlap
    <3> QED BY <3>1 DEF NoOverlap, TypeOK
  <2>5. CASE CancelWrite(r)
    <3>1. \A b \in Bookings : overlap'[b] = {} \/ overlap'[b] = overlap[b] \ {r}
      BY <2>1, <2>5 DEF CancelWrite
    <3> QED BY <3>1 DEF NoOverlap
  <2> QED BY <1>1, <2>2, <2>3, <2>4, <2>5 DEF Shape
<1>2. CASE \E r \in Requests : \/ Assign(r) \/ Confirm(r) \/ Clock(r) \/ Complete(r)
                              \/ Cancel(r) \/ Unassign(r) \/ Reschedule(r) \/ Roster(r)
  BY <1>1, <1>2, AssignShape, ConfirmShape, ClockShape, CompleteShape, CancelShape,
     UnassignShape, RescheduleShape, RosterShape
<1>3. CASE \E r \in Requests : Crash(r)  BY <1>3 DEF Crash, NoOverlap
<1>4. CASE Tick  BY <1>4 DEF Tick, NoOverlap
<1>5. CASE UNCHANGED vars  BY <1>5 DEF vars, NoOverlap
<1> QED BY <1>2, <1>3, <1>4, <1>5 DEF Next

\* Served one request at a time, no booking ever leaves a terminal status,
\* whatever the number of bookings, cleaners, rows and crashed handlers.
THEOREM SerialTerminal ==
    ASSUME \A r, s \in Requests : r = s
    PROVE  Spec => TerminalStays
<1>1. Init => NoOverlap
  BY DEF Init, NoOverlap
<1>2. TypeOK /\ NoOverlap /\ [Next]_vars => NoOverlap'
  BY SerialStep
<1>3. TypeOK /\ OverlapInv /\ NoOverlap /\ [Next]_vars
        => [\A b \in Bookings : status[b] \in Terminal => status'[b] = status[b]]_vars
  BY NextOverlap DEF NoOverlap
<1> QED BY <1>1, <1>2, <1>3, TypeCorrect, OverlapIsKnown, PTL DEF Spec, TerminalStays

-----------------------------------------------------------------------------
(***************************************************************************)
(* What holds of the bookings when requests are served one at a time, by   *)
(* any number of handlers, bookings, cleaners and assignment rows, with    *)
(* any number of handlers killed half way.                                 *)
(*                                                                         *)
(* The argument has two layers.  Fresh says what the handler in the only   *)
(* slot knows: with nobody beside it, what it read is still what the       *)
(* tables hold.  From that a step does to the tables one of nine things    *)
(* (Effect), each with the facts that make it safe, and every property is  *)
(* proved from the effects, without looking at the handlers again.         *)
(***************************************************************************)

OneSlot == \A r, s \in Requests : r = s

ActiveCleaners == {c \in Cleaners : cleaner[c] = "ACTIVE"}

\* What releaseCleaner's query finds.
FoundUpcoming(c, t) ==
    {[row |-> a.id, bk |-> a.bk, seen |-> status[a.bk]] : a \in Upcoming(c, t)}

\* What the work w of a handler remembers is what the tables hold.
Fresh(w) ==
    /\ w.pc \in {"assignCleaner", "assignFree", "assignCreate"} =>
         w.seen = status[w.bk] /\ w.at = start[w.bk]
    /\ w.pc \in {"assignFree", "assignCreate"} => cleaner[w.cl] = "ACTIVE"
    /\ w.pc = "assignCreate" => CleanerFree(w.cl, w.at, w.bk)
    /\ w.pc = "assignStatus" =>
         /\ w.seen = status[w.bk] /\ w.seen \in {"REQUESTED", "CONFIRMED"}
         /\ RowsOf(w.bk) # {}
    /\ w.pc = "confirmWrite" => status[w.bk] = "REQUESTED"
    /\ w.pc \in {"completeWrite", "cancelWrite", "unassignCount"} => status[w.bk] = w.seen
    /\ w.pc = "stamp" => status[w.bk] = "COMPLETED"
    /\ w.pc = "startWrite" => status[w.bk] \in OpenJob /\ \E a \in RowsOf(w.bk) : a.in
    /\ w.pc = "unassignWrite" => status[w.bk] = "ASSIGNED" /\ RowsOf(w.bk) = {}
    /\ w.pc \in {"clockInRead", "clockOutWrite", "checkOut", "unassignBooking"} =>
         w.row \in assignments
    /\ w.pc \in {"clockInWrite", "unassignDelete"} =>
         w.row \in assignments /\ ~w.row.in /\ w.seen = status[w.row.bk]
    /\ w.pc \in {"moveCheck", "moveWrite", "portalLock", "portalCheck", "portalWrite"} =>
         w.seen = status[w.bk]
    /\ w.pc = "moveWrite" => StaffMoveAllowed(w.bk, w.to)
    /\ w.pc \in {"portalLock", "portalCheck", "portalWrite"} => w.seen \in OpenJob
    /\ w.pc = "portalWrite" =>
         (w.release <=> \E a \in RowsOf(w.bk) : ~CleanerFree(a.cl, w.to, w.bk))
    /\ w.pc \in {"releaseFind", "releaseCommit"} => w.since <= now /\ w.to # "ACTIVE"
    /\ w.pc = "releaseCommit" => w.upcoming = FoundUpcoming(w.cl, w.since)
    /\ w.pc \in {"profile", "activate"} => Cardinality(ActiveCleaners) < MaxCleaners

FreshInv == IsFiniteSet(assignments) /\ \A r \in Requests : Fresh(req[r])

\* A handler between two of its writes: it has assigned somebody and not yet
\* said so, taken somebody off, completed a job and not yet stamped the rows.
Staffing(b)   == \E r \in Requests : req[r].pc = "assignStatus" /\ req[r].bk = b
Unstaffing(b) == \E r \in Requests :
    req[r].pc \in {"unassignCount", "unassignWrite"} /\ req[r].bk = b
Stamping(b)   == \E r \in Requests : req[r].pc = "stamp" /\ req[r].bk = b

StaffedInv == crashes = 0 => \A b \in Bookings :
    /\ status[b] = "ASSIGNED" => RowsOf(b) # {} \/ Unstaffing(b)
    /\ status[b] \in {"REQUESTED", "CONFIRMED"} => RowsOf(b) = {} \/ Staffing(b)
    /\ status[b] = "COMPLETED" => OnSite(b) = {} \/ Stamping(b)

AttendedInv == CheckedInMeansStarted /\ InProgressHasWorker

-----------------------------------------------------------------------------
(* What a step does to the tables *)

Rests == UNCHANGED <<status, start, cleaner, assignments>>

\* An active cleaner who is free gets an open job.
Joins == \E n \in Row :
    /\ ~n.in /\ cleaner[n.cl] = "ACTIVE" /\ status[n.bk] \in Open
    /\ CleanerFree(n.cl, start[n.bk], n.bk)
    /\ assignments' = assignments \cup {n}
    /\ status[n.bk] \in {"REQUESTED", "CONFIRMED"} => Staffing(n.bk)'
    /\ UNCHANGED <<status, start, cleaner>>

MayBecome(b, s) ==
    \/ s = "CONFIRMED" /\ (status[b] = "REQUESTED" \/ (status[b] = "ASSIGNED" /\ RowsOf(b) = {}))
    \/ s = "ASSIGNED" /\ status[b] \in {"REQUESTED", "CONFIRMED"} /\ RowsOf(b) # {}
    \/ s = "IN_PROGRESS" /\ status[b] \in OpenJob /\ \E a \in RowsOf(b) : a.in
    \/ s \in Terminal /\ status[b] \in Open

Advances == \E b \in Bookings, s \in Status :
    /\ MayBecome(b, s)
    /\ status' = [status EXCEPT ![b] = s]
    /\ s = "COMPLETED" => Stamping(b)'
    /\ UNCHANGED <<start, cleaner, assignments>>

\* Somebody's checking in starts the job.
ChecksIn == \E a \in assignments :
    /\ ~a.in /\ status[a.bk] \in Open
    /\ Replace(a, [a EXCEPT !.in = TRUE])
    /\ status' = [status EXCEPT ![a.bk] = "IN_PROGRESS"]
    /\ UNCHANGED <<start, cleaner>>

ChecksOut == \E A \in SUBSET assignments :
    /\ assignments' = {IF a \in A THEN [a EXCEPT !.out = TRUE] ELSE a : a \in assignments}
    /\ UNCHANGED <<status, start, cleaner>>

\* Somebody who has not started is taken off the job.
Departs == \E a \in assignments :
    /\ ~a.in /\ Unstaffing(a.bk)'
    /\ assignments' = assignments \ {a}
    /\ UNCHANGED <<status, start, cleaner>>

\* A job moves to where its cleaners are free, or, not begun, loses them.
Moves == \E b \in Bookings, t \in Times :
    /\ start' = [start EXCEPT ![b] = t]
    /\ UNCHANGED cleaner
    /\ \/ /\ \A a \in RowsOf(b) : CleanerFree(a.cl, t, b)
          /\ UNCHANGED <<status, assignments>>
       \/ /\ status[b] \in OpenJob
          /\ assignments' = assignments \ RowsOf(b)
          /\ status' = [status EXCEPT ![b] =
                           IF status[b] = "ASSIGNED" THEN "CONFIRMED" ELSE status[b]]

\* A cleaner leaves and with it every job of theirs that is still to come.
Releases == \E c \in Cleaners, to \in CleanerStatus \ {"ACTIVE"}, t \in Times :
    /\ t <= now
    /\ assignments' = assignments \ Upcoming(c, t)
    /\ status' = [b \in Bookings |->
          IF /\ status[b] = "ASSIGNED" /\ \E a \in Upcoming(c, t) : a.bk = b
             /\ \A a \in assignments \ Upcoming(c, t) : a.bk # b
          THEN "CONFIRMED" ELSE status[b]]
    /\ cleaner' = [cleaner EXCEPT ![c] = to]
    /\ UNCHANGED start

Employs == \E c \in Cleaners :
    /\ Cardinality(ActiveCleaners) < MaxCleaners
    /\ cleaner' = [cleaner EXCEPT ![c] = "ACTIVE"]
    /\ UNCHANGED <<status, start, assignments>>

Effect ==
    /\ now <= now'
    /\ \/ Rests \/ Joins \/ Advances \/ ChecksIn \/ ChecksOut \/ Departs
       \/ Moves \/ Releases \/ Employs

\* A handler that was between two writes has made the second, or died.
MarksKept == crashes' = 0 => crashes = 0 /\ \A b \in Bookings :
    /\ Staffing(b) /\ ~Staffing(b)' => status'[b] \notin {"REQUESTED", "CONFIRMED"}
    /\ Unstaffing(b) /\ ~Unstaffing(b)' => status'[b] # "ASSIGNED" \/ RowsOf(b)' # {}
    /\ Stamping(b) /\ ~Stamping(b)' => OnSite(b)' = {}

Good == FreshInv' /\ Effect /\ MarksKept

-----------------------------------------------------------------------------
(* The steps of a handler *)

LEMMA IdleIsFresh ==
    ASSUME OneSlot, TypeOK, NEW r \in Requests, req' = [req EXCEPT ![r] = Idle],
           IsFiniteSet(assignments')
    PROVE  FreshInv'
<1>1. req'[r] = Idle  BY DEF TypeOK
<1>2. \A s \in Requests : req'[s].pc = "idle"  BY <1>1 DEF OneSlot, Idle
<1>3. ASSUME NEW w, w.pc = "idle"  PROVE Fresh(w)'
  BY <1>3 DEF Fresh
<1> QED BY <1>2, <1>3 DEF FreshInv

LEMMA NoMarks ==
    ASSUME OneSlot, TypeOK, NEW r \in Requests, crashes' = crashes,
           req[r].pc \notin {"assignStatus", "unassignCount", "unassignWrite", "stamp"}
    PROVE  MarksKept
<1>1. \A b \in Bookings : ~Staffing(b) /\ ~Unstaffing(b) /\ ~Stamping(b)
  BY DEF Staffing, Unstaffing, Stamping, OneSlot
<1> QED BY <1>1 DEF MarksKept

\* A handler that reads and goes on.
LEMMA ReadStep ==
    ASSUME OneSlot, TypeOK, FreshInv, NEW r \in Requests, NEW w, Goto(r, w), Fresh(w),
           Rests, now' = now,
           req[r].pc \notin {"assignStatus", "unassignCount", "unassignWrite", "stamp"}
    PROVE  Good
<1>1. req'[r] = w /\ crashes' = crashes  BY DEF Goto, TypeOK
<1>2. \A s \in Requests : req'[s] = w  BY <1>1 DEF OneSlot
<1>3. UNCHANGED <<status, start, cleaner, assignments, now>>  BY DEF Rests
<1>4. Fresh(w)'
  BY <1>3 DEF Fresh, FoundUpcoming, Upcoming, CleanerFree, StaffMoveAllowed, RowsOf,
              ActiveCleaners
<1>5. FreshInv'  BY <1>2, <1>3, <1>4 DEF FreshInv
<1>6. MarksKept  BY <1>1, NoMarks
<1>7. Effect  BY <1>3 DEF Effect, Rests, TypeOK, Times
<1> QED BY <1>5, <1>6, <1>7 DEF Good

\* A handler that reads and returns.
LEMMA ReturnStep ==
    ASSUME OneSlot, TypeOK, FreshInv, NEW r \in Requests, Return(r), Rests, now' = now,
           req[r].pc \notin {"assignStatus", "unassignCount", "unassignWrite", "stamp"}
    PROVE  Good
<1>1. UNCHANGED <<status, start, cleaner, assignments, now, crashes>>  BY DEF Rests, Return
<1>2. FreshInv'  BY <1>1, IdleIsFresh DEF FreshInv, Return
<1>3. MarksKept  BY <1>1, NoMarks
<1>4. Effect  BY <1>1 DEF Effect, Rests, TypeOK, Times
<1> QED BY <1>2, <1>3, <1>4 DEF Good

\* A handler that writes and returns.
LEMMA WriteStep ==
    ASSUME OneSlot, TypeOK, NEW r \in Requests, Return(r), IsFiniteSet(assignments'),
           UNCHANGED now,
           \/ Rests \/ Joins \/ Advances \/ ChecksIn \/ ChecksOut \/ Departs
           \/ Moves \/ Releases \/ Employs,
           req[r].pc \notin {"assignStatus", "unassignCount", "unassignWrite", "stamp"}
    PROVE  Good
<1>1. FreshInv'  BY IdleIsFresh DEF Return
<1>2. MarksKept  BY NoMarks DEF Return
<1>3. Effect  BY DEF Effect, TypeOK, Times
<1> QED BY <1>1, <1>2, <1>3 DEF Good

LEMMA AssignGood ==
    ASSUME OneSlot, TypeOK, FreshInv, NEW r \in Requests, Assign(r)
    PROVE  Good
<1> USE StatusFacts
<1>0. req[r] \in Work \cup {Idle} /\ Fresh(req[r])  BY DEF TypeOK, FreshInv
<1>1. ASSUME NEW b \in Bookings, NEW c \in Cleaners, NEW lead \in BOOLEAN,
             AssignRead(r, b, c, lead)
      PROVE  Good
  <2> DEFINE w == [pc |-> "assignCleaner", bk |-> b, cl |-> c, lead |-> lead,
                   seen |-> status[b], at |-> start[b]]
  <2>1. Goto(r, w) /\ Rests /\ now' = now /\ req[r].pc = "idle"
    BY <1>1 DEF AssignRead, Begin, Idle, db, Rests
  <2>2. Fresh(w)  BY DEF Fresh
  <2> HIDE DEF w
  <2> QED BY <2>1, <2>2, ReadStep
<1>2. ASSUME AssignCleaner(r)
      PROVE  Good
  <2>1. req[r] \in AssignWork /\ req[r].pc = "assignCleaner" /\ Rests /\ now' = now
    BY <1>2, <1>0, KindOfWork DEF AssignCleaner, At, db, Rests
  <2>2. CASE cleaner[req[r].cl] = "ACTIVE" /\ Then(r, "assignFree")
    <3> DEFINE w == [req[r] EXCEPT !.pc = "assignFree"]
    <3>1. Goto(r, w)  BY <2>2 DEF Then
    <3>2. Fresh(w)  BY <1>0, <2>1, <2>2 DEF Fresh, AssignWork
    <3> HIDE DEF w
    <3> QED BY <2>1, <3>1, <3>2, ReadStep
  <2> QED BY <1>2, <2>1, <2>2, ReturnStep DEF AssignCleaner
<1>3. ASSUME AssignFree(r)
      PROVE  Good
  <2>1. req[r] \in AssignWork /\ req[r].pc = "assignFree" /\ Rests /\ now' = now
    BY <1>3, <1>0, KindOfWork DEF AssignFree, At, db, Rests
  <2>2. CASE CleanerFree(req[r].cl, req[r].at, req[r].bk) /\ Then(r, "assignCreate")
    <3> DEFINE w == [req[r] EXCEPT !.pc = "assignCreate"]
    <3>1. Goto(r, w)  BY <2>2 DEF Then
    <3>2. Fresh(w)  BY <1>0, <2>1, <2>2 DEF Fresh, AssignWork
    <3> HIDE DEF w
    <3> QED BY <2>1, <3>1, <3>2, ReadStep
  <2> QED BY <1>3, <2>1, <2>2, ReturnStep DEF AssignFree
<1>4. ASSUME AssignCreate(r)
      PROVE  Good
  <2>1. req[r] \in AssignWork /\ req[r].pc = "assignCreate"
    BY <1>4, <1>0, KindOfWork DEF AssignCreate, At
  <2> PICK n : n = [id |-> nextRow, bk |-> req[r].bk, cl |-> req[r].cl,
                    lead |-> req[r].lead, in |-> FALSE, out |-> FALSE]
    OBVIOUS
  <2>2. /\ n \in Row /\ ~n.in /\ n.bk = req[r].bk /\ n.cl = req[r].cl
        /\ req[r].bk \in Bookings /\ req[r].seen \in Open
    BY <2>1 DEF AssignWork, Row, TypeOK
  <2>3. /\ assignments' = assignments \cup {n}
        /\ UNCHANGED <<status, start, cleaner, now>>
    BY <1>4 DEF AssignCreate
  <2>4. /\ req[r].seen = status[n.bk] /\ cleaner[n.cl] = "ACTIVE"
        /\ CleanerFree(n.cl, start[n.bk], n.bk)
    BY <1>0, <2>1, <2>2 DEF Fresh
  <2>5. IsFiniteSet(assignments')
    BY <2>3, FS_AddElement DEF FreshInv
  <2>6. CASE StatusAfterAssign(req[r].seen) # req[r].seen /\ Then(r, "assignStatus")
    <3>1. req[r].seen \in {"REQUESTED", "CONFIRMED"}
      BY <2>6 DEF StatusAfterAssign
    <3> PICK w : w = [req[r] EXCEPT !.pc = "assignStatus"]  OBVIOUS
    <3>2. w.pc = "assignStatus" /\ w.bk = n.bk /\ w.seen = req[r].seen
      BY <2>1, <2>2 DEF AssignWork
    <3>3. req'[r] = w /\ crashes' = crashes  BY <2>6 DEF Then, Goto, TypeOK
    <3>4. Fresh(w)'
      BY <2>2, <2>3, <2>4, <3>1, <3>2 DEF Fresh, RowsOf
    <3>5. FreshInv'  BY <2>5, <3>3, <3>4 DEF FreshInv, OneSlot
    <3>6. Staffing(n.bk)'  BY <3>2, <3>3 DEF Staffing
    <3>7. Joins  BY <2>2, <2>3, <2>4, <3>6 DEF Joins
    <3>8. MarksKept  BY <2>1, <3>3, NoMarks
    <3>9. Effect  BY <2>3, <3>7 DEF Effect, TypeOK, Times
    <3> QED BY <3>5, <3>8, <3>9 DEF Good
  <2>7. CASE StatusAfterAssign(req[r].seen) = req[r].seen /\ Return(r)
    <3>1. req[r].seen \notin {"REQUESTED", "CONFIRMED"}
      BY <2>7 DEF StatusAfterAssign
    <3>2. Joins  BY <2>2, <2>3, <2>4, <3>1 DEF Joins
    <3> QED BY <2>1, <2>3, <2>5, <2>7, <3>2, WriteStep
  <2> QED BY <1>4, <2>6, <2>7 DEF AssignCreate
<1>5. ASSUME AssignStatus(r)
      PROVE  Good
  <2>1. req[r] \in AssignWork /\ req[r].pc = "assignStatus"
    BY <1>5, <1>0, KindOfWork DEF AssignStatus, At
  <2> DEFINE b == req[r].bk
  <2>2. /\ b \in Bookings /\ status[b] \in {"REQUESTED", "CONFIRMED"} /\ RowsOf(b) # {}
        /\ status' = [status EXCEPT ![b] = "ASSIGNED"]
        /\ UNCHANGED <<start, cleaner, assignments, now, crashes>> /\ Return(r)
    BY <1>0, <1>5, <2>1 DEF AssignStatus, AssignWork, Fresh, StatusAfterAssign, Return
  <2>3. Advances
    BY <2>2 DEF Advances, MayBecome, Status
  <2>4. \A o \in Bookings : (Staffing(o) => o = b) /\ ~Unstaffing(o) /\ ~Stamping(o)
    BY <2>1 DEF Staffing, Unstaffing, Stamping, OneSlot
  <2>5. MarksKept
    BY <2>2, <2>4 DEF MarksKept, TypeOK
  <2>6. FreshInv'  BY <2>2, IdleIsFresh DEF FreshInv, Return
  <2> QED BY <2>2, <2>3, <2>5, <2>6 DEF Good, Effect, TypeOK, Times
<1> QED BY <1>1, <1>2, <1>3, <1>4, <1>5 DEF Assign

\* A handler that writes one status and returns.
LEMMA AdvanceStep ==
    ASSUME OneSlot, TypeOK, FreshInv, NEW r \in Requests, Return(r),
           NEW b \in Bookings, NEW s \in Status \ {"COMPLETED"}, MayBecome(b, s),
           status' = [status EXCEPT ![b] = s],
           UNCHANGED <<start, cleaner, assignments, now>>,
           req[r].pc \notin {"assignStatus", "unassignCount", "unassignWrite", "stamp"}
    PROVE  Good
<1>1. Advances  BY DEF Advances
<1> QED BY <1>1, WriteStep DEF FreshInv

LEMMA ConfirmGood ==
    ASSUME OneSlot, TypeOK, FreshInv, NEW r \in Requests, Confirm(r)
    PROVE  Good
<1> USE StatusFacts
<1>0. req[r] \in Work \cup {Idle} /\ Fresh(req[r])  BY DEF TypeOK, FreshInv
<1>1. ASSUME NEW b \in Bookings, ConfirmRead(r, b)
      PROVE  Good
  <2> DEFINE w == [pc |-> "confirmWrite", bk |-> b, seen |-> status[b]]
  <2>1. Goto(r, w) /\ Rests /\ now' = now /\ req[r].pc = "idle"
    BY <1>1 DEF ConfirmRead, Begin, Idle, db, Rests
  <2>2. Fresh(w)  BY <1>1 DEF ConfirmRead, Fresh
  <2> HIDE DEF w
  <2> QED BY <2>1, <2>2, ReadStep
<1>2. ASSUME ConfirmWrite(r)
      PROVE  Good
  <2>1. req[r] \in BookingWork /\ req[r].pc = "confirmWrite"
    BY <1>2, <1>0, KindOfWork DEF ConfirmWrite, At
  <2>2. req[r].bk \in Bookings /\ status[req[r].bk] = "REQUESTED"
    BY <1>0, <2>1 DEF BookingWork, Fresh
  <2>3. MayBecome(req[r].bk, "CONFIRMED") /\ "CONFIRMED" \in Status \ {"COMPLETED"}
    BY <2>2 DEF MayBecome, Status
  <2> QED BY <1>2, <2>1, <2>2, <2>3, AdvanceStep DEF ConfirmWrite
<1> QED BY <1>1, <1>2 DEF Confirm

\* The row a handler found is the only one with its primary key.
LEMMA RowIsUnique ==
    ASSUME TypeOK, NEW a \in assignments
    PROVE  RowsWithId(a.id) = {a}
BY DEF TypeOK, RowsWithId

LEMMA CheckingOut ==
    ASSUME TypeOK, FreshInv, NEW a \in assignments, Replace(a, [a EXCEPT !.out = TRUE]),
           UNCHANGED <<status, start, cleaner>>
    PROVE  ChecksOut /\ IsFiniteSet(assignments')
<1>1. IsFiniteSet(assignments')
  BY FS_AddElement, FS_RemoveElement DEF Replace, FreshInv
<1>2. assignments' = {IF x \in {a} THEN [x EXCEPT !.out = TRUE] ELSE x : x \in assignments}
  BY DEF Replace
<1> QED BY <1>1, <1>2 DEF ChecksOut

LEMMA ClockGood ==
    ASSUME OneSlot, TypeOK, FreshInv, NEW r \in Requests, Clock(r)
    PROVE  Good
<1> USE StatusFacts
<1>0. req[r] \in Work \cup {Idle} /\ Fresh(req[r])  BY DEF TypeOK, FreshInv
<1>1. ASSUME NEW a \in assignments, ClockInFind(r, a)
      PROVE  Good
  <2> DEFINE w == [pc |-> "clockInRead", row |-> a]
  <2>1. Goto(r, w) /\ Rests /\ now' = now /\ req[r].pc = "idle"
    BY <1>1 DEF ClockInFind, Begin, Idle, db, Rests
  <2>2. Fresh(w)  BY <1>1 DEF ClockInFind, Fresh
  <2> HIDE DEF w
  <2> QED BY <2>1, <2>2, ReadStep
<1>2. ASSUME NEW a \in assignments, ClockOutRead(r, a)
      PROVE  Good
  <2> DEFINE w == [pc |-> "clockOutWrite", row |-> a]
  <2>1. Goto(r, w) /\ Rests /\ now' = now /\ req[r].pc = "idle"
    BY <1>2 DEF ClockOutRead, Begin, Idle, db, Rests
  <2>2. Fresh(w)  BY <1>2 DEF ClockOutRead, Fresh
  <2> HIDE DEF w
  <2> QED BY <2>1, <2>2, ReadStep
<1>3. ASSUME NEW b \in Bookings, NEW c \in Cleaners, StartGate(r, b, c)
      PROVE  Good
  <2> DEFINE w == [pc |-> "startRead", bk |-> b, cl |-> c]
  <2>1. Goto(r, w) /\ Rests /\ now' = now /\ req[r].pc = "idle"
    BY <1>3 DEF StartGate, Begin, Idle, db, Rests
  <2>2. Fresh(w)  BY <1>3 DEF StartGate, Fresh
  <2> HIDE DEF w
  <2> QED BY <2>1, <2>2, ReadStep
<1>4. ASSUME ClockInRead(r)
      PROVE  Good
  <2>1. req[r] \in RowRead /\ req[r].pc = "clockInRead" /\ Rests /\ now' = now
    BY <1>4, <1>0, KindOfWork DEF ClockInRead, At, db, Rests
  <2>2. ASSUME NEW a \in RowsWithId(req[r].row.id), ~a.in,
               Goto(r, [pc |-> "clockInWrite", row |-> a, seen |-> status[a.bk]])
        PROVE  Good
    <3> DEFINE w == [pc |-> "clockInWrite", row |-> a, seen |-> status[a.bk]]
    <3>1. Fresh(w)  BY <2>2 DEF Fresh, RowsWithId
    <3>2. Goto(r, w)  BY <2>2
    <3> HIDE DEF w
    <3> QED BY <2>1, <3>1, <3>2, ReadStep
  <2> QED BY <1>4, <2>1, <2>2, ReturnStep DEF ClockInRead
<1>5. ASSUME ClockInWrite(r)
      PROVE  Good
  <2>1. req[r] \in RowWork /\ req[r].pc = "clockInWrite"
    BY <1>5, <1>0, KindOfWork DEF ClockInWrite, At
  <2> DEFINE a == req[r].row
  <2>2. /\ a \in assignments /\ ~a.in /\ a.bk \in Bookings
        /\ req[r].seen = status[a.bk] /\ status[a.bk] \in Open
    BY <1>0, <2>1 DEF RowWork, Row, Fresh
  <2>3. /\ Replace(a, [a EXCEPT !.in = TRUE]) /\ Return(r)
        /\ status' = IF status[a.bk] \in OpenJob
                     THEN [status EXCEPT ![a.bk] = "IN_PROGRESS"] ELSE status
        /\ UNCHANGED <<start, cleaner, now>>
    BY <1>5, <2>2, RowIsUnique DEF ClockInWrite, Gone
  <2>4. status' = [status EXCEPT ![a.bk] = "IN_PROGRESS"]
    BY <2>2, <2>3 DEF TypeOK, Open, OpenJob, Status, Terminal
  <2>5. ChecksIn
    BY <2>2, <2>3, <2>4 DEF ChecksIn
  <2>6. IsFiniteSet(assignments')
    BY <2>3, FS_AddElement, FS_RemoveElement DEF Replace, FreshInv
  <2> QED BY <2>1, <2>3, <2>5, <2>6, WriteStep
<1>6. ASSUME StartRead(r)
      PROVE  Good
  <2>1. req[r] \in GateWork /\ req[r].pc = "startRead" /\ Rests /\ now' = now
    BY <1>6, <1>0, KindOfWork DEF StartRead, At, db, Rests
  <2>2. ASSUME NEW a \in RowsOf(req[r].bk), Goto(r, [pc |-> "clockInRead", row |-> a])
        PROVE  Good
    <3> DEFINE w == [pc |-> "clockInRead", row |-> a]
    <3>1. Fresh(w)  BY <2>2 DEF Fresh, RowsOf
    <3>2. Goto(r, w)  BY <2>2
    <3> HIDE DEF w
    <3> QED BY <2>1, <3>1, <3>2, ReadStep
  <2>3. ASSUME NEW a \in RowsOf(req[r].bk), a.in, status[req[r].bk] \in OpenJob,
               Goto(r, [pc |-> "startWrite", bk |-> req[r].bk, seen |-> status[req[r].bk]])
        PROVE  Good
    <3> DEFINE w == [pc |-> "startWrite", bk |-> req[r].bk, seen |-> status[req[r].bk]]
    <3>1. Fresh(w)  BY <2>3 DEF Fresh
    <3>2. Goto(r, w)  BY <2>3
    <3> HIDE DEF w
    <3> QED BY <2>1, <3>1, <3>2, ReadStep
  <2> QED BY <1>6, <2>1, <2>2, <2>3, ReturnStep DEF StartRead, Open, OpenJob, Status, Terminal
<1>7. ASSUME StartWrite(r)
      PROVE  Good
  <2>1. req[r] \in BookingWork /\ req[r].pc = "startWrite"
    BY <1>7, <1>0, KindOfWork DEF StartWrite, At
  <2>2. req[r].bk \in Bookings /\ MayBecome(req[r].bk, "IN_PROGRESS")
    BY <1>0, <2>1 DEF BookingWork, Fresh, MayBecome
  <2>3. "IN_PROGRESS" \in Status \ {"COMPLETED"}  BY DEF Status
  <2> QED BY <1>7, <2>1, <2>2, <2>3, AdvanceStep DEF StartWrite
<1>8. ASSUME ClockOutWrite(r)
      PROVE  Good
  <2>1. req[r] \in RowRead /\ req[r].pc = "clockOutWrite"
    BY <1>8, <1>0, KindOfWork DEF ClockOutWrite, At
  <2>2. req[r].row \in assignments
    BY <1>0, <2>1 DEF Fresh
  <2>3. /\ Replace(req[r].row, [req[r].row EXCEPT !.out = TRUE]) /\ Return(r)
        /\ UNCHANGED <<status, start, cleaner, now>>
    BY <1>8, <2>2, RowIsUnique DEF ClockOutWrite, Gone
  <2> QED BY <2>1, <2>2, <2>3, CheckingOut, WriteStep
<1> QED BY <1>1, <1>2, <1>3, <1>4, <1>5, <1>6, <1>7, <1>8 DEF Clock
\* A handler that writes and goes on.
LEMMA WriteOn ==
    ASSUME OneSlot, TypeOK, NEW r \in Requests, NEW w, Goto(r, w), Fresh(w)',
           IsFiniteSet(assignments'), UNCHANGED now,
           \/ Rests \/ Joins \/ Advances \/ ChecksIn \/ ChecksOut \/ Departs
           \/ Moves \/ Releases \/ Employs,
           req[r].pc \notin {"assignStatus", "unassignCount", "unassignWrite", "stamp"}
    PROVE  Good
<1>1. req'[r] = w /\ crashes' = crashes  BY DEF Goto, TypeOK
<1>2. FreshInv'  BY <1>1 DEF FreshInv, OneSlot
<1>3. MarksKept  BY <1>1, NoMarks
<1>4. Effect  BY DEF Effect, TypeOK, Times
<1> QED BY <1>2, <1>3, <1>4 DEF Good

LEMMA CompleteGood ==
    ASSUME OneSlot, TypeOK, FreshInv, NEW r \in Requests, Complete(r)
    PROVE  Good
<1> USE StatusFacts
<1>0. req[r] \in Work \cup {Idle} /\ Fresh(req[r])  BY DEF TypeOK, FreshInv
<1>1. ASSUME NEW b \in Bookings, CompleteByStaff(r, b)
      PROVE  Good
  <2> DEFINE w == [pc |-> "completeWrite", bk |-> b, seen |-> status[b]]
  <2>1. Goto(r, w) /\ Rests /\ now' = now /\ req[r].pc = "idle"
    BY <1>1 DEF CompleteByStaff, Begin, Idle, db, Rests
  <2>2. Fresh(w)  BY DEF Fresh
  <2> HIDE DEF w
  <2> QED BY <2>1, <2>2, ReadStep
<1>2. ASSUME NEW a \in assignments, CompleteByCleaner(r, a)
      PROVE  Good
  <2> DEFINE w == [pc |-> "checkOut", row |-> a]
  <2>1. Goto(r, w) /\ Rests /\ now' = now /\ req[r].pc = "idle"
    BY <1>2 DEF CompleteByCleaner, Begin, Idle, db, Rests
  <2>2. Fresh(w)  BY DEF Fresh
  <2> HIDE DEF w
  <2> QED BY <2>1, <2>2, ReadStep
<1>3. ASSUME CheckOutWrite(r)
      PROVE  Good
  <2>1. req[r] \in RowRead /\ req[r].pc = "checkOut"
    BY <1>3, <1>0, KindOfWork DEF CheckOutWrite, At
  <2>2. req[r].row \in assignments
    BY <1>0, <2>1 DEF Fresh
  <2>3. /\ Replace(req[r].row, [req[r].row EXCEPT !.out = TRUE])
        /\ Then(r, "stillOnSite") /\ UNCHANGED <<status, start, cleaner, now>>
    BY <1>3, <2>2, RowIsUnique DEF CheckOutWrite, Gone
  <2>4. ChecksOut /\ IsFiniteSet(assignments')
    BY <2>2, <2>3, CheckingOut
  <2> PICK w : w = [req[r] EXCEPT !.pc = "stillOnSite"]  OBVIOUS
  <2>5. w.pc = "stillOnSite"  BY <2>1 DEF RowRead
  <2>6. Fresh(w)'  BY <2>5 DEF Fresh
  <2>7. Goto(r, w)  BY <2>3 DEF Then
  <2> QED BY <2>1, <2>3, <2>4, <2>6, <2>7, WriteOn
<1>4. ASSUME StillOnSite(r)
      PROVE  Good
  <2>1. req[r] \in RowRead /\ req[r].pc = "stillOnSite" /\ Rests /\ now' = now
    BY <1>4, <1>0, KindOfWork DEF StillOnSite, At, db, Rests
  <2> DEFINE w == [pc |-> "completeRead", bk |-> req[r].row.bk]
  <2>2. Fresh(w)  BY DEF Fresh
  <2>3. Return(r) \/ Goto(r, w)  BY <1>4 DEF StillOnSite
  <2> HIDE DEF w
  <2> QED BY <2>1, <2>2, <2>3, ReadStep, ReturnStep
<1>5. ASSUME CompleteRead(r)
      PROVE  Good
  <2>1. req[r].pc = "completeRead" /\ Rests /\ now' = now
    BY <1>5 DEF CompleteRead, At, db, Rests
  <2> DEFINE w == [pc |-> "completeWrite", bk |-> req[r].bk, seen |-> status[req[r].bk]]
  <2>2. Fresh(w)  BY DEF Fresh
  <2>3. Return(r) \/ Goto(r, w)  BY <1>5 DEF CompleteRead
  <2> HIDE DEF w
  <2> QED BY <2>1, <2>2, <2>3, ReadStep, ReturnStep
<1>6. ASSUME CompleteWrite(r)
      PROVE  Good
  <2>1. req[r] \in BookingWork /\ req[r].pc = "completeWrite"
    BY <1>6, <1>0, KindOfWork DEF CompleteWrite, At
  <2> PICK b : b = req[r].bk  OBVIOUS
  <2> PICK w : w = [req[r] EXCEPT !.pc = "stamp"]  OBVIOUS
  <2>2. /\ b \in Bookings /\ status[b] \in Open /\ status' = [status EXCEPT ![b] = "COMPLETED"]
        /\ UNCHANGED <<start, cleaner, assignments, now, crashes>>
        /\ w.pc = "stamp" /\ w.bk = b /\ req'[r] = w
    BY <1>0, <1>6, <2>1 DEF CompleteWrite, BookingWork, Fresh, TypeOK
  <2>3. Fresh(w)'  BY <2>2 DEF Fresh, TypeOK
  <2>4. FreshInv'  BY <2>2, <2>3 DEF FreshInv, OneSlot
  <2>5. Stamping(b)'  BY <2>2 DEF Stamping
  <2>6. Advances  BY <2>2, <2>5 DEF Advances, MayBecome, Terminal, Status
  <2>7. MarksKept  BY <2>1, <2>2, NoMarks
  <2> QED BY <2>2, <2>4, <2>6, <2>7 DEF Good, Effect, TypeOK, Times
<1>7. ASSUME StampCheckOuts(r)
      PROVE  Good
  <2>1. req[r] \in BookingWork /\ req[r].pc = "stamp"
    BY <1>7, <1>0, KindOfWork DEF StampCheckOuts, At
  <2> PICK b : b = req[r].bk  OBVIOUS
  <2>2. /\ assignments' = {IF a \in OnSite(b) THEN [a EXCEPT !.out = TRUE] ELSE a
                            : a \in assignments}
        /\ Return(r) /\ UNCHANGED <<status, start, cleaner, now, crashes>>
    BY <1>7 DEF StampCheckOuts, Return
  <2>3. OnSite(b) \in SUBSET assignments  BY DEF OnSite, RowsOf
  <2>4. ChecksOut  BY <2>2, <2>3 DEF ChecksOut
  <2>5. IsFiniteSet(assignments')
    <3> DEFINE f == [a \in assignments |->
                       IF a \in OnSite(b) THEN [a EXCEPT !.out = TRUE] ELSE a]
    <3>1. f \in Surjection(assignments, assignments')
      BY <2>2 DEF Surjection
    <3> QED BY <3>1, FS_Surjection DEF FreshInv
  <2>6. FreshInv'  BY <2>2, <2>5, IdleIsFresh DEF Return
  <2>7. \A o \in Bookings : (Stamping(o) => o = b) /\ ~Unstaffing(o) /\ ~Staffing(o)
    BY <2>1 DEF Staffing, Unstaffing, Stamping, OneSlot
  <2>8. OnSite(b)' = {}
    BY <2>2 DEF OnSite, RowsOf, TypeOK, Row
  <2>9. MarksKept
    BY <2>2, <2>7, <2>8 DEF MarksKept
  <2> QED BY <2>2, <2>4, <2>6, <2>9 DEF Good, Effect, TypeOK, Times
<1> QED BY <1>1, <1>2, <1>3, <1>4, <1>5, <1>6, <1>7 DEF Complete

LEMMA CancelGood ==
    ASSUME OneSlot, TypeOK, FreshInv, NEW r \in Requests, Cancel(r)
    PROVE  Good
<1> USE StatusFacts
<1>0. req[r] \in Work \cup {Idle} /\ Fresh(req[r])  BY DEF TypeOK, FreshInv
<1>1. ASSUME NEW b \in Bookings, CancelByStaff(r, b)
      PROVE  Good
  <2> DEFINE w == [pc |-> "cancelWrite", bk |-> b, seen |-> status[b]]
  <2>1. Goto(r, w) /\ Rests /\ now' = now /\ req[r].pc = "idle"
    BY <1>1 DEF CancelByStaff, Begin, Idle, db, Rests
  <2>2. Fresh(w)  BY DEF Fresh
  <2> HIDE DEF w
  <2> QED BY <2>1, <2>2, ReadStep
<1>2. ASSUME NEW b \in Bookings, CancelByCustomer(r, b)
      PROVE  Good
  <2> DEFINE w == [pc |-> "cancelRead", bk |-> b]
  <2>1. Goto(r, w) /\ Rests /\ now' = now /\ req[r].pc = "idle"
    BY <1>2 DEF CancelByCustomer, Begin, Idle, db, Rests
  <2>2. Fresh(w)  BY DEF Fresh
  <2> HIDE DEF w
  <2> QED BY <2>1, <2>2, ReadStep
<1>3. ASSUME CancelRead(r)
      PROVE  Good
  <2>1. req[r].pc = "cancelRead" /\ Rests /\ now' = now
    BY <1>3 DEF CancelRead, At, db, Rests
  <2> DEFINE w == [pc |-> "cancelWrite", bk |-> req[r].bk, seen |-> status[req[r].bk]]
  <2>2. Fresh(w)  BY DEF Fresh
  <2>3. Return(r) \/ Goto(r, w)  BY <1>3 DEF CancelRead
  <2> HIDE DEF w
  <2> QED BY <2>1, <2>2, <2>3, ReadStep, ReturnStep
<1>4. ASSUME CancelWrite(r)
      PROVE  Good
  <2>1. req[r] \in BookingWork /\ req[r].pc = "cancelWrite"
    BY <1>4, <1>0, KindOfWork DEF CancelWrite, At
  <2> PICK b : b = req[r].bk  OBVIOUS
  <2>2. /\ b \in Bookings /\ status[b] \in Open /\ status' = [status EXCEPT ![b] = "CANCELLED"]
        /\ UNCHANGED <<start, cleaner, assignments, now, crashes>>
        /\ req' = [req EXCEPT ![r] = Idle]
    BY <1>0, <1>4, <2>1 DEF CancelWrite, BookingWork, Fresh
  <2>3. FreshInv'  BY <2>2, IdleIsFresh DEF FreshInv
  <2>4. Advances  BY <2>2 DEF Advances, MayBecome, Terminal, Status
  <2>5. MarksKept  BY <2>1, <2>2, NoMarks
  <2> QED BY <2>2, <2>3, <2>4, <2>5 DEF Good, Effect, TypeOK, Times
<1> QED BY <1>1, <1>2, <1>3, <1>4 DEF Cancel

LEMMA UnassignGood ==
    ASSUME OneSlot, TypeOK, FreshInv, NEW r \in Requests, Unassign(r)
    PROVE  Good
<1> USE StatusFacts
<1>0. req[r] \in Work \cup {Idle} /\ Fresh(req[r])  BY DEF TypeOK, FreshInv
<1>1. ASSUME NEW a \in assignments, UnassignFind(r, a)
      PROVE  Good
  <2> DEFINE w == [pc |-> "unassignBooking", row |-> a]
  <2>1. Goto(r, w) /\ Rests /\ now' = now /\ req[r].pc = "idle"
    BY <1>1 DEF UnassignFind, Begin, Idle, db, Rests
  <2>2. Fresh(w)  BY DEF Fresh
  <2> HIDE DEF w
  <2> QED BY <2>1, <2>2, ReadStep
<1>2. ASSUME UnassignBooking(r)
      PROVE  Good
  <2>1. req[r].pc = "unassignBooking" /\ Rests /\ now' = now
    BY <1>2 DEF UnassignBooking, At, db, Rests
  <2>2. ASSUME ~req[r].row.in,
               Goto(r, [pc |-> "unassignDelete", row |-> req[r].row,
                        seen |-> status[req[r].row.bk]])
        PROVE  Good
    <3> DEFINE w == [pc |-> "unassignDelete", row |-> req[r].row,
                     seen |-> status[req[r].row.bk]]
    <3>1. Fresh(w)  BY <1>0, <2>1, <2>2 DEF Fresh
    <3>2. Goto(r, w)  BY <2>2
    <3> HIDE DEF w
    <3> QED BY <2>1, <3>1, <3>2, ReadStep
  <2> QED BY <1>2, <2>1, <2>2, ReturnStep DEF UnassignBooking
<1>3. ASSUME UnassignDelete(r)
      PROVE  Good
  <2>1. req[r] \in RowWork /\ req[r].pc = "unassignDelete"
    BY <1>3, <1>0, KindOfWork DEF UnassignDelete, At
  <2> PICK a : a = req[r].row  OBVIOUS
  <2> PICK w : w = [pc |-> "unassignCount", bk |-> req[r].row.bk, seen |-> req[r].seen]
    OBVIOUS
  <2>2. a \in assignments /\ ~a.in /\ w.pc = "unassignCount" /\ w.bk = a.bk /\ w.seen = status[a.bk]
    BY <1>0, <2>1 DEF Fresh
  <2>3. /\ assignments' = assignments \ {a}
        /\ Goto(r, w) /\ UNCHANGED <<status, start, cleaner, now>>
    BY <1>3, <2>2, RowIsUnique DEF UnassignDelete, Gone
  <2>4. Fresh(w)'  BY <2>2, <2>3 DEF Fresh
  <2>5. req'[r] = w  BY <2>3 DEF Goto, TypeOK
  <2>6. Departs
    BY <2>2, <2>3, <2>5 DEF Departs, Unstaffing
  <2>7. IsFiniteSet(assignments')  BY <2>3, FS_RemoveElement DEF FreshInv
  <2> QED BY <2>1, <2>3, <2>4, <2>6, <2>7, WriteOn
<1>4. ASSUME UnassignCount(r)
      PROVE  Good
  <2>1. req[r] \in BookingWork /\ req[r].pc = "unassignCount"
    BY <1>4, <1>0, KindOfWork DEF UnassignCount, At
  <2> PICK b : b = req[r].bk  OBVIOUS
  <2>2. b \in Bookings /\ status[b] = req[r].seen
    BY <1>0, <2>1 DEF BookingWork, Fresh
  <2>3. UNCHANGED <<status, start, cleaner, assignments, now, crashes>>
    BY <1>4 DEF UnassignCount, db, Then, Goto, Return
  <2>4. Cardinality(RowsOf(b)) = 0 <=> RowsOf(b) = {}
    BY FS_EmptySet, FS_Subset DEF RowsOf, FreshInv
  <2>5. \A o \in Bookings : (Unstaffing(o) => o = b) /\ ~Stamping(o) /\ ~Staffing(o)
    BY <2>1 DEF Staffing, Unstaffing, Stamping, OneSlot
  <2>6. Effect  BY <2>3 DEF Effect, Rests, TypeOK, Times
  <2>7. CASE StatusAfterUnassign(req[r].seen, Cardinality(RowsOf(b))) # req[r].seen
              /\ Then(r, "unassignWrite")
    <3> PICK w : w = [req[r] EXCEPT !.pc = "unassignWrite"]  OBVIOUS
    <3>1. w.pc = "unassignWrite" /\ w.bk = b  BY <2>1 DEF BookingWork
    <3>2. status[b] = "ASSIGNED" /\ RowsOf(b) = {}
      BY <2>2, <2>4, <2>7 DEF StatusAfterUnassign
    <3>3. Fresh(w)'  BY <2>3, <3>1, <3>2 DEF Fresh, RowsOf
    <3>4. req'[r] = w  BY <2>7 DEF Then, Goto, TypeOK
    <3>5. FreshInv'  BY <2>3, <3>3, <3>4 DEF FreshInv, OneSlot
    <3>6. Unstaffing(b)'  BY <3>1, <3>4 DEF Unstaffing
    <3>7. MarksKept  BY <2>3, <2>5, <3>6 DEF MarksKept
    <3> QED BY <2>6, <3>5, <3>7 DEF Good
  <2>8. CASE StatusAfterUnassign(req[r].seen, Cardinality(RowsOf(b))) = req[r].seen
              /\ Return(r)
    <3>1. status[b] # "ASSIGNED" \/ RowsOf(b) # {}
      BY <2>2, <2>4, <2>8 DEF StatusAfterUnassign
    <3>2. status'[b] # "ASSIGNED" \/ RowsOf(b)' # {}
      BY <2>3, <3>1 DEF RowsOf
    <3>3. MarksKept  BY <2>3, <2>5, <3>2 DEF MarksKept
    <3>4. FreshInv'  BY <2>3, <2>8, IdleIsFresh DEF Return, FreshInv
    <3> QED BY <2>6, <3>3, <3>4 DEF Good
  <2> QED BY <1>4, <2>7, <2>8 DEF UnassignCount
<1>5. ASSUME UnassignWrite(r)
      PROVE  Good
  <2>1. req[r] \in BookingWork /\ req[r].pc = "unassignWrite"
    BY <1>5, <1>0, KindOfWork DEF UnassignWrite, At
  <2> PICK b : b = req[r].bk  OBVIOUS
  <2>2. /\ b \in Bookings /\ status[b] = "ASSIGNED" /\ RowsOf(b) = {}
        /\ status' = [status EXCEPT ![b] = "CONFIRMED"]
        /\ UNCHANGED <<start, cleaner, assignments, now, crashes>> /\ Return(r)
    BY <1>0, <1>5, <2>1 DEF UnassignWrite, BookingWork, Fresh, Return
  <2>3. Advances  BY <2>2 DEF Advances, MayBecome, Status
  <2>4. \A o \in Bookings : (Unstaffing(o) => o = b) /\ ~Stamping(o) /\ ~Staffing(o)
    BY <2>1 DEF Staffing, Unstaffing, Stamping, OneSlot
  <2>5. status'[b] = "CONFIRMED"  BY <2>2 DEF TypeOK
  <2>6. MarksKept  BY <2>2, <2>4, <2>5 DEF MarksKept
  <2>7. FreshInv'  BY <2>2, IdleIsFresh DEF FreshInv, Return
  <2> QED BY <2>2, <2>3, <2>6, <2>7 DEF Good, Effect, TypeOK, Times
<1> QED BY <1>1, <1>2, <1>3, <1>4, <1>5 DEF Unassign

\* What keeps 30 minutes away does not overlap.
LEMMA StaffMoveIsFree ==
    ASSUME TypeOK, NEW b \in Bookings, NEW t \in Times, StaffMoveAllowed(b, t)
    PROVE  \A a \in RowsOf(b) : CleanerFree(a.cl, t, b)
<1>1. \A s \in Times : ~Touches(s, t) => ~Overlaps(s, t)
  BY DurationAssumption, BoundsAssumption DEF Touches, Overlaps, Times
<1>2. \A a \in assignments : start[a.bk] \in Times
  BY DEF TypeOK, Row
<1> QED BY <1>1, <1>2 DEF StaffMoveAllowed, CleanerFree

LEMMA RescheduleGood ==
    ASSUME OneSlot, TypeOK, FreshInv, NEW r \in Requests, Reschedule(r)
    PROVE  Good
<1> USE StatusFacts
<1>0. req[r] \in Work \cup {Idle} /\ Fresh(req[r])  BY DEF TypeOK, FreshInv
<1>1. ASSUME NEW b \in Bookings, NEW t \in Times, StaffMoveRead(r, b, t)
      PROVE  Good
  <2> DEFINE w == Move(b, t, "moveCheck")
  <2>1. Goto(r, w) /\ Rests /\ now' = now /\ req[r].pc = "idle"
    BY <1>1 DEF StaffMoveRead, Begin, Idle, db, Rests
  <2>2. Fresh(w)  BY DEF Fresh, Move
  <2> HIDE DEF w
  <2> QED BY <2>1, <2>2, ReadStep
<1>2. ASSUME NEW b \in Bookings, NEW t \in Times, PortalMoveRead(r, b, t)
      PROVE  Good
  <2> DEFINE w == Move(b, t, "portalLock")
  <2>1. Goto(r, w) /\ Rests /\ now' = now /\ req[r].pc = "idle"
    BY <1>2 DEF PortalMoveRead, Begin, Idle, db, Rests
  <2>2. Fresh(w)  BY <1>2 DEF PortalMoveRead, Fresh, Move
  <2> HIDE DEF w
  <2> QED BY <2>1, <2>2, ReadStep
<1>3. ASSUME StaffMoveCheck(r)
      PROVE  Good
  <2>1. req[r] \in MoveWork /\ req[r].pc = "moveCheck" /\ Rests /\ now' = now
    BY <1>3, <1>0, KindOfWork DEF StaffMoveCheck, At, db, Rests
  <2>2. CASE StaffMoveAllowed(req[r].bk, req[r].to) /\ Then(r, "moveWrite")
    <3> DEFINE w == [req[r] EXCEPT !.pc = "moveWrite"]
    <3>1. Goto(r, w)  BY <2>2 DEF Then
    <3>2. Fresh(w)  BY <1>0, <2>1, <2>2 DEF Fresh, MoveWork
    <3> HIDE DEF w
    <3> QED BY <2>1, <3>1, <3>2, ReadStep
  <2> QED BY <1>3, <2>1, <2>2, ReturnStep DEF StaffMoveCheck
<1>4. ASSUME StaffMoveWrite(r)
      PROVE  Good
  <2>1. req[r] \in MoveWork /\ req[r].pc = "moveWrite"
    BY <1>4, <1>0, KindOfWork DEF StaffMoveWrite, At
  <2>2. req[r].bk \in Bookings /\ req[r].to \in Times
    BY <2>1 DEF MoveWork
  <2>3. \A a \in RowsOf(req[r].bk) : CleanerFree(a.cl, req[r].to, req[r].bk)
    BY <1>0, <2>1, <2>2, StaffMoveIsFree DEF Fresh
  <2>4. Moves
    BY <1>4, <2>2, <2>3 DEF StaffMoveWrite, Moves
  <2>5. IsFiniteSet(assignments')
    BY <1>4 DEF StaffMoveWrite, FreshInv
  <2> QED BY <1>4, <2>1, <2>4, <2>5, WriteStep DEF StaffMoveWrite
<1>5. ASSUME PortalLock(r)
      PROVE  Good
  <2>1. req[r] \in MoveWork /\ req[r].pc = "portalLock" /\ Rests /\ now' = now
    BY <1>5, <1>0, KindOfWork DEF PortalLock, At, Rests
  <2> DEFINE w == [req[r] EXCEPT !.pc = "portalCheck"]
  <2>2. Goto(r, w)  BY <1>5 DEF PortalLock, Then
  <2>3. Fresh(w)  BY <1>0, <2>1 DEF Fresh, MoveWork
  <2> HIDE DEF w
  <2> QED BY <2>1, <2>2, <2>3, ReadStep
<1>6. ASSUME PortalCheck(r)
      PROVE  Good
  <2>1. req[r] \in MoveWork /\ req[r].pc = "portalCheck" /\ Rests /\ now' = now
    BY <1>6, <1>0, KindOfWork DEF PortalCheck, At, Rests
  <2> DEFINE w == [req[r] EXCEPT !.pc = "portalWrite",
                     !.release = \E a \in RowsOf(req[r].bk) :
                                   ~CleanerFree(a.cl, req[r].to, req[r].bk)]
  <2>2. Goto(r, w) \/ Return(r)  BY <1>6 DEF PortalCheck
  <2>3. Fresh(w)
    <3>1. /\ w.pc = "portalWrite" /\ w.bk = req[r].bk /\ w.to = req[r].to
          /\ w.seen = req[r].seen
          /\ w.release <=> \E a \in RowsOf(req[r].bk) :
                                   ~CleanerFree(a.cl, req[r].to, req[r].bk)
      BY <2>1 DEF MoveWork
    <3> HIDE DEF w
    <3> QED BY <1>0, <2>1, <3>1 DEF Fresh
  <2> HIDE DEF w
  <2> QED BY <2>1, <2>2, <2>3, ReadStep, ReturnStep
<1>7. ASSUME PortalMoveWrite(r)
      PROVE  Good
  <2>1. req[r] \in MoveWork /\ req[r].pc = "portalWrite"
    BY <1>7, <1>0, KindOfWork DEF PortalMoveWrite, At
  <2> PICK b, t : b = req[r].bk /\ t = req[r].to  OBVIOUS
  <2>2. /\ b \in Bookings /\ t \in Times
        /\ req[r].seen = status[b] /\ status[b] \in OpenJob
        /\ req[r].release <=> \E a \in RowsOf(b) : ~CleanerFree(a.cl, t, b)
    BY <1>0, <2>1 DEF MoveWork, Fresh
  <2>3. start' = [start EXCEPT ![b] = t] /\ UNCHANGED <<cleaner, now>> /\ Return(r)
    BY <1>7 DEF PortalMoveWrite
  <2>4. CASE req[r].release
    <3>1. /\ assignments' = assignments \ RowsOf(b)
          /\ status' = [status EXCEPT ![b] =
                           IF status[b] = "ASSIGNED" THEN "CONFIRMED" ELSE status[b]]
      BY <1>7, <2>2, <2>4 DEF PortalMoveWrite
    <3>2. Moves  BY <2>2, <2>3, <3>1 DEF Moves
    <3>3. IsFiniteSet(assignments')  BY <3>1, FS_Subset DEF FreshInv
    <3> QED BY <2>1, <2>3, <3>2, <3>3, WriteStep
  <2>5. CASE ~req[r].release
    <3>1. assignments' = assignments /\ status' = status
      BY <1>7, <2>2, <2>5 DEF PortalMoveWrite, TypeOK
    <3>2. Moves  BY <2>2, <2>3, <2>5, <3>1 DEF Moves
    <3>3. IsFiniteSet(assignments')  BY <3>1 DEF FreshInv
    <3> QED BY <2>1, <2>3, <3>2, <3>3, WriteStep
  <2> QED BY <2>4, <2>5
<1> QED BY <1>1, <1>2, <1>3, <1>4, <1>5, <1>6, <1>7 DEF Reschedule

\* What a found profile is released with: its rows are taken by primary key.
LEMMA ReleaseByKey ==
    ASSUME TypeOK, NEW c \in Cleaners, NEW t \in Times
    PROVE  LET found == FoundUpcoming(c, t)
           IN  /\ {a \in assignments : \A u \in found : u.row # a.id}
                     = assignments \ Upcoming(c, t)
               /\ \A b \in Bookings :
                    (\E u \in found : u.bk = b /\ u.seen = "ASSIGNED")
                      <=> status[b] = "ASSIGNED" /\ \E a \in Upcoming(c, t) : a.bk = b
<1> DEFINE found == FoundUpcoming(c, t)
<1>1. \A u \in found : \E a \in Upcoming(c, t) :
        u.row = a.id /\ u.bk = a.bk /\ u.seen = status[a.bk]
  BY DEF FoundUpcoming
<1>2. \A a \in Upcoming(c, t) : \E u \in found :
        u.row = a.id /\ u.bk = a.bk /\ u.seen = status[a.bk]
  <2> TAKE a \in Upcoming(c, t)
  <2> DEFINE u == [row |-> a.id, bk |-> a.bk, seen |-> status[a.bk]]
  <2>1. u \in found /\ u.row = a.id /\ u.bk = a.bk /\ u.seen = status[a.bk]
    BY DEF FoundUpcoming
  <2> QED BY <2>1
<1>3. Upcoming(c, t) \subseteq assignments  BY DEF Upcoming
<1> HIDE DEF found
<1>4. {a \in assignments : \A u \in found : u.row # a.id} = assignments \ Upcoming(c, t)
  BY <1>1, <1>2, <1>3 DEF TypeOK
<1>5. \A b \in Bookings : (\E u \in found : u.bk = b /\ u.seen = "ASSIGNED")
        <=> status[b] = "ASSIGNED" /\ \E a \in Upcoming(c, t) : a.bk = b
  BY <1>1, <1>2
<1> QED BY <1>4, <1>5 DEF found

LEMMA RosterGood ==
    ASSUME OneSlot, TypeOK, FreshInv, NEW r \in Requests, Roster(r)
    PROVE  Good
<1> USE StatusFacts
<1>0. req[r] \in Work \cup {Idle} /\ Fresh(req[r]) /\ now <= now
  BY DEF TypeOK, FreshInv, Times
<1>1. ASSUME NEW c \in Cleaners, Offboard(r, c)
      PROVE  Good
  <2> DEFINE w == RosterChange(c, "OFFBOARDED", "releaseFind")
  <2>1. Goto(r, w) /\ Rests /\ now' = now /\ req[r].pc = "idle"
    BY <1>1 DEF Offboard, Begin, Idle, db, Rests
  <2>2. Fresh(w)  BY <1>0 DEF Fresh, RosterChange
  <2> HIDE DEF w
  <2> QED BY <2>1, <2>2, ReadStep
<1>2. ASSUME NEW c \in Cleaners, Suspend(r, c)
      PROVE  Good
  <2> DEFINE w == RosterChange(c, "SUSPENDED", "suspendProfile")
  <2>1. Goto(r, w) /\ Rests /\ now' = now /\ req[r].pc = "idle"
    BY <1>2 DEF Suspend, Begin, Idle, db, Rests
  <2>2. Fresh(w)  BY DEF Fresh, RosterChange
  <2> HIDE DEF w
  <2> QED BY <2>1, <2>2, ReadStep
<1>3. ASSUME NEW c \in Cleaners, Reactivate(r, c) \/ Onboard(r, c)
      PROVE  Good
  <2>1. PICK to : to \in CleanerStatus /\ Goto(r, RosterChange(c, to, "limit"))
    BY <1>3 DEF Reactivate, Onboard, Begin, CleanerStatus
  <2> DEFINE w == RosterChange(c, to, "limit")
  <2>2. Goto(r, w) /\ Rests /\ now' = now /\ req[r].pc = "idle"
    BY <1>3, <2>1 DEF Reactivate, Onboard, Begin, Idle, db, Rests
  <2>3. Fresh(w)  BY DEF Fresh, RosterChange
  <2> HIDE DEF w
  <2> QED BY <2>2, <2>3, ReadStep
<1>4. ASSUME SuspendProfile(r)
      PROVE  Good
  <2>1. req[r].pc = "suspendProfile" /\ Rests /\ now' = now
    BY <1>4 DEF SuspendProfile, At, db, Rests
  <2> DEFINE w == RosterChange(req[r].cl, "SUSPENDED", "releaseFind")
  <2>2. Goto(r, w) \/ Return(r)  BY <1>4 DEF SuspendProfile
  <2>3. Fresh(w)  BY <1>0 DEF Fresh, RosterChange
  <2> HIDE DEF w
  <2> QED BY <2>1, <2>2, <2>3, ReadStep, ReturnStep
<1>5. ASSUME ReleaseFind(r)
      PROVE  Good
  <2>1. req[r] \in RosterWork /\ req[r].pc = "releaseFind" /\ Rests /\ now' = now
    BY <1>5, <1>0, KindOfWork DEF ReleaseFind, At, db, Rests
  <2> DEFINE w == [req[r] EXCEPT !.pc = "releaseCommit",
                     !.upcoming = FoundUpcoming(req[r].cl, req[r].since)]
  <2>2. Goto(r, w)  BY <1>5 DEF ReleaseFind, FoundUpcoming
  <2>3. Fresh(w)
    <3>1. /\ w.pc = "releaseCommit" /\ w.cl = req[r].cl /\ w.since = req[r].since
          /\ w.to = req[r].to /\ w.upcoming = FoundUpcoming(req[r].cl, req[r].since)
      BY <2>1 DEF RosterWork
    <3> HIDE DEF w
    <3> QED BY <1>0, <2>1, <3>1 DEF Fresh
  <2> HIDE DEF w
  <2> QED BY <2>1, <2>2, <2>3, ReadStep
<1>6. ASSUME ReleaseCommit(r)
      PROVE  Good
  <2>1. req[r] \in RosterWork /\ req[r].pc = "releaseCommit"
    BY <1>6, <1>0, KindOfWork DEF ReleaseCommit, At
  <2> PICK c, t, to : c = req[r].cl /\ t = req[r].since /\ to = req[r].to  OBVIOUS
  <2>2. /\ c \in Cleaners /\ t \in Times /\ t <= now /\ to \in CleanerStatus \ {"ACTIVE"}
        /\ req[r].upcoming = FoundUpcoming(c, t)
    BY <1>0, <2>1 DEF RosterWork, Fresh
  <2> DEFINE kept == {a \in assignments : \A u \in FoundUpcoming(c, t) : u.row # a.id}
  <2>3. /\ assignments' = kept
        /\ status' = [b \in Bookings |->
             IF /\ \E u \in FoundUpcoming(c, t) : u.bk = b /\ u.seen = "ASSIGNED"
                /\ \A a \in kept : a.bk # b
             THEN "CONFIRMED" ELSE status[b]]
        /\ cleaner' = [cleaner EXCEPT ![c] = to]
        /\ Return(r) /\ UNCHANGED <<start, now>>
    BY <1>6, <2>2 DEF ReleaseCommit
  <2>4. kept = assignments \ Upcoming(c, t)
    BY <2>2, ReleaseByKey
  <2>5. \A b \in Bookings :
          (\E u \in FoundUpcoming(c, t) : u.bk = b /\ u.seen = "ASSIGNED")
             <=> status[b] = "ASSIGNED" /\ \E a \in Upcoming(c, t) : a.bk = b
    BY <2>2, ReleaseByKey
  <2> HIDE DEF kept
  <2>6. status' = [b \in Bookings |->
          IF /\ status[b] = "ASSIGNED" /\ \E a \in Upcoming(c, t) : a.bk = b
             /\ \A a \in assignments \ Upcoming(c, t) : a.bk # b
          THEN "CONFIRMED" ELSE status[b]]
    BY <2>3, <2>4, <2>5
  <2>7. Releases
    <3>1. /\ t <= now
          /\ assignments' = assignments \ Upcoming(c, t)
          /\ cleaner' = [cleaner EXCEPT ![c] = to]
          /\ UNCHANGED start
      BY <2>2, <2>3, <2>4
    <3> QED BY <2>2, <2>6, <3>1, Zenon DEF Releases
  <2>8. IsFiniteSet(assignments')  BY <2>3, <2>4, FS_Subset DEF FreshInv
  <2> QED BY <2>1, <2>3, <2>7, <2>8, WriteStep
<1>7. ASSUME LimitCheck(r)
      PROVE  Good
  <2>1. req[r] \in RosterWork /\ req[r].pc = "limit" /\ Rests /\ now' = now
    BY <1>7, <1>0, KindOfWork DEF LimitCheck, At, db, Rests
  <2>2. ASSUME NEW pc \in {"profile", "activate"}, Then(r, pc),
               Cardinality(ActiveCleaners) < MaxCleaners
        PROVE  Good
    <3> DEFINE w == [req[r] EXCEPT !.pc = pc]
    <3>1. Goto(r, w)  BY <2>2 DEF Then
    <3>2. Fresh(w)  BY <2>1, <2>2 DEF Fresh, RosterWork
    <3> HIDE DEF w
    <3> QED BY <2>1, <3>1, <3>2, ReadStep
  <2> QED BY <1>7, <2>1, <2>2, ReturnStep DEF LimitCheck, ActiveCleaners
<1>8. ASSUME OnboardProfile(r)
      PROVE  Good
  <2>1. req[r] \in RosterWork /\ req[r].pc = "profile" /\ Rests /\ now' = now
    BY <1>8, <1>0, KindOfWork DEF OnboardProfile, At, db, Rests
  <2>2. CASE Then(r, "activate")
    <3> DEFINE w == [req[r] EXCEPT !.pc = "activate"]
    <3>1. Goto(r, w)  BY <2>2 DEF Then
    <3>2. Fresh(w)  BY <1>0, <2>1 DEF Fresh, RosterWork
    <3> HIDE DEF w
    <3> QED BY <2>1, <3>1, <3>2, ReadStep
  <2> QED BY <1>8, <2>1, <2>2, ReturnStep DEF OnboardProfile
<1>9. ASSUME Activate(r)
      PROVE  Good
  <2>1. req[r] \in RosterWork /\ req[r].pc = "activate"
    BY <1>9, <1>0, KindOfWork DEF Activate, At
  <2>2. Employs
    BY <1>0, <1>9, <2>1 DEF Activate, Employs, Fresh, RosterWork
  <2>3. IsFiniteSet(assignments')  BY <1>9 DEF Activate, FreshInv
  <2> QED BY <1>9, <2>1, <2>2, <2>3, WriteStep DEF Activate
<1> QED BY <1>1, <1>2, <1>3, <1>4, <1>5, <1>6, <1>7, <1>8, <1>9 DEF Roster

\* Every step is one of the effects, and leaves every handler knowing the truth.
LEMMA SerialGood ==
    ASSUME OneSlot, TypeOK, FreshInv, [Next]_vars
    PROVE  Good
<1>1. CASE \E r \in Requests : \/ Assign(r) \/ Confirm(r) \/ Clock(r) \/ Complete(r)
                              \/ Cancel(r) \/ Unassign(r) \/ Reschedule(r) \/ Roster(r)
  BY <1>1, AssignGood, ConfirmGood, ClockGood, CompleteGood, CancelGood, UnassignGood,
     RescheduleGood, RosterGood
<1>2. ASSUME NEW r \in Requests, Crash(r)  PROVE Good
  <2>1. UNCHANGED <<status, start, cleaner, assignments, now>> /\ crashes' # 0
        /\ req' = [req EXCEPT ![r] = Idle]
    BY <1>2, BoundsAssumption DEF Crash, TypeOK
  <2>2. FreshInv'  BY <2>1, IdleIsFresh DEF FreshInv
  <2> QED BY <2>1, <2>2 DEF Good, Effect, Rests, MarksKept, TypeOK, Times
<1>3. CASE Tick
  <2>1. /\ UNCHANGED <<status, start, cleaner, assignments, req, crashes>>
        /\ now \in Nat /\ now' = now + 1
    BY <1>3, BoundsAssumption DEF Tick, TypeOK, Times
  <2>2. ASSUME NEW r \in Requests  PROVE Fresh(req[r])'
    <3> PICK w : w = req[r]  OBVIOUS
    <3>1. w \in Work \cup {Idle} /\ Fresh(w)  BY DEF FreshInv, TypeOK
    <3>2. w.pc \in {"releaseFind", "releaseCommit"} => w.since \in Nat
      BY <3>1, KindOfWork, BoundsAssumption DEF RosterWork, Times
    <3>3. w.pc \in {"releaseFind", "releaseCommit"} => w.since <= now'
      BY <2>1, <3>1, <3>2 DEF Fresh
    <3>4. Fresh(w)'
      BY <2>1, <3>1, <3>3 DEF Fresh, FoundUpcoming, Upcoming, CleanerFree, StaffMoveAllowed,
                               RowsOf, ActiveCleaners
    <3> QED BY <2>1, <3>4
  <2>3. FreshInv'  BY <2>1, <2>2 DEF FreshInv
  <2>4. MarksKept  BY <2>1 DEF MarksKept, Staffing, Unstaffing, Stamping
  <2> QED BY <2>1, <2>3, <2>4 DEF Good, Effect, Rests
<1>4. CASE UNCHANGED vars
  <2>1. UNCHANGED <<status, start, cleaner, assignments, now, req, crashes>>
    BY <1>4 DEF vars
  <2>2. FreshInv'
    BY <2>1 DEF FreshInv, Fresh, FoundUpcoming, Upcoming, CleanerFree, StaffMoveAllowed,
                RowsOf, ActiveCleaners
  <2>3. MarksKept  BY <2>1 DEF MarksKept, Staffing, Unstaffing, Stamping
  <2> QED BY <2>1, <2>2, <2>3 DEF Good, Effect, Rests, TypeOK, Times
<1> QED BY <1>1, <1>2, <1>3, <1>4 DEF Next

\* Served one at a time, a handler acts on what is still true.
THEOREM SerialFresh ==
    ASSUME OneSlot
    PROVE  Spec => []FreshInv
<1>1. Init => FreshInv
  BY FS_EmptySet DEF Init, FreshInv, Fresh, Idle
<1>2. TypeOK /\ FreshInv /\ [Next]_vars => FreshInv'
  BY SerialGood DEF Good
<1> QED BY <1>1, <1>2, TypeCorrect, PTL DEF Spec

-----------------------------------------------------------------------------
(* Nobody is in two places *)

\* Checking out changes nothing else about the rows.
SameButOut(x, y) ==
    x.id = y.id /\ x.bk = y.bk /\ x.cl = y.cl /\ (x.in <=> y.in) /\ (y.out => x.out)

LEMMA ChecksOutRows ==
    ASSUME TypeOK, ChecksOut
    PROVE  /\ \A x \in assignments' : \E y \in assignments : SameButOut(x, y)
           /\ \A y \in assignments : \E x \in assignments' : SameButOut(x, y)
           /\ UNCHANGED <<status, start, cleaner>>
<1>1. PICK A \in SUBSET assignments :
        assignments' = {IF a \in A THEN [a EXCEPT !.out = TRUE] ELSE a : a \in assignments}
  BY DEF ChecksOut
<1>2. \A y \in assignments : SameButOut([y EXCEPT !.out = TRUE], y) /\ SameButOut(y, y)
  BY DEF TypeOK, Row, SameButOut
<1>3. ASSUME NEW y \in assignments  PROVE \E x \in assignments' : SameButOut(x, y)
  <2> DEFINE x == IF y \in A THEN [y EXCEPT !.out = TRUE] ELSE y
  <2>1. x \in assignments'  BY <1>1
  <2>2. SameButOut(x, y)  BY <1>2
  <2> QED BY <2>1, <2>2
<1>4. ASSUME NEW x \in assignments'  PROVE \E y \in assignments : SameButOut(x, y)
  BY <1>1, <1>2
<1> QED BY <1>3, <1>4 DEF ChecksOut

LEMMA DoubleBookingStep ==
    ASSUME TypeOK, NoDoubleBooking, Effect
    PROVE  NoDoubleBooking'
<1> USE StatusFacts
<1>1. CASE Rests  BY <1>1 DEF Rests, NoDoubleBooking
<1>2. CASE Joins
  <2>1. PICK n \in Row : /\ CleanerFree(n.cl, start[n.bk], n.bk)
                         /\ assignments' = assignments \cup {n}
                         /\ UNCHANGED <<status, start>>
    BY <1>2 DEF Joins
  <2> QED BY <2>1 DEF NoDoubleBooking, CleanerFree, Overlaps
<1>3. CASE Advances
  <2>1. PICK b \in Bookings, s \in Status :
          MayBecome(b, s) /\ status' = [status EXCEPT ![b] = s] /\ UNCHANGED <<start, assignments>>
    BY <1>3 DEF Advances
  <2>2. status[b] # "CANCELLED"
    BY <2>1 DEF MayBecome, Open, OpenJob, Terminal
  <2> QED BY <2>1, <2>2 DEF NoDoubleBooking, TypeOK
<1>4. CASE ChecksIn
  <2>1. PICK a \in assignments :
          /\ status[a.bk] \in Open /\ Replace(a, [a EXCEPT !.in = TRUE]) /\ UNCHANGED start
          /\ status' = [status EXCEPT ![a.bk] = "IN_PROGRESS"]
    BY <1>4 DEF ChecksIn
  <2>2. \A x \in assignments' : \E y \in assignments : x.bk = y.bk /\ x.cl = y.cl
    BY <2>1 DEF Replace, TypeOK, Row
  <2>3. \A b \in Bookings : status'[b] # "CANCELLED" => status[b] # "CANCELLED"
    BY <2>1 DEF TypeOK, Open, Terminal
  <2>4. \A x \in assignments : x.bk \in Bookings  BY DEF TypeOK, Row
  <2> QED BY <2>1, <2>2, <2>3, <2>4 DEF NoDoubleBooking
<1>5. CASE ChecksOut
  BY <1>5, ChecksOutRows DEF NoDoubleBooking, SameButOut
<1>6. CASE Departs  BY <1>6 DEF Departs, NoDoubleBooking
<1>7. CASE Moves
  <2>1. PICK b \in Bookings, t \in Times :
          /\ start' = [start EXCEPT ![b] = t]
          /\ \/ /\ \A a \in RowsOf(b) : CleanerFree(a.cl, t, b)
                /\ UNCHANGED <<status, assignments>>
             \/ /\ status[b] \in OpenJob /\ assignments' = assignments \ RowsOf(b)
                /\ status' = [status EXCEPT ![b] =
                                 IF status[b] = "ASSIGNED" THEN "CONFIRMED" ELSE status[b]]
    BY <1>7 DEF Moves
  <2>2. \A x \in assignments : x.bk \in Bookings  BY DEF TypeOK, Row
  <2>3. CASE /\ \A a \in RowsOf(b) : CleanerFree(a.cl, t, b)
             /\ UNCHANGED <<status, assignments>>
    BY <2>1, <2>2, <2>3 DEF NoDoubleBooking, CleanerFree, RowsOf, Overlaps, TypeOK
  <2>4. CASE /\ assignments' = assignments \ RowsOf(b)
             /\ \A o \in Bookings \ {b} : status'[o] = status[o]
    <3>1. \A x \in assignments' : x \in assignments /\ x.bk # b
      BY <2>4 DEF RowsOf
    <3>2. \A x \in assignments' : start'[x.bk] = start[x.bk] /\ status'[x.bk] = status[x.bk]
      BY <2>1, <2>2, <2>4, <3>1 DEF TypeOK
    <3> QED BY <3>1, <3>2 DEF NoDoubleBooking
  <2> QED BY <2>1, <2>3, <2>4 DEF TypeOK
<1>8. CASE Releases
  <2>1. /\ assignments' \subseteq assignments /\ UNCHANGED start
        /\ \A b \in Bookings : status'[b] # "CANCELLED" => status[b] # "CANCELLED"
    BY <1>8 DEF Releases
  <2>2. \A x \in assignments : x.bk \in Bookings  BY DEF TypeOK, Row
  <2> QED BY <2>1, <2>2 DEF NoDoubleBooking
<1>9. CASE Employs  BY <1>9 DEF Employs, NoDoubleBooking
<1> QED BY <1>1, <1>2, <1>3, <1>4, <1>5, <1>6, <1>7, <1>8, <1>9 DEF Effect

\* With requests served one at a time, no cleaner is ever on two overlapping
\* jobs: assigning, moving and the portal's moving all look before they write.
THEOREM SerialNoDoubleBooking ==
    ASSUME OneSlot
    PROVE  Spec => []NoDoubleBooking
<1>1. Init => NoDoubleBooking  BY DEF Init, NoDoubleBooking
<1>2. TypeOK /\ FreshInv /\ NoDoubleBooking /\ [Next]_vars => NoDoubleBooking'
  BY SerialGood, DoubleBookingStep DEF Good
<1> QED BY <1>1, <1>2, TypeCorrect, SerialFresh, PTL DEF Spec

-----------------------------------------------------------------------------
(* Check-ins and status *)

LEMMA AttendedStep ==
    ASSUME TypeOK, AttendedInv, Effect
    PROVE  AttendedInv'
<1> USE StatusFacts DEF AttendedInv
<1>0. \A x \in assignments : x.bk \in Bookings  BY DEF TypeOK, Row
<1>1. CASE Rests \/ Employs
  BY <1>1 DEF Rests, Employs, CheckedInMeansStarted, InProgressHasWorker
<1>2. CASE Joins
  BY <1>2 DEF Joins, CheckedInMeansStarted, InProgressHasWorker
<1>3. CASE Advances
  <2>1. PICK b \in Bookings, s \in Status :
          MayBecome(b, s) /\ status' = [status EXCEPT ![b] = s] /\ UNCHANGED assignments
    BY <1>3 DEF Advances
  <2>2. s \in OpenJob => status[b] \in OpenJob
    BY <2>1 DEF MayBecome, OpenJob, Terminal
  <2>3. s = "IN_PROGRESS" => \E a \in assignments : a.bk = b /\ a.in
    BY <2>1 DEF MayBecome, RowsOf, Terminal
  <2> QED BY <1>0, <2>1, <2>2, <2>3 DEF CheckedInMeansStarted, InProgressHasWorker, TypeOK
<1>4. CASE ChecksIn
  <2>1. PICK a \in assignments :
          /\ ~a.in /\ Replace(a, [a EXCEPT !.in = TRUE])
          /\ status' = [status EXCEPT ![a.bk] = "IN_PROGRESS"]
    BY <1>4 DEF ChecksIn
  <2> PICK n : n = [a EXCEPT !.in = TRUE]  OBVIOUS
  <2>2. n.in /\ n.bk = a.bk /\ assignments' = (assignments \ {a}) \cup {n}
    BY <2>1 DEF Replace, TypeOK, Row
  <2>3. CheckedInMeansStarted'
    BY <1>0, <2>1, <2>2 DEF CheckedInMeansStarted, TypeOK, OpenJob
  <2>4. InProgressHasWorker'
    BY <1>0, <2>1, <2>2 DEF InProgressHasWorker, TypeOK
  <2> QED BY <2>3, <2>4
<1>5. CASE ChecksOut
  BY <1>5, ChecksOutRows DEF CheckedInMeansStarted, InProgressHasWorker, SameButOut
<1>6. CASE Departs
  BY <1>6 DEF Departs, CheckedInMeansStarted, InProgressHasWorker
<1>7. CASE Moves
  <2>1. PICK b \in Bookings :
             \/ UNCHANGED <<status, assignments>>
             \/ /\ status[b] \in OpenJob /\ assignments' = assignments \ RowsOf(b)
                /\ status' = [status EXCEPT ![b] =
                                 IF status[b] = "ASSIGNED" THEN "CONFIRMED" ELSE status[b]]
    BY <1>7 DEF Moves
  <2> QED BY <1>0, <2>1 DEF CheckedInMeansStarted, InProgressHasWorker, RowsOf, TypeOK, OpenJob
<1>8. CASE Releases
  <2>1. PICK c \in Cleaners, t \in Times :
          /\ assignments' = assignments \ Upcoming(c, t)
          /\ \A b \in Bookings : status'[b] # status[b] =>
               /\ status'[b] = "CONFIRMED"
               /\ \A a \in assignments \ Upcoming(c, t) : a.bk # b
    BY <1>8 DEF Releases
  <2>2. \A a \in Upcoming(c, t) : ~a.in  BY DEF Upcoming
  <2> QED BY <1>0, <2>1, <2>2 DEF CheckedInMeansStarted, InProgressHasWorker
<1> QED BY <1>1, <1>2, <1>3, <1>4, <1>5, <1>6, <1>7, <1>8 DEF Effect

LEMMA SerialAttended ==
    ASSUME OneSlot
    PROVE  Spec => []AttendedInv
<1>1. Init => AttendedInv
  BY DEF Init, AttendedInv, CheckedInMeansStarted, InProgressHasWorker
<1>2. TypeOK /\ FreshInv /\ AttendedInv /\ [Next]_vars => AttendedInv'
  BY SerialGood, AttendedStep DEF Good
<1> QED BY <1>1, <1>2, TypeCorrect, SerialFresh, PTL DEF Spec

-----------------------------------------------------------------------------
(* Staffing and status *)

\* What StaffedInv says of one booking, given what its handler is between.
Staffed(b) ==
    /\ status[b] = "ASSIGNED" => RowsOf(b) # {} \/ Unstaffing(b)
    /\ status[b] \in {"REQUESTED", "CONFIRMED"} => RowsOf(b) = {} \/ Staffing(b)
    /\ status[b] = "COMPLETED" => OnSite(b) = {} \/ Stamping(b)

\* A booking whose status a step leaves alone stays staffed when its rows do not
\* go from some to none, from none to some, or from nobody on site to somebody.
LEMMA StaffedKept ==
    ASSUME NEW b \in Bookings, Staffed(b), MarksKept, crashes' = 0, status'[b] = status[b],
           status[b] = "ASSIGNED" /\ RowsOf(b) # {} => RowsOf(b)' # {} \/ Unstaffing(b)',
           status[b] \in {"REQUESTED", "CONFIRMED"} /\ RowsOf(b) = {}
              => RowsOf(b)' = {} \/ Staffing(b)',
           status[b] = "COMPLETED" /\ OnSite(b) = {} => OnSite(b)' = {}
    PROVE  Staffed(b)'
<1>1. /\ Staffing(b) /\ ~Staffing(b)' => status'[b] \notin {"REQUESTED", "CONFIRMED"}
      /\ Unstaffing(b) /\ ~Unstaffing(b)' => status'[b] # "ASSIGNED" \/ RowsOf(b)' # {}
      /\ Stamping(b) /\ ~Stamping(b)' => OnSite(b)' = {}
  BY DEF MarksKept
<1>2. status'[b] = "ASSIGNED" => RowsOf(b)' # {} \/ Unstaffing(b)'
  BY <1>1 DEF Staffed
<1>3. status'[b] \in {"REQUESTED", "CONFIRMED"} => RowsOf(b)' = {} \/ Staffing(b)'
  BY <1>1 DEF Staffed
<1>4. status'[b] = "COMPLETED" => OnSite(b)' = {} \/ Stamping(b)'
  BY <1>1 DEF Staffed
<1> QED BY <1>2, <1>3, <1>4 DEF Staffed

LEMMA StaffedStep ==
    ASSUME TypeOK, AttendedInv, StaffedInv, Effect, MarksKept
    PROVE  StaffedInv'
<1> USE StatusFacts
<1>0. \A x \in assignments : x.bk \in Bookings  BY DEF TypeOK, Row
<1> SUFFICES ASSUME crashes' = 0, NEW b \in Bookings  PROVE Staffed(b)'
  BY DEF StaffedInv, Staffed
<1>a. Staffed(b)  BY DEF MarksKept, StaffedInv, Staffed
<1>1. CASE Rests \/ Employs
  BY <1>1, <1>a, StaffedKept DEF Rests, Employs, RowsOf, OnSite
<1>2. CASE Joins
  <2>1. PICK n \in Row : /\ status[n.bk] \in Open /\ ~n.in
                         /\ assignments' = assignments \cup {n}
                         /\ status[n.bk] \in {"REQUESTED", "CONFIRMED"} => Staffing(n.bk)'
                         /\ UNCHANGED status
    BY <1>2 DEF Joins
  <2>2. RowsOf(b) \subseteq RowsOf(b)' /\ OnSite(b)' = OnSite(b)
    BY <2>1 DEF RowsOf, OnSite
  <2>3. n.bk # b => RowsOf(b)' = RowsOf(b)
    BY <2>1 DEF RowsOf
  <2> QED BY <1>a, <2>1, <2>2, <2>3, StaffedKept
<1>3. CASE Advances
  <2>1. PICK o \in Bookings, s \in Status :
          /\ MayBecome(o, s) /\ status' = [status EXCEPT ![o] = s] /\ UNCHANGED assignments
          /\ s = "COMPLETED" => Stamping(o)'
    BY <1>3 DEF Advances
  <2>2. RowsOf(b)' = RowsOf(b) /\ OnSite(b)' = OnSite(b)
    BY <2>1 DEF RowsOf, OnSite
  <2>3. CASE b # o
    BY <1>a, <2>1, <2>2, <2>3, StaffedKept DEF TypeOK
  <2>4. CASE b = o
    <3>1. status'[b] = s  BY <2>1, <2>4 DEF TypeOK
    <3>2. s = "ASSIGNED" => RowsOf(b) # {}  BY <2>1, <2>4 DEF MayBecome, Terminal
    <3>3. s \in {"REQUESTED", "CONFIRMED"} => RowsOf(b) = {} \/ Staffing(b)'
      BY <1>a, <2>1, <2>4, <3>1 DEF MayBecome, Terminal, Staffed, MarksKept
    <3> QED BY <2>1, <2>2, <2>4, <3>1, <3>2, <3>3 DEF Staffed
  <2> QED BY <2>3, <2>4
<1>4. CASE ChecksIn
  <2>1. PICK a \in assignments :
          /\ Replace(a, [a EXCEPT !.in = TRUE])
          /\ status' = [status EXCEPT ![a.bk] = "IN_PROGRESS"]
    BY <1>4 DEF ChecksIn
  <2>2. CASE b = a.bk  BY <2>1, <2>2 DEF Staffed, TypeOK
  <2>3. CASE b # a.bk
    <3>1. RowsOf(b)' = RowsOf(b)
      BY <2>1, <2>3 DEF RowsOf, Replace, TypeOK, Row
    <3>2. OnSite(b)' = OnSite(b)  BY <3>1 DEF OnSite
    <3> QED BY <1>0, <1>a, <2>1, <2>3, <3>1, <3>2, StaffedKept DEF TypeOK
  <2> QED BY <2>2, <2>3
<1>5. CASE ChecksOut
  <2>1. RowsOf(b)' = {} <=> RowsOf(b) = {}
    BY <1>5, ChecksOutRows DEF RowsOf, SameButOut
  <2>2. OnSite(b) = {} => OnSite(b)' = {}
    BY <1>5, ChecksOutRows DEF OnSite, RowsOf, SameButOut
  <2> QED BY <1>5, <1>a, <2>1, <2>2, ChecksOutRows, StaffedKept
<1>6. CASE Departs
  <2>1. PICK a \in assignments :
          Unstaffing(a.bk)' /\ assignments' = assignments \ {a} /\ UNCHANGED status
    BY <1>6 DEF Departs
  <2>2. RowsOf(b)' \subseteq RowsOf(b) /\ OnSite(b)' \subseteq OnSite(b)
    BY <2>1 DEF RowsOf, OnSite
  <2>3. a.bk # b => RowsOf(b)' = RowsOf(b)
    BY <2>1 DEF RowsOf
  <2> QED BY <1>a, <2>1, <2>2, <2>3, StaffedKept
<1>7. CASE Moves
  <2>1. PICK o \in Bookings :
             \/ UNCHANGED <<status, assignments>>
             \/ /\ status[o] \in OpenJob /\ assignments' = assignments \ RowsOf(o)
                /\ status' = [status EXCEPT ![o] =
                                 IF status[o] = "ASSIGNED" THEN "CONFIRMED" ELSE status[o]]
    BY <1>7 DEF Moves
  <2>2. CASE UNCHANGED <<status, assignments>>
    BY <1>a, <2>2, StaffedKept DEF RowsOf, OnSite
  <2>3. CASE /\ status[o] \in OpenJob /\ assignments' = assignments \ RowsOf(o)
             /\ status' = [status EXCEPT ![o] =
                              IF status[o] = "ASSIGNED" THEN "CONFIRMED" ELSE status[o]]
    <3>1. CASE b = o
      <4>1. RowsOf(b)' = {}  BY <2>3, <3>1 DEF RowsOf
      <4>2. status'[b] \in {"REQUESTED", "CONFIRMED"}
        BY <2>3, <3>1 DEF TypeOK, OpenJob
      <4> QED BY <4>1, <4>2 DEF Staffed
    <3>2. CASE b # o
      <4>1. RowsOf(b)' = RowsOf(b) /\ status'[b] = status[b]
        BY <2>3, <3>2 DEF RowsOf, TypeOK
      <4>2. OnSite(b)' = OnSite(b)  BY <4>1 DEF OnSite
      <4> QED BY <1>a, <4>1, <4>2, StaffedKept
    <3> QED BY <3>1, <3>2
  <2> QED BY <2>1, <2>2, <2>3
<1>8. CASE Releases
  <2>1. PICK c \in Cleaners, t \in Times :
          /\ assignments' = assignments \ Upcoming(c, t)
          /\ status'[b] = IF /\ status[b] = "ASSIGNED" /\ \E a \in Upcoming(c, t) : a.bk = b
                             /\ \A a \in assignments \ Upcoming(c, t) : a.bk # b
                          THEN "CONFIRMED" ELSE status[b]
    BY <1>8 DEF Releases
  <2>2. /\ RowsOf(b)' = RowsOf(b) \ Upcoming(c, t)
        /\ OnSite(b)' \subseteq OnSite(b)
    BY <2>1 DEF RowsOf, OnSite
  <2>3. CASE status'[b] # status[b]
    <3>1. status'[b] = "CONFIRMED" /\ RowsOf(b)' = {}
      BY <2>1, <2>3 DEF RowsOf
    <3> QED BY <3>1 DEF Staffed
  <2>4. CASE status'[b] = status[b]
    <3>1. status[b] = "ASSIGNED" /\ RowsOf(b) # {} => RowsOf(b)' # {}
      BY <2>1, <2>2, <2>4 DEF RowsOf
    <3> QED BY <1>a, <2>2, <2>4, <3>1, StaffedKept
  <2> QED BY <2>3, <2>4
<1> QED BY <1>1, <1>2, <1>3, <1>4, <1>5, <1>6, <1>7, <1>8 DEF Effect

LEMMA SerialStaffed ==
    ASSUME OneSlot
    PROVE  Spec => []StaffedInv
<1>1. Init => StaffedInv
  BY DEF Init, StaffedInv, RowsOf
<1>2. TypeOK /\ FreshInv /\ AttendedInv /\ StaffedInv /\ [Next]_vars => StaffedInv'
  BY SerialGood, StaffedStep DEF Good
<1> QED BY <1>1, <1>2, TypeCorrect, SerialFresh, SerialAttended, PTL DEF Spec

\* With requests served one at a time and no handler killed half way, ASSIGNED
\* means between handlers that somebody is assigned, an earlier status that
\* nobody is.
THEOREM SerialStaffing ==
    ASSUME OneSlot
    PROVE  Spec => []StaffingMatchesStatus
<1>1. StaffedInv => StaffingMatchesStatus
  BY DEF StaffedInv, StaffingMatchesStatus, Quiet, Idle, Staffing, Unstaffing
<1> QED BY <1>1, SerialStaffed, PTL

\* Served one at a time, check-ins and status stay in step: whoever has checked
\* in is on a job that has begun, a job in progress has somebody who checked in,
\* and, unless a handler was killed, nobody is left clocked in on a completed one.
THEOREM SerialCheckIns ==
    ASSUME OneSlot
    PROVE  Spec => []CheckInsMatchStatus
<1>1. AttendedInv /\ StaffedInv => CheckInsMatchStatus
  BY DEF AttendedInv, StaffedInv, CheckInsMatchStatus, CompletedIsCheckedOut, Quiet, Idle,
         Stamping
<1> QED BY <1>1, SerialAttended, SerialStaffed, PTL

-----------------------------------------------------------------------------
(* The roster *)

LEMMA LimitStep ==
    ASSUME IsFiniteSet(Cleaners), TypeOK, ActiveWithinLimit, Effect
    PROVE  ActiveWithinLimit'
<1> USE DEF ActiveWithinLimit
<1>0. IsFiniteSet(ActiveCleaners) /\ Cardinality(ActiveCleaners) \in Nat
  BY FS_Subset, FS_CardinalityType DEF ActiveCleaners
<1>1. CASE Employs
  <2>1. PICK c \in Cleaners : /\ Cardinality(ActiveCleaners) < MaxCleaners
                              /\ cleaner' = [cleaner EXCEPT ![c] = "ACTIVE"]
    BY <1>1 DEF Employs
  <2>2. ActiveCleaners' = ActiveCleaners \cup {c}
    BY <2>1 DEF ActiveCleaners, TypeOK
  <2> PICK A : A = ActiveCleaners  OBVIOUS
  <2>3. /\ Cardinality(A \cup {c}) = IF c \in A THEN Cardinality(A) ELSE Cardinality(A) + 1
        /\ Cardinality(A) \in Nat /\ Cardinality(A) < MaxCleaners
    BY <1>0, <2>1, FS_AddElement
  <2>4. Cardinality(A \cup {c}) <= MaxCleaners
    BY <2>3, PlanAssumption
  <2>5. Cardinality(ActiveCleaners)' = Cardinality(A \cup {c})
    BY <2>2
  <2> QED BY <2>4, <2>5 DEF ActiveCleaners
<1>2. CASE Releases
  <2>1. ActiveCleaners' \in SUBSET ActiveCleaners
    BY <1>2 DEF Releases, ActiveCleaners, TypeOK
  <2>2. /\ Cardinality(ActiveCleaners') \in Nat
        /\ Cardinality(ActiveCleaners') <= Cardinality(ActiveCleaners)
    BY <1>0, <2>1, FS_Subset, FS_CardinalityType
  <2> QED BY <1>0, <2>2, PlanAssumption DEF ActiveCleaners
<1>3. CASE UNCHANGED cleaner
  BY <1>3
<1> QED BY <1>1, <1>2, <1>3
        DEF Effect, Rests, Joins, Advances, ChecksIn, ChecksOut, Departs, Moves

\* Served one at a time, onboarding and reactivating never take the business
\* over the number of active cleaners its plan allows.
THEOREM SerialWithinLimit ==
    ASSUME OneSlot, IsFiniteSet(Cleaners)
    PROVE  Spec => []ActiveWithinLimit
<1>1. Init => ActiveWithinLimit  BY DEF Init, ActiveWithinLimit
<1>2. TypeOK /\ FreshInv /\ ActiveWithinLimit /\ [Next]_vars => ActiveWithinLimit'
  BY SerialGood, LimitStep DEF Good
<1> QED BY <1>1, <1>2, TypeCorrect, SerialFresh, PTL DEF Spec

\* Nobody who has checked in is taken off a job.
LEMMA StartedStep ==
    ASSUME TypeOK, AttendedInv, Effect
    PROVE  \A a \in assignments : a.in => \E n \in assignments' : n.id = a.id /\ n.in
<1> SUFFICES ASSUME NEW a \in assignments, a.in
             PROVE  \E n \in assignments' : n.id = a.id /\ n.in
  OBVIOUS
<1>0. a.bk \in Bookings /\ status[a.bk] \notin OpenJob
  BY DEF TypeOK, Row, AttendedInv, CheckedInMeansStarted
<1>1. CASE a \in assignments'  BY <1>1
<1>2. CASE Joins  BY <1>2 DEF Joins
<1>3. CASE ChecksIn  BY <1>3 DEF ChecksIn, Replace
<1>4. CASE ChecksOut  BY <1>4, ChecksOutRows DEF SameButOut
<1>5. CASE Departs  BY <1>5 DEF Departs
<1>6. CASE Moves
  <2>1. PICK b \in Bookings :
          \/ assignments' = assignments
          \/ status[b] \in OpenJob /\ assignments' = assignments \ RowsOf(b)
    BY <1>6 DEF Moves
  <2> QED BY <1>0, <2>1 DEF RowsOf
<1>7. CASE Releases  BY <1>7 DEF Releases, Upcoming
<1> QED BY <1>1, <1>2, <1>3, <1>4, <1>5, <1>6, <1>7 DEF Effect, Rests, Advances, Employs

\* Served one at a time, no handler takes away the assignment of a cleaner who
\* has started: not unassigning, not moving the job, not releasing the cleaner.
THEOREM SerialStartedKept ==
    ASSUME OneSlot
    PROVE  Spec => StartedRowKept
<1>1. TypeOK /\ FreshInv /\ AttendedInv /\ [Next]_vars
        => [\A a \in assignments : a.in => \E n \in assignments' : n.id = a.id /\ n.in]_vars
  BY SerialGood, StartedStep DEF Good
<1> QED BY <1>1, TypeCorrect, SerialFresh, SerialAttended, PTL DEF Spec, StartedRowKept

\* x is one of c's upcoming jobs.
StillToCome(c, x) == x.cl = c /\ ~x.in /\ status[x.bk] \in OpenJob /\ start[x.bk] >= now

\* When no job moves, what is upcoming for c afterwards was upcoming before,
\* and there is none of it for a cleaner who has just left.
LEMMA GainStep ==
    ASSUME TypeOK, TypeOK', Effect, NEW c \in Cleaners, cleaner'[c] # "ACTIVE",
           Upcoming(c, now)' # {}, start' = start
    PROVE  cleaner[c] # "ACTIVE" /\ Upcoming(c, now) # {}
<1> USE StatusFacts
<1>0. /\ \A x \in assignments : x.bk \in Bookings /\ start[x.bk] \in Int
      /\ now \in Int /\ now' \in Int /\ now <= now'
  BY BoundsAssumption DEF TypeOK, Row, Times, Effect
<1>1. PICK a \in assignments' : /\ a.cl = c /\ ~a.in /\ status'[a.bk] \in OpenJob
                                /\ a.bk \in Bookings
                                /\ start[a.bk] >= now
  <2>1. PICK a \in assignments' : /\ a.cl = c /\ ~a.in /\ status'[a.bk] \in OpenJob
                                  /\ start'[a.bk] >= now'
    BY DEF Upcoming
  <2>2. a.bk \in Bookings /\ start[a.bk] \in Int
    BY BoundsAssumption DEF TypeOK, Row, Times
  <2> QED BY <1>0, <2>1, <2>2
<1> SUFFICES cleaner[c] # "ACTIVE" /\ \E x \in assignments : StillToCome(c, x)
  BY DEF Upcoming, StillToCome
<1>2. CASE Rests \/ Employs
  BY <1>1, <1>2 DEF Rests, Employs, StillToCome, TypeOK
<1>3. CASE Joins
  BY <1>1, <1>3 DEF Joins, StillToCome
<1>4. CASE Advances
  <2>1. PICK b \in Bookings, s \in Status :
          /\ MayBecome(b, s) /\ status' = [status EXCEPT ![b] = s]
          /\ UNCHANGED <<cleaner, assignments>>
    BY <1>4 DEF Advances
  <2>2. s \in OpenJob => status[b] \in OpenJob
    BY <2>1 DEF MayBecome, OpenJob, Terminal
  <2> QED BY <1>1, <2>1, <2>2 DEF StillToCome, TypeOK
<1>5. CASE ChecksIn
  <2>1. PICK e \in assignments :
          /\ Replace(e, [e EXCEPT !.in = TRUE]) /\ UNCHANGED cleaner
          /\ status' = [status EXCEPT ![e.bk] = "IN_PROGRESS"]
    BY <1>5 DEF ChecksIn
  <2>2. [e EXCEPT !.in = TRUE].in  BY DEF TypeOK, Row
  <2>3. a \in assignments  BY <1>1, <2>1, <2>2 DEF Replace
  <2>4. status[a.bk] \in OpenJob
    BY <1>0, <1>1, <2>1, <2>3 DEF TypeOK, OpenJob
  <2> QED BY <1>1, <2>1, <2>3, <2>4 DEF StillToCome
<1>6. CASE ChecksOut
  BY <1>1, <1>6, ChecksOutRows DEF SameButOut, StillToCome
<1>7. CASE Departs  BY <1>1, <1>7 DEF Departs, StillToCome
<1>8. CASE Moves
  <2>1. /\ a \in assignments /\ cleaner' = cleaner
        /\ status'[a.bk] \in OpenJob => status[a.bk] \in OpenJob
    BY <1>1, <1>8 DEF Moves, TypeOK
  <2> QED BY <1>1, <2>1 DEF StillToCome
<1>9. CASE Releases
  <2>1. PICK d \in Cleaners, to \in CleanerStatus, t \in Times :
          /\ t <= now /\ assignments' = assignments \ Upcoming(d, t)
          /\ cleaner' = [cleaner EXCEPT ![d] = to]
          /\ \A b \in Bookings : status'[b] # status[b] => status[b] = "ASSIGNED"
    BY <1>9 DEF Releases
  <2>2. StillToCome(c, a) /\ a \in assignments
    BY <1>1, <2>1 DEF StillToCome, OpenJob
  <2>3. t \in Int  BY BoundsAssumption DEF Times
  <2>4. c # d
    BY <1>0, <1>1, <2>1, <2>2, <2>3 DEF StillToCome, Upcoming
  <2> QED BY <2>1, <2>2, <2>4 DEF TypeOK
<1> QED BY <1>2, <1>3, <1>4, <1>5, <1>6, <1>7, <1>8, <1>9 DEF Effect

\* Served one at a time, a cleaner out of service gets an upcoming job only when
\* one of their old jobs is moved.
THEOREM SerialReleased ==
    ASSUME OneSlot
    PROVE  Spec => ReleasedGainsOnlyByMove
<1>1. TypeOK /\ TypeOK' /\ FreshInv /\ [Next]_vars
        => [\A c \in Cleaners :
              cleaner'[c] # "ACTIVE" /\ Upcoming(c, now)' # {} /\ start' = start
                 => cleaner[c] # "ACTIVE" /\ Upcoming(c, now) # {}]_vars
  BY SerialGood, GainStep DEF Good
<1> QED BY <1>1, TypeCorrect, SerialFresh, PTL DEF Spec, ReleasedGainsOnlyByMove

-----------------------------------------------------------------------------
(* The handlers implement the life cycle *)

LEMMA RankFacts ==
    /\ Lifecycle!Open = Open
    /\ DOMAIN Lifecycle!Rank = Open \cup {"COMPLETED"}
    /\ Lifecycle!Rank["REQUESTED"] = 0 /\ Lifecycle!Rank["CONFIRMED"] = 1
    /\ Lifecycle!Rank["ASSIGNED"] = 2 /\ Lifecycle!Rank["IN_PROGRESS"] = 3
    /\ Lifecycle!Rank["COMPLETED"] = 4
    /\ Open = {"REQUESTED", "CONFIRMED", "ASSIGNED", "IN_PROGRESS"}
BY DEF Lifecycle!Open, Lifecycle!Rank, Lifecycle!Status, Lifecycle!Terminal, Open, Status,
       Terminal

LEMMA LifecycleStep ==
    ASSUME TypeOK, Effect
    PROVE  [Lifecycle!Next]_status
<1> USE StatusFacts
<1>1. CASE UNCHANGED status  BY <1>1
<1>2. ASSUME NEW b \in Bookings, NEW s \in Open \cup {"COMPLETED"}, status[b] \in Open,
             Lifecycle!Rank[s] > Lifecycle!Rank[status[b]],
             status' = [status EXCEPT ![b] = s]
      PROVE  Lifecycle!Next
  BY <1>2, RankFacts DEF Lifecycle!Next, Lifecycle!Forward
<1>3. ASSUME NEW B \in SUBSET Bookings, \A b \in B : status[b] = "ASSIGNED",
             status' = [b \in Bookings |-> IF b \in B THEN "CONFIRMED" ELSE status[b]]
      PROVE  Lifecycle!Next
  BY <1>3 DEF Lifecycle!Next, Lifecycle!Unstaff
<1>4. CASE Advances
  <2>1. PICK b \in Bookings, s \in Status :
          MayBecome(b, s) /\ status' = [status EXCEPT ![b] = s]
    BY <1>4 DEF Advances
  <2>2. CASE s = "CANCELLED"
    BY <2>1, <2>2, RankFacts DEF Lifecycle!Next, Lifecycle!Cancel, MayBecome
  <2>3. CASE s = "CONFIRMED" /\ status[b] = "ASSIGNED"
    <3>1. status' = [o \in Bookings |-> IF o \in {b} THEN "CONFIRMED" ELSE status[o]]
      BY <2>1, <2>3 DEF TypeOK
    <3> QED BY <1>3, <2>3, <3>1
  <2>4. CASE s # "CANCELLED" /\ ~(s = "CONFIRMED" /\ status[b] = "ASSIGNED")
    <3>1. /\ s \in Open \cup {"COMPLETED"} /\ status[b] \in Open
          /\ Lifecycle!Rank[s] > Lifecycle!Rank[status[b]]
      BY <2>1, <2>4, RankFacts DEF MayBecome, OpenJob, Terminal
    <3> QED BY <1>2, <2>1, <3>1
  <2> QED BY <2>2, <2>3, <2>4
<1>5. CASE ChecksIn
  <2>1. PICK a \in assignments :
          /\ a.bk \in Bookings /\ status[a.bk] \in Open
          /\ status' = [status EXCEPT ![a.bk] = "IN_PROGRESS"]
    BY <1>5 DEF ChecksIn, TypeOK, Row
  <2>2. CASE status[a.bk] = "IN_PROGRESS"
    BY <1>1, <2>1, <2>2 DEF TypeOK
  <2>3. CASE status[a.bk] # "IN_PROGRESS"
    <3>1. Lifecycle!Rank["IN_PROGRESS"] > Lifecycle!Rank[status[a.bk]]
      BY <2>1, <2>3, RankFacts
    <3> QED BY <1>2, <2>1, <3>1
  <2> QED BY <2>2, <2>3
<1>6. CASE Moves
  <2>1. PICK b \in Bookings :
          \/ UNCHANGED status
          \/ status' = [status EXCEPT ![b] =
                           IF status[b] = "ASSIGNED" THEN "CONFIRMED" ELSE status[b]]
    BY <1>6 DEF Moves
  <2> DEFINE B == {o \in {b} : status[o] = "ASSIGNED"}
  <2>2. \/ UNCHANGED status
        \/ status' = [o \in Bookings |-> IF o \in B THEN "CONFIRMED" ELSE status[o]]
    BY <2>1 DEF TypeOK
  <2> QED BY <1>1, <1>3, <2>2
<1>7. CASE Releases
  <2>1. PICK c \in Cleaners, t \in Times : status' = [b \in Bookings |->
          IF /\ status[b] = "ASSIGNED" /\ \E a \in Upcoming(c, t) : a.bk = b
             /\ \A a \in assignments \ Upcoming(c, t) : a.bk # b
          THEN "CONFIRMED" ELSE status[b]]
    BY <1>7 DEF Releases
  <2> DEFINE B == {b \in Bookings : /\ status[b] = "ASSIGNED"
                                    /\ \E a \in Upcoming(c, t) : a.bk = b
                                    /\ \A a \in assignments \ Upcoming(c, t) : a.bk # b}
  <2>2. status' = [b \in Bookings |-> IF b \in B THEN "CONFIRMED" ELSE status[b]]
    BY <2>1
  <2>3. B \in SUBSET Bookings /\ \A b \in B : status[b] = "ASSIGNED"
    OBVIOUS
  <2> HIDE DEF B
  <2> QED BY <1>3, <2>2, <2>3
<1> QED BY <1>1, <1>4, <1>5, <1>6, <1>7
        DEF Effect, Rests, Joins, ChecksOut, Departs, Employs

\* Served one request at a time, the handlers implement the status graph the
\* state machine's comment draws.
THEOREM SerialLifecycle ==
    ASSUME OneSlot
    PROVE  Spec => ImplementsLifecycle
<1>1. Init => Lifecycle!Init
  BY DEF Init, Lifecycle!Init
<1>2. TypeOK /\ FreshInv /\ [Next]_vars => [Lifecycle!Next]_status
  BY SerialGood, LifecycleStep DEF Good
<1> QED BY <1>1, <1>2, TypeCorrect, SerialFresh, PTL DEF Spec, ImplementsLifecycle, Lifecycle!Spec
=============================================================================
