------------------------------ MODULE Bookings ------------------------------
(***************************************************************************)
(* Bookings, their cleaner assignments and the cleaners' employment status *)
(* as the HTTP handlers of the API change them: bookings.service,          *)
(* dispatch.service, cleaners.service, cleanerBookings.routes and the      *)
(* reschedule and cancel handlers of customerPortal.service.               *)
(*                                                                         *)
(* A handler is a sequence of database calls with an `await` between them. *)
(* Each call is one action; what the handler remembers between two calls   *)
(* (its local variables) is the record req[r] of the request slot r that   *)
(* runs it.  A call is atomic, a read-then-write is not.  With one request *)
(* slot the handlers run one after the other, with two they interleave.    *)
(***************************************************************************)
EXTENDS BookingStateMachine, FiniteSets

CONSTANTS Bookings,      \* bookings of one business, all just requested
          Cleaners,      \* its cleaner profiles
          Requests,      \* request slots: how many handlers may be in flight
          Duration,      \* length of a job, in time units
          Horizon,       \* bound: bookings start at 0..Horizon
          MaxRows,       \* bound: assignment rows ever created
          MaxCleaners,   \* plan.maxCleaners
          MaxCrashes     \* bound: handlers killed half way

ASSUME DurationAssumption == Duration \in Nat \ {0}
ASSUME BoundsAssumption   == Horizon \in Nat /\ MaxRows \in Nat /\ MaxCrashes \in Nat
ASSUME PlanAssumption     == MaxCleaners \in Nat

VARIABLES
    status,       \* Booking.status
    start,        \* Booking.scheduledStart (the end is start + Duration)
    cleaner,      \* CleanerProfile.status
    assignments,  \* the BookingAssignment table
    nextRow,      \* next primary key of BookingAssignment
    now,          \* wall clock
    bizLock,      \* the slot holding the business's advisory lock, if any
    req,          \* what the handler in each slot is doing
    crashes,      \* handlers killed so far
    overlap       \* history: per booking, who else was in flight when it ended

db   == <<status, start, cleaner, assignments, nextRow, now, bizLock>>
vars == <<status, start, cleaner, assignments, nextRow, now, bizLock, req,
          crashes, overlap>>

-----------------------------------------------------------------------------
(* Data *)

Times         == 0..Horizon
CleanerStatus == {"ACTIVE", "SUSPENDED", "OFFBOARDED"}
OpenJob       == {"REQUESTED", "CONFIRMED", "ASSIGNED"}   \* OPEN_JOB_STATUSES

\* No unique constraint: one cleaner may have two rows for one booking.
Row == [id : Nat, bk : Bookings, cl : Cleaners, lead : BOOLEAN,
        in : BOOLEAN, out : BOOLEAN]       \* in/out: checkedInAt/checkedOutAt set

Idle == [pc |-> "idle"]
AssignWork  == [pc : {"assignCleaner", "assignFree", "assignCreate", "assignStatus"},
                bk : Bookings, cl : Cleaners, lead : BOOLEAN, seen : Open, at : Times]
BookingWork == [pc : {"confirmWrite", "completeWrite", "stamp", "cancelWrite",
                      "unassignCount", "unassignWrite", "startWrite"},
                bk : Bookings, seen : Open]
RereadWork  == [pc : {"completeRead", "cancelRead"}, bk : Bookings]
GateWork    == [pc : {"startRead"}, bk : Bookings, cl : Cleaners]
RowRead     == [pc : {"clockInRead", "clockOutWrite", "checkOut", "stillOnSite",
                      "unassignBooking"}, row : Row]
RowWork     == [pc : {"clockInWrite", "unassignDelete"}, row : Row, seen : Open]
MoveWork    == [pc : {"moveCheck", "moveWrite", "portalLock", "portalCheck", "portalWrite"},
                bk : Bookings, to : Times, seen : Open, release : BOOLEAN]
RosterWork  == [pc : {"suspendProfile", "releaseFind", "releaseCommit", "limit", "profile",
                      "activate"},
                cl : Cleaners, to : CleanerStatus, since : Times,
                upcoming : SUBSET [row : Nat, bk : Bookings, seen : Status]]
Work == AssignWork \cup BookingWork \cup RereadWork \cup GateWork \cup RowRead
        \cup RowWork \cup MoveWork \cup RosterWork

RowsOf(b) == {a \in assignments : a.bk = b}
RowsWithId(i) == {a \in assignments : a.id = i}

\* [s, s + Duration) and [t, t + Duration) share an instant (lt / gt) ...
Overlaps(s, t) == s < t + Duration /\ t < s + Duration
\* ... or at least touch (lte / gte).  Start times are whole jobs apart, so the
\* scheduler's 30 minute travel buffer excludes exactly the touching jobs.
Touches(s, t) == s <= t + Duration /\ t <= s + Duration

\* Mutant: only jobs that have not begun block the cleaner.
CleanerFree_OnlyUpcoming(c, t, b) == \A a \in assignments :
    a.cl = c /\ a.bk # b /\ status[a.bk] \in OpenJob => ~Overlaps(start[a.bk], t)

\* findCleanerConflict found nothing: bookings that touch are fine, cancelled
\* ones never block, the booking itself is left out.
CleanerFree(c, t, b) == \A a \in assignments :
    a.cl = c /\ a.bk # b /\ status[a.bk] # "CANCELLED" => ~Overlaps(start[a.bk], t)

\* rescheduleBooking's own check of the assigned cleaners.
StaffMoveAllowed(b, t) == \A x \in RowsOf(b), a \in assignments :
    a.cl = x.cl /\ a.bk # b /\ status[a.bk] # "CANCELLED" => ~Touches(start[a.bk], t)

\* findAvailableCleaners (availability slots aside), and spareCapacity.
Candidates(t) == {c \in Cleaners :
    /\ cleaner[c] = "ACTIVE"
    /\ \A a \in assignments :
         a.cl = c /\ status[a.bk] # "CANCELLED" => ~Touches(start[a.bk], t)}
Waiting(b, t) == {o \in Bookings \ {b} :
    status[o] \in {"REQUESTED", "CONFIRMED"} /\ RowsOf(o) = {} /\ Overlaps(start[o], t)}
HasSpare(b, t) == Cardinality(Candidates(t)) > Cardinality(Waiting(b, t))

-----------------------------------------------------------------------------
(* Requests: every handler step ends by going to its next call or returning *)

Goto(r, work) == req' = [req EXCEPT ![r] = work] /\ UNCHANGED <<crashes, overlap>>
Begin(r, work) == req[r] = Idle /\ Goto(r, work)
Return(r) ==
    /\ req' = [req EXCEPT ![r] = Idle]
    /\ overlap' = [b \in Bookings |-> overlap[b] \ {r}]
    /\ UNCHANGED crashes
At(r, pc) == req[r].pc = pc
Then(r, pc) == Goto(r, [req[r] EXCEPT !.pc = pc])

\* History: booking b ends now, in r; the others in flight may not know it.
EndOverlap(r, b) == overlap' = [overlap EXCEPT ![b] = {s \in Requests \ {r} : req[s] # Idle}]

Init ==
    /\ status = [b \in Bookings |-> "REQUESTED"]
    /\ start \in [Bookings -> Times]
    /\ cleaner \in [Cleaners -> {"ACTIVE", "OFFBOARDED"}]
    /\ Cardinality({c \in Cleaners : cleaner[c] = "ACTIVE"}) <= MaxCleaners
    /\ assignments = {}
    /\ nextRow = 0
    /\ now = 0
    /\ bizLock = {}
    /\ req = [r \in Requests |-> Idle]
    /\ crashes = 0
    /\ overlap = [b \in Bookings |-> {}]

-----------------------------------------------------------------------------
(* Assigning: bookings.assignBooking and dispatch.createAssignment *)

AssignRead(r, b, c, lead) ==
    /\ status[b] \in Open                                   \* assertOpen
    /\ Begin(r, [pc |-> "assignCleaner", bk |-> b, cl |-> c, lead |-> lead,
                 seen |-> status[b], at |-> start[b]])
    /\ UNCHANGED db

\* Mutant: the cleaner's employment status is not looked at.
AssignCleaner_AnyStatus(r) == At(r, "assignCleaner") /\ Then(r, "assignFree") /\ UNCHANGED db

AssignCleaner(r) ==
    /\ At(r, "assignCleaner")
    /\ \/ cleaner[req[r].cl] = "ACTIVE" /\ Then(r, "assignFree")
       \/ cleaner[req[r].cl] # "ACTIVE" /\ Return(r)
    /\ UNCHANGED db

AssignFree(r) ==
    /\ At(r, "assignFree")
    /\ \/ CleanerFree(req[r].cl, req[r].at, req[r].bk) /\ Then(r, "assignCreate")
       \/ ~CleanerFree(req[r].cl, req[r].at, req[r].bk) /\ Return(r)
    /\ UNCHANGED db

AssignCreate(r) ==
    /\ At(r, "assignCreate")
    /\ nextRow < MaxRows
    /\ assignments' = assignments \cup
         {[id |-> nextRow, bk |-> req[r].bk, cl |-> req[r].cl, lead |-> req[r].lead,
           in |-> FALSE, out |-> FALSE]}
    /\ nextRow' = nextRow + 1
    /\ \/ StatusAfterAssign(req[r].seen) # req[r].seen /\ Then(r, "assignStatus")
       \/ StatusAfterAssign(req[r].seen) = req[r].seen /\ Return(r)
    /\ UNCHANGED <<status, start, cleaner, now, bizLock>>

AssignStatus(r) ==
    /\ At(r, "assignStatus")
    /\ status' = [status EXCEPT ![req[r].bk] = StatusAfterAssign(req[r].seen)]
    /\ Return(r)
    /\ UNCHANGED <<start, cleaner, assignments, nextRow, now, bizLock>>

Assign(r) ==
    \/ \E b \in Bookings, c \in Cleaners, lead \in BOOLEAN : AssignRead(r, b, c, lead)
    \/ AssignCleaner(r) \/ AssignFree(r) \/ AssignCreate(r) \/ AssignStatus(r)

-----------------------------------------------------------------------------
(* Confirming: bookings.confirmBooking *)

ConfirmRead(r, b) ==
    /\ status[b] = "REQUESTED"            \* anything else is a no-op or a 409
    /\ Begin(r, [pc |-> "confirmWrite", bk |-> b, seen |-> status[b]])
    /\ UNCHANGED db

ConfirmWrite(r) ==
    /\ At(r, "confirmWrite")
    /\ status' = [status EXCEPT ![req[r].bk] = "CONFIRMED"]
    /\ Return(r)
    /\ UNCHANGED <<start, cleaner, assignments, nextRow, now, bizLock>>

Confirm(r) == (\E b \in Bookings : ConfirmRead(r, b)) \/ ConfirmWrite(r)

-----------------------------------------------------------------------------
(* Clocking in and out: cleaners.clockIn / clockOut, POST /:id/start *)

\* Updating a row that is gone is an error (P2025): nothing is written.
Gone(r) == RowsWithId(req[r].row.id) = {} /\ Return(r) /\ UNCHANGED db
Replace(a, new) == assignments' = (assignments \ {a}) \cup {new}

\* The check-in route finds the row; clockIn reads it again with its booking.
ClockInFind(r, a) ==
    /\ Begin(r, [pc |-> "clockInRead", row |-> a])
    /\ UNCHANGED db

ClockInRead(r) ==
    /\ At(r, "clockInRead")
    /\ \/ \E a \in RowsWithId(req[r].row.id) :
            \/ /\ ~a.in /\ status[a.bk] \in Open
               /\ Goto(r, [pc |-> "clockInWrite", row |-> a, seen |-> status[a.bk]])
            \/ (a.in \/ status[a.bk] \in Terminal) /\ Return(r)
       \/ RowsWithId(req[r].row.id) = {} /\ Return(r)
    /\ UNCHANGED db

\* One transaction: the row and, from an early status, the booking.
ClockInWrite(r) ==
    /\ At(r, "clockInWrite")
    /\ \/ /\ \E a \in RowsWithId(req[r].row.id) : Replace(a, [a EXCEPT !.in = TRUE])
          /\ status' = IF req[r].seen \in OpenJob
                       THEN [status EXCEPT ![req[r].row.bk] = "IN_PROGRESS"]
                       ELSE status
          /\ Return(r)
          /\ UNCHANGED <<start, cleaner, nextRow, now, bizLock>>
       \/ Gone(r)

\* The cleaner routes first pass requireActiveCleaner.
StartGate(r, b, c) ==
    /\ cleaner[c] = "ACTIVE"
    /\ Begin(r, [pc |-> "startRead", bk |-> b, cl |-> c])
    /\ UNCHANGED db

\* Mutants: the route moves the status of a job nobody has checked in to ...
StartRead_NoCheckIn(r) ==
    /\ At(r, "startRead")
    /\ \/ /\ status[req[r].bk] \in Open /\ \E a \in RowsOf(req[r].bk) : a.cl = req[r].cl
          /\ Goto(r, [pc |-> "startWrite", bk |-> req[r].bk, seen |-> status[req[r].bk]])
       \/ status[req[r].bk] \in Terminal /\ Return(r)
    /\ UNCHANGED db

\* ... or of one that has ended.
StartRead_NoTerminalGuard(r) ==
    /\ At(r, "startRead")
    /\ \E a \in RowsOf(req[r].bk) :
         \/ ~a.in /\ Goto(r, [pc |-> "clockInRead", row |-> a])
         \/ a.in /\ Goto(r, [pc |-> "startWrite", bk |-> req[r].bk, seen |-> status[req[r].bk]])
    /\ UNCHANGED db

StartRead(r) ==
    /\ At(r, "startRead")
    /\ LET b    == req[r].bk
           mine == {a \in RowsOf(b) : a.cl = req[r].cl}
       IN \/ (mine = {} \/ status[b] \in Terminal) /\ Return(r)
          \/ /\ status[b] \in Open
             /\ \E a \in mine :
                  \/ ~a.in /\ Goto(r, [pc |-> "clockInRead", row |-> a])
                  \/ /\ a.in /\ status[b] # "IN_PROGRESS"
                     /\ Goto(r, [pc |-> "startWrite", bk |-> b, seen |-> status[b]])
                  \/ a.in /\ status[b] = "IN_PROGRESS" /\ Return(r)
    /\ UNCHANGED db

StartWrite(r) ==
    /\ At(r, "startWrite")
    /\ status' = [status EXCEPT ![req[r].bk] = "IN_PROGRESS"]
    /\ Return(r)
    /\ UNCHANGED <<start, cleaner, assignments, nextRow, now, bizLock>>

\* clockOut looks at neither the booking's status nor checkedInAt.
ClockOutRead(r, a) ==
    /\ Begin(r, [pc |-> "clockOutWrite", row |-> a])
    /\ UNCHANGED db

ClockOutWrite(r) ==
    /\ At(r, "clockOutWrite")
    /\ \/ /\ \E a \in RowsWithId(req[r].row.id) : Replace(a, [a EXCEPT !.out = TRUE])
          /\ Return(r)
          /\ UNCHANGED <<status, start, cleaner, nextRow, now, bizLock>>
       \/ Gone(r)

Clock(r) ==
    \/ \E a \in assignments : ClockInFind(r, a) \/ ClockOutRead(r, a)
    \/ \E b \in Bookings, c \in Cleaners : StartGate(r, b, c)
    \/ ClockInRead(r) \/ ClockInWrite(r) \/ StartRead(r) \/ StartWrite(r) \/ ClockOutWrite(r)

-----------------------------------------------------------------------------
(* Completing: bookings.completeBooking and completeBookingByCleaner *)

\* Mutant: a cancelled booking is not refused.
CompleteByStaff_EvenCancelled(r, b) ==
    /\ status[b] # "COMPLETED"
    /\ Begin(r, [pc |-> "completeWrite", bk |-> b, seen |-> status[b]])
    /\ UNCHANGED db

CompleteByStaff(r, b) ==
    /\ status[b] \in Open        \* CANCELLED is a 422, COMPLETED a no-op
    /\ Begin(r, [pc |-> "completeWrite", bk |-> b, seen |-> status[b]])
    /\ UNCHANGED db

\* A cleaner's request first needs an assignment of an ACTIVE profile (and an
\* AFTER photo, which is taken to be there).
CompleteByCleaner(r, a) ==
    /\ cleaner[a.cl] = "ACTIVE"
    /\ Begin(r, [pc |-> "checkOut", row |-> a])
    /\ UNCHANGED db

CheckOutWrite(r) ==
    /\ At(r, "checkOut")
    /\ \/ /\ \E a \in RowsWithId(req[r].row.id) : Replace(a, [a EXCEPT !.out = TRUE])
          /\ Then(r, "stillOnSite")
          /\ UNCHANGED <<status, start, cleaner, nextRow, now, bizLock>>
       \/ Gone(r)

OnSite(b) == {a \in RowsOf(b) : a.in /\ ~a.out}

\* A helper leaving colleagues on site only checks out; the team lead, or the
\* last one there, completes the job.
StillOnSite(r) ==
    /\ At(r, "stillOnSite")
    /\ \/ ~req[r].row.lead /\ OnSite(req[r].row.bk) # {} /\ Return(r)
       \/ /\ req[r].row.lead \/ OnSite(req[r].row.bk) = {}
          /\ Goto(r, [pc |-> "completeRead", bk |-> req[r].row.bk])
    /\ UNCHANGED db

CompleteRead(r) ==
    /\ At(r, "completeRead")
    /\ \/ /\ status[req[r].bk] \in Open
          /\ Goto(r, [pc |-> "completeWrite", bk |-> req[r].bk, seen |-> status[req[r].bk]])
       \/ status[req[r].bk] \in Terminal /\ Return(r)
    /\ UNCHANGED db

CompleteWrite(r) ==
    /\ At(r, "completeWrite")
    /\ status' = [status EXCEPT ![req[r].bk] = "COMPLETED"]
    /\ req' = [req EXCEPT ![r].pc = "stamp"]
    /\ EndOverlap(r, req[r].bk)
    /\ UNCHANGED <<start, cleaner, assignments, nextRow, now, bizLock, crashes>>

\* Whoever clocked in and never out is finished now.
StampCheckOuts(r) ==
    /\ At(r, "stamp")
    /\ assignments' = {IF a \in OnSite(req[r].bk) THEN [a EXCEPT !.out = TRUE] ELSE a
                       : a \in assignments}
    /\ Return(r)
    /\ UNCHANGED <<status, start, cleaner, nextRow, now, bizLock>>

Complete(r) ==
    \/ \E b \in Bookings : CompleteByStaff(r, b)
    \/ \E a \in assignments : CompleteByCleaner(r, a)
    \/ CheckOutWrite(r) \/ StillOnSite(r) \/ CompleteRead(r) \/ CompleteWrite(r)
    \/ StampCheckOuts(r)

-----------------------------------------------------------------------------
(* Cancelling: bookings.cancelBooking, customerPortal.cancelMyBooking *)

CancelByStaff(r, b) ==
    /\ status[b] \in Open
    /\ Begin(r, [pc |-> "cancelWrite", bk |-> b, seen |-> status[b]])
    /\ UNCHANGED db

\* The portal adds its own refusal, then calls the same service.
CancelByCustomer(r, b) ==
    /\ status[b] \in OpenJob
    /\ Begin(r, [pc |-> "cancelRead", bk |-> b])
    /\ UNCHANGED db

CancelRead(r) ==
    /\ At(r, "cancelRead")
    /\ \/ /\ status[req[r].bk] \in Open
          /\ Goto(r, [pc |-> "cancelWrite", bk |-> req[r].bk, seen |-> status[req[r].bk]])
       \/ status[req[r].bk] \in Terminal /\ Return(r)
    /\ UNCHANGED db

\* The refunds lie between the read and this transaction.
CancelWrite(r) ==
    /\ At(r, "cancelWrite")
    /\ status' = [status EXCEPT ![req[r].bk] = "CANCELLED"]
    /\ req' = [req EXCEPT ![r] = Idle]
    /\ overlap' = [b \in Bookings |->
                     IF b = req[r].bk THEN {s \in Requests \ {r} : req[s] # Idle}
                                      ELSE overlap[b] \ {r}]
    /\ UNCHANGED <<start, cleaner, assignments, nextRow, now, bizLock, crashes>>

Cancel(r) ==
    \/ \E b \in Bookings : CancelByStaff(r, b) \/ CancelByCustomer(r, b)
    \/ CancelRead(r) \/ CancelWrite(r)

-----------------------------------------------------------------------------
(* Unassigning: dispatch.deleteAssignment *)

UnassignFind(r, a) ==
    /\ Begin(r, [pc |-> "unassignBooking", row |-> a])
    /\ UNCHANGED db

\* Mutant: a cleaner who has started can be taken off the job.
UnassignBooking_EvenStarted(r) ==
    /\ At(r, "unassignBooking")
    /\ \/ /\ status[req[r].row.bk] \in Open
          /\ Goto(r, [pc |-> "unassignDelete", row |-> req[r].row,
                      seen |-> status[req[r].row.bk]])
       \/ status[req[r].row.bk] \in Terminal /\ Return(r)
    /\ UNCHANGED db

\* The row was read before: a check-in since then goes unnoticed.
UnassignBooking(r) ==
    /\ At(r, "unassignBooking")
    /\ \/ /\ status[req[r].row.bk] \in Open /\ ~req[r].row.in
          /\ Goto(r, [pc |-> "unassignDelete", row |-> req[r].row,
                      seen |-> status[req[r].row.bk]])
       \/ (status[req[r].row.bk] \in Terminal \/ req[r].row.in) /\ Return(r)
    /\ UNCHANGED db

UnassignDelete(r) ==
    /\ At(r, "unassignDelete")
    /\ \/ /\ RowsWithId(req[r].row.id) # {}
          /\ assignments' = assignments \ RowsWithId(req[r].row.id)
          /\ Goto(r, [pc |-> "unassignCount", bk |-> req[r].row.bk, seen |-> req[r].seen])
          /\ UNCHANGED <<status, start, cleaner, nextRow, now, bizLock>>
       \/ Gone(r)

UnassignCount(r) ==
    /\ At(r, "unassignCount")
    /\ LET next == StatusAfterUnassign(req[r].seen, Cardinality(RowsOf(req[r].bk)))
       IN \/ next # req[r].seen /\ Then(r, "unassignWrite")
          \/ next = req[r].seen /\ Return(r)
    /\ UNCHANGED db

\* Mutant: the booking falls back further than to CONFIRMED.
UnassignWrite_ToRequested(r) ==
    /\ At(r, "unassignWrite")
    /\ status' = [status EXCEPT ![req[r].bk] = "REQUESTED"]
    /\ Return(r)
    /\ UNCHANGED <<start, cleaner, assignments, nextRow, now, bizLock>>

UnassignWrite(r) ==
    /\ At(r, "unassignWrite")
    /\ status' = [status EXCEPT ![req[r].bk] = "CONFIRMED"]
    /\ Return(r)
    /\ UNCHANGED <<start, cleaner, assignments, nextRow, now, bizLock>>

Unassign(r) ==
    \/ \E a \in assignments : UnassignFind(r, a)
    \/ UnassignBooking(r) \/ UnassignDelete(r) \/ UnassignCount(r) \/ UnassignWrite(r)

-----------------------------------------------------------------------------
(* Moving: bookings.rescheduleBooking, customerPortal.rescheduleMyBooking *)

Move(b, t, pc) == [pc |-> pc, bk |-> b, to |-> t, seen |-> status[b], release |-> FALSE]

StaffMoveRead(r, b, t) ==
    /\ status[b] \in Open
    /\ Begin(r, Move(b, t, "moveCheck"))
    /\ UNCHANGED db

StaffMoveCheck(r) ==
    /\ At(r, "moveCheck")
    /\ \/ StaffMoveAllowed(req[r].bk, req[r].to) /\ Then(r, "moveWrite")
       \/ ~StaffMoveAllowed(req[r].bk, req[r].to) /\ Return(r)
    /\ UNCHANGED db

StaffMoveWrite(r) ==
    /\ At(r, "moveWrite")
    /\ start' = [start EXCEPT ![req[r].bk] = req[r].to]
    /\ Return(r)
    /\ UNCHANGED <<status, cleaner, assignments, nextRow, now, bizLock>>

\* The portal reads the booking before it takes the business lock ...
PortalMoveRead(r, b, t) ==
    /\ status[b] \in OpenJob
    /\ t >= now
    /\ Begin(r, Move(b, t, "portalLock"))
    /\ UNCHANGED db

PortalLock(r) ==
    /\ At(r, "portalLock")
    /\ bizLock = {}
    /\ bizLock' = {r}
    /\ Then(r, "portalCheck")
    /\ UNCHANGED <<status, start, cleaner, assignments, nextRow, now>>

PortalCheck(r) ==
    /\ At(r, "portalCheck")
    /\ \/ /\ HasSpare(req[r].bk, req[r].to)
          /\ Goto(r, [req[r] EXCEPT !.pc = "portalWrite",
                        !.release = \E a \in RowsOf(req[r].bk) :
                                      ~CleanerFree(a.cl, req[r].to, req[r].bk)])
          /\ UNCHANGED bizLock
       \/ ~HasSpare(req[r].bk, req[r].to) /\ Return(r) /\ bizLock' = {}
    /\ UNCHANGED <<status, start, cleaner, assignments, nextRow, now>>

\* ... and writes back the status it read then.
PortalMoveWrite(r) ==
    /\ At(r, "portalWrite")
    /\ assignments' = IF req[r].release THEN assignments \ RowsOf(req[r].bk) ELSE assignments
    /\ start' = [start EXCEPT ![req[r].bk] = req[r].to]
    /\ status' = [status EXCEPT ![req[r].bk] =
                    IF req[r].release /\ req[r].seen = "ASSIGNED" THEN "CONFIRMED"
                                                                 ELSE req[r].seen]
    /\ bizLock' = {}
    /\ Return(r)
    /\ UNCHANGED <<cleaner, nextRow, now>>

Reschedule(r) ==
    \/ \E b \in Bookings, t \in Times : StaffMoveRead(r, b, t) \/ PortalMoveRead(r, b, t)
    \/ StaffMoveCheck(r) \/ StaffMoveWrite(r)
    \/ PortalLock(r) \/ PortalCheck(r) \/ PortalMoveWrite(r)

-----------------------------------------------------------------------------
(* The roster: cleaners.releaseCleaner, reactivateCleaner, onboardCleaner *)

RosterChange(c, to, pc) == [pc |-> pc, cl |-> c, to |-> to, since |-> now, upcoming |-> {}]

Offboard(r, c) ==
    /\ cleaner[c] # "OFFBOARDED"
    /\ Begin(r, RosterChange(c, "OFFBOARDED", "releaseFind"))
    /\ UNCHANGED db

Suspend(r, c) ==
    /\ cleaner[c] = "ACTIVE"
    /\ Begin(r, RosterChange(c, "SUSPENDED", "suspendProfile"))
    /\ UNCHANGED db

SuspendProfile(r) ==
    /\ At(r, "suspendProfile")
    /\ \/ /\ cleaner[req[r].cl] # "SUSPENDED"
          /\ Goto(r, RosterChange(req[r].cl, "SUSPENDED", "releaseFind"))
       \/ cleaner[req[r].cl] = "SUSPENDED" /\ Return(r)
    /\ UNCHANGED db

\* Jobs of c that have not begun and start at t or later.
Upcoming(c, t) == {a \in assignments :
    a.cl = c /\ ~a.in /\ status[a.bk] \in OpenJob /\ start[a.bk] >= t}

\* The transaction's query ...
ReleaseFind(r) ==
    /\ At(r, "releaseFind")
    /\ Goto(r, [req[r] EXCEPT !.pc = "releaseCommit",
                  !.upcoming = {[row |-> a.id, bk |-> a.bk, seen |-> status[a.bk]]
                                  : a \in Upcoming(req[r].cl, req[r].since)}])
    /\ UNCHANGED db

\* ... and its writes, which the others see when it commits.
ReleaseCommit(r) ==
    /\ At(r, "releaseCommit")
    /\ LET found == req[r].upcoming
           kept  == {a \in assignments : \A u \in found : u.row # a.id}
       IN /\ assignments' = kept
          /\ status' = [b \in Bookings |->
               IF /\ \E u \in found : u.bk = b /\ u.seen = "ASSIGNED"
                  /\ \A a \in kept : a.bk # b
               THEN "CONFIRMED" ELSE status[b]]
    /\ cleaner' = [cleaner EXCEPT ![req[r].cl] = req[r].to]
    /\ Return(r)
    /\ UNCHANGED <<start, nextRow, now, bizLock>>

\* Bringing a cleaner in: `to` is the status the profile must be in for it.
Reactivate(r, c) ==
    /\ cleaner[c] = "SUSPENDED"
    /\ Begin(r, RosterChange(c, "SUSPENDED", "limit"))
    /\ UNCHANGED db

\* Onboarding checks the plan limit before it looks for a former profile.
Onboard(r, c) ==
    /\ Begin(r, RosterChange(c, "OFFBOARDED", "limit"))
    /\ UNCHANGED db

\* Mutant: off by one.
LimitCheck_OneTooMany(r) ==
    /\ At(r, "limit")
    /\ LET active == Cardinality({c \in Cleaners : cleaner[c] = "ACTIVE"})
       IN \/ /\ active <= MaxCleaners
             /\ Then(r, IF req[r].to = "OFFBOARDED" THEN "profile" ELSE "activate")
          \/ active > MaxCleaners /\ Return(r)
    /\ UNCHANGED db

LimitCheck(r) ==
    /\ At(r, "limit")
    /\ LET active == Cardinality({c \in Cleaners : cleaner[c] = "ACTIVE"})
       IN \/ /\ active < MaxCleaners
             /\ Then(r, IF req[r].to = "OFFBOARDED" THEN "profile" ELSE "activate")
          \/ active >= MaxCleaners /\ Return(r)
    /\ UNCHANGED db

OnboardProfile(r) ==
    /\ At(r, "profile")
    /\ \/ cleaner[req[r].cl] = "OFFBOARDED" /\ Then(r, "activate")
       \/ cleaner[req[r].cl] # "OFFBOARDED" /\ Return(r)
    /\ UNCHANGED db

Activate(r) ==
    /\ At(r, "activate")
    /\ cleaner' = [cleaner EXCEPT ![req[r].cl] = "ACTIVE"]
    /\ Return(r)
    /\ UNCHANGED <<status, start, assignments, nextRow, now, bizLock>>

Roster(r) ==
    \/ \E c \in Cleaners : Offboard(r, c) \/ Suspend(r, c) \/ Reactivate(r, c) \/ Onboard(r, c)
    \/ SuspendProfile(r) \/ ReleaseFind(r) \/ ReleaseCommit(r)
    \/ LimitCheck(r) \/ OnboardProfile(r) \/ Activate(r)

-----------------------------------------------------------------------------
(* The environment *)

Tick == now < Horizon /\ now' = now + 1
        /\ UNCHANGED <<status, start, cleaner, assignments, nextRow, bizLock, req,
                       crashes, overlap>>

\* Mutant: the lock belongs to the session and outlives the transaction.
Crash_KeepsLock(r) ==
    /\ req[r] # Idle
    /\ crashes < MaxCrashes
    /\ crashes' = crashes + 1
    /\ req' = [req EXCEPT ![r] = Idle]
    /\ overlap' = [b \in Bookings |-> overlap[b] \ {r}]
    /\ UNCHANGED db

\* A process is killed, or a call fails, between two calls of a handler; an
\* open transaction is rolled back and its lock released.
Crash(r) ==
    /\ req[r] # Idle
    /\ crashes < MaxCrashes
    /\ crashes' = crashes + 1
    /\ req' = [req EXCEPT ![r] = Idle]
    /\ overlap' = [b \in Bookings |-> overlap[b] \ {r}]
    /\ bizLock' = bizLock \ {r}
    /\ UNCHANGED <<status, start, cleaner, assignments, nextRow, now>>

Next ==
    \/ \E r \in Requests :
         \/ Assign(r) \/ Confirm(r) \/ Clock(r) \/ Complete(r) \/ Cancel(r)
         \/ Unassign(r) \/ Reschedule(r) \/ Roster(r) \/ Crash(r)
    \/ Tick

Spec == Init /\ [][Next]_vars

-----------------------------------------------------------------------------
(* Properties *)

\* Every variable keeps its type, rows have distinct primary keys below the
\* next one, and the advisory lock has at most one holder, a portal move.
TypeOK ==
    /\ status \in [Bookings -> Status]
    /\ start \in [Bookings -> Times]
    /\ cleaner \in [Cleaners -> CleanerStatus]
    /\ assignments \in SUBSET Row
    /\ nextRow \in 0..MaxRows
    /\ now \in Times
    /\ bizLock \in SUBSET Requests
    /\ req \in [Requests -> Work \cup {Idle}]
    /\ crashes \in 0..MaxCrashes
    /\ overlap \in [Bookings -> SUBSET Requests]
    /\ \A a \in assignments : a.id < nextRow
    /\ \A a, o \in assignments : a.id = o.id => a = o
    /\ \A r, s \in bizLock : r = s
    /\ \A r \in bizLock : req[r].pc \in {"portalCheck", "portalWrite"}

Quiet == \A r \in Requests : req[r] = Idle

\* One cleaner is never on two overlapping jobs that are not cancelled: the
\* purpose of assertCleanerFree in every path that assigns or moves.
NoDoubleBooking == \A a, o \in assignments :
    a.cl = o.cl /\ a.bk # o.bk /\ "CANCELLED" \notin {status[a.bk], status[o.bk]}
        => ~Overlaps(start[a.bk], start[o.bk])

\* A cleaner who has checked in is never on a booking that still counts as not
\* begun, which could then be unassigned, moved by the customer or released.
CheckedInMeansStarted == \A a \in assignments : a.in => status[a.bk] \notin OpenJob

\* A job in progress has somebody who checked in to it.
InProgressHasWorker == \A b \in Bookings :
    status[b] = "IN_PROGRESS" => \E a \in assignments : a.bk = b /\ a.in

\* Between handlers, none of which died half way, ASSIGNED means that somebody
\* is assigned and an earlier status that nobody is: what spareCapacity counts
\* as waiting bookings and what the dispatch board shows are the same.
StaffingMatchesStatus == Quiet /\ crashes = 0 => \A b \in Bookings :
    /\ status[b] = "ASSIGNED" => RowsOf(b) # {}
    /\ status[b] \in {"REQUESTED", "CONFIRMED"} => RowsOf(b) = {}

\* Nobody stays clocked in on a completed job, or HOURLY pay is silently lost.
CompletedIsCheckedOut == Quiet /\ crashes = 0 => \A b \in Bookings :
    status[b] = "COMPLETED" => OnSite(b) = {}

\* Every handler that begins, ends or undoes a job keeps the check-ins and the
\* status in step: all of the three above.
CheckInsMatchStatus == CheckedInMeansStarted /\ InProgressHasWorker /\ CompletedIsCheckedOut

\* The business never has more ACTIVE cleaners than its plan allows.
ActiveWithinLimit == Cardinality({c \in Cleaners : cleaner[c] = "ACTIVE"}) <= MaxCleaners

\* A cleaner who is out of service gets an upcoming job only when an old job of
\* theirs is moved: leaving takes the upcoming jobs away and assigning refuses.
ReleasedGainsOnlyByMove == [][\A c \in Cleaners :
    cleaner'[c] # "ACTIVE" /\ Upcoming(c, now)' # {} /\ start' = start
        => cleaner[c] # "ACTIVE" /\ Upcoming(c, now) # {}]_vars

\* COMPLETED and CANCELLED are terminal.
TerminalStays == [][\A b \in Bookings : status[b] \in Terminal => status'[b] = status[b]]_vars

\* However many handlers interleave, an ended booking changes its status only
\* at the hands of a request that was already in flight when it ended: every
\* handler that starts later refuses it.
RevivedOnlyByOverlap == [][\A b \in Bookings :
    status[b] \in Terminal /\ status'[b] # status[b]
        => \E r \in overlap[b] : req'[r] # req[r]]_vars

\* The work w rests on having read booking b as open.
Holds(w, b) ==
    \/ w.pc \in {"assignCleaner", "assignFree", "assignCreate", "assignStatus",
                 "confirmWrite", "completeWrite", "cancelWrite", "unassignCount",
                 "unassignWrite", "startWrite", "moveCheck", "moveWrite", "portalLock",
                 "portalCheck", "portalWrite"} /\ w.bk = b
    \/ w.pc \in {"clockInWrite", "unassignDelete"} /\ w.row.bk = b
    \/ w.pc = "releaseCommit" /\ \E u \in w.upcoming : u.bk = b /\ u.seen = "ASSIGNED"

\* A handler that still takes an ended booking for open was there when it ended.
OverlapInv == \A r \in Requests, b \in Bookings :
    Holds(req[r], b) /\ status[b] \in Terminal => r \in overlap[b]

\* The assignment of a cleaner who has started is never taken away.
StartedRowKept == [][\A a \in assignments :
    a.in => \E n \in assignments' : n.id = a.id /\ n.in]_vars

\* Served one request at a time, the handlers implement the status graph of the
\* state machine's comment.
Lifecycle == INSTANCE BookingLifecycle WITH Bookings <- Bookings, status <- status
ImplementsLifecycle == Lifecycle!Spec
=============================================================================
