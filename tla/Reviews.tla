------------------------------ MODULE Reviews ------------------------------
(***************************************************************************)
(* reviews.service and customerPortal.leaveReview: the one review of a     *)
(* job, written by the customer, or by the office for one that came in     *)
(* some other way.  Every handler looks first and writes later; what keeps *)
(* a second review out is the unique index on the booking.                 *)
(***************************************************************************)
EXTENDS Jobs

CONSTANT Unnamed   \* no cleaner is named, or the job never had one

VARIABLES
    review,   \* the Review table, by booking
    writer    \* what each request is doing

reviewVars == <<review, writer>>

NoReview == [by |-> "nobody", cleaner |-> Unnamed]

ReviewsInit ==
    /\ review = [j \in Jobs |-> NoReview]
    /\ writer = [r \in Clerks |-> Idle]

WriterTo(r, work) == writer' = [writer EXCEPT ![r] = work]

\* The review is of the cleaner assigned last: any of the team.
LastAssigned(j) == LET team == {c \in Cleaners : job[j].split[c] # Out}
                   IN IF team = {} THEN {Unnamed} ELSE team

\* leaveReview: the customer's own booking, completed and not yet reviewed.
LeaveReview(r, j) ==
    /\ writer[r] = Idle
    /\ job[j].status = "COMPLETED" /\ review[j] = NoReview
    /\ \E c \in LastAssigned(j) : WriterTo(r, [pc |-> "create", on |-> j, by |-> "customer", cleaner |-> c])
    /\ UNCHANGED <<jobVars, review>>

\* createReview: any booking of the business; the cleaner is the one named, if
\* one is named.
CreateReview(r, j, named) ==
    /\ writer[r] = Idle
    /\ \E c \in IF named = Unnamed THEN LastAssigned(j) ELSE {named} :
          WriterTo(r, [pc |-> "create", on |-> j, by |-> "office", cleaner |-> c])
    /\ UNCHANGED <<jobVars, review>>

\* The insert, which the unique index refuses when there is a review.
InsertReview(r) ==
    /\ writer[r].pc = "create"
    /\ LET w == writer[r]
       IN review' = IF review[w.on] = NoReview
                    THEN [review EXCEPT ![w.on] = [by |-> w.by, cleaner |-> w.cleaner]]
                    ELSE review
    /\ WriterTo(r, Idle) /\ UNCHANGED jobVars

\* deleteReview: found, then deleted by its id; one deleted meanwhile, or made
\* anew since, is not.
FindReview(r, j) ==
    /\ writer[r] = Idle /\ review[j] # NoReview
    /\ WriterTo(r, [pc |-> "delete", on |-> j, found |-> review[j]])
    /\ UNCHANGED <<jobVars, review>>

DeleteReview(r) ==
    /\ writer[r].pc = "delete"
    /\ \/ review[writer[r].on] = writer[r].found
          /\ review' = [review EXCEPT ![writer[r].on] = NoReview]
       \/ UNCHANGED review
    /\ WriterTo(r, Idle) /\ UNCHANGED jobVars

ReviewsNext ==
    \E r \in Clerks :
       \/ \E j \in Jobs : \/ LeaveReview(r, j) \/ FindReview(r, j)
                          \/ \E c \in Cleaners \cup {Unnamed} : CreateReview(r, j, c)
       \/ InsertReview(r) \/ DeleteReview(r)

-----------------------------------------------------------------------------

ReviewsTypeOK ==
    review \in [Jobs -> [by : {"nobody", "customer", "office"}, cleaner : Cleaners \cup {Unnamed}]]
=============================================================================
