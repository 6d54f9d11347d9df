---------------------------- MODULE MCBackOffice ----------------------------
(***************************************************************************)
(* BackOffice on a small instance.  A behaviour looks at one desk: what a  *)
(* team earns, how earnings are paid out, the invoices, the inventory, or  *)
(* one of those that care for the customers.                               *)
(***************************************************************************)
EXTENDS BackOffice, TLC

VARIABLE desk

Symmetry == Permutations(Clerks) \cup Permutations(Addresses)

Percent == [type |-> "PERCENT", value |-> 50]
Hourly  == [type |-> "HOURLY", value |-> 2]
Flat    == [type |-> "FLAT_PER_JOB", value |-> 3]
SomeRates == {Percent, Hourly, Flat}

First == CHOOSE j \in Jobs : TRUE
Lead  == CHOOSE c \in Cleaners : TRUE
Worked == CHOOSE t \in TicketIds : TRUE
SomeAssigned ==
    {[split |-> s, hours |-> [c \in Cleaners |-> IF c = Lead THEN 1 ELSE 0]] :
       s \in [Cleaners -> {Out, Even, 30, 70, 100}]}

\* RETURN goes as PURCHASE, WRITE_OFF as USAGE; no movement names a location
\* it makes no use of.
Plain(mv) == /\ mv.type \in {"PURCHASE", "USAGE", "TRANSFER", "ADJUSTMENT"}
             /\ mv.type \in {"PURCHASE"} => mv.from = Nowhere
             /\ mv.type = "USAGE" => mv.to = Nowhere
             /\ mv.type = "ADJUSTMENT" => Nowhere \in {mv.from, mv.to}

\* Where the team and the hours do not matter.
Ordinary == \A j \in Jobs : job[j].split = [c \in Cleaners |-> Even]
Unbooked == \A j \in Jobs : site[j] = "none"

OnDesk ==
    /\ desk \notin {"team", "payouts"} => Ordinary
    /\ desk # "customers" => Unbooked /\ schedule = "none" /\ ~contact
    /\ desk = "team" =>
         /\ \A r \in Clerks : clerk[r].pc \in {"idle", "earn"}
         /\ \A j \in Jobs : job[j].status # "CANCELLED" /\ ~job[j].paid
         /\ \A j \in Jobs \ {First} : job[j].split = [c \in Cleaners |-> Out]
    /\ desk = "payouts" =>
         /\ \A j \in Jobs \ {First} : ~job[j].paid
         /\ \A c \in Cleaners : comp[c] = IF c = Lead THEN Flat ELSE NoRate
         /\ \A j \in Jobs : job[j].status # "CANCELLED" /\ job[j].split = [c \in Cleaners |-> IF c = Lead THEN Even ELSE Out]
    /\ desk = "stock" =>
         /\ \A r \in Clerks : mover[r] = Idle \/ Plain(mover[r].mv)
         /\ \A j \in Jobs \ {First} : charged[j] = 0 /\ used[j] = 0
    /\ desk = "customers" => contact # person.erased /\ \A j \in Jobs : ~job[j].paid /\ (j # First => job[j].status = "OPEN")
    /\ desk = "tickets" => \A r \in Clerks : "on" \in DOMAIN helper[r] => helper[r].on = Worked
    /\ desk = "reviews" => /\ \A c \in Cleaners : comp[c] = NoRate
                           /\ \A j \in Jobs \ {First} : review[j] = NoReview /\ job[j].status = "OPEN"
    /\ desk = "checklists" => \A j \in Jobs \ {First} : list[j] = NoList

MCInit ==
    /\ desk \in {"team", "payouts", "invoices", "stock", "customers", "tickets", "threads", "checklists",
                "reviews", "inquiries", "files"}
    /\ Init /\ OnDesk
    /\ desk = "customers" => \A j \in Jobs : site[j] = IF j = First THEN "known" ELSE "none"
    /\ desk \notin {"team", "payouts"} => comp = [c \in Cleaners |-> NoRate]

Here(desks) == desk \in desks /\ UNCHANGED desk

MCNext ==
    \/ Here({"team", "payouts"})                          /\ PayrollStep              /\ OnDesk'
    \/ Here({"team", "payouts", "invoices", "customers"}) /\ Outside                  /\ OnDesk'
    \/ Here({"invoices"})                                 /\ InvoicesStep             /\ OnDesk'
    \/ Here({"stock"})                                    /\ InventoryStep            /\ OnDesk'
    \/ Here({"customers"})                                /\ CareStep(CustomersStep)  /\ OnDesk'
    \/ Here({"tickets"})                                  /\ CareStep(TicketsStep)    /\ OnDesk'
    \/ Here({"threads"})                                  /\ CareStep(ThreadsStep)    /\ OnDesk'
    \/ Here({"checklists"})                               /\ CareStep(ChecklistsStep) /\ OnDesk'
    \/ Here({"reviews"})                                  /\ CareStep(ReviewsStep)    /\ OnDesk'
    \/ Here({"reviews"})                                  /\ PayrollStep              /\ OnDesk'
    \/ Here({"inquiries"})                                /\ CareStep(InquiriesStep)  /\ OnDesk'
    \/ Here({"files"})                                    /\ CareStep(FilesStep)      /\ OnDesk'

MCSpec == MCInit /\ [][MCNext]_<<vars, desk>>
=============================================================================
