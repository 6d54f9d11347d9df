------------------------------ MODULE Inventory ------------------------------
(***************************************************************************)
(* inventory.service: movements of one item between locations, and what is *)
(* used up on a job.  A movement reads the quantity of a row and writes    *)
(* back what it makes of it; the transaction around it is read committed,  *)
(* so that only the second write to a row waits for the first.             *)
(***************************************************************************)
EXTENDS Jobs, Functions

CONSTANTS Locations,
          Nowhere,       \* a location the request leaves out
          MaxQuantity,   \* bound: quantity of one movement
          MaxStock,      \* bound: what there is of the item at a location
          MaxUse         \* bound: what is charged to a job before the last usage

ASSUME InventoryAssumption == MaxQuantity \in Nat /\ MaxStock \in Nat /\ MaxUse \in Nat /\ Nowhere \notin Locations

VARIABLES
    stock,      \* the InventoryStock table
    recorded,   \* what the StockMovement table says was moved in and out
    used,       \* the JobInventoryUsage table, per job
    charged,    \* USAGE movements that name the job
    mover,      \* what each request is doing
    lost        \* history: a movement wrote over another's quantity

inventoryVars == <<stock, recorded, used, charged, mover, lost>>

\* In the place of a quantity, which is never negative.
NoRow == -99
Types == {"PURCHASE", "RETURN", "USAGE", "WRITE_OFF", "TRANSFER", "ADJUSTMENT"}
Movement == [type : Types, qty : 1..MaxQuantity, from : Locations \cup {Nowhere},
             to : Locations \cup {Nowhere}]

InventoryInit ==
    /\ stock = [l \in Locations |-> NoRow]
    /\ recorded = [l \in Locations |-> 0]
    /\ used = [j \in Jobs |-> 0]
    /\ charged = [j \in Jobs |-> 0]
    /\ mover = [r \in Clerks |-> Idle]
    /\ lost = FALSE

MoverTo(r, work) == mover' = [mover EXCEPT ![r] = work]

\* The rows a movement adjusts, in turn, each with its sign.
Adjustments(mv) ==
    CASE mv.type \in {"PURCHASE", "RETURN"} -> <<[at |-> mv.to, by |-> mv.qty]>>
      [] mv.type \in {"USAGE", "WRITE_OFF"} -> <<[at |-> mv.from, by |-> -mv.qty]>>
      [] mv.type = "TRANSFER"               -> <<[at |-> mv.from, by |-> -mv.qty],
                                                 [at |-> mv.to, by |-> mv.qty]>>
      [] mv.type = "ADJUSTMENT"             -> IF mv.to # Nowhere THEN <<[at |-> mv.to, by |-> mv.qty]>>
                                               ELSE <<[at |-> mv.from, by |-> -mv.qty]>>

OnHand(l) == IF stock[l] = NoRow THEN 0 ELSE stock[l]

\* A movement that leaves out a location it needs is refused.
Located(mv) == \A i \in DOMAIN Adjustments(mv) : Adjustments(mv)[i].at # Nowhere

\* The movement of the usage of a job ends with the row of the job.
Moving(mv, js) == [pc |-> "read", mv |-> mv, jobs |-> js, i |-> 1, have |-> 0, wrote |-> <<>>]
Usage(qty, l)  == [type |-> "USAGE", qty |-> qty, from |-> l, to |-> Nowhere]

\* Bound: what the movements add up to, and what is charged to the jobs.
InBounds == /\ \A l \in Locations : recorded[l] \in 0..MaxStock
            /\ \A j \in Jobs : charged[j] < MaxUse /\ used[j] < MaxUse

Move(r, mv) ==
    /\ mover[r] = Idle /\ Located(mv) /\ InBounds
    /\ MoverTo(r, Moving(mv, {}))
    /\ UNCHANGED <<jobVars, stock, recorded, used, charged, lost>>

\* recordJobUsage: a USAGE movement first, the row of the job after it.
Use(r, j, qty, l) ==
    /\ mover[r] = Idle /\ InBounds
    /\ MoverTo(r, Moving(Usage(qty, l), {j}))
    /\ UNCHANGED <<jobVars, stock, recorded, used, charged, lost>>

\* What the transaction sees: its own writes, then what is committed.
Mine(r, l) == {i \in DOMAIN mover[r].wrote : mover[r].wrote[i].at = l}
Seen(r, l) == IF Mine(r, l) = {} THEN stock[l] ELSE mover[r].wrote[Max(Mine(r, l))].qty
Adjust(r)  == Adjustments(mover[r].mv)[mover[r].i]
NewQty(r)  == (IF mover[r].have = NoRow THEN 0 ELSE mover[r].have) + Adjust(r).by

\* adjustStock reads the row.
ReadRow(r) ==
    /\ mover[r].pc = "read"
    /\ MoverTo(r, [mover[r] EXCEPT !.pc = "write", !.have = Seen(r, Adjust(r).at)])
    /\ UNCHANGED <<jobVars, stock, recorded, used, charged, lost>>

\* Another transaction has written the row and not ended.
WaitsFor(r) == {s \in Clerks \ {r} : "wrote" \in DOMAIN mover[s] /\ Mine(s, Adjust(r).at) # {}}

\* Not enough of the item, or a row made meanwhile: rolled back.
Refuse(r) ==
    /\ mover[r].pc = "write"
    /\ NewQty(r) < 0 \/ (mover[r].have = NoRow /\ Seen(r, Adjust(r).at) # NoRow)
    /\ MoverTo(r, Idle)
    /\ UNCHANGED <<jobVars, stock, recorded, used, charged, lost>>

CanWrite(r) ==
    /\ mover[r].pc = "write" /\ NewQty(r) \in 0..MaxStock /\ WaitsFor(r) = {}
    /\ mover[r].have = NoRow => Seen(r, Adjust(r).at) = NoRow

\* Mutant: the first half of a transfer is there at once.
WriteFirst_AtOnce(r) ==
    /\ CanWrite(r) /\ mover[r].i < Len(Adjustments(mover[r].mv))
    /\ stock' = [stock EXCEPT ![Adjust(r).at] = NewQty(r)]
    /\ MoverTo(r, [mover[r] EXCEPT !.pc = "read", !.i = @ + 1])
    /\ UNCHANGED <<jobVars, recorded, used, charged, lost>>

\* The first half of a transfer.
WriteFirst(r) ==
    /\ CanWrite(r) /\ mover[r].i < Len(Adjustments(mover[r].mv))
    /\ MoverTo(r, [mover[r] EXCEPT !.pc = "read", !.i = @ + 1,
                                   !.wrote = Append(@, [at |-> Adjust(r).at, base |-> mover[r].have,
                                                        qty |-> NewQty(r)])])
    /\ UNCHANGED <<jobVars, stock, recorded, used, charged, lost>>

\* The last write, the StockMovement row and the commit.
WriteLast(r) ==
    /\ CanWrite(r) /\ mover[r].i = Len(Adjustments(mover[r].mv))
    /\ LET mv   == mover[r].mv
           done == Append(mover[r].wrote, [at |-> Adjust(r).at, base |-> mover[r].have, qty |-> NewQty(r)])
           at(l) == {i \in DOMAIN done : done[i].at = l}
           by(l) == SumFunctionOnSet([i \in DOMAIN done |-> Adjustments(mv)[i].by], at(l))
       IN /\ stock' = [l \in Locations |-> IF at(l) = {} THEN stock[l] ELSE done[Max(at(l))].qty]
          /\ recorded' = [l \in Locations |-> recorded[l] + by(l)]
          /\ lost' = (lost \/ \E i \in DOMAIN done :
                               i = Min(at(done[i].at)) /\ done[i].base # stock[done[i].at])
          /\ charged' = [j \in Jobs |-> charged[j] + (IF j \in mover[r].jobs THEN mv.qty ELSE 0)]
          /\ MoverTo(r, IF mover[r].jobs = {} THEN Idle ELSE [mover[r] EXCEPT !.pc = "use", !.wrote = <<>>])
    /\ UNCHANGED <<jobVars, used>>

\* The row of the job, in a statement of its own.
RecordUse(r) ==
    /\ mover[r].pc = "use"
    /\ used' = [j \in Jobs |-> used[j] + (IF j \in mover[r].jobs THEN mover[r].mv.qty ELSE 0)]
    /\ MoverTo(r, Idle)
    /\ UNCHANGED <<jobVars, stock, recorded, charged, lost>>

\* The database ends one of two transfers that wait for each other.
Deadlocked(r) ==
    /\ mover[r].pc = "write"
    /\ \E s \in WaitsFor(r) : mover[s].pc = "write" /\ r \in WaitsFor(s)
    /\ MoverTo(r, Idle)
    /\ UNCHANGED <<jobVars, stock, recorded, used, charged, lost>>

MoverDies(r) ==
    /\ mover[r] # Idle /\ Fault
    /\ MoverTo(r, Idle)
    /\ UNCHANGED <<job, stock, recorded, used, charged, lost>>

InventoryNext ==
    \E r \in Clerks :
       \/ \E mv \in Movement : Move(r, mv)
       \/ \E j \in Jobs, q \in 1..MaxQuantity, l \in Locations : Use(r, j, q, l)
       \/ ReadRow(r) \/ Refuse(r) \/ WriteFirst(r) \/ WriteLast(r) \/ RecordUse(r)
       \/ Deadlocked(r) \/ MoverDies(r)

-----------------------------------------------------------------------------
(* Properties *)

InventoryTypeOK ==
    /\ stock \in [Locations -> {NoRow} \cup 0..MaxStock]
    /\ recorded \in [Locations -> Int]
    /\ used \in [Jobs -> Nat] /\ charged \in [Jobs -> Nat]
    /\ lost \in BOOLEAN

\* What createMovement says of itself: it keeps the stock in sync with the
\* movements.
StockInSync == \A l \in Locations : OnHand(l) = recorded[l]

\* A refusal, a crash or a deadlock half-way through a transfer leaves the
\* stock in sync with the movements, unless a movement has written over the
\* quantity of another.
InSyncUnlessLost == lost \/ StockInSync

\* Nothing is used up on a job that has not been taken out of the stock for
\* it, however the request ends.
UsageIsBacked == \A j \in Jobs : used[j] <= charged[j]

\* Movements and what is used up on jobs account for the stock.
StockHolds == InSyncUnlessLost /\ UsageIsBacked
=============================================================================
