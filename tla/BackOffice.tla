----------------------------- MODULE BackOffice -----------------------------
(***************************************************************************)
(* The back office as a whole: payroll, invoices, inventory and the care   *)
(* of customers, at work on the same jobs.                                 *)
(***************************************************************************)
EXTENDS Payroll, Invoices, Inventory, CustomerCare

CONSTANT Assigned   \* the jobs there may be: their assignments and hours

ASSUME AssignedAssumption ==
    Assigned \subseteq [split : [Cleaners -> {Out, Even} \cup 0..100], hours : [Cleaners -> Nat]]

vars == <<jobVars, payrollVars, invoiceVars, inventoryVars, careVars>>

Init ==
    /\ job \in [Jobs -> {[status |-> "OPEN", paid |-> FALSE, split |-> a.split, hours |-> a.hours] :
                           a \in Assigned}]
    /\ faults = 0
    /\ PayrollInit /\ InvoicesInit /\ InventoryInit /\ CareInit

PayrollStep    == PayrollNext    /\ UNCHANGED <<invoiceVars, inventoryVars, careVars>>
InvoicesStep   == InvoicesNext   /\ UNCHANGED <<payrollVars, inventoryVars, careVars>>
InventoryStep  == InventoryNext  /\ UNCHANGED <<payrollVars, invoiceVars, careVars>>
CareStep(next) == next           /\ UNCHANGED <<payrollVars, invoiceVars, inventoryVars>>

\* The customer pays, or cancels.
Outside == /\ \E j \in Jobs : JobPaid(j) \/ JobCancelled(j)
           /\ UNCHANGED <<payrollVars, invoiceVars, inventoryVars, careVars>>

Next == PayrollStep \/ InvoicesStep \/ InventoryStep \/ CareStep(CareNext) \/ Outside

Spec == Init /\ [][Next]_vars

-----------------------------------------------------------------------------

\* The tables of the back office stay in their types.
TypeOK ==
    /\ job \in [Jobs -> JobRow] /\ faults \in 0..MaxFaults
    /\ PayrollTypeOK /\ InvoicesTypeOK /\ InventoryTypeOK /\ CareTypeOK
=============================================================================
