------------------------------ MODULE Platform ------------------------------
(***************************************************************************)
(* What a business stands on: the accounts of its people, the codes they   *)
(* are sent, its own row, and its subscription.  The four share no table   *)
(* but the business, and a step is a step of one of them.                  *)
(***************************************************************************)
EXTENDS Accounts, Codes, Businesses, Subscriptions

vars == <<accountVars, codeVars, bizVars, subVars>>

Init == AccountsInit /\ CodesInit /\ BizInit /\ SubsInit

AccountsStep      == AccountsNext /\ UNCHANGED <<codeVars, bizVars, subVars>>
CodesStep         == CodesNext /\ UNCHANGED <<accountVars, bizVars, subVars>>
BusinessesStep    == BizNext /\ UNCHANGED <<accountVars, codeVars, subVars>>
SubscriptionsStep == SubsNext /\ UNCHANGED <<accountVars, codeVars, bizVars>>

Next == AccountsStep \/ CodesStep \/ BusinessesStep \/ SubscriptionsStep

Spec == Init /\ [][Next]_vars

-----------------------------------------------------------------------------

\* The tables of the platform stay in their types.
TypeOK == AccountsTypeOK /\ CodesTypeOK /\ BizTypeOK /\ SubsTypeOK
=============================================================================
