---------------------------- MODULE Checklists -----------------------------
(***************************************************************************)
(* checklists.service: the list of a job, ticked by the team at work on it *)
(* and edited by the office.  The items are one JSON value: whoever ticks  *)
(* one reads them all and writes them all back.                            *)
(***************************************************************************)
EXTENDS Jobs

CONSTANTS Items,     \* ids of items
          MaxLists   \* bound: lists made for one job

ASSUME ChecklistsAssumption == MaxLists \in Nat

VARIABLES
    list,       \* the JobChecklist table, by booking
    ticker,     \* what each request is doing
    meant,      \* history: the ticks there would be, had no write undone another
    crossed,    \* history: lists written from a copy that was no longer true
    replaced    \* history: lists made or replaced since the last tick

checklistVars == <<list, ticker, meant, crossed, replaced>>

NoList == [id |-> 0, exists |-> FALSE, items |-> {}, done |-> {}, completed |-> FALSE]
Bodies == {b \in [items : SUBSET Items, done : SUBSET Items] : b.done \subseteq b.items}

ChecklistsInit ==
    /\ list = [j \in Jobs |-> NoList]
    /\ ticker = [r \in Clerks |-> Idle]
    /\ meant = [j \in Jobs |-> {}]
    /\ crossed = {} /\ replaced = {}

TickerTo(r, work) == ticker' = [ticker EXCEPT ![r] = work]
Ticks(r, p)       == ticker[r].pc = p

\* createChecklist: the second of a booking fails on the unique index.
CreateChecklist(r, j, body) ==
    /\ ticker[r] = Idle /\ ~list[j].exists /\ list[j].id < MaxLists
    /\ list' = [list EXCEPT ![j] = [id |-> @.id + 1, exists |-> TRUE, items |-> body.items, done |-> body.done, completed |-> FALSE]]
    /\ meant' = [meant EXCEPT ![j] = body.done]
    /\ replaced' = replaced \cup {j} /\ crossed' = crossed \ {j}
    /\ UNCHANGED <<jobVars, ticker>>

\* getChecklist, by the office or by a cleaner assigned to the job.
ReadChecklist(r, j, work) ==
    /\ ticker[r] = Idle /\ list[j].exists
    /\ TickerTo(r, [pc |-> work, on |-> j, copy |-> list[j]])
    /\ UNCHANGED <<jobVars, list, meant, crossed, replaced>>

\* The row that was read is still there.
There(r)      == list[ticker[r].on].exists /\ list[ticker[r].on].id = ticker[r].copy.id
Write(r, row) == list' = [list EXCEPT ![ticker[r].on] = row]
Ended(r)      == TickerTo(r, Idle) /\ UNCHANGED jobVars

\* updateChecklist: the items, and nothing else.
UpdateChecklist(r, body) ==
    /\ Ticks(r, "update") /\ There(r)
    /\ Write(r, [list[ticker[r].on] EXCEPT !.items = body.items, !.done = body.done])
    /\ meant' = [meant EXCEPT ![ticker[r].on] = body.done]
    /\ replaced' = replaced \cup {ticker[r].on} /\ crossed' = crossed \ {ticker[r].on}
    /\ Ended(r)

DeleteChecklist(r) ==
    /\ Ticks(r, "delete") /\ There(r)
    /\ Write(r, [NoList EXCEPT !.id = list[ticker[r].on].id])
    /\ meant' = [meant EXCEPT ![ticker[r].on] = {}]
    /\ UNCHANGED <<crossed, replaced>> /\ Ended(r)

\* Mutant: the list stays completed when an item is unticked.
CompletedBy_Once(copy, now) == copy.completed \/ now = copy.items

CompletedBy(copy, now) == now = copy.items

\* completeChecklistItem, done or not done: all the items are written back as
\* they were read, with the one changed.
CompleteItem(r, i, done) ==
    /\ Ticks(r, "tick") /\ There(r)
    /\ i \in ticker[r].copy.items
    /\ LET j    == ticker[r].on
           copy == ticker[r].copy
           With(ticks) == IF done THEN ticks \cup {i} ELSE ticks \ {i}
       IN /\ Write(r, [copy EXCEPT !.done = With(copy.done), !.completed = CompletedBy(copy, With(copy.done))])
          /\ meant' = [meant EXCEPT ![j] = With(@)]
          /\ crossed' = IF copy.done # list[j].done \/ copy.items # list[j].items
                        THEN crossed \cup {j} ELSE crossed
          /\ replaced' = replaced \ {j}
    /\ Ended(r)

\* The item is not on the list, or the list has gone.
TickRefused(r) ==
    /\ ticker[r] # Idle
    /\ ~There(r) \/ Ticks(r, "tick")
    /\ UNCHANGED <<list, meant, crossed, replaced>> /\ Ended(r)

ChecklistsNext ==
    \E r \in Clerks :
       \/ \E j \in Jobs : \/ \E b \in Bodies : CreateChecklist(r, j, b)
                          \/ \E w \in {"update", "delete", "tick"} : ReadChecklist(r, j, w)
       \/ \E b \in Bodies : UpdateChecklist(r, b)
       \/ \E i \in Items, d \in BOOLEAN : CompleteItem(r, i, d)
       \/ DeleteChecklist(r) \/ TickRefused(r)

-----------------------------------------------------------------------------
(* Properties *)

ChecklistsTypeOK ==
    /\ list \in [Jobs -> [id : 0..MaxLists, exists : BOOLEAN, items : SUBSET Items, done : SUBSET Items, completed : BOOLEAN]]
    /\ meant \in [Jobs -> SUBSET Items]
    /\ crossed \subseteq Jobs /\ replaced \subseteq Jobs

\* A team ticks one list from several telephones.  A tick is only ever undone
\* by a request that had read the list before it was set, and the list is
\* completed exactly when everything on it is done, unless it was replaced
\* since the last tick, which leaves completedAt as it was.
ChecklistTells ==
    \A j \in Jobs : list[j].exists =>
        /\ j \in crossed \/ list[j].done = meant[j]
        /\ j \in replaced \/ (list[j].completed <=> list[j].done = list[j].items)
=============================================================================
