--------------------------- MODULE BackOfficeProofs ---------------------------
(***************************************************************************)
(* The back office, for any number of jobs, clerks and rows.  Its services *)
(* share the jobs and nothing else, so each is proved about alone, from    *)
(* its own initial states and its own steps, and the last lemma of each    *)
(* part brings the result to BackOffice's Spec.                            *)
(***************************************************************************)
EXTENDS BackOffice, SumProofs, SequenceTheorems

-----------------------------------------------------------------------------
(* Invoices: numbers without a gap *)

InvoicesSpec == InvoicesInit /\ [][InvoicesNext]_invoiceVars

\* The numbers given out are those up to the counter, each to one job.
NumbersGiven ==
    /\ counter \in Nat /\ invoice = [j \in Jobs |-> invoice[j]]
    /\ \A j \in Jobs : invoice[j] = NoInvoice \/ invoice[j].number \in 1..counter
    /\ \A n \in 1..counter : \E j \in Jobs : invoice[j].number = n
    /\ \A i, j \in Jobs : invoice[i].number = invoice[j].number /\ invoice[i] # NoInvoice => i = j

\* Who has the row of the counter has the next number, and is alone with it.
NumbersHeld ==
    /\ issuer = [r \in Clerks |-> issuer[r]]
    /\ \A r \in Clerks : issuer[r].pc \in {"number", "insert"} => issuer[r].job \in Jobs
    /\ \A r \in Clerks : issuer[r].pc = "insert" => issuer[r].number = counter + 1
    /\ \A r, s \in Clerks : issuer[r].pc = "insert" /\ issuer[s].pc = "insert" => r = s

InvoicesInv == NumbersGiven /\ NumbersHeld

LEMMA InvoicesStepHolds == InvoicesInv /\ [InvoicesNext]_invoiceVars => InvoicesInv'
<1> SUFFICES ASSUME InvoicesInv, [InvoicesNext]_invoiceVars PROVE InvoicesInv'
  OBVIOUS
<1>1. CASE UNCHANGED invoiceVars
  BY <1>1 DEF InvoicesInv, NumbersGiven, NumbersHeld, invoiceVars
<1>2. ASSUME NEW r \in Clerks, NEW j \in Jobs, Issue(r, j)
      PROVE  InvoicesInv'
  BY <1>2 DEF InvoicesInv, NumbersGiven, NumbersHeld, Issue, IssuerTo
<1>3. ASSUME NEW r \in Clerks, TakeNumber(r)
      PROVE  InvoicesInv'
  BY <1>3 DEF InvoicesInv, NumbersGiven, NumbersHeld, TakeNumber, IssuerTo
<1>4. ASSUME NEW r \in Clerks, IssuerDies(r)
      PROVE  InvoicesInv'
  BY <1>4 DEF InvoicesInv, NumbersGiven, NumbersHeld, IssuerDies, IssuerTo, Idle
<1>5. ASSUME NEW r \in Clerks, InsertInvoice(r)
      PROVE  InvoicesInv'
  <2>1. PICK j \in Jobs : j = issuer[r].job
    BY <1>5 DEF InvoicesInv, NumbersHeld, InsertInvoice
  <2>2. PICK n \in Nat : n = issuer[r].number /\ n = counter + 1
    BY <1>5 DEF InvoicesInv, NumbersGiven, NumbersHeld, InsertInvoice
  <2>3. \A s \in Clerks : issuer'[s] = IF s = r THEN Idle ELSE issuer[s]
    BY <1>5 DEF InvoicesInv, NumbersHeld, InsertInvoice, IssuerTo
  <2>4. NumbersHeld'
    BY <1>5, <2>3 DEF InvoicesInv, NumbersHeld, InsertInvoice, IssuerTo, Idle
  <2>5. CASE invoice[j] # NoInvoice
    BY <1>5, <2>1, <2>4, <2>5 DEF InvoicesInv, NumbersGiven, InsertInvoice
  <2>6. CASE invoice[j] = NoInvoice
    <3>1. PICK w : w = [number |-> n, paid |-> issuer[r].paid]
      OBVIOUS
    <3>2. w.number = n /\ counter' = n /\ invoice' = [invoice EXCEPT ![j] = w]
      BY <1>5, <2>1, <2>2, <2>6, <3>1 DEF InsertInvoice
    <3>3. \A i \in Jobs : invoice'[i] = IF i = j THEN w ELSE invoice[i]
      BY <3>2 DEF InvoicesInv, NumbersGiven
    <3>4. w # NoInvoice /\ NoInvoice.number = 0
      BY <2>2, <3>2 DEF NoInvoice, InvoicesInv, NumbersGiven
    <3>5. counter' \in Nat /\ invoice' = [i \in Jobs |-> invoice'[i]]
      BY <2>2, <3>2 DEF InvoicesInv, NumbersGiven
    <3>6. \A i \in Jobs : invoice'[i] = NoInvoice \/ invoice'[i].number \in 1..counter'
      BY <2>2, <3>2, <3>3 DEF InvoicesInv, NumbersGiven
    <3>7. ASSUME NEW k \in 1..counter'
          PROVE  \E i \in Jobs : invoice'[i].number = k
      <4>1. CASE k = n
        BY <3>2, <3>3, <4>1
      <4>2. CASE k # n
        <5>1. k \in 1..counter
          BY <2>2, <3>2, <4>2 DEF InvoicesInv, NumbersGiven
        <5>2. PICK i \in Jobs : invoice[i].number = k
          BY <5>1 DEF InvoicesInv, NumbersGiven
        <5>3. i # j
          BY <2>6, <3>4, <5>1, <5>2
        <5> QED BY <3>3, <5>2, <5>3
      <4> QED BY <4>1, <4>2
    <3>8. \A i \in Jobs : i # j => invoice[i].number # n
      BY <2>2, <3>4 DEF InvoicesInv, NumbersGiven
    <3>9. \A i, k \in Jobs : invoice'[i].number = invoice'[k].number /\ invoice'[i] # NoInvoice => i = k
      BY <3>2, <3>3, <3>8 DEF InvoicesInv, NumbersGiven
    <3> QED BY <2>4, <3>5, <3>6, <3>7, <3>9 DEF InvoicesInv, NumbersGiven
  <2> QED BY <2>5, <2>6
<1> QED BY <1>1, <1>2, <1>3, <1>4, <1>5 DEF InvoicesNext

\* The invoices and their numbers correspond one to one.
LEMMA GivenIsConsecutive == NumbersGiven => Consecutive
<1> SUFFICES ASSUME NumbersGiven PROVE Consecutive
  OBVIOUS
<1>1. NoInvoice.number = 0
  BY DEF NoInvoice
<1>2. Numbers = 1..counter
  BY <1>1 DEF Numbers, NumbersGiven
<1>3. PICK S : S = {j \in Jobs : invoice[j] # NoInvoice}
  OBVIOUS
<1>4. PICK f : f = [n \in 1..counter |-> CHOOSE j \in Jobs : invoice[j].number = n]
  OBVIOUS
<1>5. \A n \in 1..counter : f[n] \in Jobs /\ invoice[f[n]].number = n
  BY <1>4 DEF NumbersGiven
<1>6. \A n \in 1..counter : f[n] \in S
  BY <1>1, <1>3, <1>5
<1>7. f \in [1..counter -> S]
  BY <1>4, <1>6
<1>8. \A j \in S : invoice[j].number \in 1..counter /\ f[invoice[j].number] = j
  BY <1>3, <1>5 DEF NumbersGiven
<1>9. f \in Bijection(1..counter, S)
  BY <1>5, <1>7, <1>8 DEF Bijection, Injection, IsInjective, Surjection
<1>10. IsFiniteSet(1..counter)
  BY FS_Interval DEF NumbersGiven
<1>11. Cardinality(S) = Cardinality(1..counter)
  BY <1>9, <1>10, FS_Bijection DEF ExistsBijection
<1> QED BY <1>2, <1>3, <1>11 DEF Consecutive

LEMMA InvoicesHold == InvoicesSpec => []InvoicesInv
<1>1. InvoicesInit => InvoicesInv
  BY DEF InvoicesInit, InvoicesInv, NumbersGiven, NumbersHeld, NoInvoice, Idle
<1> QED BY <1>1, InvoicesStepHolds, PTL DEF InvoicesSpec

LEMMA BackOfficeInvoices == Spec => InvoicesSpec
<1>1. Init => InvoicesInit
  BY DEF Init
<1>2. [Next]_vars => [InvoicesNext]_invoiceVars
  BY DEF Next, PayrollStep, InvoicesStep, InventoryStep, CareStep, Outside, vars, invoiceVars
<1> QED BY <1>1, <1>2, PTL DEF Spec, InvoicesSpec

\* However many requests run and die at once, the invoices are numbered without
\* a gap and no number is used twice (invoices.service.js:42-136).
THEOREM InvoicesConsecutive == Spec => []Consecutive
<1>1. InvoicesInv => Consecutive
  BY GivenIsConsecutive DEF InvoicesInv
<1> QED BY <1>1, BackOfficeInvoices, InvoicesHold, PTL

-----------------------------------------------------------------------------
(* Conversations *)

ThreadsSpec == ThreadsInit /\ [][ThreadsNext]_threadVars

Creates(r, s) == talker[r].pc = "create" /\ talker[r].on = s

Talk ==
    /\ threads \in Seq(Subjects)
    /\ message \in Seq([in : DOMAIN threads, by : Users, read : BOOLEAN])
    /\ talker = [r \in Clerks |-> talker[r]]
    /\ \A r \in Clerks : talker[r].pc = "create" => talker[r].on \in Subjects

\* Two who are about to open the same conversation are known to be, and so is
\* one who is about to open it a second time.
OpenedOnce ==
    /\ \A r, q \in Clerks : r # q /\ talker[r].pc = "create" /\ Creates(q, talker[r].on) => talker[r].on \in sideways
    /\ \A r \in Clerks : talker[r].pc = "create" /\ Known(talker[r].on) # {} => talker[r].on \in sideways
    /\ \A t, u \in DOMAIN threads : t # u /\ threads[t] = threads[u] => threads[t] \in sideways

Spoken == \A m \in DOMAIN message : message[m].by \in {Office, threads[message[m].in]}

ThreadsInv == Talk /\ OpenedOnce /\ Spoken

LEMMA ThreadsStepHolds == ThreadsInv /\ [ThreadsNext]_threadVars => ThreadsInv'
<1> SUFFICES ASSUME ThreadsInv, [ThreadsNext]_threadVars PROVE ThreadsInv'
  OBVIOUS
<1>0. /\ DOMAIN threads = 1..Len(threads) /\ Len(threads) \in Nat
      /\ DOMAIN message = 1..Len(message) /\ Len(message) \in Nat
  BY LenProperties DEF ThreadsInv, Talk
<1>1. CASE UNCHANGED threadVars
  BY <1>1 DEF ThreadsInv, Talk, OpenedOnce, Spoken, Creates, Known, threadVars
<1>2. ASSUME NEW r \in Clerks, NEW who \in Users, NEW s \in Subjects, OpenThread(r, who, s)
      PROVE  ThreadsInv'
  <2>1. PICK on \in Subjects : on = About(who, s)
    BY <1>2 DEF OpenThread
  <2>2. PICK w : w = [pc |-> "create", on |-> on]
    OBVIOUS
  <2>3. /\ w.pc = "create" /\ w.on = on /\ Known(on) = {} /\ UNCHANGED <<threads, message>>
        /\ \A q \in Clerks : talker'[q] = IF q = r THEN w ELSE talker[q]
        /\ talker' = [q \in Clerks |-> talker'[q]]
    BY <1>2, <2>1, <2>2 DEF OpenThread, TalkerTo, ThreadsInv, Talk
  <2>4. \A q \in Clerks : Creates(q, on) => on \in sideways'
    BY <1>2, <2>1 DEF OpenThread, Creates
  <2>5. sideways \subseteq sideways'
    BY <1>2 DEF OpenThread
  <2>6. Talk' /\ Spoken'
    BY <2>3 DEF ThreadsInv, Talk, Spoken
  <2>7. talker[r].pc # "create"
    BY <1>2 DEF OpenThread, Idle
  <2>8. OpenedOnce'
    BY <2>3, <2>4, <2>5, <2>7 DEF ThreadsInv, OpenedOnce, Creates, Known
  <2> QED BY <2>6, <2>8 DEF ThreadsInv
<1>3. ASSUME NEW r \in Clerks, CreateThread(r)
      PROVE  ThreadsInv'
  <2>1. PICK on \in Subjects : on = talker[r].on
    BY <1>3 DEF CreateThread, ThreadsInv, Talk
  <2>2. PICK n \in Nat : n = Len(threads)
    BY <1>0
  <2>3. /\ threads' \in Seq(Subjects) /\ Len(threads') = n + 1
        /\ \A t \in 1..n : threads'[t] = threads[t]
        /\ threads'[n + 1] = on
    BY <1>3, <2>1, <2>2, AppendProperties DEF CreateThread, ThreadsInv, Talk
  <2>4. DOMAIN threads = 1..n /\ DOMAIN threads' = 1..(n + 1)
    BY <1>0, <2>2, <2>3, LenProperties
  <2>5. /\ \A q \in Clerks : talker'[q] = IF q = r THEN Idle ELSE talker[q]
        /\ talker' = [q \in Clerks |-> talker'[q]] /\ UNCHANGED <<message, sideways>>
    BY <1>3 DEF CreateThread, TalkerTo, ThreadsInv, Talk
  <2>6. message \in Seq([in : DOMAIN threads', by : Users, read : BOOLEAN])
    <3>1. \A m \in 1..Len(message) : message[m] \in [in : DOMAIN threads, by : Users, read : BOOLEAN]
      BY <1>0, ElementOfSeq DEF ThreadsInv, Talk
    <3>2. DOMAIN threads \subseteq DOMAIN threads'
      BY <2>4
    <3>3. \A m \in 1..Len(message) : message[m] \in [in : DOMAIN threads', by : Users, read : BOOLEAN]
      BY <3>1, <3>2
    <3>4. message \in [1..Len(message) -> [in : DOMAIN threads', by : Users, read : BOOLEAN]]
      BY <1>0, <3>3, SeqDef DEF ThreadsInv, Talk
    <3> QED BY <1>0, <3>4, SeqDef
  <2>7. Talk'
    BY <2>3, <2>5, <2>6 DEF ThreadsInv, Talk, Idle
  <2>8. Spoken'
    <3> SUFFICES ASSUME NEW m \in DOMAIN message' PROVE message'[m].by \in {Office, threads'[message'[m].in]}
      BY DEF Spoken
    <3>1. message'[m] = message[m] /\ m \in DOMAIN message /\ message[m].in \in 1..n
      <4>1. message \in [1..Len(message) -> [in : DOMAIN threads, by : Users, read : BOOLEAN]]
        BY LenProperties DEF ThreadsInv, Talk
      <4>2. message' = message /\ m \in 1..Len(message)
        BY <1>0, <2>5
      <4>3. message[m] \in [in : DOMAIN threads, by : Users, read : BOOLEAN]
        BY <4>1, <4>2
      <4> QED BY <1>0, <2>4, <4>2, <4>3
    <3>2. message[m].by \in {Office, threads[message[m].in]}
      BY <3>1 DEF ThreadsInv, Spoken
    <3>3. threads'[message[m].in] = threads[message[m].in]
      BY <2>3, <3>1
    <3> QED BY <3>1, <3>2, <3>3
  <2>10. \A q \in Clerks \ {r} : Creates(q, on) => on \in sideways
    BY <1>3, <2>1 DEF ThreadsInv, OpenedOnce, CreateThread
  <2>11. \A q \in Clerks : talker'[q].pc = "create" => q # r /\ talker[q].pc = "create" /\ talker'[q].on = talker[q].on
    BY <2>5 DEF Idle
  <2>12. ASSUME NEW q \in Clerks, NEW p \in Clerks, q # p, talker'[q].pc = "create", Creates(p, talker[q].on)'
         PROVE  talker'[q].on \in sideways'
    <3>1. talker[q].pc = "create" /\ talker'[q].on = talker[q].on
      BY <2>11, <2>12
    <3>2. talker'[p].pc = "create" /\ talker'[p].on = talker'[q].on
      BY <2>12 DEF Creates
    <3>3. talker[p].pc = "create" /\ talker[p].on = talker[q].on
      BY <2>11, <3>1, <3>2
    <3>4. talker[q].on \in sideways
      BY <2>12, <3>1, <3>3 DEF ThreadsInv, OpenedOnce, Creates
    <3> QED BY <2>5, <3>1, <3>4
  <2>13. ASSUME NEW q \in Clerks, talker'[q].pc = "create", Known(talker[q].on)' # {}
         PROVE  talker'[q].on \in sideways'
    <3>1. talker[q].pc = "create" /\ talker'[q].on = talker[q].on /\ q # r
      BY <2>11, <2>13
    <3>2. CASE talker[q].on = on
      BY <2>5, <2>10, <3>1, <3>2 DEF Creates
    <3>3. CASE talker[q].on # on
      <4>1. Known(talker[q].on) # {}
        BY <2>3, <2>4, <2>13, <3>1, <3>3 DEF Known
      <4>2. talker[q].on \in sideways
        BY <3>1, <4>1 DEF ThreadsInv, OpenedOnce
      <4> QED BY <2>5, <3>1, <4>2
    <3> QED BY <3>2, <3>3
  <2>14. Known(on) # {} => on \in sideways
    BY <1>3, <2>1 DEF ThreadsInv, OpenedOnce, CreateThread
  <2>15. ASSUME NEW t \in DOMAIN threads', NEW u \in DOMAIN threads', t # u, threads'[t] = threads'[u]
         PROVE  threads'[t] \in sideways'
    <3>1. CASE t \in 1..n /\ u \in 1..n
      BY <2>3, <2>4, <2>5, <2>15, <3>1 DEF ThreadsInv, OpenedOnce
    <3>2. CASE t = n + 1 \/ u = n + 1
      <4>1. PICK v \in 1..n : threads[v] = on
        BY <2>3, <2>4, <2>15, <3>2
      <4>2. threads'[t] = on /\ v \in Known(on)
        BY <2>3, <2>4, <2>15, <3>2, <4>1 DEF Known
      <4> QED BY <2>5, <2>14, <4>2
    <3> QED BY <2>4, <3>1, <3>2
  <2>16. OpenedOnce'
    BY <2>12, <2>13, <2>15 DEF OpenedOnce
  <2> QED BY <2>7, <2>8, <2>16 DEF ThreadsInv
<1>4. ASSUME NEW r \in Clerks, NEW who \in Users, NEW t \in DOMAIN threads, PostMessage(r, who, t)
      PROVE  ThreadsInv'
  <2>1. PICK w : w = [in |-> t, by |-> who, read |-> FALSE]
    OBVIOUS
  <2>2. w \in [in : DOMAIN threads, by : Users, read : BOOLEAN] /\ w.in = t /\ w.by = who
    BY <2>1
  <2>3. /\ message' \in Seq([in : DOMAIN threads, by : Users, read : BOOLEAN]) /\ Len(message') = Len(message) + 1
        /\ \A m \in 1..Len(message) : message'[m] = message[m]
        /\ message'[Len(message) + 1] = w
    BY <1>4, <2>1, <2>2, AppendProperties DEF PostMessage, ThreadsInv, Talk
  <2>4. DOMAIN message' = 1..(Len(message) + 1)
    BY <1>0, <2>3, LenProperties
  <2>5. UNCHANGED <<threads, talker, sideways>> /\ who \in {Office, threads[t]}
    BY <1>4 DEF PostMessage, MayPost, Belongs
  <2>6. Talk' /\ OpenedOnce'
    BY <2>3, <2>5 DEF ThreadsInv, Talk, OpenedOnce, Creates, Known
  <2>7. ASSUME NEW m \in DOMAIN message'
        PROVE  message'[m].by \in {Office, threads'[message'[m].in]}
    <3>1. CASE m = Len(message) + 1
      BY <2>2, <2>3, <2>5, <3>1
    <3>2. CASE m \in 1..Len(message)
      BY <1>0, <2>3, <2>5, <3>2 DEF ThreadsInv, Spoken
    <3> QED BY <1>0, <2>4, <3>1, <3>2
  <2> QED BY <2>6, <2>7 DEF ThreadsInv, Spoken
<1>5. ASSUME NEW r \in Clerks, NEW who \in Users, NEW m \in DOMAIN message, MarkRead(r, who, m)
      PROVE  ThreadsInv'
  <2> DEFINE Posts == [in : DOMAIN threads, by : Users, read : BOOLEAN]
  <2>1. message \in [1..Len(message) -> Posts]
    BY LenProperties DEF ThreadsInv, Talk
  <2>2. PICK w \in Posts : w = message[m]
    BY <1>0, <2>1
  <2>3. PICK v : v = [w EXCEPT !.read = TRUE]
    OBVIOUS
  <2>4. v \in Posts /\ v.in = w.in /\ v.by = w.by
    BY <2>2, <2>3
  <2>5. message' = [message EXCEPT ![m] = v] /\ UNCHANGED <<threads, talker, sideways>>
    BY <1>5, <2>2, <2>3 DEF MarkRead
  <2>6. message' \in [1..Len(message) -> Posts]
    BY <2>1, <2>4, <2>5
  <2>7. message' \in Seq(Posts) /\ DOMAIN message' = DOMAIN message
    <3>1. PICK n \in Nat : n = Len(message)
      BY <1>0
    <3>2. message' \in [1..n -> Posts]
      BY <2>6, <3>1
    <3> HIDE DEF Posts
    <3>3. message' \in Seq(Posts)
      BY <3>2, SeqDef
    <3> QED BY <1>0, <3>1, <3>2, <3>3
  <2>8. \A k \in DOMAIN message : message'[k].in = message[k].in /\ message'[k].by = message[k].by
    BY <1>0, <2>1, <2>2, <2>4, <2>5
  <2>9. Talk' /\ OpenedOnce'
    BY <2>5, <2>7 DEF ThreadsInv, Talk, OpenedOnce, Creates, Known
  <2>10. Spoken'
    BY <2>5, <2>7, <2>8 DEF ThreadsInv, Spoken
  <2> QED BY <2>9, <2>10 DEF ThreadsInv
<1>6. ASSUME NEW r \in Clerks, TalkerDies(r)
      PROVE  ThreadsInv'
  <2>1. /\ \A q \in Clerks : talker'[q] = IF q = r THEN Idle ELSE talker[q]
        /\ talker' = [q \in Clerks |-> talker'[q]] /\ UNCHANGED <<threads, message, sideways>>
    BY <1>6 DEF TalkerDies, TalkerTo, ThreadsInv, Talk
  <2> QED BY <2>1 DEF ThreadsInv, Talk, OpenedOnce, Spoken, Creates, Known, Idle
<1> QED BY <1>1, <1>2, <1>3, <1>4, <1>5, <1>6 DEF ThreadsNext

LEMMA ThreadsHold == ThreadsSpec => []ThreadsInv
<1>1. ThreadsInit => ThreadsInv
  BY EmptySeq, LenProperties DEF ThreadsInit, ThreadsInv, Talk, OpenedOnce, Spoken, Idle
<1> QED BY <1>1, ThreadsStepHolds, PTL DEF ThreadsSpec

LEMMA BackOfficeThreads == Spec => ThreadsSpec
<1>1. Init => ThreadsInit
  BY DEF Init, CareInit
<1>2. [Next]_vars => [ThreadsNext]_threadVars
  BY DEF Next, PayrollStep, InvoicesStep, InventoryStep, CareStep, Outside, CareNext, CustomersStep, TicketsStep,
         InquiriesStep, ThreadsStep, ChecklistsStep, ReviewsStep, FilesStep, vars, careVars, talkVars, threadVars
<1> QED BY <1>1, <1>2, PTL DEF Spec, ThreadsSpec

\* What is said about one subject is in one conversation, unless two requests
\* opened it at once, and nobody else has written in it, for any number of
\* conversations and messages (messaging.service.js, getOrCreateConversation).
THEOREM ThreadsOneConversation == Spec => []OneConversation
<1>1. ThreadsInv => OneConversation
  BY DEF ThreadsInv, OpenedOnce, Spoken, OneConversation
<1> QED BY <1>1, BackOfficeThreads, ThreadsHold, PTL

-----------------------------------------------------------------------------
(* Checklists *)

ChecklistsSpec == ChecklistsInit /\ [][ChecklistsNext]_checklistVars

ListRow == [id : 0..MaxLists, exists : BOOLEAN, items : SUBSET Items, done : SUBSET Items, completed : BOOLEAN]

Lists ==
    /\ list \in [Jobs -> ListRow] /\ meant \in [Jobs -> SUBSET Items]
    /\ ticker = [r \in Clerks |-> ticker[r]]
    /\ \A r \in Clerks : ticker[r].pc # "idle" => ticker[r].on \in Jobs /\ ticker[r].copy \in ListRow

ChecklistsInv == Lists /\ ChecklistTells

\* The list of one job is written, and tells what it should.
LEMMA OneListWritten ==
    ASSUME ChecklistsInv, NEW j \in Jobs, NEW w \in ListRow, NEW m \in SUBSET Items,
           list' = [list EXCEPT ![j] = w], meant' = [meant EXCEPT ![j] = m],
           \A i \in Jobs \ {j} : (i \in crossed' <=> i \in crossed) /\ (i \in replaced' <=> i \in replaced),
           w.exists => j \in crossed' \/ w.done = m,
           w.exists => j \in replaced' \/ (w.completed <=> w.done = w.items)
    PROVE  list' \in [Jobs -> ListRow] /\ meant' \in [Jobs -> SUBSET Items] /\ ChecklistTells'
<1>1. list' \in [Jobs -> ListRow] /\ meant' \in [Jobs -> SUBSET Items]
  BY DEF ChecklistsInv, Lists
<1>2. \A i \in Jobs : /\ list'[i] = IF i = j THEN w ELSE list[i]
                      /\ meant'[i] = IF i = j THEN m ELSE meant[i]
  BY DEF ChecklistsInv, Lists
<1>3. ASSUME NEW i \in Jobs, list'[i].exists
      PROVE  /\ i \in crossed' \/ list'[i].done = meant'[i]
             /\ i \in replaced' \/ (list'[i].completed <=> list'[i].done = list'[i].items)
  <2>1. CASE i = j
    BY <1>2, <1>3, <2>1
  <2>2. CASE i # j
    BY <1>2, <1>3, <2>2 DEF ChecklistsInv, ChecklistTells
  <2> QED BY <2>1, <2>2
<1> QED BY <1>1, <1>3 DEF ChecklistTells

LEMMA ChecklistsStepHolds == ChecklistsInv /\ [ChecklistsNext]_checklistVars => ChecklistsInv'
<1> SUFFICES ASSUME ChecklistsInv, [ChecklistsNext]_checklistVars PROVE ChecklistsInv'
  OBVIOUS
<1>1. CASE UNCHANGED checklistVars
  BY <1>1 DEF ChecklistsInv, Lists, ChecklistTells, checklistVars
<1>2. ASSUME NEW r \in Clerks, NEW j \in Jobs, NEW b \in Bodies, CreateChecklist(r, j, b)
      PROVE  ChecklistsInv'
  <2>1. PICK old \in ListRow : old = list[j]
    BY DEF ChecklistsInv, Lists
  <2>2. PICK n : n = old.id + 1
    OBVIOUS
  <2>3. n \in 0..MaxLists
    BY <1>2, <2>1, <2>2, ChecklistsAssumption DEF CreateChecklist, ListRow
  <2>4. PICK w : w = [id |-> n, exists |-> TRUE, items |-> b.items, done |-> b.done, completed |-> FALSE]
    OBVIOUS
  <2>5. w \in ListRow /\ b.done \in SUBSET Items /\ w.done = b.done
    BY <2>3, <2>4 DEF ListRow, Bodies
  <2>6. /\ list' = [list EXCEPT ![j] = w] /\ meant' = [meant EXCEPT ![j] = b.done]
        /\ replaced' = replaced \cup {j} /\ crossed' = crossed \ {j} /\ ticker' = ticker
    BY <1>2, <2>1, <2>2, <2>4 DEF CreateChecklist
  <2>7. list' \in [Jobs -> ListRow] /\ meant' \in [Jobs -> SUBSET Items] /\ ChecklistTells'
    BY <2>5, <2>6, OneListWritten
  <2> QED BY <2>6, <2>7 DEF ChecklistsInv, Lists
<1>3. ASSUME NEW r \in Clerks, NEW j \in Jobs, NEW w \in {"update", "delete", "tick"}, ReadChecklist(r, j, w)
      PROVE  ChecklistsInv'
  <2>1. PICK v : v = [pc |-> w, on |-> j, copy |-> list[j]]
    OBVIOUS
  <2>2. v.on \in Jobs /\ v.copy \in ListRow
    BY <2>1 DEF ChecklistsInv, Lists
  <2>3. ticker' = [ticker EXCEPT ![r] = v] /\ UNCHANGED <<list, meant, crossed, replaced>>
    BY <1>3, <2>1 DEF ReadChecklist, TickerTo
  <2> QED BY <2>2, <2>3 DEF ChecklistsInv, Lists, ChecklistTells
<1>4. ASSUME NEW r \in Clerks, NEW b \in Bodies, UpdateChecklist(r, b)
      PROVE  ChecklistsInv'
  <2>1. PICK j \in Jobs : j = ticker[r].on
    BY <1>4 DEF UpdateChecklist, Ticks, ChecklistsInv, Lists
  <2>2. PICK old \in ListRow : old = list[j]
    BY DEF ChecklistsInv, Lists
  <2>3. PICK w : w = [old EXCEPT !.items = b.items, !.done = b.done]
    OBVIOUS
  <2>4. w \in ListRow /\ b.done \in SUBSET Items /\ w.done = b.done
    BY <2>2, <2>3 DEF ListRow, Bodies
  <2>5. /\ list' = [list EXCEPT ![j] = w] /\ meant' = [meant EXCEPT ![j] = b.done]
        /\ replaced' = replaced \cup {j} /\ crossed' = crossed \ {j} /\ ticker' = [ticker EXCEPT ![r] = Idle]
    BY <1>4, <2>1, <2>2, <2>3 DEF UpdateChecklist, Write, Ended, TickerTo
  <2>6. list' \in [Jobs -> ListRow] /\ meant' \in [Jobs -> SUBSET Items] /\ ChecklistTells'
    BY <2>4, <2>5, OneListWritten
  <2> QED BY <2>5, <2>6 DEF ChecklistsInv, Lists, Idle
<1>5. ASSUME NEW r \in Clerks, DeleteChecklist(r)
      PROVE  ChecklistsInv'
  <2>1. PICK j \in Jobs : j = ticker[r].on
    BY <1>5 DEF DeleteChecklist, Ticks, ChecklistsInv, Lists
  <2>2. PICK old \in ListRow : old = list[j]
    BY DEF ChecklistsInv, Lists
  <2>3. PICK w : w = [NoList EXCEPT !.id = old.id]
    OBVIOUS
  <2>4. w \in ListRow /\ ~w.exists
    BY <2>2, <2>3 DEF ListRow, NoList
  <2>5. /\ list' = [list EXCEPT ![j] = w] /\ meant' = [meant EXCEPT ![j] = {}]
        /\ UNCHANGED <<crossed, replaced>> /\ ticker' = [ticker EXCEPT ![r] = Idle]
    BY <1>5, <2>1, <2>2, <2>3 DEF DeleteChecklist, Write, Ended, TickerTo
  <2>6. list' \in [Jobs -> ListRow] /\ meant' \in [Jobs -> SUBSET Items] /\ ChecklistTells'
    BY <2>4, <2>5, OneListWritten
  <2> QED BY <2>5, <2>6 DEF ChecklistsInv, Lists, Idle
<1>6. ASSUME NEW r \in Clerks, NEW i \in Items, NEW d \in BOOLEAN, CompleteItem(r, i, d)
      PROVE  ChecklistsInv'
  <2>1. PICK j \in Jobs, copy \in ListRow : j = ticker[r].on /\ copy = ticker[r].copy
    BY <1>6 DEF CompleteItem, Ticks, ChecklistsInv, Lists
  <2>2. PICK old \in ListRow : old = list[j]
    BY DEF ChecklistsInv, Lists
  <2>3. PICK ticks : ticks = IF d THEN copy.done \cup {i} ELSE copy.done \ {i}
    OBVIOUS
  <2>4. PICK full \in BOOLEAN : full <=> ticks = copy.items
    OBVIOUS
  <2>5. PICK m : m = IF d THEN meant[j] \cup {i} ELSE meant[j] \ {i}
    OBVIOUS
  <2>6. PICK w : w = [copy EXCEPT !.done = ticks, !.completed = full]
    OBVIOUS
  <2>7. /\ w \in ListRow /\ w.done = ticks /\ w.items = copy.items /\ w.completed = full
        /\ m \in SUBSET Items
    BY <2>1, <2>3, <2>4, <2>5, <2>6 DEF ListRow, ChecklistsInv, Lists
  <2>8. old.exists
    BY <1>6, <2>1, <2>2 DEF CompleteItem, There
  <2>9. CompletedBy(copy, ticks) = full
    BY <2>4 DEF CompletedBy
  <2>10. list' = [list EXCEPT ![j] = w] /\ meant' = [meant EXCEPT ![j] = m]
    BY <1>6, <2>1, <2>3, <2>5, <2>6, <2>9 DEF CompleteItem, Write
  <2>11. /\ crossed' = IF copy.done # old.done \/ copy.items # old.items THEN crossed \cup {j} ELSE crossed
         /\ replaced' = replaced \ {j} /\ ticker' = [ticker EXCEPT ![r] = Idle]
    BY <1>6, <2>1, <2>2 DEF CompleteItem, Ended, TickerTo
  <2>12. j \in crossed' \/ ticks = m
    BY <2>1, <2>2, <2>3, <2>5, <2>8, <2>11 DEF ChecklistsInv, ChecklistTells
  <2>13. \A k \in Jobs \ {j} : (k \in crossed' <=> k \in crossed) /\ (k \in replaced' <=> k \in replaced)
    BY <2>11
  <2>14. list' \in [Jobs -> ListRow] /\ meant' \in [Jobs -> SUBSET Items] /\ ChecklistTells'
    BY <2>4, <2>7, <2>10, <2>12, <2>13, OneListWritten
  <2> QED BY <2>11, <2>14 DEF ChecklistsInv, Lists, Idle
<1>7. ASSUME NEW r \in Clerks, TickRefused(r)
      PROVE  ChecklistsInv'
  BY <1>7 DEF TickRefused, Ended, TickerTo, ChecklistsInv, Lists, ChecklistTells, Idle
<1> QED BY <1>1, <1>2, <1>3, <1>4, <1>5, <1>6, <1>7 DEF ChecklistsNext

LEMMA ChecklistsHold == ChecklistsSpec => []ChecklistsInv
<1>1. ChecklistsInit => ChecklistsInv
  BY ChecklistsAssumption DEF ChecklistsInit, ChecklistsInv, Lists, ChecklistTells, ListRow, NoList, Idle
<1> QED BY <1>1, ChecklistsStepHolds, PTL DEF ChecklistsSpec

-----------------------------------------------------------------------------
(* Photos and documents *)

FilesSpec == FilesInit /\ [][FilesNext]_fileVars

\* A row names a key that was given out for its owner, a row that had its file
\* has had a key, and a deletion knows both.
Filed ==
    /\ prefix \in [Keys -> Owners \cup {Unfiled}]
    /\ file \in [Rows -> [of : Owners \cup {Unfiled}, key : Keys \cup {Unfiled}]]
    /\ filer = [r \in Clerks |-> filer[r]]
    /\ \A r \in Clerks : filer[r].pc # "idle" => filer[r].on \in Rows /\ filer[r].key \in Keys
    /\ \A f \in Rows : file[f].of # Unfiled => file[f].key \in Keys /\ prefix[file[f].key] = file[f].of
    /\ opened \subseteq Rows /\ \A f \in opened : file[f] # NoFile

FilesInv == Filed /\ FilesKept

LEMMA FilesStepHolds == FilesInv /\ [FilesNext]_fileVars => FilesInv'
<1> SUFFICES ASSUME FilesInv, [FilesNext]_fileVars PROVE FilesInv'
  OBVIOUS
<1> DEFINE FileRow == [of : Owners \cup {Unfiled}, key : Keys \cup {Unfiled}]
<1>1. CASE UNCHANGED fileVars
  BY <1>1 DEF FilesInv, Filed, FilesKept, fileVars
<1>2. ASSUME NEW k \in Keys, NEW o \in Owners, Give(k, o)
      PROVE  FilesInv'
  <2>1. prefix' \in [Keys -> Owners \cup {Unfiled}] /\ \A l \in Keys : prefix'[l] = IF l = k THEN o ELSE prefix[l]
    BY <1>2 DEF Give, FilesInv, Filed
  <2>2. \A f \in Rows : file[f].of # Unfiled => file[f].key # k
    BY <1>2 DEF Give, FilesInv, Filed
  <2> QED BY <1>2, <2>1, <2>2 DEF Give, FilesInv, Filed, FilesKept
<1>3. ASSUME NEW k \in Keys, Upload(k)
      PROVE  FilesInv'
  <2>1. \A f \in Named(k) : f \in Rows /\ file[f].of # Unfiled /\ file[f].key = k /\ file[f] # NoFile
    BY DEF Named, NoFile
  <2> QED BY <1>3, <2>1 DEF Upload, FilesInv, Filed, FilesKept
<1>4. ASSUME NEW f \in Rows, NEW o \in Owners, NEW k \in Keys, Register(f, o, k)
      PROVE  FilesInv'
  <2>1. PICK w : w = [of |-> o, key |-> k]
    OBVIOUS
  <2>2. w \in FileRow /\ w.of = o /\ w.key = k /\ o # Unfiled /\ w # NoFile
    BY <2>1, FilesAssumption DEF Owners, NoFile
  <2>3. /\ file' = [file EXCEPT ![f] = w] /\ prefix[k] = o /\ UNCHANGED <<prefix, bucket, filer, torn>>
        /\ opened' = IF k \in bucket THEN opened \cup {f} ELSE opened
    BY <1>4, <2>1 DEF Register, BelongsTo
  <2>4. f \notin opened
    BY <1>4 DEF Register, FilesInv, Filed
  <2>5. file' \in [Rows -> FileRow] /\ \A g \in Rows : file'[g] = IF g = f THEN w ELSE file[g]
    BY <2>2, <2>3 DEF FilesInv, Filed
  <2>6. Filed'
    BY <2>2, <2>3, <2>5 DEF FilesInv, Filed
  <2>7. FilesKept'
    BY <2>2, <2>3, <2>4, <2>5 DEF FilesInv, Filed, FilesKept
  <2> QED BY <2>6, <2>7 DEF FilesInv
<1>5. ASSUME NEW r \in Clerks, NEW f \in Rows, FindFile(r, f)
      PROVE  FilesInv'
  <2>1. PICK w : w = [pc |-> IF file[f].of \in Jobs THEN "row" ELSE "object", on |-> f, key |-> file[f].key]
    OBVIOUS
  <2>2. w.on \in Rows /\ w.key \in Keys
    BY <1>5, <2>1 DEF FindFile, FilesInv, Filed
  <2>3. filer' = [filer EXCEPT ![r] = w] /\ UNCHANGED <<prefix, bucket, file, opened, torn>>
    BY <1>5, <2>1 DEF FindFile, FilerTo
  <2> QED BY <2>2, <2>3 DEF FilesInv, Filed, FilesKept
<1>6. ASSUME NEW r \in Clerks, DeleteObject(r)
      PROVE  FilesInv'
  <2>1. PICK k \in Keys : k = filer[r].key
    BY <1>6 DEF DeleteObject, FilesInv, Filed
  <2>2. PICK w : w = [filer[r] EXCEPT !.pc = "row"]
    OBVIOUS
  <2>3. w.on \in Rows /\ w.key \in Keys
    BY <1>6, <2>2 DEF DeleteObject, FilesInv, Filed
  <2>4. /\ bucket \ {k} \subseteq bucket' /\ torn' = torn \cup {f \in Named(k) : file[f].of = prefix[k]}
        /\ filer' = [filer EXCEPT ![r] = w] /\ UNCHANGED <<prefix, file, opened>>
    BY <1>6, <2>1, <2>2 DEF DeleteObject, FilerTo
  <2>5. Filed'
    BY <2>3, <2>4 DEF FilesInv, Filed
  <2>6. ASSUME NEW f \in opened' \ torn', file'[f].of # Unfiled
        PROVE  file'[f].key \in bucket'
    <3>1. f \in opened \ torn /\ f \in Rows /\ file[f].of # Unfiled /\ file[f].key \in bucket
      BY <2>4, <2>6 DEF FilesInv, Filed, FilesKept
    <3>2. file[f].key # k
      BY <2>4, <2>6, <3>1 DEF FilesInv, Filed, Named
    <3> QED BY <2>4, <3>1, <3>2
  <2> QED BY <2>5, <2>6 DEF FilesInv, FilesKept
<1>7. ASSUME NEW r \in Clerks, DeleteRow(r)
      PROVE  FilesInv'
  <2>1. PICK f \in Rows : f = filer[r].on
    BY <1>7 DEF DeleteRow, FilesInv, Filed
  <2>2. PICK old \in FileRow : old = file[f]
    BY DEF FilesInv, Filed
  <2>3. PICK w : w = [old EXCEPT !.of = Unfiled]
    OBVIOUS
  <2>4. w \in FileRow /\ w.of = Unfiled /\ w.key = old.key
    BY <2>2, <2>3
  <2>5. /\ file' = [file EXCEPT ![f] = w] /\ filer' = [filer EXCEPT ![r] = Idle]
        /\ UNCHANGED <<prefix, bucket, opened, torn>>
    BY <1>7, <2>1, <2>2, <2>3 DEF DeleteRow, FilerTo
  <2>6. f \in opened => w # NoFile
    <3>1. CASE old.of # Unfiled
      BY <2>2, <2>4, <3>1, FilesAssumption DEF FilesInv, Filed, NoFile
    <3>2. CASE old.of = Unfiled
      BY <2>2, <2>3, <2>4, <3>2 DEF FilesInv, Filed, NoFile
    <3> QED BY <3>1, <3>2
  <2>7. file' \in [Rows -> FileRow] /\ \A g \in Rows : file'[g] = IF g = f THEN w ELSE file[g]
    BY <2>4, <2>5 DEF FilesInv, Filed
  <2> QED BY <2>4, <2>5, <2>6, <2>7 DEF FilesInv, Filed, FilesKept, Idle
<1>8. ASSUME NEW r \in Clerks, FilerDies(r)
      PROVE  FilesInv'
  BY <1>8 DEF FilerDies, FilerTo, FilesInv, Filed, FilesKept, Idle
<1>9. Jobs \subseteq Owners /\ Cleaners \subseteq Owners
  BY DEF Owners
<1> QED BY <1>1, <1>2, <1>3, <1>4, <1>5, <1>6, <1>7, <1>8, <1>9
        DEF FilesNext, PhotoUploadUrl, GetUploadUrl, PostPhoto, CreateStorageItem, CreateDocument

LEMMA FilesHold == FilesSpec => []FilesInv
<1>1. FilesInit => FilesInv
  BY DEF FilesInit, FilesInv, Filed, FilesKept, NoFile, Idle
<1> QED BY <1>1, FilesStepHolds, PTL DEF FilesSpec

LEMMA BackOfficeRecords == Spec => ChecklistsSpec /\ FilesSpec
<1>1. Init => ChecklistsInit /\ FilesInit
  BY DEF Init, CareInit
<1>2. [Next]_vars => [ChecklistsNext]_checklistVars /\ [FilesNext]_fileVars
  BY DEF Next, PayrollStep, InvoicesStep, InventoryStep, CareStep, Outside, CareNext, CustomersStep, TicketsStep,
         InquiriesStep, ThreadsStep, ChecklistsStep, ReviewsStep, FilesStep, vars, careVars, workVars,
         checklistVars, fileVars
<1> QED BY <1>1, <1>2, PTL DEF Spec, ChecklistsSpec, FilesSpec

\* What is ticked on a list stays ticked, and a photo or document can be opened
\* as long as it is there, but for what the two properties name: for any number
\* of requests, lists and files (checklists.service.js, storage.service.js,
\* cleanerDocuments.service.js).
THEOREM BackOfficeRecordsHold == Spec => []RecordsHold
<1>1. ChecklistsInv /\ FilesInv => RecordsHold
  BY DEF ChecklistsInv, FilesInv, RecordsHold
<1> QED BY <1>1, BackOfficeRecords, ChecklistsHold, FilesHold, PTL

-----------------------------------------------------------------------------
(* The jobs: what every service may rely on when another one is at work *)

JobsShape ==
    /\ job = [j \in Jobs |-> job[j]]
    /\ \A j \in Jobs : job[j] = [status |-> job[j].status, paid |-> job[j].paid,
                                 split |-> job[j].split, hours |-> job[j].hours]

\* A job that is over stays over, and its team stays what it was.
JobsGoOn == \A j \in Jobs : /\ job'[j].status = "OPEN" => job[j].status = "OPEN"
                            /\ job'[j].split = job[j].split /\ job'[j].hours = job[j].hours

LEMMA OneJobChanged ==
    ASSUME JobsShape, NEW j \in Jobs, NEW w,
           w = [job[j] EXCEPT !.status = "COMPLETED"] \/ w = [job[j] EXCEPT !.status = "CANCELLED"]
             \/ w = [job[j] EXCEPT !.paid = TRUE],
           job' = [job EXCEPT ![j] = w]
    PROVE  JobsShape' /\ JobsGoOn
<1>1. PICK st, pd, sp, ho : st = job[j].status /\ pd = job[j].paid /\ sp = job[j].split /\ ho = job[j].hours
  OBVIOUS
<1>2. job[j] = [status |-> st, paid |-> pd, split |-> sp, hours |-> ho]
  BY <1>1 DEF JobsShape
<1>3. /\ w = [status |-> w.status, paid |-> w.paid, split |-> w.split, hours |-> w.hours]
      /\ w.split = sp /\ w.hours = ho /\ (w.status = "OPEN" => st = "OPEN")
  BY <1>2
<1>4. \A i \in Jobs : job'[i] = IF i = j THEN w ELSE job[i]
  BY DEF JobsShape
<1>5. job' = [i \in Jobs |-> job'[i]]
  BY DEF JobsShape
<1> QED BY <1>1, <1>3, <1>4, <1>5 DEF JobsShape, JobsGoOn

LEMMA PayrollJobs == ASSUME JobsShape, PayrollNext PROVE JobsShape' /\ JobsGoOn
<1>1. ASSUME NEW r \in Clerks, NEW j \in Jobs, Complete(r, j)
      PROVE  JobsShape' /\ JobsGoOn
  <2>1. PICK w : w = [job[j] EXCEPT !.status = "COMPLETED"]
    OBVIOUS
  <2> QED BY <1>1, <2>1, OneJobChanged DEF Complete
<1>2. CASE UNCHANGED job
  BY <1>2 DEF JobsShape, JobsGoOn
<1> QED BY <1>1, <1>2 DEF PayrollNext, Earn, Collect, Settle, Batch, Transfer, Paid, Dies, SetCompensation,
                          Dispute, Close, DisputeEvent, jobVars

LEMMA OutsideJobs == ASSUME JobsShape, Outside PROVE JobsShape' /\ JobsGoOn
<1>1. PICK j \in Jobs : JobPaid(j) \/ JobCancelled(j)
  BY DEF Outside
<1>2. CASE JobPaid(j)
  <2>1. PICK w : w = [job[j] EXCEPT !.paid = TRUE]
    OBVIOUS
  <2> QED BY <1>2, <2>1, OneJobChanged DEF JobPaid
<1>3. CASE JobCancelled(j)
  <2>1. PICK w : w = [job[j] EXCEPT !.status = "CANCELLED"]
    OBVIOUS
  <2> QED BY <1>3, <2>1, OneJobChanged DEF JobCancelled
<1> QED BY <1>1, <1>2, <1>3

\* Only the payroll's completion and the customer change a job.
LEMMA JobsKept ==
    InvoicesNext \/ InventoryNext \/ CareNext => UNCHANGED job
<1>1. InvoicesNext => UNCHANGED job
  BY DEF InvoicesNext, Issue, TakeNumber, InsertInvoice, IssuerDies, jobVars
<1>2. InventoryNext => UNCHANGED job
  BY DEF InventoryNext, Move, Use, ReadRow, Refuse, WriteFirst, WriteLast, RecordUse, Deadlocked, MoverDies, jobVars
<1>3. CustomersNext => UNCHANGED job
  BY DEF CustomersNext, EditCustomer, WriteCustomer, NumberTaken, AddAddress, UpdateAddress, DeleteAddress,
         CreateAddress, ClearPrimary, ChangeAddress, RemoveAddress, AddressGone, BookForCustomer, MakeVisit,
         LoadSchedule, FindByPhone, PortalUser, PortalCode, DeleteCustomer, CountUpcoming, Anonymize, AgentDies,
         Open, FindAddress, Leaves, Writes, jobVars
<1>4. TicketsNext => UNCHANGED job
  BY DEF TicketsNext, CreateTicket, SubmitForm, CreateWebsiteTicket, ReadTicket, TicketGone, Put, UpdateTicket,
         UpdateTicketStatus, DeleteTicket, AddMessage, Bump, Touch, HelperDies, jobVars
<1>5. InquiriesNext => UNCHANGED job
  BY DEF InquiriesNext, CountInquiries, CreateInquiry, FollowUp, SetInquiryStatus, jobVars
<1>6. ThreadsNext => UNCHANGED job
  BY DEF ThreadsNext, OpenThread, CreateThread, PostMessage, MarkRead, TalkerDies, jobVars
<1>7. ChecklistsNext => UNCHANGED job
  BY DEF ChecklistsNext, CreateChecklist, ReadChecklist, UpdateChecklist, DeleteChecklist, CompleteItem,
         TickRefused, Ended, jobVars
<1>8. ReviewsNext => UNCHANGED job
  BY DEF ReviewsNext, LeaveReview, CreateReview, InsertReview, FindReview, DeleteReview, jobVars
<1>9. FilesNext => UNCHANGED job
  BY DEF FilesNext, Give, PhotoUploadUrl, GetUploadUrl, Upload, Register, PostPhoto, CreateStorageItem,
         CreateDocument, FindFile, DeleteObject, DeleteRow, FilerDies, jobVars
<1> QED BY <1>1, <1>2, <1>3, <1>4, <1>5, <1>6, <1>7, <1>8, <1>9
        DEF CareNext, CustomersStep, TicketsStep, InquiriesStep, ThreadsStep, ChecklistsStep, ReviewsStep, FilesStep

LEMMA JobsStep == ASSUME JobsShape, [Next]_vars PROVE JobsShape' /\ JobsGoOn
<1>1. CASE UNCHANGED job
  BY <1>1 DEF JobsShape, JobsGoOn
<1>2. CASE PayrollStep
  BY <1>2, PayrollJobs DEF PayrollStep
<1>3. CASE Outside
  BY <1>3, OutsideJobs
<1> QED BY <1>1, <1>2, <1>3, JobsKept DEF Next, InvoicesStep, InventoryStep, CareStep, vars, jobVars

LEMMA JobsStart == Init => JobsShape
<1> SUFFICES ASSUME Init PROVE JobsShape
  OBVIOUS
<1>1. job \in [Jobs -> {[status |-> "OPEN", paid |-> FALSE, split |-> a.split, hours |-> a.hours] : a \in Assigned}]
  BY DEF Init
<1>2. ASSUME NEW j \in Jobs
      PROVE  job[j] = [status |-> job[j].status, paid |-> job[j].paid, split |-> job[j].split, hours |-> job[j].hours]
  <2>1. PICK a \in Assigned : job[j] = [status |-> "OPEN", paid |-> FALSE, split |-> a.split, hours |-> a.hours]
    BY <1>1
  <2> QED BY <2>1
<1> QED BY <1>1, <1>2 DEF JobsShape

-----------------------------------------------------------------------------
(* Erasure *)

CustomerTables ==
    /\ person \in [erased : BOOLEAN, known : BOOLEAN, phone : BOOLEAN, referral : BOOLEAN]
    /\ DOMAIN address = Addresses /\ DOMAIN site = Jobs
    /\ agent = [r \in Clerks |-> agent[r]]
    /\ \A r \in Clerks : "pc" \in DOMAIN agent[r]

\* What a request goes on with is not the erasure.
Harmless(w) == "pc" \in DOMAIN w /\ w.pc # "erase"

\* While somebody is about to erase, who is still expected has been caught.
CaughtAll == (\E r \in Clerks : Agent(r, "erase")) => \A j \in Jobs : Upcoming(j) => j \in caught

CustomersInv == CustomerTables /\ CaughtAll /\ ErasedIsGone

\* A step that writes something down about an erased customer is noted.
LEMMA WrittenDown ==
    ASSUME person'.erased = person.erased, touched' = (touched \/ person.erased)
    PROVE  ErasedIsGone'
BY DEF ErasedIsGone

\* A request goes on, and not to the erasure.
LEMMA GoesOn ==
    ASSUME CustomersInv, JobsGoOn, NEW r \in Clerks, NEW w, AgentTo(r, w), Harmless(w), UNCHANGED <<site, caught>>
    PROVE  agent' = [q \in Clerks |-> agent'[q]] /\ (\A q \in Clerks : "pc" \in DOMAIN agent'[q]) /\ CaughtAll'
<1>1. \A q \in Clerks : agent'[q] = IF q = r THEN w ELSE agent[q]
  BY DEF AgentTo, CustomersInv, CustomerTables
<1>2. agent' = [q \in Clerks |-> agent'[q]]
  BY DEF AgentTo, CustomersInv, CustomerTables
<1>3. \A j \in Jobs : Upcoming(j)' => Upcoming(j)
  BY DEF Upcoming, JobsGoOn
<1>4. \A q \in Clerks : "pc" \in DOMAIN agent'[q]
  BY <1>1 DEF CustomersInv, CustomerTables, Harmless
<1> QED BY <1>1, <1>2, <1>3, <1>4 DEF CustomersInv, CaughtAll, Agent, Harmless

\* Nothing is written down, and nothing brought back.
LEMMA NothingBack ==
    ASSUME CustomersInv, JobsGoOn, UNCHANGED <<schedule, contact, site, portal, touched, caught>>,
           person'.erased = person.erased, person'.known = person.known, person'.phone = person.phone,
           \A a \in Addresses : Kept(a)' => Kept(a)
    PROVE  ErasedIsGone'
<1>1. \A j \in Jobs : Upcoming(j)' => Upcoming(j)
  BY DEF Upcoming, JobsGoOn
<1> SUFFICES ASSUME person'.erased, ~touched'
             PROVE  NoTrace' /\ {j \in Jobs : Upcoming(j)}' \subseteq caught'
  BY DEF ErasedIsGone
<1>2. NoTrace /\ {j \in Jobs : Upcoming(j)} \subseteq caught
  BY DEF CustomersInv, ErasedIsGone
<1>3. NoTrace'
  BY <1>2 DEF NoTrace
<1> QED BY <1>1, <1>2, <1>3

\* A job is booked while others may be about to erase.
LEMMA BookedNow ==
    ASSUME CustomersInv, JobsGoOn, UNCHANGED <<job, person, address>>, NEW j \in Jobs, site' = [site EXCEPT ![j] = "known"],
           touched' = (touched \/ person.erased),
           caught' = IF \E s \in Clerks : Agent(s, "erase") THEN caught \cup {j} ELSE caught,
           agent' = [q \in Clerks |-> agent'[q]], \A q \in Clerks : "pc" \in DOMAIN agent'[q],
           \A q \in Clerks : Agent(q, "erase")' => Agent(q, "erase")
    PROVE  CustomersInv'
<1>1. \A i \in Jobs : i # j => site'[i] = site[i]
  BY DEF CustomersInv, CustomerTables
<1>2. \A i \in Jobs : i # j /\ Upcoming(i)' => Upcoming(i)
  BY <1>1 DEF Upcoming
<1>3. CaughtAll'
  BY <1>2 DEF CustomersInv, CaughtAll
<1>4. ErasedIsGone'
  BY WrittenDown
<1>5. DOMAIN site' = Jobs
  BY DEF CustomersInv, CustomerTables
<1> QED BY <1>3, <1>4, <1>5 DEF CustomersInv, CustomerTables

\* A request writes to the record, and leaves the bookings alone.
LEMMA RecordWritten ==
    ASSUME CustomersInv, JobsGoOn, NEW r \in Clerks, NEW w, AgentTo(r, w), Harmless(w), UNCHANGED <<site, caught>>,
           person' \in [erased : BOOLEAN, known : BOOLEAN, phone : BOOLEAN, referral : BOOLEAN],
           person'.erased = person.erased, touched' = (touched \/ person.erased), DOMAIN address' = Addresses
    PROVE  CustomersInv'
BY GoesOn, WrittenDown DEF CustomersInv, CustomerTables

\* A request reads, or removes.
LEMMA RecordRead ==
    ASSUME CustomersInv, JobsGoOn, NEW r \in Clerks, NEW w, AgentTo(r, w), Harmless(w),
           UNCHANGED <<schedule, contact, site, portal, touched, caught>>,
           person' \in [erased : BOOLEAN, known : BOOLEAN, phone : BOOLEAN, referral : BOOLEAN],
           person'.erased = person.erased, person'.known = person.known, person'.phone = person.phone,
           DOMAIN address' = Addresses, \A a \in Addresses : Kept(a)' => Kept(a)
    PROVE  CustomersInv'
BY GoesOn, NothingBack DEF CustomersInv, CustomerTables

\* The other services.
LEMMA RecordLeft ==
    ASSUME CustomersInv, JobsGoOn, UNCHANGED customerVars
    PROVE  CustomersInv'
<1>1. UNCHANGED <<person, address, schedule, contact, site, portal, agent, touched, caught>>
  BY DEF customerVars
<1>2. \A j \in Jobs : Upcoming(j)' => Upcoming(j)
  BY <1>1 DEF Upcoming, JobsGoOn
<1>3. \A a \in Addresses : Kept(a)' => Kept(a)
  BY <1>1 DEF Kept
<1>4. ErasedIsGone'
  BY <1>1, <1>3, NothingBack
<1>5. CaughtAll'
  BY <1>1, <1>2 DEF CustomersInv, CaughtAll, Agent
<1> QED BY <1>1, <1>4, <1>5 DEF CustomersInv, CustomerTables

\* The count finds nothing upcoming, or there is no erasure.
LEMMA CountedNothing ==
    ASSUME CustomersInv, JobsGoOn, UNCHANGED job, NEW r \in Clerks, CountUpcoming(r)
    PROVE  CustomersInv'
<1>1. PICK w : w = IF \E j \in Jobs : Upcoming(j) THEN Idle ELSE [pc |-> "erase"]
  OBVIOUS
<1>2. AgentTo(r, w) /\ UNCHANGED <<person, address, schedule, contact, site, portal, touched, caught>>
  BY <1>1 DEF CountUpcoming
<1>3. CASE \E j \in Jobs : Upcoming(j)
  <2>1. Harmless(w)
    BY <1>1, <1>3 DEF Idle, Harmless
  <2> QED BY <1>2, <2>1, RecordRead DEF CustomersInv, CustomerTables, Kept
<1>4. CASE ~\E j \in Jobs : Upcoming(j)
  <2>1. ~\E j \in Jobs : Upcoming(j)'
    BY <1>2, <1>4 DEF Upcoming
  <2>2. CaughtAll'
    BY <2>1 DEF CaughtAll
  <2>3. ErasedIsGone'
    BY <1>2, NothingBack DEF Kept
  <2>4. agent' = [q \in Clerks |-> agent'[q]] /\ \A q \in Clerks : "pc" \in DOMAIN agent'[q]
    BY <1>1, <1>2 DEF AgentTo, CustomersInv, CustomerTables, Idle
  <2> QED BY <1>2, <2>2, <2>3, <2>4 DEF CustomersInv, CustomerTables
<1> QED BY <1>3, <1>4

\* The erasure leaves no trace, and what is upcoming was booked meanwhile.
LEMMA ErasureErases ==
    ASSUME CustomersInv, UNCHANGED job, NEW r \in Clerks, Anonymize(r)
    PROVE  CustomersInv'
<1>1. \A j \in Jobs : Upcoming(j) => j \in caught
  BY DEF Anonymize, CustomersInv, CaughtAll
<1>2. \A j \in Jobs : site'[j] = IF site[j] = "none" THEN "none" ELSE "redacted"
  BY DEF Anonymize, Redacted
<1>3. \A j \in Jobs : Upcoming(j)' => j \in caught'
  BY <1>1, <1>2 DEF Anonymize, Upcoming
<1>4. \A a \in Addresses : ~Kept(a)'
  BY DEF Anonymize, Kept
<1>5. schedule' # "ACTIVE" /\ contact' = FALSE /\ portal' = "none"
  BY DEF Anonymize
<1>6. person' = [erased |-> TRUE, known |-> FALSE, phone |-> FALSE, referral |-> FALSE]
  BY DEF Anonymize
<1>7. NoTrace'
  BY <1>2, <1>4, <1>5, <1>6 DEF NoTrace
<1>8. ErasedIsGone' /\ CaughtAll'
  BY <1>3, <1>7 DEF ErasedIsGone, CaughtAll
<1>9. CustomerTables'
  BY <1>6 DEF CustomersInv, CustomerTables, Anonymize, Redacted, AgentTo, Idle
<1> QED BY <1>8, <1>9 DEF CustomersInv

LEMMA CustomersKept ==
    ASSUME JobsShape, CustomersInv, CustomersNext, NEW r \in Clerks
    PROVE  /\ EditCustomer(r) \/ DeleteCustomer(r) \/ (\E m \in Marks : AddAddress(r, m)) => CustomersInv'
           /\ WriteCustomer(r) => CustomersInv'
           /\ NumberTaken(r) \/ AddressGone(r) \/ AgentDies(r) => CustomersInv'
           /\ LoadSchedule(r) \/ FindByPhone(r) => CustomersInv'
           /\ (\E a \in Addresses : DeleteAddress(r, a) \/ \E m \in Marks : UpdateAddress(r, a, m)) => CustomersInv'
           /\ ClearPrimary(r) => CustomersInv'
           /\ (\E a \in Addresses : CreateAddress(r, a)) => CustomersInv'
           /\ ChangeAddress(r) \/ RemoveAddress(r) => CustomersInv'
           /\ PortalUser(r) \/ PortalCode(r) => CustomersInv'
           /\ (\E j \in Jobs : BookForCustomer(r, j) \/ MakeVisit(r, j)) => CustomersInv'
<1>0. UNCHANGED job /\ JobsGoOn
  <2>1. UNCHANGED job
    BY DEF CustomersNext, EditCustomer, WriteCustomer, NumberTaken, AddAddress, UpdateAddress, DeleteAddress,
           CreateAddress, ClearPrimary, ChangeAddress, RemoveAddress, AddressGone, BookForCustomer, MakeVisit,
           LoadSchedule, FindByPhone, PortalUser, PortalCode, DeleteCustomer, CountUpcoming, Anonymize, AgentDies,
           Open, FindAddress, Leaves, Writes, jobVars
  <2> QED BY <2>1 DEF JobsGoOn
<1>a. person \in [erased : BOOLEAN, known : BOOLEAN, phone : BOOLEAN, referral : BOOLEAN]
  BY DEF CustomersInv, CustomerTables
<1>b. DOMAIN address = Addresses
  BY DEF CustomersInv, CustomerTables
<1>1. ASSUME NEW w, Harmless(w), Open(r, w) PROVE CustomersInv'
  <2>1. /\ person' \in [erased : BOOLEAN, known : BOOLEAN, phone : BOOLEAN, referral : BOOLEAN]
        /\ person'.erased = person.erased /\ person'.known = person.known /\ person'.phone = person.phone
    BY <1>1, <1>a DEF Open
  <2>2. AgentTo(r, w) /\ UNCHANGED <<address, schedule, contact, site, portal, touched, caught>>
    BY <1>1 DEF Open
  <2> QED BY <1>0, <1>1, <1>b, <2>1, <2>2, RecordRead DEF Kept
<1>2. ASSUME NEW w, Harmless(w), AgentTo(r, w),
             UNCHANGED <<person, schedule, contact, site, portal, touched, caught>>,
             DOMAIN address' = Addresses, \A a \in Addresses : Kept(a)' => Kept(a)
      PROVE  CustomersInv'
  BY <1>0, <1>2, <1>a, RecordRead
<1>3. ASSUME NEW w, Harmless(w), AgentTo(r, w), UNCHANGED <<person, site>>, Writes, DOMAIN address' = Addresses
      PROVE  CustomersInv'
  BY <1>0, <1>3, <1>a, RecordWritten DEF Writes
<1>4. EditCustomer(r) \/ DeleteCustomer(r) \/ (\E m \in Marks : AddAddress(r, m)) => CustomersInv'
  <2>1. ASSUME EditCustomer(r) PROVE \E w : Harmless(w) /\ Open(r, w)
    BY <2>1 DEF EditCustomer, Harmless
  <2>2. ASSUME DeleteCustomer(r) PROVE \E w : Harmless(w) /\ Open(r, w)
    BY <2>2 DEF DeleteCustomer, Harmless
  <2>3. ASSUME NEW m \in Marks, AddAddress(r, m) PROVE \E w : Harmless(w) /\ Open(r, w)
    <3>1. PICK w : w = [pc |-> IF m = "primary" THEN "clear" ELSE "create", at |-> {}, mark |-> m]
      OBVIOUS
    <3>2. Open(r, w) /\ Harmless(w)
      BY <2>3, <3>1 DEF AddAddress, Harmless
    <3> QED BY <3>2
  <2> QED BY <1>1, <2>1, <2>2, <2>3
<1>5. WriteCustomer(r) => CustomersInv'
  <2> SUFFICES ASSUME WriteCustomer(r) PROVE CustomersInv'
    OBVIOUS
  <2>1. PICK number \in BOOLEAN : person' = [person EXCEPT !.known = TRUE, !.phone = @ \/ number]
    BY DEF WriteCustomer
  <2>2. person' \in [erased : BOOLEAN, known : BOOLEAN, phone : BOOLEAN, referral : BOOLEAN] /\ person'.erased = person.erased
    BY <1>a, <2>1
  <2>3. AgentTo(r, Idle) /\ UNCHANGED <<address, site, caught>> /\ touched' = (touched \/ person.erased)
    BY DEF WriteCustomer, Writes
  <2>4. Harmless(Idle)
    BY DEF Idle, Harmless
  <2> QED BY <1>0, <1>b, <2>2, <2>3, <2>4, RecordWritten
<1>6. NumberTaken(r) \/ AddressGone(r) \/ AgentDies(r) => CustomersInv'
  <2>1. NumberTaken(r) \/ AddressGone(r) \/ AgentDies(r)
          => AgentTo(r, Idle) /\ UNCHANGED <<person, address, schedule, contact, site, portal, touched, caught>>
    BY DEF NumberTaken, AddressGone, AgentDies, Leaves
  <2>2. Harmless(Idle)
    BY DEF Idle, Harmless
  <2> QED BY <1>2, <1>b, <2>1, <2>2 DEF Kept
<1>7. LoadSchedule(r) \/ FindByPhone(r) => CustomersInv'
  <2>1. ASSUME LoadSchedule(r) \/ FindByPhone(r)
        PROVE  \E w : /\ Harmless(w) /\ AgentTo(r, w)
                      /\ UNCHANGED <<person, address, schedule, contact, site, portal, touched, caught>>
    BY <2>1 DEF LoadSchedule, FindByPhone, Harmless
  <2> QED BY <1>2, <1>b, <2>1 DEF Kept
<1>8. (\E a \in Addresses : DeleteAddress(r, a) \/ \E m \in Marks : UpdateAddress(r, a, m)) => CustomersInv'
  <2>1. ASSUME NEW a \in Addresses, NEW w, Harmless(w), FindAddress(r, a, w) PROVE CustomersInv'
    BY <1>2, <1>b, <2>1 DEF FindAddress, Kept
  <2>2. ASSUME NEW a \in Addresses, DeleteAddress(r, a) PROVE CustomersInv'
    <3>1. PICK w : w = [pc |-> "remove", at |-> {a}]
      OBVIOUS
    <3>2. FindAddress(r, a, w) /\ Harmless(w)
      BY <2>2, <3>1 DEF DeleteAddress, Harmless
    <3> QED BY <2>1, <3>2
  <2>3. ASSUME NEW a \in Addresses, NEW m \in Marks, UpdateAddress(r, a, m) PROVE CustomersInv'
    <3>1. PICK w : w = [pc |-> IF m = "primary" THEN "clear" ELSE "change", at |-> {a}, mark |-> m]
      OBVIOUS
    <3>2. FindAddress(r, a, w) /\ Harmless(w)
      BY <2>3, <3>1 DEF UpdateAddress, Harmless
    <3> QED BY <2>1, <3>2
  <2> QED BY <2>2, <2>3
<1>9. ClearPrimary(r) => CustomersInv'
  <2> SUFFICES ASSUME ClearPrimary(r) PROVE CustomersInv'
    OBVIOUS
  <2>1. PICK p : p = IF agent[r].at = {} THEN "create" ELSE "change"
    OBVIOUS
  <2>2. PICK w : w = [agent[r] EXCEPT !.pc = p]
    OBVIOUS
  <2>3. AgentTo(r, w) /\ UNCHANGED <<person, schedule, contact, site, portal, touched, caught>>
    BY <2>1, <2>2 DEF ClearPrimary
  <2>4. Harmless(w)
    BY <2>1, <2>2 DEF Harmless, CustomersInv, CustomerTables
  <2>5. DOMAIN address' = Addresses /\ \A a \in Addresses : Kept(a)' => Kept(a)
    BY DEF ClearPrimary, Kept
  <2> QED BY <1>2, <2>3, <2>4, <2>5
<1>10. (\E a \in Addresses : CreateAddress(r, a)) => CustomersInv'
  <2>1. ASSUME NEW a \in Addresses, CreateAddress(r, a)
        PROVE  AgentTo(r, Idle) /\ UNCHANGED <<person, site>> /\ Writes /\ DOMAIN address' = Addresses
    BY <1>b, <2>1 DEF CreateAddress
  <2> QED BY <1>3, <2>1 DEF Idle, Harmless
<1>11. ChangeAddress(r) \/ RemoveAddress(r) => CustomersInv'
  <2>1. ASSUME ChangeAddress(r) \/ RemoveAddress(r)
        PROVE  AgentTo(r, Idle) /\ UNCHANGED <<person, site>> /\ Writes /\ DOMAIN address' = Addresses
    BY <1>b, <2>1 DEF ChangeAddress, RemoveAddress
  <2> QED BY <1>3, <2>1 DEF Idle, Harmless
<1>12. PortalUser(r) \/ PortalCode(r) => CustomersInv'
  <2>1. ASSUME PortalUser(r) \/ PortalCode(r)
        PROVE  \E w : Harmless(w) /\ AgentTo(r, w) /\ UNCHANGED <<person, site, address>> /\ Writes
    BY <2>1 DEF PortalUser, PortalCode, Idle, Harmless
  <2> QED BY <1>3, <1>b, <2>1
<1>13. (\E j \in Jobs : BookForCustomer(r, j) \/ MakeVisit(r, j)) => CustomersInv'
  <2> SUFFICES ASSUME NEW j \in Jobs, BookForCustomer(r, j) \/ MakeVisit(r, j) PROVE CustomersInv'
    OBVIOUS
  <2>1. /\ UNCHANGED <<person, address>> /\ site' = [site EXCEPT ![j] = "known"]
        /\ touched' = (touched \/ person.erased)
        /\ caught' = IF \E s \in Clerks : Agent(s, "erase") THEN caught \cup {j} ELSE caught
    BY DEF BookForCustomer, MakeVisit
  <2>2. agent = [q \in Clerks |-> agent[q]]
    BY DEF CustomersInv, CustomerTables
  <2>3. UNCHANGED agent \/ AgentTo(r, Idle)
    BY DEF BookForCustomer, MakeVisit
  <2>4. /\ agent' = [q \in Clerks |-> agent'[q]] /\ \A q \in Clerks : "pc" \in DOMAIN agent'[q]
        /\ \A q \in Clerks : Agent(q, "erase")' => Agent(q, "erase")
    BY <2>2, <2>3 DEF AgentTo, Agent, Idle, CustomersInv, CustomerTables
  <2> QED BY <1>0, <2>1, <2>4, BookedNow
<1> QED BY <1>4, <1>5, <1>6, <1>7, <1>8, <1>9, <1>10, <1>11, <1>12, <1>13

LEMMA CustomersInvStep == ASSUME JobsShape, CustomersInv, [Next]_vars PROVE CustomersInv'
<1>1. CASE CustomersNext
  <2>1. UNCHANGED job
    BY <1>1 DEF CustomersNext, EditCustomer, WriteCustomer, NumberTaken, AddAddress, UpdateAddress, DeleteAddress,
           CreateAddress, ClearPrimary, ChangeAddress, RemoveAddress, AddressGone, BookForCustomer, MakeVisit,
           LoadSchedule, FindByPhone, PortalUser, PortalCode, DeleteCustomer, CountUpcoming, Anonymize, AgentDies,
           Open, FindAddress, Leaves, Writes, jobVars
  <2>2. JobsGoOn
    BY <2>1 DEF JobsGoOn
  <2>3. ASSUME NEW r \in Clerks, CountUpcoming(r) \/ Anonymize(r) PROVE CustomersInv'
    BY <2>1, <2>2, <2>3, CountedNothing, ErasureErases
  <2> QED BY <1>1, <2>3, CustomersKept DEF CustomersNext
<1>2. CASE UNCHANGED customerVars
  BY <1>2, JobsStep, RecordLeft
<1>3. CustomersNext \/ UNCHANGED customerVars
  BY DEF Next, PayrollStep, InvoicesStep, InventoryStep, CareStep, Outside, CareNext, CustomersStep, TicketsStep,
         InquiriesStep, ThreadsStep, ChecklistsStep, ReviewsStep, FilesStep, careVars, vars
<1> QED BY <1>1, <1>2, <1>3

LEMMA CustomersStart == Init => CustomersInv
<1> SUFFICES ASSUME Init PROVE CustomersInv
  OBVIOUS
<1>1. CustomersInit
  BY DEF Init, CareInit
<1>2. CustomerTables /\ ~person.erased
  BY <1>1 DEF CustomersInit, CustomerTables, Idle
<1>3. \A r \in Clerks : ~Agent(r, "erase")
  BY <1>1 DEF CustomersInit, Agent, Idle
<1> QED BY <1>2, <1>3 DEF CustomersInv, CaughtAll, ErasedIsGone

\* Whatever the requests about a customer do, and however they interleave, die
\* or come late: what is left of an erased customer was written down after the
\* erasure, and what is still to come was booked while it was under way.  The
\* erasure counts once, so the invariant carries from its count to its
\* transaction that everything booked meanwhile has been noted.
THEOREM CustomersErasedIsGone == Spec => []ErasedIsGone
<1>1. Init => JobsShape /\ CustomersInv
  BY JobsStart, CustomersStart
<1>2. JobsShape /\ CustomersInv /\ [Next]_vars => (JobsShape /\ CustomersInv)'
  BY JobsStep, CustomersInvStep
<1>3. JobsShape /\ CustomersInv => ErasedIsGone
  BY DEF CustomersInv
<1> QED BY <1>1, <1>2, <1>3, PTL DEF Spec

-----------------------------------------------------------------------------
(* Support tickets *)

TicketTables ==
    /\ ticket = [t \in TicketIds |-> ticket[t]]
    /\ \A t \in TicketIds : ticket[t] = [status |-> ticket[t].status, resolved |-> ticket[t].resolved,
                                         website |-> ticket[t].website]
    /\ helper = [r \in Clerks |-> helper[r]]

\* What the property says of one step and one ticket.
Reopened(t) == ticket[t].status \in Done /\ ticket'[t].status \notin Done \cup {"deleted"}
LateOrDecided(t) ==
    \E r \in Clerks : \/ WrittenBy(r, "update", t) \/ WrittenBy(r, "admin", t)
                      \/ WrittenBy(r, "bump", t) /\ helper[r].was = "WAITING_ON_CUSTOMER"

LEMMA TicketCreated ==
    ASSUME TicketTables, NEW t \in TicketIds, Free(t), NEW s, ticket' = [ticket EXCEPT ![t] = Opened(s)],
           helper' = [r \in Clerks |-> helper'[r]]
    PROVE  TicketTables' /\ \A u \in TicketIds : ~Reopened(u)
<1>1. \A u \in TicketIds : ticket'[u] = IF u = t THEN Opened(s) ELSE ticket[u]
  BY DEF TicketTables
<1>2. ticket' = [u \in TicketIds |-> ticket'[u]]
  BY DEF TicketTables
<1>3. \A u \in TicketIds : ticket'[u] = [status |-> ticket'[u].status, resolved |-> ticket'[u].resolved,
                                         website |-> ticket'[u].website]
  BY <1>1 DEF TicketTables, Opened
<1>4. TicketTables'
  BY <1>2, <1>3 DEF TicketTables
<1>5. \A u \in TicketIds : ~Reopened(u)
  BY <1>1 DEF Reopened, Free, Done
<1> QED BY <1>4, <1>5

LEMMA TicketLeft ==
    ASSUME TicketTables, UNCHANGED ticket, helper' = [r \in Clerks |-> helper'[r]]
    PROVE  TicketTables' /\ \A u \in TicketIds : ~Reopened(u)
BY DEF TicketTables, Reopened, Done

\* A request writes one ticket, for the last time.
LEMMA TicketPut ==
    ASSUME TicketTables, NEW r \in Clerks, NEW work, NEW w, Put(r, work, w),
           helper[r].on \in TicketIds => w = [status |-> w.status, resolved |-> w.resolved, website |-> w.website]
    PROVE  /\ TicketTables'
           /\ \A t \in TicketIds : ticket'[t].status # ticket[t].status
                => WrittenBy(r, work, t) /\ ticket'[t] = w /\ t = helper[r].on
<1>1. \A t \in TicketIds : ticket'[t] = IF t = helper[r].on THEN w ELSE ticket[t]
  BY DEF TicketTables, Put
<1>2. ticket' = [t \in TicketIds |-> ticket'[t]]
  BY DEF TicketTables, Put
<1>3. helper'[r] = Idle /\ helper' = [q \in Clerks |-> helper'[q]]
  BY DEF TicketTables, Put, HelperTo
<1>4. \A t \in TicketIds : ticket'[t] = [status |-> ticket'[t].status, resolved |-> ticket'[t].resolved,
                                         website |-> ticket'[t].website]
  BY <1>1 DEF TicketTables
<1>5. TicketTables'
  BY <1>2, <1>3, <1>4 DEF TicketTables
<1>6. \A t \in TicketIds : ticket'[t].status # ticket[t].status
        => WrittenBy(r, work, t) /\ ticket'[t] = w /\ t = helper[r].on
  BY <1>1, <1>3 DEF WrittenBy, Put
<1> QED BY <1>5, <1>6

\* The row a request writes back has the columns of the one it is about.
LEMMA TicketColumns ==
    ASSUME TicketTables, NEW r \in Clerks, NEW s, NEW done, NEW w,
           w = [Row(r) EXCEPT !.status = s] \/ w = [Row(r) EXCEPT !.status = s, !.resolved = done]
    PROVE  helper[r].on \in TicketIds => /\ w = [status |-> w.status, resolved |-> w.resolved, website |-> w.website]
                                         /\ w.status = s
<1> SUFFICES ASSUME helper[r].on \in TicketIds
             PROVE  w = [status |-> w.status, resolved |-> w.resolved, website |-> w.website] /\ w.status = s
  OBVIOUS
<1>1. PICK t \in TicketIds : t = helper[r].on
  OBVIOUS
<1>2. PICK a, b, c : ticket[t] = [status |-> a, resolved |-> b, website |-> c]
  BY DEF TicketTables
<1>3. Row(r) = [status |-> a, resolved |-> b, website |-> c]
  BY <1>1, <1>2 DEF Row
<1> QED BY <1>3

LEMMA TicketsKept ==
    ASSUME TicketTables, TicketsNext
    PROVE  TicketTables' /\ \A t \in TicketIds : Reopened(t) => LateOrDecided(t)
<1>0. PICK r \in Clerks :
         \/ \E t \in TicketIds : \/ CreateTicket(r, t) \/ CreateWebsiteTicket(r, t)
                                 \/ \E k \in {"update", "admin", "delete", "reply", "note"} : ReadTicket(r, t, k)
         \/ \E s \in Statuses \cup {Unsaid} : UpdateTicket(r, s)
         \/ \E s \in Statuses : UpdateTicketStatus(r, s)
         \/ SubmitForm(r) \/ TicketGone(r) \/ DeleteTicket(r)
         \/ AddMessage(r) \/ Bump(r) \/ Touch(r) \/ HelperDies(r)
  BY DEF TicketsNext
<1>1. helper' = [q \in Clerks |-> helper'[q]]
  <2>1. UNCHANGED helper \/ \E w : HelperTo(r, w)
    BY <1>0 DEF CreateTicket, CreateWebsiteTicket, ReadTicket, UpdateTicket, UpdateTicketStatus, SubmitForm, TicketGone,
                DeleteTicket, AddMessage, Bump, Touch, HelperDies, Put
  <2> QED BY <2>1 DEF HelperTo, TicketTables
<1>2. ASSUME NEW t \in TicketIds, CreateTicket(r, t) \/ CreateWebsiteTicket(r, t)
      PROVE  TicketTables' /\ \A u \in TicketIds : ~Reopened(u)
  BY <1>1, <1>2, TicketCreated DEF CreateTicket, CreateWebsiteTicket
<1>3. CASE UNCHANGED ticket
  BY <1>1, <1>3, TicketLeft
<1>4. ASSUME NEW s \in Statuses \cup {Unsaid}, UpdateTicket(r, s)
      PROVE  TicketTables' /\ \A t \in TicketIds : Reopened(t) => LateOrDecided(t)
  <2>1. PICK w : w = [Row(r) EXCEPT !.status = IF s = Unsaid THEN @ ELSE s, !.resolved = @ \/ s \in Done]
    OBVIOUS
  <2>2. Put(r, "update", w)
    BY <1>4, <2>1 DEF UpdateTicket
  <2>3. PICK st, re : st = (IF s = Unsaid THEN Row(r).status ELSE s) /\ re = (Row(r).resolved \/ s \in Done)
    OBVIOUS
  <2>4. w = [Row(r) EXCEPT !.status = st, !.resolved = re]
    BY <2>1, <2>3
  <2>5. helper[r].on \in TicketIds => w = [status |-> w.status, resolved |-> w.resolved, website |-> w.website]
    BY <2>4, TicketColumns
  <2> QED BY <2>2, <2>5, TicketPut DEF Reopened, LateOrDecided
<1>5. ASSUME NEW s \in Statuses, UpdateTicketStatus(r, s)
      PROVE  TicketTables' /\ \A t \in TicketIds : Reopened(t) => LateOrDecided(t)
  <2>1. PICK w : w = [Row(r) EXCEPT !.status = s]
    OBVIOUS
  <2>2. Put(r, "admin", w)
    BY <1>5, <2>1 DEF UpdateTicketStatus
  <2>3. helper[r].on \in TicketIds => w = [status |-> w.status, resolved |-> w.resolved, website |-> w.website]
    BY <2>1, TicketColumns
  <2> QED BY <2>2, <2>3, TicketPut DEF Reopened, LateOrDecided
<1>6. ASSUME DeleteTicket(r)
      PROVE  TicketTables' /\ \A t \in TicketIds : ~Reopened(t)
  <2>1. PICK w : w = [Row(r) EXCEPT !.status = "deleted"]
    OBVIOUS
  <2>2. Put(r, "delete", w)
    BY <1>6, <2>1 DEF DeleteTicket
  <2>3. helper[r].on \in TicketIds => /\ w = [status |-> w.status, resolved |-> w.resolved, website |-> w.website]
                                      /\ w.status = "deleted"
    BY <2>1, TicketColumns
  <2> QED BY <2>2, <2>3, TicketPut DEF Reopened
<1>7. ASSUME Bump(r)
      PROVE  TicketTables' /\ \A t \in TicketIds : Reopened(t) => LateOrDecided(t)
  <2>1. PICK s : s = IF MovesOn(r) THEN "IN_PROGRESS" ELSE Row(r).status
    OBVIOUS
  <2>2. PICK w : w = [Row(r) EXCEPT !.status = s]
    OBVIOUS
  <2>3. Put(r, "bump", w)
    BY <1>7, <2>1, <2>2 DEF Bump
  <2>4. helper[r].on \in TicketIds => /\ w = [status |-> w.status, resolved |-> w.resolved, website |-> w.website]
                                      /\ w.status = s
    BY <2>2, TicketColumns
  <2>5. ~MovesOn(r) => \A t \in TicketIds : ~Reopened(t)
    BY <2>1, <2>3, <2>4, TicketPut DEF Reopened, Row
  <2>6. MovesOn(r) => \A t \in TicketIds : Reopened(t) => LateOrDecided(t)
    BY <2>3, <2>4, TicketPut DEF Reopened, LateOrDecided, MovesOn
  <2> QED BY <2>3, <2>4, <2>5, <2>6, TicketPut
<1>8. ASSUME Touch(r)
      PROVE  TicketTables' /\ \A t \in TicketIds : ~Reopened(t)
  <2>1. PICK w : w = Row(r)
    OBVIOUS
  <2>2. Put(r, "touch", w)
    BY <1>8, <2>1 DEF Touch
  <2>3. helper[r].on \in TicketIds => w = [status |-> w.status, resolved |-> w.resolved, website |-> w.website]
    BY <2>1 DEF Row, TicketTables
  <2> QED BY <2>1, <2>2, <2>3, TicketPut DEF Reopened, Row
<1>9. UNCHANGED ticket
        \/ (\E t \in TicketIds : CreateTicket(r, t) \/ CreateWebsiteTicket(r, t))
        \/ (\E s \in Statuses \cup {Unsaid} : UpdateTicket(r, s)) \/ (\E s \in Statuses : UpdateTicketStatus(r, s))
        \/ DeleteTicket(r) \/ Bump(r) \/ Touch(r)
  BY <1>0 DEF ReadTicket, SubmitForm, TicketGone, AddMessage, HelperDies
<1> QED BY <1>2, <1>3, <1>4, <1>5, <1>6, <1>7, <1>8, <1>9

LEMMA TicketsStart == Init => TicketTables
<1> SUFFICES ASSUME Init PROVE TicketTables
  OBVIOUS
<1>1. TicketsInit
  BY DEF Init, CareInit
<1> QED BY <1>1 DEF TicketsInit, TicketTables, NoTicket

\* Over every interleaving of the staff, the platform and the website: only
\* somebody's decision, or a reply that had read the ticket while it waited,
\* takes a ticket out of its final statuses.
THEOREM TicketsReopened == Spec => ReopenedOnlyByLateReply
<1>1. Init => TicketTables
  BY TicketsStart
<1>2. TicketTables /\ [Next]_vars
        => TicketTables' /\ [\A t \in TicketIds : Reopened(t) => LateOrDecided(t)]_ticketVars
  <2> SUFFICES ASSUME TicketTables, [Next]_vars
               PROVE  TicketTables' /\ [\A t \in TicketIds : Reopened(t) => LateOrDecided(t)]_ticketVars
    OBVIOUS
  <2>1. TicketsNext \/ UNCHANGED ticketVars
    BY DEF Next, PayrollStep, InvoicesStep, InventoryStep, CareStep, Outside, CareNext, CustomersStep, TicketsStep,
           InquiriesStep, ThreadsStep, ChecklistsStep, ReviewsStep, FilesStep, careVars, talkVars, vars
  <2>2. CASE TicketsNext
    BY <2>2, TicketsKept
  <2>3. CASE UNCHANGED ticketVars
    BY <2>3 DEF ticketVars, TicketTables
  <2> QED BY <2>1, <2>2, <2>3
<1>3. [][\A t \in TicketIds : Reopened(t) => LateOrDecided(t)]_ticketVars => ReopenedOnlyByLateReply
  <2>1. [\A t \in TicketIds : Reopened(t) => LateOrDecided(t)]_ticketVars
          => [\A t \in TicketIds :
                ticket[t].status \in Done /\ ticket'[t].status \notin Done \cup {"deleted"} =>
                   \E r \in Clerks : \/ WrittenBy(r, "update", t) \/ WrittenBy(r, "admin", t)
                                     \/ WrittenBy(r, "bump", t) /\ helper[r].was = "WAITING_ON_CUSTOMER"]_ticketVars
    BY DEF Reopened, LateOrDecided
  <2> QED BY <2>1, PTL DEF ReopenedOnlyByLateReply
<1> QED BY <1>1, <1>2, <1>3, PTL DEF Spec
-----------------------------------------------------------------------------
(* Inventory: the stock and the movements *)

\* What a row may hold, and what a row that is not there counts for.
Held     == {NoRow} \cup Nat
Counts(q) == IF q = NoRow THEN 0 ELSE q

\* What a movement is at: which rows it has read and written so far.
Underway(w) ==
    /\ w.pc \in {"read", "write"}
    /\ w.i \in {1, 2} /\ w.i <= Len(Adjustments(w.mv))
    /\ w.pc = "write" => w.have \in Held
    /\ w.i = 1 => w.wrote = <<>>
    /\ w.i = 2 => \E b \in Held, q \in Nat :
         /\ w.wrote = <<[at |-> Adjustments(w.mv)[1].at, base |-> b, qty |-> q]>>
         /\ q = Counts(b) + Adjustments(w.mv)[1].by
         /\ w.pc = "write" /\ Adjustments(w.mv)[2].at = Adjustments(w.mv)[1].at => w.have = q

MovingOn(w) ==
    /\ w = [pc |-> w.pc, mv |-> w.mv, jobs |-> w.jobs, i |-> w.i, have |-> w.have, wrote |-> w.wrote]
    /\ w.mv \in Movement /\ Located(w.mv) /\ w.pc \in {"read", "write", "use"}
    /\ w.pc # "use" => Underway(w)

Movers(m) == m = [r \in Clerks |-> m[r]] /\ \A r \in Clerks : m[r] = Idle \/ MovingOn(m[r])

StockTables == /\ stock \in [Locations -> Held] /\ recorded \in [Locations -> Int]
               /\ used \in [Jobs -> Nat] /\ charged \in [Jobs -> Nat] /\ lost \in BOOLEAN
               /\ Movers(mover)

\* What was taken out of the stock for a job and is still to be written down.
Owes(w, j) == IF w.pc = "use" /\ j \in w.jobs THEN w.mv.qty ELSE 0
Due(m, j)  == [r \in Clerks |-> Owes(m[r], j)]
Backed     == \A j \in Jobs : used[j] + SumFunctionOnSet(Due(mover, j), Clerks) <= charged[j]

StockInv == StockTables /\ InSyncUnlessLost /\ Backed

-----------------------------------------------------------------------------

LEMMA AdjustmentsOf ==
    ASSUME NEW mv \in Movement, Located(mv)
    PROVE  /\ mv.qty \in Nat /\ Len(Adjustments(mv)) \in {1, 2} /\ DOMAIN Adjustments(mv) = 1..Len(Adjustments(mv))
           /\ \A i \in 1..Len(Adjustments(mv)) : Adjustments(mv)[i].at \in Locations /\ Adjustments(mv)[i].by \in Int
<1>1. mv.qty \in Nat /\ mv.type \in Types /\ mv.from \in Locations \cup {Nowhere} /\ mv.to \in Locations \cup {Nowhere}
  BY InventoryAssumption DEF Movement
<1>2. ASSUME NEW a, NEW b \in Int, a \in Locations \cup {Nowhere}, Adjustments(mv) = <<[at |-> a, by |-> b]>>
      PROVE  /\ Len(Adjustments(mv)) = 1 /\ DOMAIN Adjustments(mv) = 1..1
             /\ Adjustments(mv)[1].at \in Locations /\ Adjustments(mv)[1].by \in Int
  <2>1. Len(Adjustments(mv)) = 1 /\ DOMAIN Adjustments(mv) = 1..1 /\ Adjustments(mv)[1] = [at |-> a, by |-> b]
    BY <1>2
  <2>2. Adjustments(mv)[1].at # Nowhere
    BY <2>1 DEF Located
  <2> QED BY <1>2, <2>1, <2>2
<1>3. PICK neg \in Int : neg = -mv.qty
  BY <1>1
<1>4. CASE mv.type \in {"PURCHASE", "RETURN"}
  <2>1. Adjustments(mv) = <<[at |-> mv.to, by |-> mv.qty]>>
    BY <1>4 DEF Adjustments
  <2> QED BY <1>1, <1>2, <2>1
<1>5. CASE mv.type \in {"USAGE", "WRITE_OFF"}
  <2>1. Adjustments(mv) = <<[at |-> mv.from, by |-> neg]>>
    BY <1>3, <1>5 DEF Adjustments
  <2> QED BY <1>1, <1>2, <2>1
<1>6. CASE mv.type = "TRANSFER"
  <2>1. Adjustments(mv) = <<[at |-> mv.from, by |-> neg], [at |-> mv.to, by |-> mv.qty]>>
    BY <1>3, <1>6 DEF Adjustments
  <2>2. /\ Len(Adjustments(mv)) = 2 /\ DOMAIN Adjustments(mv) = 1..2
        /\ Adjustments(mv)[1] = [at |-> mv.from, by |-> neg] /\ Adjustments(mv)[2] = [at |-> mv.to, by |-> mv.qty]
    BY <2>1
  <2>3. Adjustments(mv)[1].at # Nowhere /\ Adjustments(mv)[2].at # Nowhere
    BY <2>2 DEF Located
  <2> QED BY <1>1, <1>3, <2>2, <2>3
<1>7. CASE mv.type = "ADJUSTMENT"
  <2>1. \/ Adjustments(mv) = <<[at |-> mv.to, by |-> mv.qty]>>
        \/ Adjustments(mv) = <<[at |-> mv.from, by |-> neg]>>
    BY <1>3, <1>7 DEF Adjustments
  <2> QED BY <1>1, <1>2, <2>1
<1> QED BY <1>1, <1>4, <1>5, <1>6, <1>7 DEF Types

LEMMA SumOfOne == ASSUME NEW f, NEW x, f[x] \in Int PROVE SumFunctionOnSet(f, {x}) = f[x]
<1>1. IsFiniteSet({x}) /\ \A y \in {x} : f[y] \in Int
  BY FS_Singleton
<1>2. {x} \ {x} = {} /\ SumFunctionOnSet(f, {}) = 0
  BY SumEmpty
<1>3. SumFunctionOnSet(f, {x}) = f[x] + SumFunctionOnSet(f, {x} \ {x})
  BY <1>1, SumTake
<1> QED BY <1>2, <1>3

LEMMA SumOfTwo == ASSUME NEW f, f[1] \in Int, f[2] \in Int PROVE SumFunctionOnSet(f, {1, 2}) = f[1] + f[2]
<1>1. IsFiniteSet({1, 2})
  <2>1. IsFiniteSet({1}) /\ {1} \cup {2} = {1, 2}
    BY FS_Singleton
  <2> QED BY <2>1, FS_AddElement
<1>2. {1, 2} \ {1} = {2} /\ 1 \in {1, 2}
  OBVIOUS
<1>3. \A y \in {1, 2} : f[y] \in Int
  OBVIOUS
<1>4. SumFunctionOnSet(f, {1, 2}) = f[1] + SumFunctionOnSet(f, {1, 2} \ {1})
  BY <1>1, <1>2, <1>3, SumTake
<1> QED BY <1>2, <1>4, SumOfOne

LEMMA MaxOf == Max({1}) = 1 /\ Max({2}) = 2 /\ Max({1, 2}) = 2
BY DEF Max

LEMMA MinOf == Min({1}) = 1 /\ Min({2}) = 2 /\ Min({1, 2}) = 1
BY DEF Min

\* A movement that starts is at the first of its rows.
LEMMA MoveStarts ==
    ASSUME NEW mv \in Movement, Located(mv), NEW js
    PROVE  MovingOn(Moving(mv, js))
<1>1. PICK w : w = Moving(mv, js)
  OBVIOUS
<1>2. w = [pc |-> w.pc, mv |-> w.mv, jobs |-> w.jobs, i |-> w.i, have |-> w.have, wrote |-> w.wrote]
  BY <1>1 DEF Moving
<1>3. w.pc = "read" /\ w.mv = mv /\ w.i = 1 /\ w.wrote = <<>>
  BY <1>1 DEF Moving
<1>4. Underway(w)
  BY <1>3, AdjustmentsOf DEF Underway
<1> QED BY <1>1, <1>2, <1>3, <1>4 DEF MovingOn

LEMMA UsageMoves ==
    ASSUME NEW q \in 1..MaxQuantity, NEW l \in Locations
    PROVE  Usage(q, l) \in Movement /\ Located(Usage(q, l))
<1>1. PICK mv : mv = Usage(q, l)
  OBVIOUS
<1>2. mv \in Movement /\ mv.type = "USAGE" /\ mv.from = l
  BY <1>1 DEF Usage, Movement, Types
<1>3. Adjustments(mv) = <<[at |-> mv.from, by |-> -mv.qty]>>
  BY <1>2 DEF Adjustments
<1>4. DOMAIN Adjustments(mv) = {1} /\ Adjustments(mv)[1].at = l
  BY <1>2, <1>3
<1>5. Located(mv)
  BY <1>4, InventoryAssumption DEF Located
<1> QED BY <1>1, <1>2, <1>5

LEMMA OwesNat ==
    ASSUME NEW w, w = Idle \/ MovingOn(w), NEW j
    PROVE  Owes(w, j) \in Nat
<1>1. CASE w = Idle
  BY <1>1 DEF Idle, Owes
<1>2. CASE MovingOn(w)
  <2>1. w.mv.qty \in Nat
    BY <1>2, AdjustmentsOf DEF MovingOn
  <2> QED BY <2>1 DEF Owes
<1> QED BY <1>1, <1>2

\* What is due changes by what one request owes.
LEMMA DueChanges ==
    ASSUME IsFiniteSet(Clerks), NEW m, NEW n, Movers(m), Movers(n), NEW r \in Clerks,
           \A s \in Clerks \ {r} : n[s] = m[s], NEW j
    PROVE  /\ SumFunctionOnSet(Due(m, j), Clerks) \in Nat /\ SumFunctionOnSet(Due(n, j), Clerks) \in Nat
           /\ SumFunctionOnSet(Due(n, j), Clerks)
                = SumFunctionOnSet(Due(m, j), Clerks) - Owes(m[r], j) + Owes(n[r], j)
<1>1. PICK f : f = Due(m, j)
  OBVIOUS
<1>2. PICK g : g = Due(n, j)
  OBVIOUS
<1>3. \A s \in Clerks : f[s] = Owes(m[s], j) /\ g[s] = Owes(n[s], j)
  BY <1>1, <1>2 DEF Due
<1>4. \A s \in Clerks : f[s] \in Nat /\ g[s] \in Nat
  BY <1>3, OwesNat DEF Movers
<1>5. \A s \in Clerks \ {r} : g[s] = f[s]
  BY <1>3
<1>6. SumFunctionOnSet(f, Clerks) \in Nat /\ SumFunctionOnSet(g, Clerks) \in Nat
  BY <1>4, SumNat
<1>7. \A s \in Clerks : f[s] \in Int /\ g[s] \in Int
  BY <1>4
<1>8. SumFunctionOnSet(g, Clerks) = SumFunctionOnSet(f, Clerks) - f[r] + g[r]
  BY <1>5, <1>7, SumOneChanged
<1> QED BY <1>1, <1>2, <1>3, <1>6, <1>8

\* Nothing but the last write and the row of the job touches a table.
LEMMA QuietMove ==
    ASSUME IsFiniteSet(Clerks), StockInv, NEW r \in Clerks, NEW w, w = Idle \/ MovingOn(w), w.pc # "use",
           MoverTo(r, w), UNCHANGED <<stock, recorded, used, charged, lost>>
    PROVE  StockInv'
<1>1. PICK m : m = mover
  OBVIOUS
<1>2. PICK n : n = [m EXCEPT ![r] = w] /\ n = mover'
  BY <1>1 DEF MoverTo
<1>3. Movers(m)
  BY <1>1 DEF StockInv, StockTables
<1>4. n[r] = w /\ \A s \in Clerks \ {r} : n[s] = m[s]
  BY <1>2, <1>3 DEF Movers
<1>5. Movers(n)
  BY <1>2, <1>3, <1>4 DEF Movers
<1>6. StockTables'
  BY <1>2, <1>5 DEF StockInv, StockTables
<1>7. InSyncUnlessLost'
  BY DEF StockInv, InSyncUnlessLost, StockInSync, OnHand
<1>8. ASSUME NEW j \in Jobs
      PROVE  used'[j] + SumFunctionOnSet(Due(mover', j), Clerks) <= charged'[j]
  <2>1. Owes(m[r], j) \in Nat /\ Owes(n[r], j) = 0
    <3>1. Owes(n[r], j) = 0
      BY <1>4 DEF Owes
    <3> QED BY <1>3, <3>1, OwesNat DEF Movers
  <2>2. PICK a : a = SumFunctionOnSet(Due(m, j), Clerks)
    OBVIOUS
  <2>3. PICK b : b = SumFunctionOnSet(Due(n, j), Clerks)
    OBVIOUS
  <2>4. a \in Nat /\ b \in Nat /\ b = a - Owes(m[r], j) + Owes(n[r], j)
    BY <1>3, <1>4, <1>5, <2>2, <2>3, DueChanges
  <2>5. used[j] \in Nat /\ charged[j] \in Nat /\ used[j] + a <= charged[j]
    BY <1>1, <2>2 DEF StockInv, StockTables, Backed
  <2>6. used[j] + b <= charged[j]
    BY <2>1, <2>4, <2>5
  <2> QED BY <1>2, <2>3, <2>6
<1>9. Backed'
  BY <1>8 DEF Backed
<1> QED BY <1>6, <1>7, <1>9 DEF StockInv

\* What a request sees of the row it is at is what it wrote there, or what the
\* table holds.
LEMMA SeenRow ==
    ASSUME StockInv, NEW r \in Clerks, mover[r].pc \in {"read", "write"}
    PROVE  /\ MovingOn(mover[r]) /\ Underway(mover[r])
           /\ Adjust(r) = Adjustments(mover[r].mv)[mover[r].i]
           /\ Adjust(r).at \in Locations /\ Adjust(r).by \in Int
           /\ mover[r].i = 1 => Seen(r, Adjust(r).at) = stock[Adjust(r).at]
           /\ mover[r].i = 2 =>
                Seen(r, Adjust(r).at) = IF mover[r].wrote[1].at = Adjust(r).at THEN mover[r].wrote[1].qty
                                                                              ELSE stock[Adjust(r).at]
           /\ Seen(r, Adjust(r).at) \in Held
<1>1. PICK w : w = mover[r]
  OBVIOUS
<1>2. MovingOn(w) /\ Underway(w)
  BY <1>1 DEF StockInv, StockTables, Movers, MovingOn, Idle
<1>3. w.mv \in Movement /\ Located(w.mv) /\ w.i \in 1..Len(Adjustments(w.mv))
  <2>1. w.mv \in Movement /\ Located(w.mv) /\ w.i \in {1, 2} /\ w.i <= Len(Adjustments(w.mv))
    BY <1>2 DEF MovingOn, Underway
  <2> QED BY <2>1, AdjustmentsOf
<1>4. PICK a : a = Adjustments(w.mv)[w.i]
  OBVIOUS
<1>5. a.at \in Locations /\ a.by \in Int /\ Adjust(r) = a
  BY <1>1, <1>3, <1>4, AdjustmentsOf DEF Adjust
<1>6. stock[a.at] \in Held
  BY <1>5 DEF StockInv, StockTables
<1>7. CASE w.i = 1
  <2>1. w.wrote = <<>>
    BY <1>2, <1>7 DEF Underway
  <2>2. Mine(r, a.at) = {}
    BY <1>1, <2>1 DEF Mine
  <2> QED BY <1>1, <1>2, <1>4, <1>5, <1>6, <1>7, <2>2 DEF Seen
<1>8. CASE w.i = 2
  <2>1. PICK b \in Held, q \in Nat : w.wrote = <<[at |-> Adjustments(w.mv)[1].at, base |-> b, qty |-> q]>>
    BY <1>2, <1>8 DEF Underway
  <2>2. DOMAIN w.wrote = {1} /\ w.wrote[1].qty = q
    BY <2>1
  <2>3. Mine(r, a.at) = IF w.wrote[1].at = a.at THEN {1} ELSE {}
    BY <1>1, <2>2 DEF Mine
  <2>4. Seen(r, a.at) = IF w.wrote[1].at = a.at THEN w.wrote[1].qty ELSE stock[a.at]
    BY <1>1, <2>3, MaxOf DEF Seen
  <2>5. Seen(r, a.at) \in Held
    BY <1>6, <2>2, <2>4 DEF Held
  <2> QED BY <1>1, <1>2, <1>4, <1>5, <1>8, <2>4, <2>5
<1> QED BY <1>2, <1>7, <1>8 DEF Underway

LEMMA ReadRowHolds == ASSUME IsFiniteSet(Clerks), StockInv, NEW r \in Clerks, ReadRow(r) PROVE StockInv'
<1>1. PICK w : w = mover[r] /\ w.pc = "read"
  BY DEF ReadRow
<1>2. PICK s : s = Seen(r, Adjust(r).at)
  OBVIOUS
<1>3. PICK a : a = Adjust(r)
  OBVIOUS
<1>4. /\ MovingOn(w) /\ Underway(w) /\ a = Adjustments(w.mv)[w.i] /\ s \in Held
      /\ w.i = 2 => s = IF w.wrote[1].at = a.at THEN w.wrote[1].qty ELSE stock[a.at]
  BY <1>1, <1>2, <1>3, SeenRow
<1>5. PICK n : n = [w EXCEPT !.pc = "write", !.have = s]
  OBVIOUS
<1>6. /\ n = [pc |-> n.pc, mv |-> n.mv, jobs |-> n.jobs, i |-> n.i, have |-> n.have, wrote |-> n.wrote]
      /\ n.pc = "write" /\ n.have = s /\ n.mv = w.mv /\ n.i = w.i /\ n.wrote = w.wrote
  BY <1>4, <1>5 DEF MovingOn
<1>7. MoverTo(r, n) /\ UNCHANGED <<stock, recorded, used, charged, lost>>
  BY <1>1, <1>2, <1>5 DEF ReadRow
<1>8. n.mv \in Movement /\ Located(n.mv)
  BY <1>4, <1>6 DEF MovingOn
<1>9. Underway(n)
  <2>1. CASE w.i = 1
    BY <1>4, <1>6, <2>1 DEF Underway
  <2>2. CASE w.i = 2
    <3>1. PICK b \in Held, q \in Nat :
            /\ w.wrote = <<[at |-> Adjustments(w.mv)[1].at, base |-> b, qty |-> q]>>
            /\ q = Counts(b) + Adjustments(w.mv)[1].by
      BY <1>4, <2>2 DEF Underway
    <3>2. w.wrote[1].at = Adjustments(w.mv)[1].at /\ w.wrote[1].qty = q
      BY <3>1
    <3>3. Adjustments(w.mv)[2].at = Adjustments(w.mv)[1].at => s = q
      BY <1>4, <2>2, <3>2
    <3>4. n.i \in {1, 2} /\ n.i <= Len(Adjustments(n.mv)) /\ n.i = 2
      BY <1>4, <1>6, <2>2 DEF Underway
    <3> QED BY <1>4, <1>6, <3>1, <3>3, <3>4 DEF Underway
  <2> QED BY <1>4, <2>1, <2>2 DEF Underway
<1>10. MovingOn(n)
  BY <1>6, <1>8, <1>9 DEF MovingOn
<1> QED BY <1>6, <1>7, <1>10, QuietMove

LEMMA WriteFirstHolds == ASSUME IsFiniteSet(Clerks), StockInv, NEW r \in Clerks, WriteFirst(r) PROVE StockInv'
<1>1. PICK w : w = mover[r] /\ w.pc = "write"
  BY DEF WriteFirst, CanWrite
<1>2. PICK a : a = Adjust(r)
  OBVIOUS
<1>3. /\ MovingOn(w) /\ Underway(w) /\ a = Adjustments(w.mv)[w.i]
      /\ a.at \in Locations /\ a.by \in Int
  BY <1>1, <1>2, SeenRow
<1>4. w.mv \in Movement /\ Located(w.mv) /\ Len(Adjustments(w.mv)) \in {1, 2}
  BY <1>3, AdjustmentsOf DEF MovingOn
<1>5. w.i = 1 /\ Len(Adjustments(w.mv)) = 2 /\ w.wrote = <<>> /\ w.have \in Held
  <2>1. w.i < Len(Adjustments(w.mv))
    BY <1>1 DEF WriteFirst
  <2>2. w.i \in {1, 2} /\ (w.i = 1 => w.wrote = <<>>) /\ w.have \in Held
    BY <1>1, <1>3 DEF Underway
  <2>3. PICK k : k = Len(Adjustments(w.mv))
    OBVIOUS
  <2>4. k \in {1, 2} /\ w.i < k
    BY <1>4, <2>1, <2>3
  <2>5. w.i = 1 /\ k = 2
    BY <2>2, <2>4
  <2> QED BY <2>2, <2>3, <2>5
<1>6. PICK q \in Nat : q = NewQty(r) /\ q = Counts(w.have) + a.by
  <2>1. NewQty(r) \in 0..MaxStock
    BY DEF WriteFirst, CanWrite
  <2>2. NewQty(r) \in Nat
    BY <2>1, InventoryAssumption
  <2>3. NewQty(r) = Counts(w.have) + a.by
    BY <1>1, <1>2 DEF NewQty, Counts
  <2> QED BY <2>2, <2>3
<1>7. PICK d : d = [at |-> a.at, base |-> w.have, qty |-> q]
  OBVIOUS
<1>8. Append(w.wrote, d) = <<d>>
  BY <1>5
<1>9. PICK n : n = [w EXCEPT !.pc = "read", !.i = w.i + 1, !.wrote = Append(w.wrote, d)]
  OBVIOUS
<1>10. /\ n = [pc |-> n.pc, mv |-> n.mv, jobs |-> n.jobs, i |-> n.i, have |-> n.have, wrote |-> n.wrote]
       /\ n.pc = "read" /\ n.mv = w.mv /\ n.i = 2 /\ n.wrote = <<d>>
  <2>1. PICK x : x = Append(w.wrote, d) /\ x = <<d>>
    BY <1>8
  <2>2. w.i + 1 = 2
    BY <1>5
  <2>3. n = [w EXCEPT !.pc = "read", !.i = 2, !.wrote = x]
    BY <1>9, <2>1, <2>2
  <2>4. w = [pc |-> w.pc, mv |-> w.mv, jobs |-> w.jobs, i |-> w.i, have |-> w.have, wrote |-> w.wrote]
    BY <1>3 DEF MovingOn
  <2>5. /\ n = [pc |-> n.pc, mv |-> n.mv, jobs |-> n.jobs, i |-> n.i, have |-> n.have, wrote |-> n.wrote]
        /\ n.pc = "read" /\ n.mv = w.mv /\ n.i = 2 /\ n.wrote = x
    BY <2>3, <2>4
  <2> QED BY <2>1, <2>5
<1>11. MoverTo(r, n) /\ UNCHANGED <<stock, recorded, used, charged, lost>>
  <2>1. d = [at |-> Adjust(r).at, base |-> mover[r].have, qty |-> NewQty(r)]
    BY <1>1, <1>2, <1>6, <1>7
  <2>2. MoverTo(r, [mover[r] EXCEPT !.pc = "read", !.i = mover[r].i + 1, !.wrote = Append(mover[r].wrote, d)])
    BY <2>1 DEF WriteFirst
  <2>3. MoverTo(r, n)
    BY <1>1, <1>9, <2>2
  <2> QED BY <2>3 DEF WriteFirst
<1>12. Underway(n)
  <2>1. a = Adjustments(n.mv)[1]
    BY <1>3, <1>5, <1>10
  <2>2. n.wrote = <<[at |-> Adjustments(n.mv)[1].at, base |-> w.have, qty |-> q]>>
    BY <1>7, <1>10, <2>1
  <2>3. q = Counts(w.have) + Adjustments(n.mv)[1].by
    BY <1>6, <2>1
  <2>4. n.i \in {1, 2} /\ n.pc = "read" /\ n.i = 2 /\ Len(Adjustments(n.mv)) = 2
    BY <1>5, <1>10
  <2>5. n.i <= Len(Adjustments(n.mv))
    BY <2>4
  <2> QED BY <1>5, <1>6, <2>2, <2>3, <2>4, <2>5 DEF Underway
<1>13. MovingOn(n)
  BY <1>4, <1>10, <1>12 DEF MovingOn
<1> QED BY <1>10, <1>11, <1>13, QuietMove

\* What the last write makes of a row that held o: the rows `at' of done are
\* the writes to it, by their adjustments.
Accounted(done, at, by, o) ==
    /\ SumFunctionOnSet(by, at) \in Int
    /\ at # {} => done[Max(at)].qty \in Nat
    /\ (at # {} => done[Min(at)].base = o)
         => Counts(IF at = {} THEN o ELSE done[Max(at)].qty) = Counts(o) + SumFunctionOnSet(by, at)

LEMMA CountsNat == /\ \A o \in Held : Counts(o) \in Nat
                   /\ \A q \in Nat : Counts(q) = q
BY DEF Held, Counts, NoRow

LEMMA NoneWritten == ASSUME NEW done, NEW at, NEW by, NEW o \in Held, at = {} PROVE Accounted(done, at, by, o)
<1>1. SumFunctionOnSet(by, at) = 0
  BY SumEmpty
<1> QED BY <1>1, CountsNat DEF Accounted

LEMMA OneWritten ==
    ASSUME NEW done, NEW at, NEW by, NEW o \in Held, NEW i \in {1, 2}, NEW b \in Held, NEW q \in Nat,
           at = {i}, done[i].base = b, done[i].qty = q, by[i] \in Int, q = Counts(b) + by[i]
    PROVE  Accounted(done, at, by, o)
<1>1. SumFunctionOnSet(by, at) = by[i]
  BY SumOfOne
<1>2. Max(at) = i /\ Min(at) = i
  BY MaxOf, MinOf
<1>3. done[Max(at)].qty = q /\ done[Min(at)].base = b /\ at # {} /\ Counts(q) = q
  BY <1>2, CountsNat
<1> QED BY <1>1, <1>3 DEF Accounted

LEMMA TwoWritten ==
    ASSUME NEW done, NEW at, NEW by, NEW o \in Held, NEW b \in Held, NEW p \in Nat, NEW q \in Nat,
           at = {1, 2}, done[1].base = b, done[2].qty = q, by[1] \in Int, by[2] \in Int,
           p = Counts(b) + by[1], q = Counts(p) + by[2]
    PROVE  Accounted(done, at, by, o)
<1>1. SumFunctionOnSet(by, at) = by[1] + by[2]
  BY SumOfTwo
<1>2. Max(at) = 2 /\ Min(at) = 1
  BY MaxOf, MinOf
<1>3. done[Max(at)].qty = q /\ done[Min(at)].base = b /\ at # {} /\ Counts(q) = q /\ Counts(p) = p
  BY <1>2, CountsNat
<1>4. q = Counts(b) + (by[1] + by[2])
  BY <1>3, CountsNat
<1> QED BY <1>1, <1>3, <1>4 DEF Accounted

\* What is written by a movement of one row, and by a transfer.
OneDone(done, by, a, b, q) ==
    /\ a.by \in Int /\ q = Counts(b) + a.by
    /\ done = <<[at |-> a.at, base |-> b, qty |-> q]>> /\ by[1] = a.by

TwoDone(done, by, f, b, p, a, c, q) ==
    /\ f.by \in Int /\ p = Counts(b) + f.by /\ by[1] = f.by
    /\ a.by \in Int /\ q = Counts(c) + a.by /\ by[2] = a.by
    /\ a.at = f.at => c = p
    /\ done = <<[at |-> f.at, base |-> b, qty |-> p], [at |-> a.at, base |-> c, qty |-> q]>>

LEMMA Listed ==
    ASSUME NEW n \in Nat, NEW s, s = [i \in 1..n |-> s[i]]
    PROVE  Len(s) = n /\ s \in Seq({s[i] : i \in 1..n})
<1>1. PICK S : S = {s[i] : i \in 1..n}
  OBVIOUS
<1>2. s \in [1..n -> S]
  BY <1>1
<1>3. s \in Seq(S)
  BY <1>2, SeqDef
<1>4. Len(s) = n
  BY <1>2, <1>3, LenProperties
<1> QED BY <1>1, <1>3, <1>4

LEMMA OneMore ==
    ASSUME NEW n \in Nat, NEW s, s = [i \in 1..n |-> s[i]], NEW w, NEW t, t = Append(s, w)
    PROVE  /\ Len(t) = n + 1 /\ t = [i \in 1..(n + 1) |-> t[i]] /\ t[n + 1] = w
           /\ \A i \in 1..n : t[i] = s[i]
<1>1. PICK S : S = {s[i] : i \in 1..n} \cup {w}
  OBVIOUS
<1>2. s \in [1..n -> S] /\ w \in S
  BY <1>1
<1>3. s \in Seq(S) /\ Len(s) = n
  BY <1>2, SeqDef, Listed
<1>4. /\ t \in Seq(S) /\ Len(t) = n + 1 /\ t[n + 1] = w
      /\ \A i \in 1..n : t[i] = s[i]
  BY <1>2, <1>3, AppendProperties
<1>5. t \in [1..(n + 1) -> S]
  BY <1>4, LenProperties
<1> QED BY <1>4, <1>5

LEMMA OneTwo == ASSUME NEW e, NEW d PROVE Append(<<>>, e) = <<e>> /\ Append(<<e>>, d) = <<e, d>>
<1>1. PICK s : s = <<e>>
  OBVIOUS
<1>2. s = [i \in 1..1 |-> s[i]] /\ s[1] = e
  BY <1>1
<1>3. PICK t : t = Append(s, d)
  OBVIOUS
<1>4. PICK n \in Nat : n = 1
  OBVIOUS
<1>5. t = [i \in 1..(n + 1) |-> t[i]] /\ t[n + 1] = d /\ \A i \in 1..n : t[i] = s[i]
  <2>1. s = [i \in 1..n |-> s[i]]
    BY <1>2, <1>4
  <2> QED BY <1>3, <2>1, OneMore
<1>6. t = [i \in 1..2 |-> t[i]] /\ t[2] = d /\ t[1] = e
  BY <1>2, <1>4, <1>5
<1>7. t = <<e, d>>
  BY <1>6
<1>8. Append(<<>>, e) = <<e>>
  OBVIOUS
<1> QED BY <1>1, <1>3, <1>7, <1>8

\* A movement of one row.
LEMMA LastRow ==
    ASSUME NEW done, NEW by, NEW a, NEW b \in Held, NEW q \in Nat, NEW o \in Held, NEW l, NEW at,
           OneDone(done, by, a, b, q), at = {i \in DOMAIN done : done[i].at = l}
    PROVE  Accounted(done, at, by, o)
<1> USE DEF OneDone
<1>0. PICK d : d = [at |-> a.at, base |-> b, qty |-> q] /\ done = <<d>>
  OBVIOUS
<1>1. DOMAIN done = {1} /\ done[1] = d
  BY <1>0
<1>2. done[1].at = a.at /\ done[1].base = b /\ done[1].qty = q
  BY <1>0, <1>1
<1>3. at = {} \/ at = {1}
  BY <1>1
<1> QED BY <1>2, <1>3, NoneWritten, OneWritten

\* A transfer, between two rows or to the row it comes from.
LEMMA LastRows ==
    ASSUME NEW done, NEW by, NEW f, NEW b \in Held, NEW p \in Nat, NEW a, NEW c \in Held, NEW q \in Nat,
           NEW o \in Held, NEW l, NEW at,
           TwoDone(done, by, f, b, p, a, c, q), at = {i \in DOMAIN done : done[i].at = l}
    PROVE  Accounted(done, at, by, o)
<1> USE DEF TwoDone
<1>10. PICK e : e = [at |-> f.at, base |-> b, qty |-> p]
  OBVIOUS
<1>11. PICK d : d = [at |-> a.at, base |-> c, qty |-> q] /\ done = <<e, d>>
  BY <1>10
<1>1. DOMAIN done = {1, 2} /\ done[1] = e /\ done[2] = d
  BY <1>11
<1>2. e.at = f.at /\ e.base = b /\ e.qty = p
  BY <1>10
<1>3. d.at = a.at /\ d.base = c /\ d.qty = q
  BY <1>11
<1>4. at = {i \in {1, 2} : done[i].at = l}
  BY <1>1
<1>5. CASE l # f.at /\ l # a.at
  <2>1. at = {}
    BY <1>1, <1>2, <1>3, <1>4, <1>5
  <2> QED BY <2>1, NoneWritten
<1>6. CASE l = f.at /\ l # a.at
  <2>1. at = {1}
    BY <1>1, <1>2, <1>3, <1>4, <1>6
  <2>2. done[1].base = b /\ done[1].qty = p /\ by[1] \in Int /\ p = Counts(b) + by[1]
    BY <1>1, <1>2
  <2> QED BY <2>1, <2>2, OneWritten
<1>7. CASE l # f.at /\ l = a.at
  <2>1. at = {2}
    BY <1>1, <1>2, <1>3, <1>4, <1>7
  <2>2. done[2].base = c /\ done[2].qty = q /\ by[2] \in Int /\ q = Counts(c) + by[2]
    BY <1>1, <1>3
  <2> QED BY <2>1, <2>2, OneWritten
<1>8. CASE l = f.at /\ l = a.at
  <2>1. at = {1, 2}
    BY <1>1, <1>2, <1>3, <1>4, <1>8
  <2>2. c = p
    BY <1>8
  <2>3. done[1].base = b /\ done[2].qty = q /\ by[1] \in Int /\ by[2] \in Int
    BY <1>1, <1>2, <1>3
  <2>4. p = Counts(b) + by[1] /\ q = Counts(p) + by[2]
    BY <2>2
  <2> QED BY <2>1, <2>3, <2>4, TwoWritten
<1>9. (l # f.at /\ l # a.at) \/ (l = f.at /\ l # a.at) \/ (l # f.at /\ l = a.at) \/ (l = f.at /\ l = a.at)
  OBVIOUS
<1> QED BY <1>5, <1>6, <1>7, <1>8, <1>9, Zenon

\* The last write leaves the tables as the movements say they are.
LEMMA WriteLastSync ==
    ASSUME StockInv, NEW r \in Clerks, WriteLast(r)
    PROVE  /\ stock' \in [Locations -> Held] /\ recorded' \in [Locations -> Int] /\ lost' \in BOOLEAN
           /\ InSyncUnlessLost'
<1>1. PICK w : w = mover[r] /\ w.pc = "write"
  BY DEF WriteLast, CanWrite
<1>2. PICK a : a = Adjust(r)
  OBVIOUS
<1>3. /\ MovingOn(w) /\ Underway(w) /\ a = Adjustments(w.mv)[w.i]
      /\ a.at \in Locations /\ a.by \in Int
  BY <1>1, <1>2, SeenRow
<1>4. w.mv \in Movement /\ Located(w.mv)
  BY <1>3 DEF MovingOn
<1>5. w.i \in {1, 2} /\ w.have \in Held
  BY <1>1, <1>3 DEF Underway
<1>6. PICK q \in Nat : q = NewQty(r) /\ q = Counts(w.have) + a.by
  <2>1. NewQty(r) \in 0..MaxStock
    BY DEF WriteLast, CanWrite
  <2>2. NewQty(r) \in Nat
    BY <2>1, InventoryAssumption
  <2>3. NewQty(r) = Counts(w.have) + a.by
    BY <1>1, <1>2 DEF NewQty, Counts
  <2> QED BY <2>2, <2>3
<1>7. PICK d : d = [at |-> a.at, base |-> w.have, qty |-> q]
  OBVIOUS
<1>8. PICK done : done = Append(w.wrote, d)
  OBVIOUS
<1>9. PICK by : by = [i \in DOMAIN done |-> Adjustments(w.mv)[i].by]
  OBVIOUS
<1>10. PICK old : old = stock /\ old \in [Locations -> Held]
  BY DEF StockInv, StockTables
<1> DEFINE at(l) == {i \in DOMAIN done : done[i].at = l}
<1>11. d = [at |-> Adjust(r).at, base |-> mover[r].have, qty |-> NewQty(r)]
  BY <1>1, <1>2, <1>6, <1>7
<1>12. done = Append(mover[r].wrote, [at |-> Adjust(r).at, base |-> mover[r].have, qty |-> NewQty(r)])
  BY <1>1, <1>8, <1>11
<1>13. by = [i \in DOMAIN done |-> Adjustments(mover[r].mv)[i].by]
  BY <1>1, <1>9
<1>14. /\ stock' = [l \in Locations |-> IF at(l) = {} THEN old[l] ELSE done[Max(at(l))].qty]
       /\ recorded' = [l \in Locations |-> recorded[l] + SumFunctionOnSet(by, at(l))]
       /\ lost' = (lost \/ \E i \in DOMAIN done :
                            i = Min(at(done[i].at)) /\ done[i].base # old[done[i].at])
  BY <1>10, <1>12, <1>13 DEF WriteLast
<1>15. \A l \in Locations : Accounted(done, at(l), by, old[l]) /\ at(l) \in {{}, {1}, {2}, {1, 2}} /\ at(l) \subseteq DOMAIN done
  <2> SUFFICES ASSUME NEW l \in Locations
               PROVE  Accounted(done, at(l), by, old[l]) /\ at(l) \in {{}, {1}, {2}, {1, 2}}
    OBVIOUS
  <2>1. PICK o \in Held : o = old[l]
    BY <1>10
  <2>2. PICK s : s = {i \in DOMAIN done : done[i].at = l}
    OBVIOUS
  <2>6. PICK c \in Held : c = w.have /\ q = Counts(c) + a.by /\ d = [at |-> a.at, base |-> c, qty |-> q]
    BY <1>5, <1>6, <1>7
  <2>3. CASE w.i = 1
    <3>1. w.wrote = <<>>
      BY <1>3, <2>3 DEF Underway
    <3>2. done = <<d>>
      BY <1>8, <3>1, OneTwo
    <3>3. DOMAIN done = {1}
      BY <3>2
    <3>4. by[1] = a.by
      BY <1>3, <1>9, <2>3, <3>3
    <3>7. OneDone(done, by, a, c, q)
      BY <1>3, <2>6, <3>2, <3>4 DEF OneDone
    <3>5. Accounted(done, s, by, o)
      BY <2>2, <3>7, LastRow
    <3>6. at(l) \subseteq {1}
      BY <3>3
    <3> QED BY <2>1, <2>2, <3>5, <3>6
  <2>4. CASE w.i = 2
    <3>1. PICK f : f = Adjustments(w.mv)[1]
      OBVIOUS
    <3>2. PICK b \in Held, p \in Nat :
            /\ w.wrote = <<[at |-> f.at, base |-> b, qty |-> p]>> /\ p = Counts(b) + f.by
            /\ Adjustments(w.mv)[2].at = f.at => w.have = p
      BY <1>1, <1>3, <2>4, <3>1 DEF Underway
    <3>3. PICK e : e = [at |-> f.at, base |-> b, qty |-> p]
      OBVIOUS
    <3>11. w.wrote = <<e>>
      BY <3>2, <3>3
    <3>4. done = <<e, d>>
      BY <1>8, <3>11, OneTwo
    <3>5. DOMAIN done = {1, 2}
      BY <3>4
    <3>6. by[1] = f.by /\ by[2] = a.by
      BY <1>3, <1>9, <2>4, <3>1, <3>5
    <3>7. f.by \in Int
      <4>1. PICK k : k = Len(Adjustments(w.mv))
        OBVIOUS
      <4>2. k \in {1, 2} /\ \A i \in 1..k : Adjustments(w.mv)[i].by \in Int
        BY <1>4, <4>1, AdjustmentsOf
      <4> QED BY <3>1, <4>2
    <3>8. a.at = f.at => c = p
      BY <1>3, <2>4, <2>6, <3>2
    <3>12. p = Counts(b) + f.by
      BY <3>2
    <3>13. TwoDone(done, by, f, b, p, a, c, q)
      BY <1>3, <2>6, <3>3, <3>4, <3>6, <3>7, <3>8, <3>12 DEF TwoDone
    <3>9. Accounted(done, s, by, o)
      BY <2>2, <3>13, LastRows
    <3>10. at(l) \subseteq {1, 2}
      BY <3>5
    <3> QED BY <2>1, <2>2, <3>9, <3>10
  <2> QED BY <1>5, <2>3, <2>4
<1>16. \A l \in Locations : at(l) # {} => Min(at(l)) \in at(l) /\ Max(at(l)) \in at(l)
  BY <1>15, MaxOf, MinOf
<1>17. lost' \in BOOLEAN
  BY <1>14 DEF StockInv, StockTables
<1> HIDE DEF at
<1>18. stock' \in [Locations -> Held] /\ recorded' \in [Locations -> Int]
  <2>1. \A l \in Locations : (IF at(l) = {} THEN old[l] ELSE done[Max(at(l))].qty) \in Held
    BY <1>10, <1>15 DEF Accounted, Held
  <2>2. \A l \in Locations : recorded[l] + SumFunctionOnSet(by, at(l)) \in Int
    BY <1>15 DEF Accounted, StockInv, StockTables
  <2> QED BY <1>14, <2>1, <2>2
<1>19. ASSUME ~lost', NEW l \in Locations
       PROVE  Counts(stock'[l]) = recorded'[l]
  <2>1. ~lost
    BY <1>14, <1>19
  <2>2. Counts(old[l]) = recorded[l]
    BY <1>10, <2>1 DEF StockInv, InSyncUnlessLost, StockInSync, OnHand, Counts
  <2>3. at(l) # {} => done[Min(at(l))].base = old[l]
    <3> SUFFICES ASSUME at(l) # {} PROVE done[Min(at(l))].base = old[l]
      OBVIOUS
    <3>1. PICK i : i = Min(at(l)) /\ i \in at(l)
      BY <1>16
    <3>2. i \in DOMAIN done /\ done[i].at = l
      BY <3>1 DEF at
    <3> QED BY <1>14, <1>19, <3>1, <3>2
  <2>4. Counts(IF at(l) = {} THEN old[l] ELSE done[Max(at(l))].qty) = Counts(old[l]) + SumFunctionOnSet(by, at(l))
    BY <1>15, <2>3 DEF Accounted
  <2>5. stock'[l] = (IF at(l) = {} THEN old[l] ELSE done[Max(at(l))].qty)
        /\ recorded'[l] = recorded[l] + SumFunctionOnSet(by, at(l))
    BY <1>14
  <2> QED BY <2>2, <2>4, <2>5
<1> QED BY <1>17, <1>18, <1>19 DEF InSyncUnlessLost, StockInSync, OnHand, Counts

LEMMA WriteLastHolds == ASSUME IsFiniteSet(Clerks), StockInv, NEW r \in Clerks, WriteLast(r) PROVE StockInv'
<1>1. PICK w : w = mover[r] /\ w.pc = "write"
  BY DEF WriteLast, CanWrite
<1>2. MovingOn(w)
  BY <1>1, SeenRow
<1>3. PICK n : n = IF w.jobs = {} THEN Idle ELSE [w EXCEPT !.pc = "use", !.wrote = <<>>]
  OBVIOUS
<1>4. MoverTo(r, n) /\ used' = used /\ charged' = [j \in Jobs |-> charged[j] + (IF j \in w.jobs THEN w.mv.qty ELSE 0)]
  BY <1>1, <1>3 DEF WriteLast
<1>5. n = Idle \/ MovingOn(n)
  <2>1. CASE w.jobs = {}
    BY <1>3, <2>1
  <2>2. CASE w.jobs # {}
    <3>1. /\ n = [pc |-> n.pc, mv |-> n.mv, jobs |-> n.jobs, i |-> n.i, have |-> n.have, wrote |-> n.wrote]
          /\ n.pc = "use" /\ n.mv = w.mv
      BY <1>2, <1>3, <2>2 DEF MovingOn
    <3> QED BY <1>2, <3>1 DEF MovingOn
  <2> QED BY <2>1, <2>2
<1>6. \A j \in Jobs : Owes(n, j) = IF j \in w.jobs THEN w.mv.qty ELSE 0
  <2>1. CASE w.jobs = {}
    BY <1>3, <2>1 DEF Idle, Owes
  <2>2. CASE w.jobs # {}
    <3>1. n.pc = "use" /\ n.mv = w.mv /\ n.jobs = w.jobs
      BY <1>2, <1>3, <2>2 DEF MovingOn
    <3> QED BY <3>1 DEF Owes
  <2> QED BY <2>1, <2>2
<1>7. PICK m : m = mover /\ Movers(m)
  BY DEF StockInv, StockTables
<1>8. PICK t : t = [m EXCEPT ![r] = n] /\ t = mover'
  BY <1>4, <1>7 DEF MoverTo
<1>9. Movers(t) /\ t[r] = n /\ m[r] = w /\ \A s \in Clerks \ {r} : t[s] = m[s]
  BY <1>1, <1>5, <1>7, <1>8 DEF Movers
<1>10. w.mv.qty \in Nat
  BY <1>2, AdjustmentsOf DEF MovingOn
<1>11. charged' \in [Jobs -> Nat] /\ used' \in [Jobs -> Nat]
  <2>1. \A j \in Jobs : charged[j] + (IF j \in w.jobs THEN w.mv.qty ELSE 0) \in Nat
    BY <1>10 DEF StockInv, StockTables
  <2> QED BY <1>4, <2>1 DEF StockInv, StockTables
<1>12. ASSUME NEW j \in Jobs
       PROVE  used'[j] + SumFunctionOnSet(Due(mover', j), Clerks) <= charged'[j]
  <2>1. PICK a : a = SumFunctionOnSet(Due(m, j), Clerks)
    OBVIOUS
  <2>2. PICK b : b = SumFunctionOnSet(Due(t, j), Clerks)
    OBVIOUS
  <2>3. a \in Nat /\ b \in Nat /\ b = a - Owes(m[r], j) + Owes(t[r], j)
    BY <1>7, <1>9, <2>1, <2>2, DueChanges
  <2>4. Owes(m[r], j) = 0
    BY <1>1, <1>9 DEF Owes
  <2>5. PICK k \in Nat : k = Owes(n, j) /\ charged'[j] = charged[j] + k
    BY <1>4, <1>6, <1>10
  <2>6. b = a + k
    BY <1>9, <2>3, <2>4, <2>5
  <2>7. used[j] \in Nat /\ charged[j] \in Nat /\ used[j] + a <= charged[j]
    BY <1>7, <2>1 DEF StockInv, StockTables, Backed
  <2>8. used[j] + b <= charged[j] + k
    BY <2>3, <2>6, <2>7
  <2> QED BY <1>4, <1>8, <2>2, <2>5, <2>8
<1>13. Backed'
  BY <1>12 DEF Backed
<1> QED BY <1>8, <1>9, <1>11, <1>13, WriteLastSync DEF StockInv, StockTables

LEMMA RecordUseHolds == ASSUME IsFiniteSet(Clerks), StockInv, NEW r \in Clerks, RecordUse(r) PROVE StockInv'
<1>1. PICK w : w = mover[r] /\ w.pc = "use"
  BY DEF RecordUse
<1>2. PICK m : m = mover /\ Movers(m)
  BY DEF StockInv, StockTables
<1>3. PICK t : t = [m EXCEPT ![r] = Idle] /\ t = mover'
  BY <1>2 DEF RecordUse, MoverTo
<1>4. Movers(t) /\ t[r] = Idle /\ m[r] = w /\ \A s \in Clerks \ {r} : t[s] = m[s]
  BY <1>1, <1>2, <1>3 DEF Movers
<1>5. w.mv.qty \in Nat
  <2>1. MovingOn(w)
    BY <1>1, <1>2, <1>4 DEF Movers, Idle
  <2> QED BY <2>1, AdjustmentsOf DEF MovingOn
<1>6. used' = [j \in Jobs |-> used[j] + (IF j \in w.jobs THEN w.mv.qty ELSE 0)]
  BY <1>1 DEF RecordUse
<1>7. used' \in [Jobs -> Nat]
  <2>1. \A j \in Jobs : used[j] + (IF j \in w.jobs THEN w.mv.qty ELSE 0) \in Nat
    BY <1>5 DEF StockInv, StockTables
  <2> QED BY <1>6, <2>1
<1>8. ASSUME NEW j \in Jobs
      PROVE  used'[j] + SumFunctionOnSet(Due(mover', j), Clerks) <= charged'[j]
  <2>1. PICK a : a = SumFunctionOnSet(Due(m, j), Clerks)
    OBVIOUS
  <2>2. PICK b : b = SumFunctionOnSet(Due(t, j), Clerks)
    OBVIOUS
  <2>3. a \in Nat /\ b \in Nat /\ b = a - Owes(m[r], j) + Owes(t[r], j)
    BY <1>2, <1>4, <2>1, <2>2, DueChanges
  <2>4. Owes(t[r], j) = 0
    BY <1>4 DEF Owes, Idle
  <2>5. PICK k \in Nat : k = Owes(w, j) /\ used'[j] = used[j] + k
    BY <1>1, <1>5, <1>6 DEF Owes
  <2>6. b + k = a
    BY <1>4, <2>3, <2>4, <2>5
  <2>7. used[j] \in Nat /\ charged[j] \in Nat /\ used[j] + a <= charged[j]
    BY <1>2, <2>1 DEF StockInv, StockTables, Backed
  <2>8. used[j] + k + b <= charged[j]
    BY <2>3, <2>5, <2>6, <2>7
  <2>9. charged' = charged
    BY DEF RecordUse
  <2> QED BY <1>3, <2>2, <2>5, <2>8, <2>9
<1>9. Backed'
  BY <1>8 DEF Backed
<1>10. StockTables'
  BY <1>3, <1>4, <1>7 DEF StockInv, StockTables, RecordUse
<1>11. InSyncUnlessLost'
  BY DEF StockInv, InSyncUnlessLost, StockInSync, OnHand, RecordUse
<1> QED BY <1>9, <1>10, <1>11 DEF StockInv

LEMMA StockStepHolds == ASSUME IsFiniteSet(Clerks) PROVE StockInv /\ [InventoryNext]_inventoryVars => StockInv'
<1> SUFFICES ASSUME StockInv, [InventoryNext]_inventoryVars PROVE StockInv'
  OBVIOUS
<1>1. CASE UNCHANGED inventoryVars
  BY <1>1 DEF StockInv, StockTables, InSyncUnlessLost, StockInSync, OnHand, Backed, inventoryVars
<1>2. ASSUME NEW r \in Clerks, NEW mv \in Movement, Move(r, mv)
      PROVE  StockInv'
  <2>1. PICK w : w = Moving(mv, {})
    OBVIOUS
  <2>2. MovingOn(w) /\ w.pc # "use"
    BY <1>2, <2>1, MoveStarts DEF Move, Moving
  <2> QED BY <1>2, <2>1, <2>2, QuietMove DEF Move
<1>3. ASSUME NEW r \in Clerks, NEW j \in Jobs, NEW q \in 1..MaxQuantity, NEW l \in Locations, Use(r, j, q, l)
      PROVE  StockInv'
  <2>1. PICK w : w = Moving(Usage(q, l), {j})
    OBVIOUS
  <2>2. MovingOn(w) /\ w.pc # "use"
    BY <2>1, UsageMoves, MoveStarts DEF Moving
  <2> QED BY <1>3, <2>1, <2>2, QuietMove DEF Use
<1>4. ASSUME NEW r \in Clerks, Refuse(r) \/ Deadlocked(r) \/ MoverDies(r)
      PROVE  StockInv'
  <2>1. PICK w : w = Idle
    OBVIOUS
  <2>3. w.pc # "use"
    BY <2>1 DEF Idle
  <2>2. MoverTo(r, w) /\ UNCHANGED <<stock, recorded, used, charged, lost>>
    BY <1>4, <2>1 DEF Refuse, Deadlocked, MoverDies
  <2> QED BY <2>1, <2>2, <2>3, QuietMove
<1> QED BY <1>1, <1>2, <1>3, <1>4, ReadRowHolds, WriteFirstHolds, WriteLastHolds, RecordUseHolds DEF InventoryNext

LEMMA NoneDue == ASSUME IsFiniteSet(Clerks), InventoryInit PROVE StockInv
<1>1. \A j \in Jobs : SumFunctionOnSet(Due(mover, j), Clerks) = 0
  <2> SUFFICES ASSUME NEW j \in Jobs PROVE SumFunctionOnSet(Due(mover, j), Clerks) = 0
    OBVIOUS
  <2>1. PICK f : f = Due(mover, j)
    OBVIOUS
  <2>2. \A r \in Clerks : f[r] = 0
    BY <2>1 DEF Due, Owes, InventoryInit, Idle
  <2>3. SumFunctionOnSet(f, Clerks) = 0
    BY <2>2, SumOfZeros
  <2> QED BY <2>1, <2>3
<1>2. Backed
  BY <1>1 DEF Backed, InventoryInit
<1>3. StockTables
  <2>1. mover = [r \in Clerks |-> Idle]
    BY DEF InventoryInit
  <2>2. Movers(mover)
    BY <2>1 DEF Movers
  <2>3. stock \in [Locations -> Held] /\ recorded \in [Locations -> Int]
    BY DEF InventoryInit, Held
  <2>4. used \in [Jobs -> Nat] /\ charged \in [Jobs -> Nat] /\ lost \in BOOLEAN
    BY DEF InventoryInit
  <2> QED BY <2>2, <2>3, <2>4 DEF StockTables
<1>4. InSyncUnlessLost
  BY DEF InventoryInit, InSyncUnlessLost, StockInSync, OnHand
<1> QED BY <1>2, <1>3, <1>4 DEF StockInv

InventorySpec == InventoryInit /\ [][InventoryNext]_inventoryVars

LEMMA BackOfficeInventory == Spec => InventorySpec
<1>1. Init => InventoryInit
  BY DEF Init
<1>2. [Next]_vars => [InventoryNext]_inventoryVars
  BY DEF Next, PayrollStep, InvoicesStep, InventoryStep, CareStep, Outside, vars, inventoryVars
<1> QED BY <1>1, <1>2, PTL DEF Spec, InventorySpec

LEMMA StockInvHolds == ASSUME IsFiniteSet(Clerks) PROVE InventorySpec => []StockInv
<1>1. InventoryInit => StockInv
  BY NoneDue
<1>2. StockInv /\ [InventoryNext]_inventoryVars => StockInv'
  BY StockStepHolds
<1> QED BY <1>1, <1>2, PTL DEF InventorySpec

\* For any number of locations and of requests at once, with refusals, crashes
\* and deadlocks half-way: but for a movement that wrote over another's
\* quantity, the stock is what the movements add up to, and no more is used up
\* on a job than was taken out for it (inventory.service.js, createMovement and
\* recordJobUsage).
THEOREM StockAlwaysHolds == ASSUME IsFiniteSet(Clerks) PROVE Spec => []StockHolds
<1>1. StockInv => StockHolds
  <2> SUFFICES ASSUME StockInv, NEW j \in Jobs PROVE used[j] <= charged[j]
    BY DEF StockInv, StockHolds, UsageIsBacked
  <2>1. PICK f : f = Due(mover, j)
    OBVIOUS
  <2>2. \A r \in Clerks : f[r] \in Nat
    BY <2>1, OwesNat DEF Due, StockInv, StockTables, Movers
  <2>3. PICK a \in Nat : a = SumFunctionOnSet(f, Clerks)
    BY <2>2, SumNat
  <2>4. used[j] + a <= charged[j]
    BY <2>1, <2>3 DEF StockInv, Backed
  <2> QED BY <2>4 DEF StockInv, StockTables
<1>2. Spec => []StockInv
  BY BackOfficeInventory, StockInvHolds, PTL
<1> QED BY <1>1, <1>2, PTL
=============================================================================
