---------------------------- MODULE IntakeProofs ----------------------------
(***************************************************************************)
(* Proofs about the intake of bookings, for any number of handlers that    *)
(* interleave and fail in any order, any number of people, cleaners,       *)
(* bookings and waitlist entries.                                          *)
(***************************************************************************)
EXTENDS Intake, SumProofs, SequenceTheorems

LEMMA Sizes ==
    /\ Cleaners \in Nat /\ CardValue \in Nat /\ CouponMax \in Nat /\ CouponEach \in Nat
    /\ DailyLimit \in Nat /\ MaxNotified \in Nat /\ MaxBookings \in Nat
    /\ MaxWaiting \in Nat /\ MaxFaults \in Nat
    /\ Discount \in Nat /\ Price \in Nat /\ Discount <= Price
BY SizesAssumption

-----------------------------------------------------------------------------
(* Types: the tables, the slots, the lock *)

TablesOK ==
    /\ bookings \in Seq(Row) /\ Len(bookings) <= MaxBookings
    /\ customers \subseteq Phones
    /\ redeemed \in 0..CouponMax /\ card \in 0..CardValue
    /\ rewards \in Nat /\ sessions \subseteq Ids
    /\ waitlist \in Seq(Entry) /\ Len(waitlist) <= MaxWaiting
    /\ faults \in 0..MaxFaults /\ gaveBack \in [Ids -> Nat]
    /\ clobbered \in BOOLEAN /\ loose \subseteq Ids

\* What a handler remembers points into the tables.
WorkOK(w) ==
    /\ w.pc \in {"reward", "deposit", "depositWrite", "cardRead", "cardTake", "cardWrite",
                 "cancelCard", "cancelWrite", "expire", "find"} => w.bk \in Made
    /\ w.pc \in {"cardTake", "cardWrite"} => w.take <= CardValue
    /\ w.pc \in {"tell", "mark"} => w.list # <<>>

CreatingPc == {"lock", "check", "create", "staffCreate"}

\* Every handler about to create a booking has a number left for it.
Room == IsFiniteSet(Creating) /\ Len(bookings) + Cardinality(Creating) <= MaxBookings

SlotsOK ==
    /\ req \in [Requests -> Work \cup {Idle}]
    /\ \A r \in Requests : WorkOK(req[r])
    /\ Room

LockOK ==
    /\ bizLock \subseteq Requests
    /\ \A s, t \in bizLock : s = t
    /\ \A r \in Requests : req[r].pc \in {"check", "create"} => bizLock = {r}

TypeInv == TablesOK /\ SlotsOK /\ LockOK

FormWork   == [pc : {"lock", "check", "create"}, form : Forms, cheap : BOOLEAN]
MadeWork   == [pc : {"reward", "deposit", "depositWrite", "cardRead"}, bk : Ids, card : BOOLEAN,
               ref : BOOLEAN]
TakeWork   == [pc : {"cardTake", "cardWrite"}, bk : Ids, take : Nat]
StaffWork  == [pc : {"staffCreate"}, cust : Phones, coupon : BOOLEAN, cheap : BOOLEAN]
CancelWork == [pc : {"cancelCard", "cancelWrite", "expire", "find"}, bk : Ids, row : Row,
               seen : Nat]
TellWork   == [pc : {"tell", "mark"}, list : Seq(1..MaxWaiting)]

LEMMA KindsOfWork ==
    Work = FormWork \cup MadeWork \cup TakeWork \cup StaffWork \cup CancelWork \cup TellWork
BY DEF Work, FormWork, MadeWork, TakeWork, StaffWork, CancelWork, TellWork

\* The program counter tells which record a busy slot holds.
LEMMA KindOf ==
    ASSUME NEW w \in Work \cup {Idle}
    PROVE  /\ w.pc \in {"lock", "check", "create"} => w \in FormWork
           /\ w.pc \in {"reward", "deposit", "depositWrite", "cardRead"} => w \in MadeWork
           /\ w.pc \in {"cardTake", "cardWrite"} => w \in TakeWork
           /\ w.pc = "staffCreate" => w \in StaffWork
           /\ w.pc \in {"cancelCard", "cancelWrite", "expire", "find"} => w \in CancelWork
           /\ w.pc \in {"tell", "mark"} => w \in TellWork
           /\ w.pc = "idle" <=> w = Idle
<1>1. Idle.pc = "idle"  BY DEF Idle
<1>2. CASE w = Idle  BY <1>1, <1>2
<1>3. CASE w \in FormWork    BY <1>3, <1>1 DEF FormWork
<1>4. CASE w \in MadeWork    BY <1>4, <1>1 DEF MadeWork
<1>5. CASE w \in TakeWork    BY <1>5, <1>1 DEF TakeWork
<1>6. CASE w \in StaffWork   BY <1>6, <1>1 DEF StaffWork
<1>7. CASE w \in CancelWork  BY <1>7, <1>1 DEF CancelWork
<1>8. CASE w \in TellWork    BY <1>8, <1>1 DEF TellWork
<1> QED BY <1>2, <1>3, <1>4, <1>5, <1>6, <1>7, <1>8, KindsOfWork

LEMMA TypeInvTypes == TypeInv => TypeOK
<1> SUFFICES ASSUME TypeInv  PROVE TypeOK
  OBVIOUS
<1>1. Cardinality(bizLock) <= 1
  <2>1. CASE bizLock = {}  BY <2>1, FS_EmptySet
  <2>2. ASSUME NEW s \in bizLock  PROVE Cardinality(bizLock) <= 1
    <3>1. bizLock = {s}  BY <2>2 DEF TypeInv, LockOK
    <3> QED BY <3>1, FS_Singleton
  <2> QED BY <2>1, <2>2
<1>2. \A r \in Requests : At(r, "check") \/ At(r, "create") => bizLock = {r}
  BY DEF At, TypeInv, LockOK
<1> QED BY <1>1, <1>2 DEF TypeOK, TypeInv, TablesOK, SlotsOK, LockOK

-----------------------------------------------------------------------------
(* The tables as functions *)

LEMMA BookingsAre ==
    ASSUME TablesOK
    PROVE  /\ Len(bookings) \in Nat /\ Made = 1..Len(bookings)
           /\ Made \subseteq Ids /\ IsFiniteSet(Made)
           /\ \A b \in Made : bookings[b] \in Row
<1>1. Len(bookings) \in Nat /\ Made = 1..Len(bookings)
  BY LenProperties DEF TablesOK, Made
<1>2. IsFiniteSet(Made)  BY <1>1, FS_Interval
<1>3. \A b \in Made : bookings[b] \in Row
  BY <1>1, ElementOfSeq DEF TablesOK
<1> QED BY <1>1, <1>2, <1>3, Sizes DEF TablesOK, Ids

LEMMA UpdateBooking ==
    ASSUME TablesOK, NEW b \in Made, NEW row \in Row,
           bookings' = [bookings EXCEPT ![b] = row]
    PROVE  /\ bookings' \in Seq(Row) /\ Len(bookings') = Len(bookings) /\ Made' = Made
           /\ \A d \in Made : bookings'[d] = IF d = b THEN row ELSE bookings[d]
<1>1. b \in 1..Len(bookings)  BY BookingsAre
<1>2. bookings' \in Seq(Row) /\ Len(bookings') = Len(bookings)
  BY <1>1, ExceptSeq DEF TablesOK
<1>3. Made' = Made  BY DEF Made
<1>4. \A d \in Made : bookings'[d] = IF d = b THEN row ELSE bookings[d]
  BY DEF Made
<1> QED BY <1>2, <1>3, <1>4

LEMMA AddBooking ==
    ASSUME TablesOK, NEW row \in Row, bookings' = Append(bookings, row)
    PROVE  /\ bookings' \in Seq(Row) /\ Len(bookings') = Len(bookings) + 1
           /\ Made' = Made \cup {Len(bookings) + 1} /\ Len(bookings) + 1 \notin Made
           /\ \A d \in Made : bookings'[d] = bookings[d]
           /\ bookings'[Len(bookings) + 1] = row
<1>1. bookings' \in Seq(Row) /\ Len(bookings') = Len(bookings) + 1
  BY AppendProperties DEF TablesOK
<1>2. Made' = 1..(Len(bookings) + 1)
  BY <1>1, LenProperties DEF Made
<1>3. /\ \A d \in 1..Len(bookings) : bookings'[d] = bookings[d]
      /\ bookings'[Len(bookings) + 1] = row
  BY AppendProperties DEF TablesOK
<1> QED BY <1>1, <1>2, <1>3, BookingsAre

-----------------------------------------------------------------------------
(* The slots *)

LEMMA CreatingStep ==
    ASSUME SlotsOK, NEW r \in Requests, NEW w, req' = [req EXCEPT ![r] = w]
    PROVE  Creating' = IF w.pc \in CreatingPc THEN Creating \cup {r} ELSE Creating \ {r}
BY DEF SlotsOK, Creating, CreatingPc

\* A handler goes on to w: it keeps, takes or gives back its place in the table.
Places(r, w) ==
    \/ Len(bookings') = Len(bookings) /\ w.pc \notin CreatingPc
    \/ Len(bookings') = Len(bookings) /\ req[r].pc \in CreatingPc
    \/ /\ Len(bookings') = Len(bookings)
       /\ Len(bookings) + Cardinality(Creating) < MaxBookings
    \/ /\ Len(bookings') = Len(bookings) + 1
       /\ req[r].pc \in CreatingPc /\ w.pc \notin CreatingPc

LEMMA SlotStep ==
    ASSUME TablesOK, SlotsOK, NEW r \in Requests, NEW w \in Work \cup {Idle}, WorkOK(w)',
           req' = [req EXCEPT ![r] = w], Made \subseteq Made', Places(r, w)
    PROVE  SlotsOK'
<1>1. req' \in [Requests -> Work \cup {Idle}]  BY DEF SlotsOK
<1>2. ASSUME NEW s \in Requests  PROVE WorkOK(req[s])'
  <2> PICK v : v = req[s]  OBVIOUS
  <2>1. WorkOK(v)'  BY DEF SlotsOK, WorkOK
  <2>2. req'[s] = IF s = r THEN w ELSE v  BY DEF SlotsOK
  <2> QED BY <2>1, <2>2
<1>3. Room'
  <2> PICK C, D : C = Creating /\ D = Creating'  OBVIOUS
  <2>1. D = IF w.pc \in CreatingPc THEN C \cup {r} ELSE C \ {r}
    BY CreatingStep
  <2>2. IsFiniteSet(C) /\ Cardinality(C) \in Nat
    BY FS_CardinalityType DEF SlotsOK, Room
  <2>3. /\ IsFiniteSet(C \cup {r}) /\ IsFiniteSet(C \ {r})
        /\ Cardinality(C \cup {r}) = IF r \in C THEN Cardinality(C) ELSE Cardinality(C) + 1
        /\ Cardinality(C \ {r}) = IF r \in C THEN Cardinality(C) - 1 ELSE Cardinality(C)
    BY <2>2, FS_AddElement, FS_RemoveElement
  <2>4. r \in C <=> req[r].pc \in CreatingPc
    BY DEF Creating, CreatingPc
  <2>5. Len(bookings) \in Nat /\ Len(bookings) + Cardinality(C) <= MaxBookings
    BY BookingsAre DEF SlotsOK, Room
  <2>6. IsFiniteSet(D) /\ Len(bookings') + Cardinality(D) <= MaxBookings
    BY <2>1, <2>2, <2>3, <2>4, <2>5, Sizes DEF Places
  <2> QED BY <2>6 DEF Room
<1> QED BY <1>1, <1>2, <1>3 DEF SlotsOK

LEMMA IdleStep ==
    ASSUME TablesOK, SlotsOK, NEW r \in Requests, Return(r), Made \subseteq Made',
           \/ Len(bookings') = Len(bookings)
           \/ Len(bookings') = Len(bookings) + 1 /\ req[r].pc \in CreatingPc
    PROVE  SlotsOK'
<1>1. Idle.pc \notin CreatingPc  BY DEF Idle, CreatingPc
<1>2. WorkOK(Idle)'  BY DEF WorkOK, Idle
<1>3. Places(r, Idle)  BY <1>1 DEF Places
<1> QED BY <1>2, <1>3, SlotStep DEF Return

LEMMA LockStep ==
    ASSUME SlotsOK, LockOK, NEW r \in Requests, NEW w, req' = [req EXCEPT ![r] = w],
           \/ /\ bizLock' = bizLock
              /\ w.pc \in {"check", "create"} => req[r].pc \in {"check", "create"}
           \/ bizLock = {} /\ bizLock' = {r}
           \/ bizLock' = bizLock \ {r} /\ w.pc \notin {"check", "create"}
    PROVE  LockOK'
<1>1. \A s \in Requests : req'[s] = IF s = r THEN w ELSE req[s]
  BY DEF SlotsOK
<1> QED BY <1>1 DEF LockOK

\* The step of a handler that only changes what it remembers.
LEMMA JustGoes ==
    ASSUME TypeInv, NEW r \in Requests, NEW w \in Work \cup {Idle}, WorkOK(w),
           req' = [req EXCEPT ![r] = w],
           UNCHANGED <<bookings, customers, offers, waitlist, bizLock, hist>>,
           w.pc \in {"check", "create"} => req[r].pc \in {"check", "create"},
           \/ w.pc \notin CreatingPc \/ req[r].pc \in CreatingPc
           \/ Len(bookings) + Cardinality(Creating) < MaxBookings
    PROVE  TypeInv'
<1>1. TablesOK'  BY DEF TypeInv, TablesOK, offers, hist
<1>2. WorkOK(w)' /\ Made \subseteq Made'  BY DEF WorkOK, Made
<1>3. Places(r, w)  BY DEF Places
<1>4. SlotsOK'  BY <1>2, <1>3, SlotStep DEF TypeInv
<1>5. LockOK'  BY LockStep DEF TypeInv
<1> QED BY <1>1, <1>4, <1>5 DEF TypeInv

-----------------------------------------------------------------------------
(* Who is told: the first of those who wait *)

Rank(S, e) == Cardinality({d \in S : d < e})

\* In a finite set of numbers there is exactly one with i - 1 smaller ones.
LEMMA RankLemma ==
    ASSUME NEW S \in SUBSET Nat, IsFiniteSet(S)
    PROVE  /\ Cardinality(S) \in Nat
           /\ \A e \in S : Rank(S, e) \in 0..(Cardinality(S) - 1)
           /\ \A d, e \in S : d < e => Rank(S, d) < Rank(S, e)
           /\ \A i \in 1..Cardinality(S) : \E e \in S : Rank(S, e) = i - 1
<1> PICK N : N = Cardinality(S)  OBVIOUS
<1> DEFINE Below(e) == {d \in S : d < e}
<1>0. \A e \in S : e \in Nat  OBVIOUS
<1>1. N \in Nat  BY FS_CardinalityType
<1>2. ASSUME NEW e \in S
      PROVE  /\ IsFiniteSet(Below(e)) /\ Rank(S, e) = Cardinality(Below(e))
             /\ Rank(S, e) \in 0..(N - 1)
  <2>1. Below(e) \in SUBSET (S \ {e}) /\ IsFiniteSet(S \ {e}) /\ Cardinality(S \ {e}) = N - 1
    BY <1>0, FS_RemoveElement
  <2>2. /\ IsFiniteSet(Below(e)) /\ Cardinality(Below(e)) \in Nat
        /\ Cardinality(Below(e)) <= N - 1
    BY <2>1, FS_Subset, FS_CardinalityType
  <2> QED BY <1>1, <2>2 DEF Rank
<1>3. ASSUME NEW d \in S, NEW e \in S, d < e
      PROVE  Rank(S, d) < Rank(S, e)
  <2>1. \A c \in S : c < d => c < e
    BY <1>0, <1>3
  <2>2. Below(d) \cup {d} \in SUBSET Below(e) /\ d \notin Below(d)
    <3>1. ~(d < d)  BY <1>0
    <3>2. \A c \in Below(d) \cup {d} : c \in Below(e)  BY <1>3, <2>1
    <3> QED BY <3>1, <3>2
  <2> PICK D, E : D = Below(d) /\ E = Below(e)  OBVIOUS
  <2>3. /\ IsFiniteSet(D) /\ IsFiniteSet(E) /\ Cardinality(D) \in Nat
        /\ Cardinality(E) \in Nat /\ Rank(S, d) = Cardinality(D) /\ Rank(S, e) = Cardinality(E)
    BY <1>2, FS_CardinalityType
  <2>4. D \cup {d} \in SUBSET E /\ d \notin D  BY <2>2
  <2>5. Cardinality(D \cup {d}) <= Cardinality(E)
    BY <2>3, <2>4, FS_Subset
  <2>6. Cardinality(D \cup {d}) = Cardinality(D) + 1
    BY <2>3, <2>4, FS_AddElement
  <2> QED BY <2>3, <2>5, <2>6
<1> HIDE DEF Below
<1>4. \A i \in 1..N : \E e \in S : Rank(S, e) = i - 1
  <2> PICK f : f = [e \in S |-> Rank(S, e)]  OBVIOUS
  <2>1. f \in Injection(S, 0..(N - 1))
    <3>1. f \in [S -> 0..(N - 1)]  BY <1>2
    <3>2. ASSUME NEW d \in S, NEW e \in S, f[d] = f[e]  PROVE d = e
      <4>1. d < e \/ e < d \/ d = e  BY <1>0
      <4>2. Rank(S, d) = Rank(S, e)  BY <3>2
      <4>3. Rank(S, d) \in Int  BY <1>1, <1>2
      <4> QED BY <1>3, <4>1, <4>2, <4>3
    <3> QED BY <3>1, <3>2 DEF Injection, IsInjective
  <2>2. IsFiniteSet(0..(N - 1)) /\ Cardinality(0..(N - 1)) = N
    <3>1. N - 1 \in Int /\ 0 \in Int  BY <1>1
    <3>2. /\ IsFiniteSet(0..(N - 1))
          /\ Cardinality(0..(N - 1)) = IF 0 > N - 1 THEN 0 ELSE (N - 1) - 0 + 1
      BY <3>1, FS_Interval
    <3> QED BY <1>1, <3>2
  <2>3. f \in Surjection(S, 0..(N - 1))
    BY <2>1, <2>2, FS_Injection
  <2> TAKE i \in 1..N
  <2>4. i - 1 \in 0..(N - 1)  BY <1>1
  <2>5. \E e \in S : f[e] = i - 1  BY <2>3, <2>4 DEF Surjection
  <2> QED BY <2>5
<1> QED BY <1>1, <1>2, <1>3, <1>4

Waiters == {e \in DOMAIN waitlist : waitlist[e].status = "WAITING"}

LEMMA WaitlistIs ==
    ASSUME TablesOK
    PROVE  /\ Len(waitlist) \in Nat /\ DOMAIN waitlist = 1..Len(waitlist)
           /\ DOMAIN waitlist \subseteq 1..MaxWaiting
           /\ \A e \in DOMAIN waitlist : waitlist[e] \in Entry
           /\ Waiters \in SUBSET Nat /\ IsFiniteSet(Waiters)
<1>1. Len(waitlist) \in Nat /\ DOMAIN waitlist = 1..Len(waitlist)
  BY LenProperties DEF TablesOK
<1>2. \A e \in DOMAIN waitlist : waitlist[e] \in Entry
  BY <1>1, ElementOfSeq DEF TablesOK
<1>3. IsFiniteSet(DOMAIN waitlist)  BY <1>1, FS_Interval
<1>4. Waiters \in SUBSET DOMAIN waitlist  BY DEF Waiters
<1> QED BY <1>1, <1>2, <1>3, <1>4, FS_Subset, Sizes DEF TablesOK

LEMMA MinOfTwo ==
    ASSUME NEW m \in Nat, NEW n \in Nat
    PROVE  Min({m, n}) = IF m <= n THEN m ELSE n
BY DEF Min

\* FirstWaiting lists waiters, each after all who joined before.
LEMMA FirstWaitingIs ==
    ASSUME TablesOK
    PROVE  /\ FirstWaiting \in Seq(1..MaxWaiting)
           /\ \A i \in 1..Len(FirstWaiting) : FirstWaiting[i] \in Waiters
           /\ \A i \in 1..Len(FirstWaiting), d \in Waiters :
                d < FirstWaiting[i] => \E j \in 1..(i - 1) : FirstWaiting[j] = d
<1> DEFINE n == Min({MaxNotified, Cardinality(Waiters)})
           f == FirstWaiting
<1>1. n \in Nat /\ n <= Cardinality(Waiters) /\ Cardinality(Waiters) \in Nat
  BY WaitlistIs, FS_CardinalityType, MinOfTwo, Sizes
<1>2. f = [i \in 1..n |-> CHOOSE e \in Waiters : Rank(Waiters, e) = i - 1]
  BY DEF FirstWaiting, Waiters, Rank
<1> HIDE DEF n, f
<1>3. \A i \in 1..n : f[i] \in Waiters /\ Rank(Waiters, f[i]) = i - 1
  <2> TAKE i \in 1..n
  <2>1. i \in 1..Cardinality(Waiters)  BY <1>1
  <2>2. Waiters \in SUBSET Nat /\ IsFiniteSet(Waiters)  BY WaitlistIs
  <2>3. \E e \in Waiters : Rank(Waiters, e) = i - 1
    BY <2>1, <2>2, RankLemma
  <2> QED BY <1>2, <2>3
<1>4. f \in [1..n -> 1..MaxWaiting]
  BY <1>2, <1>3, WaitlistIs DEF Waiters
<1>5. f \in Seq(1..MaxWaiting) /\ Len(f) = n
  <2>1. f \in Seq(1..MaxWaiting)  BY <1>1, <1>4, SeqDef
  <2>2. DOMAIN f = 1..Len(f) /\ DOMAIN f = 1..n /\ Len(f) \in Nat
    BY <1>4, <2>1, LenProperties
  <2>3. 1..Len(f) = 1..n  BY <2>2
  <2> PICK l, m : l = Len(f) /\ m = n  OBVIOUS
  <2>4. \A i \in Nat : i \in 1..l <=> i \in 1..m  BY <2>3
  <2>5. l \in Nat /\ m \in Nat  BY <1>1, <2>2
  <2>6. l = m  BY <2>4, <2>5
  <2> QED BY <2>1, <2>6
<1>6. ASSUME NEW i \in 1..n, NEW d \in Waiters, d < f[i]
      PROVE  \E j \in 1..(i - 1) : f[j] = d
  <2> PICK k : k = Rank(Waiters, d)  OBVIOUS
  <2>1. k < i - 1 /\ k \in Nat
    BY <1>1, <1>3, <1>6, WaitlistIs, RankLemma
  <2>2. k + 1 \in 1..(i - 1) /\ k + 1 \in 1..n  BY <1>1, <2>1
  <2>3. f[k + 1] \in Waiters /\ Rank(Waiters, f[k + 1]) = k
    BY <1>3, <2>1, <2>2
  <2>4. ~(d < f[k + 1]) /\ ~(f[k + 1] < d)
    BY <2>1, <2>3, WaitlistIs, RankLemma
  <2>5. f[k + 1] = d  BY <2>3, <2>4, WaitlistIs
  <2> QED BY <2>2, <2>5
<1> QED BY <1>3, <1>5, <1>6 DEF f

-----------------------------------------------------------------------------
(* Types are kept *)

LEMMA StoredIsPhone ==
    ASSUME TablesOK, NEW f \in Forms
    PROVE  /\ Stored(f) \in Phones /\ Stored(f).num = f.num /\ f.num \in Numbers
           /\ Known(f.num) # {} => Stored(f) \in customers
<1>1. f.num \in Numbers  BY FormsAssumption
<1>2. CASE Known(f.num) = {}  BY <1>1, <1>2 DEF Stored, E164, Phones
<1>3. CASE Known(f.num) # {}
  <2>1. Stored(f) \in Known(f.num)  BY <1>3 DEF Stored
  <2> QED BY <1>1, <2>1 DEF Known, TablesOK, Phones
<1> QED BY <1>1, <1>2, <1>3

LEMMA SubmitTypes ==
    ASSUME TypeInv, NEW r \in Requests, Submit(r)
    PROVE  TypeInv'
<1> USE Sizes
<1>0. /\ TablesOK /\ SlotsOK /\ LockOK
      /\ req[r] \in Work \cup {Idle} /\ WorkOK(req[r])
      /\ Made \subseteq Ids /\ \A b \in Made : bookings[b] \in Row
  BY BookingsAre DEF TypeInv, SlotsOK
<1>1. ASSUME NEW f \in Forms, Quote(r, f)  PROVE TypeInv'
  <2> DEFINE w == [pc |-> "lock", form |-> f, cheap |-> f.coupon /\ redeemed < CouponMax]
  <2>1. w \in Work \cup {Idle} /\ w.pc = "lock" /\ WorkOK(w)
    BY FormsAssumption DEF KindsOfWork, Work, WorkOK
  <2>2. /\ req' = [req EXCEPT ![r] = w] /\ Len(bookings) + Cardinality(Creating) < MaxBookings
        /\ UNCHANGED <<bookings, customers, offers, waitlist, bizLock, hist>>
    BY <1>1 DEF Quote, Begin
  <2> HIDE DEF w
  <2> QED BY <2>1, <2>2, JustGoes
<1>2. ASSUME TakeLock(r)  PROVE TypeInv'
  <2> PICK w : w = [req[r] EXCEPT !.pc = "check"]  OBVIOUS
  <2>1. req[r] \in FormWork /\ req[r].pc = "lock"  BY <1>0, <1>2, KindOf DEF TakeLock, At
  <2>2. w \in Work \cup {Idle} /\ w.pc = "check" /\ WorkOK(w)'
    BY <2>1 DEF FormWork, Work, WorkOK
  <2>3. /\ req' = [req EXCEPT ![r] = w] /\ bizLock = {} /\ bizLock' = {r}
        /\ UNCHANGED <<bookings, customers, offers, waitlist, hist>>
    BY <1>2 DEF TakeLock, Then
  <2>4. TablesOK'  BY <1>0, <2>3 DEF TablesOK, offers, hist
  <2>5. SlotsOK'
    BY <1>0, <2>1, <2>2, <2>3, SlotStep DEF Places, CreatingPc, Made
  <2>6. LockOK'  BY <1>0, <2>3, LockStep
  <2> QED BY <2>4, <2>5, <2>6 DEF TypeInv
<1>3. ASSUME Check(r)  PROVE TypeInv'
  <2>1. req[r] \in FormWork /\ req[r].pc = "check"  BY <1>0, <1>3, KindOf DEF Check, At
  <2>2. UNCHANGED <<bookings, customers, offers, waitlist, hist>>  BY <1>3 DEF Check
  <2>3. CASE Then(r, "create") /\ UNCHANGED bizLock
    <3> PICK w : w = [req[r] EXCEPT !.pc = "create"]  OBVIOUS
    <3>1. w \in Work \cup {Idle} /\ w.pc = "create" /\ WorkOK(w)
      BY <2>1 DEF FormWork, Work, WorkOK
    <3> QED BY <2>1, <2>2, <2>3, <3>1, JustGoes DEF Then, CreatingPc
  <2>4. CASE Return(r) /\ bizLock' = bizLock \ {r}
    <3>1. TablesOK'  BY <1>0, <2>2 DEF TablesOK, offers, hist
    <3>2. SlotsOK'  BY <1>0, <2>2, <2>4, IdleStep DEF Made
    <3>3. LockOK'  BY <1>0, <2>4, LockStep DEF Return, Idle
    <3> QED BY <3>1, <3>2, <3>3 DEF TypeInv
  <2> QED BY <1>3, <2>3, <2>4 DEF Check
<1>4. ASSUME Create(r)  PROVE TypeInv'
  <2>1. req[r] \in FormWork /\ req[r].pc = "create"  BY <1>0, <1>4, KindOf DEF Create, At
  <2> PICK f, c, ref, price :
         /\ f = req[r].form /\ c = Stored(f) /\ ref = Referred(f)
         /\ price = IF req[r].cheap \/ ref THEN Price - Discount ELSE Price
    OBVIOUS
  <2>2. f \in Forms /\ c \in Phones /\ f.coupon \in BOOLEAN /\ f.card \in BOOLEAN
    BY <1>0, <2>1, StoredIsPhone, FormsAssumption DEF FormWork
  <2>3. UNCHANGED <<card, rewards, sessions, waitlist, hist>> /\ bizLock' = bizLock \ {r}
    BY <1>4 DEF Create
  <2>4. CASE /\ f.coupon => MayRedeem(c)
             /\ customers' = customers \cup {c}
             /\ bookings' = Append(bookings,
                              NewRow(c, TRUE, price, f.coupon, ref, Known(f.num) = {}))
             /\ redeemed' = IF f.coupon THEN redeemed + 1 ELSE redeemed
             /\ Goto(r, [pc |-> "reward", bk |-> Len(bookings) + 1, card |-> f.card, ref |-> ref])
    <3> PICK row : row = NewRow(c, TRUE, price, f.coupon, ref, Known(f.num) = {})  OBVIOUS
    <3> PICK w : w = [pc |-> "reward", bk |-> Len(bookings) + 1, card |-> f.card, ref |-> ref]
      OBVIOUS
    <3>1. row \in Row  BY <2>2 DEF NewRow, Row, Status, Referred
    <3>2. /\ bookings' \in Seq(Row) /\ Len(bookings') = Len(bookings) + 1
          /\ Made' = Made \cup {Len(bookings) + 1}
      BY <1>0, <2>4, <3>1, AddBooking
    <3>3. Len(bookings) \in Nat /\ Len(bookings) + 1 <= MaxBookings
      <4>1. r \in Creating  BY <2>1 DEF Creating
      <4>2. IsFiniteSet(Creating) /\ Cardinality(Creating) \in Nat /\ Cardinality(Creating) # 0
        BY <1>0, <4>1, FS_CardinalityType, FS_EmptySet DEF SlotsOK, Room
      <4> QED BY <1>0, <4>2, BookingsAre DEF SlotsOK, Room
    <3>4. redeemed' \in 0..CouponMax
      BY <1>0, <2>2, <2>4 DEF TablesOK, MayRedeem
    <3>5. TablesOK'
      BY <1>0, <2>2, <2>3, <2>4, <3>2, <3>3, <3>4 DEF TablesOK, hist
    <3>6. w \in MadeWork /\ w.pc = "reward" /\ w.bk \in Made'
      BY <2>2, <3>2, <3>3 DEF MadeWork, Ids, Referred
    <3>7. w \in Work \cup {Idle} /\ WorkOK(w)'  BY <3>6, KindsOfWork DEF WorkOK
    <3>8. Places(r, w)  BY <2>1, <3>2, <3>6 DEF Places, CreatingPc
    <3>9. req' = [req EXCEPT ![r] = w]  BY <2>4 DEF Goto
    <3>10. SlotsOK'  BY <1>0, <3>2, <3>7, <3>8, <3>9, SlotStep
    <3>11. LockOK'  BY <1>0, <2>3, <3>6, <3>9, LockStep
    <3> QED BY <3>5, <3>10, <3>11 DEF TypeInv
  <2>5. CASE Return(r) /\ UNCHANGED <<customers, bookings, redeemed>>
    <3>1. TablesOK'  BY <1>0, <2>3, <2>5 DEF TablesOK, hist
    <3>2. SlotsOK'  BY <1>0, <2>5, IdleStep DEF Made
    <3>3. LockOK'  BY <1>0, <2>3, <2>5, LockStep DEF Return, Idle
    <3> QED BY <3>1, <3>2, <3>3 DEF TypeInv
  <2> QED BY <1>4, <2>4, <2>5 DEF Create
<1>5. ASSUME Reward(r)  PROVE TypeInv'
  <2>1. req[r] \in MadeWork /\ req[r].pc = "reward"  BY <1>0, <1>5, KindOf DEF Reward, At
  <2> PICK w : w = [req[r] EXCEPT !.pc = "deposit"]  OBVIOUS
  <2>2. w \in MadeWork /\ w.pc = "deposit" /\ w.bk = req[r].bk  BY <2>1 DEF MadeWork
  <2>3. w \in Work \cup {Idle} /\ WorkOK(w)
    BY <1>0, <2>1, <2>2, KindsOfWork DEF WorkOK
  <2>4. /\ req' = [req EXCEPT ![r] = w]
        /\ UNCHANGED <<bookings, customers, redeemed, card, sessions, waitlist, bizLock, hist>>
    BY <1>5 DEF Reward, Then
  <2>5. TablesOK'  BY <1>0, <1>5, <2>4 DEF Reward, TablesOK, hist
  <2>6. SlotsOK'
    BY <1>0, <2>2, <2>3, <2>4, SlotStep DEF Places, CreatingPc, WorkOK, Made
  <2>7. LockOK'  BY <1>0, <2>2, <2>4, LockStep
  <2> QED BY <2>5, <2>6, <2>7 DEF TypeInv
<1>6. ASSUME Deposit(r)  PROVE TypeInv'
  <2>1. req[r] \in MadeWork /\ req[r].pc = "deposit" /\ req[r].bk \in Ids
    BY <1>0, <1>6, KindOf DEF Deposit, At, MadeWork
  <2>2. PICK pc \in {"cardRead", "depositWrite"} :
          /\ Then(r, pc) /\ sessions' \subseteq sessions \cup {req[r].bk}
          /\ UNCHANGED <<bookings, customers, redeemed, card, rewards, waitlist, bizLock, hist>>
    BY <1>6 DEF Deposit
  <2> PICK w : w = [req[r] EXCEPT !.pc = pc]  OBVIOUS
  <2>3. w \in MadeWork /\ w.pc = pc /\ w.bk = req[r].bk  BY <2>1 DEF MadeWork
  <2>4. w \in Work \cup {Idle} /\ WorkOK(w)
    BY <1>0, <2>1, <2>3, KindsOfWork DEF WorkOK
  <2>5. TablesOK'  BY <1>0, <2>1, <2>2 DEF TablesOK, hist
  <2>6. SlotsOK'
    BY <1>0, <2>2, <2>3, <2>4, SlotStep DEF Places, CreatingPc, WorkOK, Made, Then
  <2>7. LockOK'  BY <1>0, <2>2, <2>3, LockStep DEF Then
  <2> QED BY <2>5, <2>6, <2>7 DEF TypeInv
<1>7. ASSUME DepositWrite(r)  PROVE TypeInv'
  <2>1. req[r] \in MadeWork /\ req[r].pc = "depositWrite" /\ req[r].bk \in Made
    BY <1>0, <1>7, KindOf DEF DepositWrite, At, WorkOK
  <2> PICK w : w = [req[r] EXCEPT !.pc = "cardRead"]  OBVIOUS
  <2> PICK row : row = [bookings[req[r].bk] EXCEPT !.session = TRUE]  OBVIOUS
  <2>2. w \in MadeWork /\ w.pc = "cardRead" /\ w.bk = req[r].bk  BY <2>1 DEF MadeWork
  <2>3. w \in Work \cup {Idle} /\ WorkOK(w)
    BY <1>0, <2>1, <2>2, KindsOfWork DEF WorkOK
  <2>4. row \in Row  BY <1>0, <2>1 DEF Row
  <2>5. /\ req' = [req EXCEPT ![r] = w] /\ bookings' = [bookings EXCEPT ![req[r].bk] = row]
        /\ UNCHANGED <<customers, offers, waitlist, bizLock, hist>>
    BY <1>7 DEF DepositWrite, Then
  <2>6. bookings' \in Seq(Row) /\ Len(bookings') = Len(bookings) /\ Made' = Made
    BY <1>0, <2>1, <2>4, <2>5, UpdateBooking
  <2>7. TablesOK'  BY <1>0, <2>5, <2>6 DEF TablesOK, offers, hist
  <2>8. SlotsOK'
    BY <1>0, <2>2, <2>3, <2>5, <2>6, SlotStep DEF Places, CreatingPc, WorkOK
  <2>9. LockOK'  BY <1>0, <2>2, <2>5, LockStep
  <2> QED BY <2>7, <2>8, <2>9 DEF TypeInv
<1>8. ASSUME CardRead(r)  PROVE TypeInv'
  <2>1. req[r] \in MadeWork /\ req[r].pc = "cardRead" /\ req[r].bk \in Made
    BY <1>0, <1>8, KindOf DEF CardRead, At, WorkOK
  <2>2. UNCHANGED <<bookings, customers, offers, waitlist, bizLock, hist>>
    BY <1>8 DEF CardRead
  <2> PICK take : take = Min({card, bookings[req[r].bk].price})  OBVIOUS
  <2>3. take \in Nat /\ take <= CardValue
    <3>1. card \in Nat /\ card <= CardValue  BY <1>0 DEF TablesOK
    <3>2. bookings[req[r].bk].price \in {Price, Price - Discount}
      BY <1>0, <2>1 DEF Row
    <3>3. bookings[req[r].bk].price \in Nat  BY <3>2
    <3>4. take = IF card <= bookings[req[r].bk].price THEN card ELSE bookings[req[r].bk].price
      BY <3>1, <3>3, MinOfTwo
    <3> QED BY <3>1, <3>3, <3>4
  <2>4. CASE Goto(r, [pc |-> "cardTake", bk |-> req[r].bk, take |-> take])
    <3> PICK w : w = [pc |-> "cardTake", bk |-> req[r].bk, take |-> take]  OBVIOUS
    <3>1. w \in TakeWork /\ w.pc = "cardTake" /\ w.bk \in Made /\ w.take <= CardValue
      BY <1>0, <2>1, <2>3 DEF TakeWork
    <3>2. w \in Work \cup {Idle} /\ WorkOK(w)  BY <3>1, KindsOfWork DEF WorkOK
    <3> QED BY <2>2, <2>4, <3>1, <3>2, JustGoes DEF Goto, CreatingPc
  <2>5. CASE Return(r)
    BY <2>2, <2>5, JustGoes DEF Return, Idle, WorkOK, CreatingPc
  <2> QED BY <1>8, <2>4, <2>5 DEF CardRead
<1>9. ASSUME CardTake(r)  PROVE TypeInv'
  <2>1. /\ req[r] \in TakeWork /\ req[r].pc = "cardTake" /\ req[r].bk \in Made
        /\ req[r].take <= CardValue /\ req[r].take \in Nat
    BY <1>0, <1>9, KindOf DEF CardTake, At, WorkOK, TakeWork
  <2>2. UNCHANGED <<bookings, customers, redeemed, rewards, sessions, waitlist, bizLock, hist>>
    BY <1>9 DEF CardTake
  <2>3. CASE card >= req[r].take /\ card' = card - req[r].take /\ Then(r, "cardWrite")
    <3> PICK w : w = [req[r] EXCEPT !.pc = "cardWrite"]  OBVIOUS
    <3>1. w \in TakeWork /\ w.pc = "cardWrite" /\ w.bk = req[r].bk /\ w.take = req[r].take
      BY <2>1 DEF TakeWork
    <3>2. w \in Work \cup {Idle} /\ WorkOK(w)  BY <2>1, <3>1, KindsOfWork DEF WorkOK
    <3>0. card' \in 0..CardValue
      <4> PICK t : t = req[r].take  OBVIOUS
      <4>1. t \in Nat /\ card >= t /\ card' = card - t  BY <2>1, <2>3
      <4>2. card \in Nat /\ card <= CardValue  BY <1>0 DEF TablesOK
      <4> QED BY <4>1, <4>2
    <3>3. TablesOK'
      <4>1. UNCHANGED <<bookings, customers, redeemed, rewards, sessions, waitlist, faults,
                        gaveBack, clobbered, loose>>
        BY <2>2 DEF hist
      <4> QED BY <1>0, <3>0, <4>1 DEF TablesOK
    <3>4. SlotsOK'
      BY <1>0, <2>2, <2>3, <3>1, <3>2, SlotStep DEF Places, CreatingPc, WorkOK, Made, Then
    <3>5. LockOK'  BY <1>0, <2>2, <2>3, <3>1, LockStep DEF Then
    <3> QED BY <3>3, <3>4, <3>5 DEF TypeInv
  <2>4. CASE UNCHANGED card /\ Return(r)
    BY <2>2, <2>4, JustGoes DEF Return, Idle, WorkOK, CreatingPc, offers
  <2> QED BY <1>9, <2>3, <2>4 DEF CardTake
<1>10. ASSUME CardWrite(r)  PROVE TypeInv'
  <2>1. /\ req[r] \in TakeWork /\ req[r].pc = "cardWrite" /\ req[r].bk \in Made
        /\ req[r].take \in 0..CardValue
    BY <1>0, <1>10, KindOf DEF CardWrite, At, WorkOK, TakeWork
  <2> PICK row : row = [bookings[req[r].bk] EXCEPT !.applied = req[r].take]  OBVIOUS
  <2>2. row \in Row  BY <1>0, <2>1 DEF Row
  <2>3. /\ Return(r) /\ bookings' = [bookings EXCEPT ![req[r].bk] = row]
        /\ UNCHANGED <<customers, offers, waitlist, bizLock, hist>>
    BY <1>10 DEF CardWrite
  <2>4. bookings' \in Seq(Row) /\ Len(bookings') = Len(bookings) /\ Made' = Made
    BY <1>0, <2>1, <2>2, <2>3, UpdateBooking
  <2>5. TablesOK'  BY <1>0, <2>3, <2>4 DEF TablesOK, offers, hist
  <2>6. SlotsOK'  BY <1>0, <2>3, <2>4, IdleStep
  <2>7. LockOK'  BY <1>0, <2>3, LockStep DEF Return, Idle
  <2> QED BY <2>5, <2>6, <2>7 DEF TypeInv
<1> QED BY <1>1, <1>2, <1>3, <1>4, <1>5, <1>6, <1>7, <1>8, <1>9, <1>10 DEF Submit

LEMMA StaffTypes ==
    ASSUME TypeInv, NEW r \in Requests, Staff(r)
    PROVE  TypeInv'
<1> USE Sizes
<1>0. /\ TablesOK /\ SlotsOK /\ LockOK
      /\ req[r] \in Work \cup {Idle} /\ WorkOK(req[r])
  BY DEF TypeInv, SlotsOK
<1>1. ASSUME NEW c \in customers, NEW coupon \in BOOLEAN, StaffRead(r, c, coupon)
      PROVE  TypeInv'
  <2> PICK w : w = [pc |-> "staffCreate", cust |-> c, coupon |-> coupon,
                    cheap |-> coupon /\ redeemed < CouponMax]
    OBVIOUS
  <2>1. w \in StaffWork /\ w.pc = "staffCreate"
    BY <1>0 DEF StaffWork, TablesOK
  <2>2. w \in Work \cup {Idle} /\ WorkOK(w)  BY <2>1, KindsOfWork DEF WorkOK
  <2> QED BY <1>1, <2>1, <2>2, JustGoes DEF StaffRead, Begin
<1>2. ASSUME StaffCreate(r)  PROVE TypeInv'
  <2>1. req[r] \in StaffWork /\ req[r].pc = "staffCreate"
    BY <1>0, <1>2, KindOf DEF StaffCreate, At
  <2>2. Return(r) /\ UNCHANGED <<customers, card, rewards, sessions, waitlist, bizLock, hist>>
    BY <1>2 DEF StaffCreate
  <2>3. LockOK'  BY <1>0, <2>2, LockStep DEF Return, Idle
  <2>4. CASE UNCHANGED <<bookings, redeemed>>
    <3>1. TablesOK'  BY <1>0, <2>2, <2>4 DEF TablesOK, hist
    <3>2. SlotsOK'  BY <1>0, <2>2, <2>4, IdleStep DEF Made
    <3> QED BY <2>3, <3>1, <3>2 DEF TypeInv
  <2>5. ASSUME ~UNCHANGED <<bookings, redeemed>>  PROVE TypeInv'
    <3> PICK w, row : /\ w = req[r]
                      /\ row = NewRow(w.cust, FALSE, IF w.cheap THEN Price - Discount ELSE Price,
                                      w.coupon, FALSE, FALSE)
      OBVIOUS
    <3>1. /\ w.coupon => MayRedeem(w.cust)
          /\ bookings' = Append(bookings, row)
          /\ redeemed' = IF w.coupon THEN redeemed + 1 ELSE redeemed
      BY <1>2, <2>5 DEF StaffCreate
    <3>2. row \in Row /\ w.coupon \in BOOLEAN
      BY <2>1 DEF NewRow, Row, Status, StaffWork
    <3>3. /\ bookings' \in Seq(Row) /\ Len(bookings') = Len(bookings) + 1
          /\ Made' = Made \cup {Len(bookings) + 1}
      BY <1>0, <3>1, <3>2, AddBooking
    <3>4. Len(bookings) \in Nat /\ Len(bookings) + 1 <= MaxBookings
      <4>1. r \in Creating  BY <2>1 DEF Creating
      <4>2. IsFiniteSet(Creating) /\ Cardinality(Creating) \in Nat /\ Cardinality(Creating) # 0
        BY <1>0, <4>1, FS_CardinalityType, FS_EmptySet DEF SlotsOK, Room
      <4> QED BY <1>0, <4>2, BookingsAre DEF SlotsOK, Room
    <3>5. redeemed' \in 0..CouponMax
      BY <1>0, <3>1, <3>2 DEF TablesOK, MayRedeem
    <3>6. TablesOK'
      BY <1>0, <2>2, <3>3, <3>4, <3>5 DEF TablesOK, hist
    <3>7. SlotsOK'  BY <1>0, <2>1, <2>2, <3>3, IdleStep DEF CreatingPc
    <3> QED BY <2>3, <3>6, <3>7 DEF TypeInv
  <2> QED BY <2>4, <2>5
<1> QED BY <1>1, <1>2 DEF Staff

LEMMA UpdateEntry ==
    ASSUME TablesOK, NEW e \in DOMAIN waitlist, NEW entry \in Entry,
           waitlist' = [waitlist EXCEPT ![e] = entry]
    PROVE  /\ waitlist' \in Seq(Entry) /\ Len(waitlist') = Len(waitlist)
           /\ DOMAIN waitlist' = DOMAIN waitlist
           /\ \A d \in DOMAIN waitlist : waitlist'[d] = IF d = e THEN entry ELSE waitlist[d]
<1>1. e \in 1..Len(waitlist)  BY WaitlistIs
<1>2. waitlist' \in Seq(Entry) /\ Len(waitlist') = Len(waitlist)
  BY <1>1, ExceptSeq DEF TablesOK
<1> QED BY <1>2

\* Every entry a handler has still to tell is in the table.
LEMMA ListIs ==
    ASSUME TypeInv, NEW r \in Requests, req[r].pc \in {"tell", "mark"}
    PROVE  LET list == req[r].list
           IN /\ list \in Seq(1..MaxWaiting) /\ list # <<>>
              /\ Len(list) \in Nat \ {0} /\ Head(list) = list[1]
              /\ Len(list) # 1 => /\ Tail(list) \in Seq(1..MaxWaiting) /\ Tail(list) # <<>>
                                  /\ Len(Tail(list)) = Len(list) - 1
                                  /\ \A i \in 1..Len(Tail(list)) : Tail(list)[i] = list[i + 1]
<1> PICK list : list = req[r].list  OBVIOUS
<1>1. req[r] \in TellWork  BY KindOf DEF TypeInv, SlotsOK
<1>2. list \in Seq(1..MaxWaiting) /\ list # <<>>
  BY <1>1 DEF TellWork, TypeInv, SlotsOK, WorkOK
<1>3. Len(list) \in Nat \ {0}  BY <1>2, LenProperties, EmptySeq
<1>4. /\ Tail(list) \in Seq(1..MaxWaiting) /\ Len(Tail(list)) = Len(list) - 1
      /\ \A i \in 1..Len(Tail(list)) : Tail(list)[i] = list[i + 1]
  BY <1>2, HeadTailProperties
<1>5. Len(list) # 1 => Tail(list) # <<>>
  <2> PICK l, tail : l = Len(list) /\ tail = Tail(list)  OBVIOUS
  <2>1. l # 1 => Len(tail) # 0  BY <1>3, <1>4
  <2>2. Len(<<>>) = 0  BY EmptySeq
  <2> QED BY <2>1, <2>2
<1>6. Head(list) = list[1]  OBVIOUS
<1> QED BY <1>2, <1>3, <1>4, <1>5, <1>6

\* What follows an entry that was told, or could not be.
LEMMA RestTypes ==
    ASSUME TypeInv, NEW r \in Requests, req[r].pc \in {"tell", "mark"}, Rest(r) \/ Then(r, "mark"),
           UNCHANGED <<bookings, customers, offers, bizLock, hist>>,
           waitlist' \in Seq(Entry), Len(waitlist') = Len(waitlist)
    PROVE  TypeInv'
<1> PICK list : list = req[r].list  OBVIOUS
<1>1. PICK w \in Work \cup {Idle} :
        /\ WorkOK(w) /\ w.pc \notin CreatingPc /\ req' = [req EXCEPT ![r] = w]
  <2>1. req[r] \in TellWork  BY KindOf DEF TypeInv, SlotsOK
  <2>2. CASE Then(r, "mark")
    <3> PICK w : w = [req[r] EXCEPT !.pc = "mark"]  OBVIOUS
    <3>1. w \in TellWork /\ w.pc = "mark" /\ w.list = req[r].list  BY <2>1 DEF TellWork
    <3>2. w \in Work \cup {Idle}  BY <3>1, KindsOfWork
    <3>3. WorkOK(w)  BY <3>1, ListIs DEF WorkOK
    <3> QED BY <2>2, <3>1, <3>2, <3>3 DEF Then, CreatingPc
  <2>3. CASE Rest(r) /\ Len(list) = 1
    <3>1. WorkOK(Idle) /\ Idle.pc \notin CreatingPc  BY DEF WorkOK, Idle, CreatingPc
    <3> QED BY <2>3, <3>1 DEF Rest, Return
  <2>4. CASE Rest(r) /\ Len(list) # 1
    <3> PICK w : w = [pc |-> "tell", list |-> Tail(list)]  OBVIOUS
    <3>1. Tail(list) \in Seq(1..MaxWaiting) /\ Tail(list) # <<>>
      BY <2>4, ListIs
    <3>2. w \in TellWork /\ w.pc = "tell" /\ w.list # <<>>  BY <3>1 DEF TellWork
    <3>3. w \in Work \cup {Idle} /\ WorkOK(w)  BY <3>2, KindsOfWork DEF WorkOK
    <3> QED BY <2>4, <3>2, <3>3 DEF Rest, Goto, CreatingPc
  <2> QED BY <2>2, <2>3, <2>4
<1>2. TablesOK'  BY DEF TypeInv, TablesOK, offers, hist
<1>3. WorkOK(w)' /\ Made \subseteq Made'  BY <1>1 DEF WorkOK, Made
<1>4. SlotsOK'  BY <1>1, <1>3, SlotStep DEF TypeInv, Places
<1>5. LockOK'  BY <1>1, LockStep DEF TypeInv, CreatingPc
<1> QED BY <1>2, <1>4, <1>5 DEF TypeInv

LEMMA CancelTypes ==
    ASSUME TypeInv, NEW r \in Requests, Cancel(r)
    PROVE  TypeInv'
<1> USE Sizes
<1>0. /\ TablesOK /\ SlotsOK /\ LockOK
      /\ req[r] \in Work \cup {Idle} /\ WorkOK(req[r])
      /\ Made \subseteq Ids /\ \A b \in Made : bookings[b] \in Row
  BY BookingsAre DEF TypeInv, SlotsOK
<1>1. ASSUME NEW b \in Made, CancelRead(r, b)  PROVE TypeInv'
  <2> PICK w : w = [pc |-> "cancelCard", bk |-> b, row |-> bookings[b], seen |-> 0]  OBVIOUS
  <2>1. w \in CancelWork /\ w.pc = "cancelCard" /\ w.bk = b  BY <1>0 DEF CancelWork
  <2>2. w \in Work \cup {Idle} /\ WorkOK(w)  BY <2>1, KindsOfWork DEF WorkOK
  <2>3. /\ req' = [req EXCEPT ![r] = w] /\ loose' \subseteq loose \cup {b}
        /\ UNCHANGED <<bookings, customers, offers, waitlist, bizLock, faults, gaveBack, clobbered>>
    BY <1>1 DEF CancelRead, Begin
  <2>4. TablesOK'  BY <1>0, <2>3 DEF TablesOK, offers
  <2>5. SlotsOK'
    BY <1>0, <2>1, <2>2, <2>3, SlotStep DEF Places, CreatingPc, WorkOK, Made
  <2>6. LockOK'  BY <1>0, <2>1, <2>3, LockStep
  <2> QED BY <2>4, <2>5, <2>6 DEF TypeInv
<1>2. ASSUME CancelCard(r)  PROVE TypeInv'
  <2>1. req[r] \in CancelWork /\ req[r].pc = "cancelCard" /\ req[r].bk \in Made
    BY <1>0, <1>2, KindOf DEF CancelCard, At, WorkOK
  <2> PICK w : w = [req[r] EXCEPT !.pc = "cancelWrite", !.seen = card]  OBVIOUS
  <2>2. w \in CancelWork /\ w.pc = "cancelWrite" /\ w.bk = req[r].bk
    <3>1. card \in Nat  BY <1>0 DEF TablesOK
    <3> QED BY <2>1, <3>1 DEF CancelWork
  <2>3. w \in Work \cup {Idle} /\ WorkOK(w)  BY <2>1, <2>2, KindsOfWork DEF WorkOK
  <2> QED BY <1>2, <2>2, <2>3, JustGoes DEF CancelCard, Goto, CreatingPc
<1>3. ASSUME CancelWrite(r)  PROVE TypeInv'
  <2>1. req[r] \in CancelWork /\ req[r].pc = "cancelWrite" /\ req[r].bk \in Made
    BY <1>0, <1>3, KindOf DEF CancelWrite, At, WorkOK
  <2> PICK w : w = [req[r] EXCEPT !.pc = "expire"]  OBVIOUS
  <2> PICK row : row = [bookings[req[r].bk] EXCEPT !.status = "CANCELLED"]  OBVIOUS
  <2>2. w \in CancelWork /\ w.pc = "expire" /\ w.bk = req[r].bk  BY <2>1 DEF CancelWork
  <2>3. w \in Work \cup {Idle} /\ WorkOK(w)  BY <2>1, <2>2, KindsOfWork DEF WorkOK
  <2>4. row \in Row  BY <1>0, <2>1 DEF Row, Status
  <2>5. /\ req' = [req EXCEPT ![r] = w] /\ bookings' = [bookings EXCEPT ![req[r].bk] = row]
        /\ card' = Restored(req[r].row, req[r].seen)
        /\ clobbered' = (clobbered \/ (req[r].row.applied > 0 /\ card # req[r].seen))
        /\ redeemed' = CouponAfterCancel(req[r].row)
        /\ gaveBack' = [gaveBack EXCEPT ![req[r].bk] = gaveBack[req[r].bk] + 1]
        /\ UNCHANGED <<customers, rewards, sessions, waitlist, bizLock, faults, loose>>
    BY <1>3 DEF CancelWrite, Then
  <2>6. bookings' \in Seq(Row) /\ Len(bookings') = Len(bookings) /\ Made' = Made
    BY <1>0, <2>1, <2>4, <2>5, UpdateBooking
  <2>7. card' \in 0..CardValue
    <3> PICK seen, applied : seen = req[r].seen /\ applied = req[r].row.applied  OBVIOUS
    <3>1. seen \in Nat /\ applied \in 0..CardValue  BY <2>1 DEF CancelWork, Row
    <3>2. Min({CardValue, seen + applied}) \in 0..CardValue
      <4> PICK sum : sum = seen + applied  OBVIOUS
      <4>1. sum \in Nat  BY <3>1
      <4>2. Min({CardValue, sum}) = IF CardValue <= sum THEN CardValue ELSE sum
        BY <4>1, MinOfTwo
      <4> QED BY <4>1, <4>2
    <3>3. card \in 0..CardValue  BY <1>0 DEF TablesOK
    <3> QED BY <2>5, <3>2, <3>3 DEF Restored
  <2>8. redeemed' \in 0..CouponMax  BY <1>0, <2>5 DEF CouponAfterCancel, TablesOK
  <2>9. gaveBack' \in [Ids -> Nat]
    <3>1. req[r].bk \in Ids /\ gaveBack \in [Ids -> Nat]  BY <1>0, <2>1 DEF TablesOK
    <3>2. gaveBack[req[r].bk] + 1 \in Nat  BY <3>1
    <3> QED BY <2>5, <3>1, <3>2
  <2>10. TablesOK'
    <3>1. clobbered' \in BOOLEAN  BY <2>5
    <3>2. UNCHANGED <<customers, rewards, sessions, waitlist, faults, loose>>  BY <2>5
    <3> QED BY <1>0, <2>6, <2>7, <2>8, <2>9, <3>1, <3>2 DEF TablesOK
  <2>11. SlotsOK'
    BY <1>0, <2>2, <2>3, <2>5, <2>6, SlotStep DEF Places, CreatingPc, WorkOK
  <2>12. LockOK'  BY <1>0, <2>2, <2>5, LockStep
  <2> QED BY <2>10, <2>11, <2>12 DEF TypeInv
<1>4. ASSUME Expire(r)  PROVE TypeInv'
  <2>1. req[r] \in CancelWork /\ req[r].pc = "expire" /\ req[r].bk \in Made
    BY <1>0, <1>4, KindOf DEF Expire, At, WorkOK
  <2> PICK w : w = [req[r] EXCEPT !.pc = "find"]  OBVIOUS
  <2>2. w \in CancelWork /\ w.pc = "find" /\ w.bk = req[r].bk  BY <2>1 DEF CancelWork
  <2>3. w \in Work \cup {Idle} /\ WorkOK(w)  BY <2>1, <2>2, KindsOfWork DEF WorkOK
  <2>4. /\ req' = [req EXCEPT ![r] = w]
        /\ sessions' \subseteq sessions /\ loose' \subseteq loose \cup {req[r].bk}
        /\ (faults' = faults) \/ (faults < MaxFaults /\ faults' = faults + 1)
        /\ UNCHANGED <<bookings, customers, redeemed, card, rewards, waitlist, bizLock, gaveBack,
                       clobbered>>
    <3>1. /\ req' = [req EXCEPT ![r] = w]
          /\ UNCHANGED <<bookings, customers, redeemed, card, rewards, waitlist, bizLock, gaveBack,
                         clobbered>>
      BY <1>4 DEF Expire, Then
    <3>2. sessions' \subseteq sessions /\ loose' \subseteq loose \cup {req[r].bk}
      BY <1>4 DEF Expire
    <3>3. (faults' = faults) \/ (faults < MaxFaults /\ faults' = faults + 1)
      BY <1>4 DEF Expire, Fault
    <3> QED BY <3>1, <3>2, <3>3
  <2>5. TablesOK'
    <3>1. faults' \in 0..MaxFaults  BY <1>0, <2>4 DEF TablesOK
    <3>2. sessions' \subseteq Ids /\ loose' \subseteq Ids  BY <1>0, <2>1, <2>4 DEF TablesOK
    <3> QED BY <1>0, <2>4, <3>1, <3>2 DEF TablesOK
  <2>6. SlotsOK'
    BY <1>0, <2>2, <2>3, <2>4, SlotStep DEF Places, CreatingPc, WorkOK, Made
  <2>7. LockOK'  BY <1>0, <2>2, <2>4, LockStep
  <2> QED BY <2>5, <2>6, <2>7 DEF TypeInv
<1>5. ASSUME Find(r)  PROVE TypeInv'
  <2>1. UNCHANGED <<bookings, customers, offers, waitlist, bizLock, hist>>  BY <1>5 DEF Find
  <2>2. CASE FirstWaiting # <<>> /\ Goto(r, [pc |-> "tell", list |-> FirstWaiting])
    <3> PICK w : w = [pc |-> "tell", list |-> FirstWaiting]  OBVIOUS
    <3>1. w \in TellWork /\ w.pc = "tell" /\ w.list # <<>>
      BY <1>0, <2>2, FirstWaitingIs DEF TellWork
    <3>2. w \in Work \cup {Idle} /\ WorkOK(w)  BY <3>1, KindsOfWork DEF WorkOK
    <3> QED BY <2>1, <2>2, <3>1, <3>2, JustGoes DEF Goto, CreatingPc
  <2>3. CASE Return(r)
    BY <2>1, <2>3, JustGoes DEF Return, Idle, WorkOK, CreatingPc
  <2> QED BY <1>5, <2>2, <2>3 DEF Find
<1>6. ASSUME Tell(r) \/ Mark(r)  PROVE TypeInv'
  <2>1. req[r].pc \in {"tell", "mark"} /\ (Rest(r) \/ Then(r, "mark"))
    BY <1>6 DEF Tell, Mark, At
  <2>2. UNCHANGED <<bookings, customers, offers, bizLock, hist>>  BY <1>6 DEF Tell, Mark
  <2> PICK e : e = Head(req[r].list)  OBVIOUS
  <2>3. waitlist' \in Seq(Entry) /\ Len(waitlist') = Len(waitlist)
    <3>1. CASE e \notin DOMAIN waitlist
      <4>1. waitlist' = waitlist
        <5>1. PICK entry : waitlist' = [waitlist EXCEPT ![e] = entry]
          BY <1>6 DEF Tell, Mark
        <5>2. waitlist \in [1..Len(waitlist) -> Entry]
          BY <1>0, LenProperties DEF TablesOK
        <5> QED BY <3>1, <5>1, <5>2
      <4> QED BY <1>0, <4>1 DEF TablesOK
    <3>2. CASE e \in DOMAIN waitlist
      <4>1. waitlist[e] \in Entry  BY <1>0, <3>2, WaitlistIs
      <4>2. PICK entry \in Entry : waitlist' = [waitlist EXCEPT ![e] = entry]
        <5>1. [waitlist[e] EXCEPT !.tried = TRUE] \in Entry  BY <4>1 DEF Entry
        <5>2. [waitlist[e] EXCEPT !.status = "NOTIFIED"] \in Entry  BY <4>1 DEF Entry
        <5> QED BY <1>6, <5>1, <5>2 DEF Tell, Mark
      <4> QED BY <1>0, <3>2, <4>2, UpdateEntry
    <3> QED BY <3>1, <3>2
  <2> QED BY <2>1, <2>2, <2>3, RestTypes
<1> QED BY <1>1, <1>2, <1>3, <1>4, <1>5, <1>6 DEF Cancel

LEMMA InitTypes == Init => TypeInv
<1> SUFFICES ASSUME Init  PROVE TypeInv
  OBVIOUS
<1> USE Sizes
<1>1. bookings = <<>> /\ waitlist = <<>> /\ bizLock = {} /\ req = [r \in Requests |-> Idle]
  BY DEF Init
<1>2. /\ bookings \in Seq(Row) /\ Len(bookings) = 0
      /\ waitlist \in Seq(Entry) /\ Len(waitlist) = 0
  BY <1>1, EmptySeq
<1>3. customers \subseteq Phones  BY DEF Init, Phones
<1>4. TablesOK
  <2>1. /\ redeemed = 0 /\ card = CardValue /\ rewards = 0 /\ sessions = {} /\ faults = 0
        /\ gaveBack = [b \in Ids |-> 0] /\ clobbered = FALSE /\ loose = {}
    BY DEF Init
  <2>2. gaveBack \in [Ids -> Nat]  BY <2>1
  <2>3. redeemed \in 0..CouponMax /\ card \in 0..CardValue /\ rewards \in Nat /\ faults \in 0..MaxFaults
    BY <2>1
  <2>4. sessions \subseteq Ids /\ loose \subseteq Ids /\ clobbered \in BOOLEAN  BY <2>1
  <2>5. Len(bookings) <= MaxBookings /\ Len(waitlist) <= MaxWaiting  BY <1>2
  <2> QED BY <1>2, <1>3, <2>2, <2>3, <2>4, <2>5 DEF TablesOK
<1>5. \A r \in Requests : req[r] = Idle /\ Idle.pc = "idle"
  BY <1>1 DEF Idle
<1>6. Creating = {}  BY <1>5 DEF Creating
<1>7. Room  BY <1>2, <1>6, FS_EmptySet DEF Room
<1>8. SlotsOK
  <2>1. \A r \in Requests : WorkOK(req[r])  BY <1>5 DEF WorkOK
  <2>2. req \in [Requests -> Work \cup {Idle}]  BY <1>1
  <2> QED BY <1>7, <2>1, <2>2 DEF SlotsOK
<1>9. LockOK  BY <1>1, <1>5 DEF LockOK
<1> QED BY <1>4, <1>8, <1>9 DEF TypeInv

\* The steps that belong to no handler.
LEMMA OutsideTypes ==
    ASSUME TypeInv, UNCHANGED <<bizLock, req>>, TablesOK',
           Made' = Made, Len(bookings') = Len(bookings)
    PROVE  TypeInv'
<1>1. UNCHANGED Creating  BY DEF Creating
<1>2. Room'  BY <1>1 DEF Room, TypeInv, SlotsOK
<1>3. \A r \in Requests : WorkOK(req[r])'
  <2> TAKE r \in Requests
  <2> PICK w : w = req[r]  OBVIOUS
  <2>1. WorkOK(w)'  BY DEF TypeInv, SlotsOK, WorkOK
  <2> QED BY <2>1
<1>4. SlotsOK'  BY <1>2, <1>3 DEF TypeInv, SlotsOK
<1>5. LockOK'  BY DEF TypeInv, LockOK
<1> QED BY <1>4, <1>5 DEF TypeInv

LEMMA NextTypes ==
    ASSUME TypeInv, [Next]_vars
    PROVE  TypeInv'
<1> USE Sizes
<1>0. /\ TablesOK /\ SlotsOK /\ LockOK
      /\ Made \subseteq Ids /\ \A b \in Made : bookings[b] \in Row
  BY BookingsAre DEF TypeInv
<1>1. ASSUME NEW r \in Requests, Submit(r)  PROVE TypeInv'  BY <1>1, SubmitTypes
<1>2. ASSUME NEW r \in Requests, Staff(r)   PROVE TypeInv'  BY <1>2, StaffTypes
<1>3. ASSUME NEW r \in Requests, Cancel(r)  PROVE TypeInv'  BY <1>3, CancelTypes
<1>4. ASSUME NEW r \in Requests, Crash(r)   PROVE TypeInv'
  <2>1. Return(r) /\ bizLock' = bizLock \ {r} /\ faults' \in 0..MaxFaults
    BY <1>0, <1>4 DEF Crash, Fault, TablesOK
  <2>2. UNCHANGED <<bookings, customers, offers, waitlist, gaveBack, clobbered>>
    BY <1>4 DEF Crash
  <2>3. loose' \subseteq Ids
    <3>1. CASE req[r].pc \in {"depositWrite", "expire"}
      <4>1. req[r].bk \in Ids  BY <1>0, <3>1 DEF SlotsOK, WorkOK
      <4> QED BY <1>0, <1>4, <4>1 DEF Crash, TablesOK
    <3>2. CASE req[r].pc \notin {"depositWrite", "expire"}
      BY <1>0, <1>4, <3>2 DEF Crash, TablesOK
    <3> QED BY <3>1, <3>2
  <2>4. TablesOK'  BY <1>0, <2>1, <2>2, <2>3 DEF TablesOK, offers
  <2>5. SlotsOK'  BY <1>0, <2>1, <2>2, IdleStep DEF Made
  <2>6. LockOK'  BY <1>0, <2>1, LockStep DEF Return, Idle
  <2> QED BY <2>4, <2>5, <2>6 DEF TypeInv
<1>5. ASSUME NEW n \in Numbers, CreateCustomer(n)  PROVE TypeInv'
  <2>1. TablesOK'  BY <1>0, <1>5 DEF CreateCustomer, TablesOK, offers, hist, E164, Phones
  <2> QED BY <1>5, <2>1, OutsideTypes DEF CreateCustomer, Made
<1>6. ASSUME NEW b \in Made, Dispatch(b)  PROVE TypeInv'
  <2> PICK row : row = [bookings[b] EXCEPT !.status = "ASSIGNED"]  OBVIOUS
  <2>1. row \in Row  BY <1>0 DEF Row, Status
  <2>2. /\ bookings' = [bookings EXCEPT ![b] = row]
        /\ UNCHANGED <<customers, offers, waitlist, bizLock, req, hist>>
    BY <1>6 DEF Dispatch
  <2>3. bookings' \in Seq(Row) /\ Len(bookings') = Len(bookings) /\ Made' = Made
    BY <1>0, <2>1, <2>2, UpdateBooking
  <2>4. TablesOK'  BY <1>0, <2>2, <2>3 DEF TablesOK, offers, hist
  <2> QED BY <2>2, <2>3, <2>4, OutsideTypes
<1>7. ASSUME Join  PROVE TypeInv'
  <2> PICK entry : entry = [status |-> "WAITING", tried |-> FALSE]  OBVIOUS
  <2>1. entry \in Entry  BY DEF Entry
  <2>2. waitlist' \in Seq(Entry) /\ Len(waitlist') <= MaxWaiting
    <3>1. waitlist' = Append(waitlist, entry) /\ Len(waitlist) < MaxWaiting
      BY <1>7 DEF Join
    <3>2. waitlist' \in Seq(Entry) /\ Len(waitlist') = Len(waitlist) + 1
      BY <1>0, <2>1, <3>1, AppendProperties DEF TablesOK
    <3> QED BY <1>0, <3>1, <3>2, WaitlistIs
  <2>3. UNCHANGED <<bookings, customers, offers, bizLock, req, hist>>  BY <1>7 DEF Join
  <2>4. TablesOK'  BY <1>0, <2>2, <2>3 DEF TablesOK, offers, hist
  <2> QED BY <2>3, <2>4, OutsideTypes DEF Made
<1>8. ASSUME NEW e \in DOMAIN waitlist, Leave(e)  PROVE TypeInv'
  <2> PICK entry : entry = [waitlist[e] EXCEPT !.status = "CANCELLED"]  OBVIOUS
  <2>1. entry \in Entry
    <3>1. waitlist[e] \in Entry  BY <1>0, WaitlistIs
    <3> QED BY <3>1 DEF Entry
  <2>2. waitlist' = [waitlist EXCEPT ![e] = entry]  BY <1>8 DEF Leave
  <2>3. waitlist' \in Seq(Entry) /\ Len(waitlist') = Len(waitlist)
    BY <1>0, <2>1, <2>2, UpdateEntry
  <2>4. UNCHANGED <<bookings, customers, offers, bizLock, req, hist>>  BY <1>8 DEF Leave
  <2>5. TablesOK'  BY <1>0, <2>3, <2>4 DEF TablesOK, offers, hist
  <2> QED BY <2>4, <2>5, OutsideTypes DEF Made
<1>9. CASE UNCHANGED vars
  <2>1. UNCHANGED <<bookings, customers, redeemed, card, rewards, sessions, waitlist, bizLock, req,
                    faults, gaveBack, clobbered, loose>>
    BY <1>9 DEF vars, offers, hist
  <2>2. TablesOK'  BY <1>0, <2>1 DEF TablesOK
  <2> QED BY <2>1, <2>2, OutsideTypes DEF Made
<1> QED BY <1>1, <1>2, <1>3, <1>4, <1>5, <1>6, <1>7, <1>8, <1>9 DEF Next, Step

LEMMA TypeInvHolds == Spec => []TypeInv
<1>1. Init => TypeInv  BY InitTypes
<1>2. TypeInv /\ [Next]_vars => TypeInv'  BY NextTypes
<1> QED BY <1>1, <1>2, PTL DEF Spec

\* Whatever the handlers do in whatever order, and wherever they are killed, the
\* tables and what a handler remembers keep their types: the coupon's counter
\* never passes its limit, the card never goes below zero or above what it was
\* sold for, one request at a time is between the lock and its commit.
THEOREM IntakeTypeCorrect == Spec => []TypeOK
BY TypeInvHolds, TypeInvTypes, PTL

-----------------------------------------------------------------------------
(* What a step may do to the bookings *)

\* The row b is written; what kind of booking it is and whether it is alive is not,
\* and a session it knows of is not forgotten.
Rewrites(b, row) ==
    /\ bookings' = [bookings EXCEPT ![b] = row]
    /\ row.public = bookings[b].public /\ row.coupon = bookings[b].coupon
    /\ bookings[b].session => row.session
    /\ row.status # "CANCELLED" <=> bookings[b].status # "CANCELLED"

Adds(r, row) ==
    /\ bookings' = Append(bookings, row)
    /\ redeemed' = IF row.coupon THEN redeemed + 1 ELSE redeemed
    /\ row.status = "REQUESTED"
    /\ row.public => Create(r) /\ req[r].pc = "create"
    /\ gaveBack' = gaveBack

BookingsEffect ==
    \/ UNCHANGED <<bookings, redeemed, gaveBack>>
    \/ /\ \E b \in Made, row \in Row : Rewrites(b, row)
       /\ UNCHANGED <<redeemed, gaveBack>>
    \/ \E r \in Requests, row \in Row : Adds(r, row)
    \/ \E r \in Requests : CancelWrite(r)

LEMMA SubmitBookings ==
    ASSUME TypeInv, NEW r \in Requests, Submit(r)
    PROVE  BookingsEffect
<1> USE Sizes
<1>0. /\ TablesOK /\ SlotsOK /\ req[r] \in Work \cup {Idle} /\ WorkOK(req[r])
      /\ \A b \in Made : bookings[b] \in Row
  BY BookingsAre DEF TypeInv, SlotsOK
<1>1. ASSUME \/ \E f \in Forms : Quote(r, f)
             \/ TakeLock(r) \/ Check(r) \/ Reward(r) \/ Deposit(r) \/ CardRead(r) \/ CardTake(r)
      PROVE  BookingsEffect
  <2>1. UNCHANGED <<bookings, redeemed, gaveBack>>
    BY <1>1 DEF Quote, TakeLock, Check, Reward, Deposit, CardRead, CardTake, offers, hist
  <2> QED BY <2>1 DEF BookingsEffect
<1>2. ASSUME Create(r)  PROVE BookingsEffect
  <2>1. req[r] \in FormWork /\ req[r].pc = "create"  BY <1>0, <1>2, KindOf DEF Create, At
  <2>2. gaveBack' = gaveBack  BY <1>2 DEF Create, hist
  <2> PICK f, c, ref, price :
         /\ f = req[r].form /\ c = Stored(f) /\ ref = Referred(f)
         /\ price = IF req[r].cheap \/ ref THEN Price - Discount ELSE Price
    OBVIOUS
  <2> PICK row : row = NewRow(c, TRUE, price, f.coupon, ref, Known(f.num) = {})  OBVIOUS
  <2>3. f \in Forms /\ c \in Phones /\ f.coupon \in BOOLEAN
    BY <1>0, <2>1, StoredIsPhone, FormsAssumption DEF FormWork
  <2>4. row \in Row /\ row.status = "REQUESTED" /\ row.coupon = f.coupon
    BY <2>3 DEF NewRow, Row, Status, Referred
  <2>5. CASE bookings' = Append(bookings, row) /\ redeemed' = IF f.coupon THEN redeemed + 1 ELSE redeemed
    <3>1. Adds(r, row)  BY <1>2, <2>1, <2>2, <2>4, <2>5 DEF Adds
    <3> QED BY <2>4, <3>1 DEF BookingsEffect
  <2>6. CASE UNCHANGED <<bookings, redeemed>>
    BY <2>2, <2>6 DEF BookingsEffect
  <2> QED BY <1>2, <2>5, <2>6 DEF Create
<1>3. ASSUME DepositWrite(r)  PROVE BookingsEffect
  <2> PICK b, row : b = req[r].bk /\ row = [bookings[b] EXCEPT !.session = TRUE]  OBVIOUS
  <2>1. b \in Made  BY <1>0, <1>3 DEF DepositWrite, At, WorkOK
  <2>2. row \in Row /\ Rewrites(b, row)
    <3>1. bookings' = [bookings EXCEPT ![b] = row]  BY <1>3 DEF DepositWrite
    <3> PICK old : old = bookings[b]  OBVIOUS
    <3>0. old \in Row /\ row = [old EXCEPT !.session = TRUE]  BY <1>0, <2>1
    <3>2. row \in Row  BY <3>0 DEF Row
    <3>3. /\ row.public = bookings[b].public /\ row.coupon = bookings[b].coupon
          /\ row.status = bookings[b].status /\ row.session
      BY <1>0, <2>1 DEF Row
    <3> QED BY <3>1, <3>2, <3>3 DEF Rewrites
  <2>3. UNCHANGED <<redeemed, gaveBack>>  BY <1>3 DEF DepositWrite, offers, hist
  <2> QED BY <2>1, <2>2, <2>3 DEF BookingsEffect
<1>4. ASSUME CardWrite(r)  PROVE BookingsEffect
  <2> PICK b, row : b = req[r].bk /\ row = [bookings[b] EXCEPT !.applied = req[r].take]  OBVIOUS
  <2>0. req[r].take \in 0..CardValue
    BY <1>0, <1>4, KindOf DEF CardWrite, At, WorkOK, TakeWork
  <2>1. b \in Made  BY <1>0, <1>4 DEF CardWrite, At, WorkOK
  <2>2. row \in Row /\ Rewrites(b, row)
    BY <1>0, <1>4, <2>0, <2>1 DEF CardWrite, Row, Rewrites
  <2>3. UNCHANGED <<redeemed, gaveBack>>  BY <1>4 DEF CardWrite, offers, hist
  <2> QED BY <2>1, <2>2, <2>3 DEF BookingsEffect
<1> QED BY <1>1, <1>2, <1>3, <1>4 DEF Submit

LEMMA StaffBookings ==
    ASSUME TypeInv, NEW r \in Requests, Staff(r)
    PROVE  BookingsEffect
<1> USE Sizes
<1>0. /\ SlotsOK /\ req[r] \in Work \cup {Idle}
  BY DEF TypeInv, SlotsOK
<1>1. CASE \E c \in customers, coupon \in BOOLEAN : StaffRead(r, c, coupon)
  BY <1>1 DEF StaffRead, offers, hist, BookingsEffect
<1>2. CASE StaffCreate(r)
  <2>1. req[r] \in StaffWork  BY <1>0, <1>2, KindOf DEF StaffCreate, At
  <2>2. gaveBack' = gaveBack  BY <1>2 DEF StaffCreate, hist
  <2>3. CASE UNCHANGED <<bookings, redeemed>>  BY <2>2, <2>3 DEF BookingsEffect
  <2>4. CASE ~UNCHANGED <<bookings, redeemed>>
    <3> PICK w, row : /\ w = req[r]
                      /\ row = NewRow(w.cust, FALSE, IF w.cheap THEN Price - Discount ELSE Price,
                                      w.coupon, FALSE, FALSE)
      OBVIOUS
    <3>1. row \in Row /\ row.status = "REQUESTED" /\ row.public = FALSE /\ row.coupon = w.coupon
      BY <2>1 DEF NewRow, Row, Status, StaffWork
    <3>2. Adds(r, row)
      BY <1>2, <2>2, <2>4, <3>1 DEF StaffCreate, Adds
    <3> QED BY <3>1, <3>2 DEF BookingsEffect
  <2> QED BY <2>3, <2>4
<1> QED BY <1>1, <1>2 DEF Staff

LEMMA BookingsStep ==
    ASSUME TypeInv, [Next]_vars
    PROVE  BookingsEffect
<1>1. ASSUME NEW r \in Requests, Submit(r)  PROVE BookingsEffect  BY <1>1, SubmitBookings
<1>2. ASSUME NEW r \in Requests, Staff(r)   PROVE BookingsEffect  BY <1>2, StaffBookings
<1>3. ASSUME NEW r \in Requests, Cancel(r)  PROVE BookingsEffect
  <2>1. CASE CancelWrite(r)  BY <2>1 DEF BookingsEffect
  <2>2. CASE \/ \E b \in Made : CancelRead(r, b)
             \/ CancelCard(r) \/ Expire(r) \/ Find(r) \/ Tell(r) \/ Mark(r)
    <3>1. UNCHANGED <<bookings, redeemed, gaveBack>>
      BY <2>2 DEF CancelRead, CancelCard, Expire, Find, Tell, Mark, offers, hist
    <3> QED BY <3>1 DEF BookingsEffect
  <2> QED BY <1>3, <2>1, <2>2 DEF Cancel
<1>4. ASSUME NEW r \in Requests, Crash(r)   PROVE BookingsEffect
  BY <1>4 DEF Crash, offers, BookingsEffect
<1>5. ASSUME NEW n \in Numbers, CreateCustomer(n)  PROVE BookingsEffect
  BY <1>5 DEF CreateCustomer, offers, hist, BookingsEffect
<1>6. ASSUME NEW b \in Made, Dispatch(b)  PROVE BookingsEffect
  <2> PICK row : row = [bookings[b] EXCEPT !.status = "ASSIGNED"]  OBVIOUS
  <2>1. bookings[b] \in Row /\ bookings[b].status = "REQUESTED"
    BY <1>6, BookingsAre DEF TypeInv, Dispatch
  <2>2. row \in Row /\ Rewrites(b, row)
    BY <1>6, <2>1 DEF Dispatch, Row, Status, Rewrites
  <2> QED BY <1>6, <2>2 DEF Dispatch, offers, hist, BookingsEffect
<1>7. CASE Join \/ (\E e \in DOMAIN waitlist : Leave(e)) \/ UNCHANGED vars
  BY <1>7 DEF Join, Leave, vars, offers, hist, BookingsEffect
<1> QED BY <1>1, <1>2, <1>3, <1>4, <1>5, <1>6, <1>7 DEF Next, Step

\* What the bookings that are alive, and carry some mark, become.
Marked(mark) == {b \in Live : bookings[b][mark]}

LEMMA MarkedStep ==
    ASSUME TypeInv, BookingsEffect, NEW mark \in {"public", "coupon"}
    PROVE  \/ /\ Marked(mark)' = Marked(mark)
              /\ \/ UNCHANGED <<redeemed, gaveBack>>
                 \/ \E r \in Requests, row \in Row : Adds(r, row) /\ ~row[mark]
           \/ \E r \in Requests, row \in Row :
                /\ Adds(r, row) /\ row[mark]
                /\ Len(bookings) + 1 \notin Marked(mark)
                /\ Marked(mark)' = Marked(mark) \cup {Len(bookings) + 1}
           \/ \E r \in Requests : /\ CancelWrite(r) /\ req[r].bk \in Made
                                  /\ Marked(mark)' = Marked(mark) \ {req[r].bk}
<1>0. TablesOK /\ SlotsOK  BY DEF TypeInv
<1>1. CASE UNCHANGED <<bookings, redeemed, gaveBack>>
  BY <1>1 DEF Marked, Live, Made
<1>2. ASSUME NEW b \in Made, NEW row \in Row, Rewrites(b, row), UNCHANGED <<redeemed, gaveBack>>
      PROVE  Marked(mark)' = Marked(mark) /\ UNCHANGED <<redeemed, gaveBack>>
  <2>1. /\ Made' = Made
        /\ \A d \in Made : bookings'[d] = IF d = b THEN row ELSE bookings[d]
    BY <1>0, <1>2, UpdateBooking DEF Rewrites
  <2>2. row[mark] <=> bookings[b][mark]  BY <1>2 DEF Rewrites
  <2>3. row.status # "CANCELLED" <=> bookings[b].status # "CANCELLED"  BY <1>2 DEF Rewrites
  <2>4. \A d : d \in Marked(mark)' <=> d \in Marked(mark)
    BY <2>1, <2>2, <2>3 DEF Marked, Live
  <2> QED BY <1>2, <2>4
<1>3. ASSUME NEW r \in Requests, NEW row \in Row, Adds(r, row)
      PROVE  /\ Len(bookings) + 1 \notin Marked(mark)
             /\ row[mark] => Marked(mark)' = Marked(mark) \cup {Len(bookings) + 1}
             /\ ~row[mark] => Marked(mark)' = Marked(mark)
  <2> PICK n : n = Len(bookings) + 1  OBVIOUS
  <2>1. /\ Made' = Made \cup {n} /\ n \notin Made
        /\ \A d \in Made : bookings'[d] = bookings[d]
        /\ bookings'[n] = row
    BY <1>0, <1>3, AddBooking DEF Adds
  <2>2. row.status # "CANCELLED"  BY <1>3 DEF Adds
  <2>3. \A d : d \in Marked(mark)' <=> d \in Marked(mark) \/ (d = n /\ row[mark])
    BY <2>1, <2>2 DEF Marked, Live
  <2>4. n \notin Marked(mark)  BY <2>1 DEF Marked, Live
  <2> QED BY <2>3, <2>4
<1>4. ASSUME NEW r \in Requests, CancelWrite(r)
      PROVE  req[r].bk \in Made /\ Marked(mark)' = Marked(mark) \ {req[r].bk}
  <2> PICK b : b = req[r].bk  OBVIOUS
  <2>1. b \in Made /\ bookings[b] \in Row
    BY <1>0, <1>4, BookingsAre DEF CancelWrite, At, SlotsOK, WorkOK
  <2> PICK row : row = [bookings[b] EXCEPT !.status = "CANCELLED"]  OBVIOUS
  <2>2. row \in Row /\ row.status = "CANCELLED"  BY <2>1 DEF Row, Status
  <2>3. bookings' = [bookings EXCEPT ![b] = row]  BY <1>4 DEF CancelWrite
  <2>4. /\ Made' = Made
        /\ \A d \in Made : bookings'[d] = IF d = b THEN row ELSE bookings[d]
    BY <1>0, <2>1, <2>2, <2>3, UpdateBooking
  <2>5. \A d : d \in Marked(mark)' <=> d \in Marked(mark) /\ d # b
    BY <2>2, <2>4 DEF Marked, Live
  <2> QED BY <2>1, <2>5
<1>5. CASE \E b \in Made, row \in Row : Rewrites(b, row) /\ UNCHANGED <<redeemed, gaveBack>>
  BY <1>2, <1>5
<1>6. CASE \E r \in Requests, row \in Row : Adds(r, row)
  BY <1>3, <1>6
<1>7. CASE \E r \in Requests : CancelWrite(r)
  BY <1>4, <1>7
<1> QED BY <1>1, <1>5, <1>6, <1>7 DEF BookingsEffect

LEMMA MarkedFinite ==
    ASSUME TypeInv, NEW mark
    PROVE  /\ IsFiniteSet(Marked(mark)) /\ Cardinality(Marked(mark)) \in Nat
           /\ Marked(mark) \subseteq Ids
<1>1. Marked(mark) \in SUBSET Made  BY DEF Marked, Live
<1>2. IsFiniteSet(Made) /\ Made \subseteq Ids  BY BookingsAre DEF TypeInv
<1> QED BY <1>1, <1>2, FS_Subset, FS_CardinalityType

-----------------------------------------------------------------------------
(* The places sold: under the lock nobody else sells one *)

LEMMA SpareMeans ==
    ASSUME TypeInv, HasSpare
    PROVE  Cardinality(Marked("public")) < Cleaners
<1> PICK A, R, S : A = With("ASSIGNED") /\ R = With("REQUESTED") /\ S = Marked("public")
  OBVIOUS
<1>0. IsFiniteSet(Made) /\ \A b \in Made : bookings[b].status \in Status
  BY BookingsAre DEF TypeInv, Row
<1>1. A \in SUBSET Made /\ R \in SUBSET Made /\ A \cap R = {}  BY DEF With
<1>2. S \in SUBSET (A \cup R)  BY <1>0 DEF Marked, Live, With, Status
<1>3. /\ IsFiniteSet(A) /\ IsFiniteSet(R)
      /\ Cardinality(A) \in Nat /\ Cardinality(R) \in Nat
  BY <1>0, <1>1, FS_Subset, FS_CardinalityType
<1>4. IsFiniteSet(A \cup R) /\ Cardinality(A \cup R) = Cardinality(A) + Cardinality(R)
  <2>1. /\ IsFiniteSet(A \cup R)
        /\ Cardinality(A \cup R) = Cardinality(A) + Cardinality(R) - Cardinality(A \cap R)
    BY <1>3, FS_Union
  <2>2. Cardinality(A \cap R) = 0  BY <1>1, FS_EmptySet
  <2> QED BY <1>3, <2>1, <2>2
<1>5. Cardinality(S) <= Cardinality(A \cup R) /\ Cardinality(S) \in Nat
  BY <1>2, <1>4, FS_Subset, FS_CardinalityType
<1>6. Cardinality(A) + Cardinality(R) < Cleaners
  <2> PICK a, C : a = Cardinality(A) /\ C = Candidates  OBVIOUS
  <2>1. a \in Nat /\ Cleaners \in Nat  BY <1>3, Sizes
  <2>2. C = (a + 1)..Cleaners  BY <2>1 DEF Candidates
  <2>3. Cardinality(C) = IF a + 1 > Cleaners THEN 0 ELSE Cleaners - (a + 1) + 1
    <3>1. a + 1 \in Int /\ Cleaners \in Int  BY <2>1
    <3> QED BY <2>2, <3>1, FS_Interval
  <2>4. Cardinality(C) > Cardinality(R)  BY DEF HasSpare
  <2> QED BY <1>3, <2>1, <2>3, <2>4
<1> QED BY <1>3, <1>4, <1>5, <1>6, Sizes

\* A request that was let through by the capacity check still has its place.
SaleInv == \A r \in Requests : req[r].pc = "create" => Cardinality(Marked("public")) < Cleaners

\* A slot comes to "create" by the check only, and no booking is made there.
LEMMA ToCreate ==
    ASSUME TypeInv, [Next]_vars, NEW s \in Requests, req'[s].pc = "create", req[s].pc # "create"
    PROVE  HasSpare /\ UNCHANGED bookings
<1>0. req \in [Requests -> Work \cup {Idle}]  BY DEF TypeInv, SlotsOK
<1>1. ASSUME NEW r \in Requests, NEW w, req' = [req EXCEPT ![r] = w], w.pc # "create"
      PROVE  FALSE
  BY <1>0, <1>1
<1>2. Idle.pc # "create"  BY DEF Idle
<1>3. ASSUME NEW r \in Requests, Return(r)  PROVE FALSE
  BY <1>1, <1>2, <1>3 DEF Return
<1>4. ASSUME NEW r \in Requests, NEW pc, Then(r, pc), pc # "create"  PROVE FALSE
  <2>1. req[r].pc = "idle" => req[r] = Idle  BY <1>0, KindOf
  <2> PICK w : w = [req[r] EXCEPT !.pc = pc]  OBVIOUS
  <2>2. w.pc = pc \/ w.pc # "create"
    <3>1. req[r] \in FormWork \cup MadeWork \cup TakeWork \cup StaffWork \cup CancelWork \cup TellWork
             \cup {Idle}
      BY <1>0, KindsOfWork
    <3>2. "pc" \in DOMAIN req[r]
      BY <3>1 DEF FormWork, MadeWork, TakeWork, StaffWork, CancelWork, TellWork, Idle
    <3> QED BY <3>2
  <2> QED BY <1>1, <1>4, <2>2 DEF Then
<1>5. ASSUME NEW r \in Requests, Submit(r)  PROVE HasSpare /\ UNCHANGED bookings
  <2>1. CASE Check(r)
    BY <1>3, <2>1 DEF Check
  <2>2. CASE \E f \in Forms : Quote(r, f)
    BY <1>1, <2>2 DEF Quote, Begin
  <2>3. CASE TakeLock(r) \/ Reward(r) \/ DepositWrite(r)
    BY <1>4, <2>3 DEF TakeLock, Reward, DepositWrite
  <2>4. CASE Deposit(r)  BY <1>4, <2>4 DEF Deposit
  <2>5. CASE Create(r)   BY <1>1, <1>3, <2>5 DEF Create, Goto
  <2>6. CASE CardRead(r) BY <1>1, <1>3, <2>6 DEF CardRead, Goto
  <2>7. CASE CardTake(r) BY <1>3, <1>4, <2>7 DEF CardTake
  <2>8. CASE CardWrite(r) BY <1>3, <2>8 DEF CardWrite
  <2> QED BY <1>5, <2>1, <2>2, <2>3, <2>4, <2>5, <2>6, <2>7, <2>8 DEF Submit
<1>6. ASSUME NEW r \in Requests, Staff(r)  PROVE FALSE
  <2>1. CASE \E c \in customers, coupon \in BOOLEAN : StaffRead(r, c, coupon)
    BY <1>1, <2>1 DEF StaffRead, Begin
  <2>2. CASE StaffCreate(r)  BY <1>3, <2>2 DEF StaffCreate
  <2> QED BY <1>6, <2>1, <2>2 DEF Staff
<1>7. ASSUME NEW r \in Requests, Cancel(r)  PROVE FALSE
  <2>1. CASE \E b \in Made : CancelRead(r, b)  BY <1>1, <2>1 DEF CancelRead, Begin
  <2>2. CASE CancelCard(r)
    <3> PICK w : w = [req[r] EXCEPT !.pc = "cancelWrite", !.seen = card]  OBVIOUS
    <3>1. req[r] \in CancelWork  BY <1>0, <2>2, KindOf DEF CancelCard, At
    <3>2. w.pc = "cancelWrite"  BY <3>1 DEF CancelWork
    <3> QED BY <1>1, <2>2, <3>2 DEF CancelCard, Goto
  <2>3. CASE CancelWrite(r) \/ Expire(r)  BY <1>4, <2>3 DEF CancelWrite, Expire
  <2>4. CASE Find(r)  BY <1>1, <1>3, <2>4 DEF Find, Goto
  <2>5. CASE Tell(r) \/ Mark(r)  BY <1>1, <1>3, <1>4, <2>5 DEF Tell, Mark, Rest, Goto
  <2> QED BY <1>7, <2>1, <2>2, <2>3, <2>4, <2>5 DEF Cancel
<1>8. ASSUME NEW r \in Requests, Crash(r)  PROVE FALSE  BY <1>3, <1>8 DEF Crash
<1>9. CASE UNCHANGED req  BY <1>9
<1> QED BY <1>5, <1>6, <1>7, <1>8, <1>9
        DEF Next, Step, CreateCustomer, Dispatch, Join, Leave, vars

LEMMA SaleStep ==
    ASSUME TypeInv, TypeInv', SaleInv, [Next]_vars
    PROVE  SaleInv' /\ [Sold!Next]_(Marked("public"))
<1> PICK S, T : S = Marked("public") /\ T = Marked("public")'  OBVIOUS
<1>0. IsFiniteSet(S) /\ Cardinality(S) \in Nat /\ S \subseteq Ids
  BY MarkedFinite
<1>1. \/ T = S
      \/ \E b \in S : T = S \ {b}
      \/ \E r \in Requests, n \in Ids \ S :
           T = S \cup {n} /\ Create(r) /\ req[r].pc = "create" /\ Adds(r, bookings'[n])
  <2>1. BookingsEffect  BY BookingsStep
  <2>2. ASSUME NEW r \in Requests, NEW row \in Row, Adds(r, row), row.public,
               Len(bookings) + 1 \notin S, T = S \cup {Len(bookings) + 1}
        PROVE  \E n \in Ids \ S :
           T = S \cup {n} /\ Create(r) /\ req[r].pc = "create" /\ Adds(r, bookings'[n])
    <3> PICK n : n = Len(bookings) + 1  OBVIOUS
    <3>0. Len(bookings') = n /\ Len(bookings) \in Nat /\ n <= MaxBookings
      BY <2>2, AddBooking, BookingsAre DEF Adds, TypeInv, TablesOK
    <3>1. n \in Ids \ S  BY <2>2, <3>0, Sizes DEF Ids
    <3>2. bookings'[n] = row  BY <2>2, AddBooking DEF Adds, TypeInv
    <3>3. Adds(r, bookings'[n])  BY <2>2, <3>2
    <3>4. Create(r) /\ req[r].pc = "create"  BY <2>2 DEF Adds
    <3> QED BY <2>2, <3>1, <3>3, <3>4
  <2>3. \/ T = S
        \/ \E r \in Requests, row \in Row :
              /\ Adds(r, row) /\ row.public
              /\ Len(bookings) + 1 \notin S /\ T = S \cup {Len(bookings) + 1}
        \/ \E r \in Requests : T = S \ {req[r].bk}
    <3>1. \/ T = S
          \/ \E r \in Requests, row \in Row :
                /\ Adds(r, row) /\ row["public"]
                /\ Len(bookings) + 1 \notin S /\ T = S \cup {Len(bookings) + 1}
          \/ \E r \in Requests : T = S \ {req[r].bk}
      BY <2>1, MarkedStep
    <3> QED BY <3>1
  <2>4. ASSUME NEW r \in Requests, T = S \ {req[r].bk}
        PROVE  T = S \/ \E b \in S : T = S \ {b}
    BY <2>4
  <2> QED BY <2>2, <2>3, <2>4
<1>2. T \in SUBSET S => Cardinality(T) <= Cardinality(S) /\ Cardinality(T) \in Nat
  BY <1>0, FS_Subset, FS_CardinalityType
<1>3. SaleInv'
  <2> SUFFICES ASSUME NEW s \in Requests, req'[s].pc = "create"
               PROVE  Cardinality(T) < Cleaners
    BY DEF SaleInv
  <2>1. Cardinality(S) < Cleaners
    <3>1. CASE req[s].pc = "create"  BY <3>1 DEF SaleInv
    <3>2. CASE req[s].pc # "create"  BY <3>2, ToCreate, SpareMeans
    <3> QED BY <3>1, <3>2
  <2>2. CASE T \in SUBSET S  BY <1>0, <1>2, <2>1, <2>2, Sizes
  <2>3. ASSUME NEW r \in Requests, Create(r), req[r].pc = "create", ~(T \in SUBSET S)
        PROVE  FALSE
    <3>1. bizLock = {r}  BY <2>3 DEF TypeInv, LockOK
    <3>2. req[s].pc = "create"
      <4>1. CASE req[s].pc # "create"
        <5>1. UNCHANGED bookings  BY <4>1, ToCreate
        <5>2. T = S  BY <5>1 DEF Marked, Live, Made
        <5> QED BY <2>3, <5>2
      <4> QED BY <4>1
    <3>3. s = r  BY <3>1, <3>2 DEF TypeInv, LockOK
    <3>4. bizLock' = bizLock \ {r}  BY <2>3 DEF Create
    <3>5. bizLock' = {s}  BY DEF TypeInv, LockOK
    <3> QED BY <3>1, <3>3, <3>4, <3>5
  <2> QED BY <1>1, <2>2, <2>3
<1>4. ASSUME NEW r \in Requests, req[r].pc = "create"  PROVE Cardinality(S) < Cleaners
  BY <1>4 DEF SaleInv
<1>5. T = S \/ (\E b \in S : T = S \ {b})
      \/ (Cardinality(S) < Cleaners /\ \E b \in Ids \ S : T = S \cup {b})
  BY <1>1, <1>4
<1>6. [Sold!Next]_(Marked("public"))
  <2>1. S = {b \in Live : bookings[b].public} /\ T = {b \in Live : bookings[b].public}'
    BY DEF Marked
  <2>2. CASE T = S  BY <2>2
  <2>3. CASE \E b \in S : T = S \ {b}
    <3>1. Sold!Release  BY <2>1, <2>3 DEF Sold!Release
    <3> QED BY <3>1 DEF Sold!Next
  <2>4. CASE Cardinality(S) < Cleaners /\ \E b \in Ids \ S : T = S \cup {b}
    <3>1. Sold!Sell
      <4>1. Cardinality({b \in Live : bookings[b].public}) < Cleaners
        BY <2>1, <2>4
      <4>2. \E b \in Ids \ {d \in Live : bookings[d].public} :
              {d \in Live : bookings[d].public}' = {d \in Live : bookings[d].public} \cup {b}
        BY <2>1, <2>4
      <4>3. \A set : Sold!Cardinality(set) = Cardinality(set)
        BY DEF Sold!Cardinality, Cardinality
      <4> QED BY <4>1, <4>2, <4>3 DEF Sold!Sell
    <3> QED BY <3>1 DEF Sold!Next
  <2> QED BY <1>5, <2>2, <2>3, <2>4
<1> QED BY <1>3, <1>6

\* bookingLock.js: of two requests for the last place the second one sees the
\* first one's booking.  However the handlers of the form, the dashboard and the
\* cancellations interleave, and wherever they are killed, the public form sells
\* one place at a time and never more than there are cleaners.
THEOREM IntakeImplementsSale == Spec => ImplementsSale
<1>1. Init => SaleInv /\ Sold!Init
  <2> SUFFICES ASSUME Init  PROVE SaleInv /\ Sold!Init
    OBVIOUS
  <2>1. bookings = <<>> /\ req = [r \in Requests |-> Idle]  BY DEF Init
  <2>2. Made = {}
    <3>1. Len(bookings) = 0 /\ bookings \in Seq(Row)  BY <2>1, EmptySeq
    <3>2. Made = 1..0  BY <3>1, LenProperties DEF Made
    <3> QED BY <3>2
  <2>3. Live = {}  BY <2>2 DEF Live
  <2>4. SaleInv  BY <2>1 DEF SaleInv, Idle
  <2>5. Sold!Init  BY <2>3 DEF Sold!Init
  <2> QED BY <2>4, <2>5
<1>2. TypeInv /\ TypeInv' /\ SaleInv /\ [Next]_vars
        => SaleInv' /\ [Sold!Next]_(Marked("public"))
  BY SaleStep
<1>3. TypeInv /\ TypeInv' /\ SaleInv /\ [Next]_vars
        => SaleInv' /\ [Sold!Next]_{b \in Live : bookings[b].public}
  BY <1>2 DEF Marked
<1> QED BY <1>1, <1>3, TypeInvHolds, PTL DEF Spec, ImplementsSale, Sold!Spec

-----------------------------------------------------------------------------
(* One person, one customer *)

OnePerNumber == \A c, d \in customers : c.num = d.num => c = d

LEMMA CustomersStep ==
    ASSUME TypeInv, [Next]_vars
    PROVE  \/ customers' = customers
           \/ \E c \in Phones : /\ customers' = customers \cup {c}
                                /\ c \in customers \/ Known(c.num) = {}
<1>1. ASSUME NEW r \in Requests, Create(r), customers' # customers
      PROVE  \E c \in Phones : /\ customers' = customers \cup {c}
                               /\ c \in customers \/ Known(c.num) = {}
  <2> PICK f, c : f = req[r].form /\ c = Stored(f)  OBVIOUS
  <2>1. req[r] \in FormWork  BY <1>1, KindOf DEF Create, At, TypeInv, SlotsOK
  <2>2. f \in Forms  BY <2>1 DEF FormWork
  <2>3. c \in Phones /\ c.num = f.num /\ (Known(f.num) # {} => c \in customers)
    BY <2>2, StoredIsPhone DEF TypeInv
  <2>4. customers' = customers \cup {c}  BY <1>1 DEF Create
  <2> QED BY <2>3, <2>4
<1>2. ASSUME NEW r \in Requests, Step(r), ~Create(r)  PROVE customers' = customers
  <2>1. CASE Submit(r)
    BY <1>2, <2>1 DEF Submit, Quote, TakeLock, Check, Reward, Deposit, DepositWrite, CardRead,
                      CardTake, CardWrite
  <2>2. CASE Staff(r)   BY <2>2 DEF Staff, StaffRead, StaffCreate
  <2>3. CASE Cancel(r)
    BY <2>3 DEF Cancel, CancelRead, CancelCard, CancelWrite, Expire, Find, Tell, Mark
  <2>4. CASE Crash(r)   BY <2>4 DEF Crash
  <2> QED BY <1>2, <2>1, <2>2, <2>3, <2>4 DEF Step
<1>3. ASSUME NEW n \in Numbers, CreateCustomer(n)
      PROVE  \E c \in Phones : /\ customers' = customers \cup {c}
                               /\ c \in customers \/ Known(c.num) = {}
  <2>1. E164(n) \in Phones /\ E164(n).num = n  BY DEF E164, Phones
  <2> QED BY <1>3, <2>1 DEF CreateCustomer
<1>4. CASE (\E b \in Made : Dispatch(b)) \/ Join \/ (\E e \in DOMAIN waitlist : Leave(e))
           \/ UNCHANGED vars
  BY <1>4 DEF Dispatch, Join, Leave, vars
<1> QED BY <1>1, <1>2, <1>3, <1>4 DEF Next

\* lib/phone.js: one person is one customer, in whatever form the number came in
\* and through whatever door, though form and dashboard write at the same time.
THEOREM IntakeOneCustomer == Spec => []OneCustomerPerNumber
<1>1. Init => OnePerNumber
  BY DEF Init, OnePerNumber
<1>2. TypeInv /\ OnePerNumber /\ [Next]_vars => OnePerNumber'
  <2> SUFFICES ASSUME TypeInv, OnePerNumber, [Next]_vars  PROVE OnePerNumber'
    OBVIOUS
  <2>1. ASSUME NEW c, customers' = customers \cup {c}, c \in customers \/ Known(c.num) = {}
        PROVE  OnePerNumber'
    BY <2>1 DEF OnePerNumber, Known
  <2>2. CASE customers' = customers  BY <2>2 DEF OnePerNumber
  <2> QED BY <2>1, <2>2, CustomersStep
<1>3. OnePerNumber => OneCustomerPerNumber
  <2> SUFFICES ASSUME OnePerNumber, NEW n \in Numbers  PROVE Cardinality(Known(n)) <= 1
    BY DEF OneCustomerPerNumber
  <2>1. CASE Known(n) = {}  BY <2>1, FS_EmptySet
  <2>2. ASSUME NEW c \in Known(n)  PROVE Cardinality(Known(n)) <= 1
    <3>1. Known(n) = {c}  BY <2>2 DEF Known, OnePerNumber
    <3> QED BY <3>1, FS_Singleton
  <2> QED BY <2>1, <2>2
<1> QED BY <1>1, <1>2, <1>3, TypeInvHolds, PTL DEF Spec

-----------------------------------------------------------------------------
(* The coupon's counter *)

\* What a cancelling handler remembers of the booking is still so.
Remembers(w) == w.pc \in {"cancelCard", "cancelWrite"} =>
                  (w.row.coupon <=> bookings[w.bk].coupon)

CouponInv ==
    /\ CouponBalanced
    /\ \A b \in Made : bookings[b].status = "CANCELLED" => gaveBack[b] >= 1
    /\ \A r \in Requests : Remembers(req[r])

\* A slot comes to cancel a booking with the row it has just read, and keeps
\* what it read.
CancelPc == {"cancelCard", "cancelWrite", "expire"}

LEMMA ToCancel ==
    ASSUME TypeInv, [Next]_vars, NEW s \in Requests, req'[s].pc \in CancelPc
    PROVE  \/ req'[s] = req[s]
           \/ /\ req'[s].pc = "cancelCard" /\ CancelRead(s, req'[s].bk)
              /\ req'[s].bk \in Made /\ req'[s].row = bookings[req'[s].bk]
           \/ /\ req[s].pc = "cancelCard" /\ req'[s].pc = "cancelWrite" /\ CancelCard(s)
              /\ req'[s].bk = req[s].bk /\ req'[s].row = req[s].row
           \/ /\ req[s].pc = "cancelWrite" /\ req'[s].pc = "expire" /\ CancelWrite(s)
              /\ req'[s].bk = req[s].bk /\ req'[s].row = req[s].row
<1> DEFINE Goal == \/ /\ req'[s].pc = "cancelCard" /\ CancelRead(s, req'[s].bk)
                      /\ req'[s].bk \in Made /\ req'[s].row = bookings[req'[s].bk]
                   \/ /\ req[s].pc = "cancelCard" /\ req'[s].pc = "cancelWrite" /\ CancelCard(s)
                      /\ req'[s].bk = req[s].bk /\ req'[s].row = req[s].row
                   \/ /\ req[s].pc = "cancelWrite" /\ req'[s].pc = "expire" /\ CancelWrite(s)
                      /\ req'[s].bk = req[s].bk /\ req'[s].row = req[s].row
<1> SUFFICES ASSUME req'[s] # req[s]  PROVE Goal
  OBVIOUS
<1>0. req \in [Requests -> Work \cup {Idle}]  BY DEF TypeInv, SlotsOK
<1>1. ASSUME NEW r \in Requests, NEW w, req' = [req EXCEPT ![r] = w]
      PROVE  r = s /\ w = req'[s] /\ w.pc \in CancelPc
  BY <1>0, <1>1
<1>2. ASSUME NEW r \in Requests, Return(r)  PROVE FALSE
  BY <1>1, <1>2 DEF Return, Idle, CancelPc
<1>3. ASSUME NEW r \in Requests, NEW pc, Then(r, pc)
      PROVE  pc \in CancelPc /\ r = s /\ req'[s] = [req[s] EXCEPT !.pc = pc]
  <2> PICK w : w = [req[r] EXCEPT !.pc = pc]  OBVIOUS
  <2>1. r = s /\ w = req'[s] /\ w.pc \in CancelPc  BY <1>1, <1>3 DEF Then
  <2>2. "pc" \in DOMAIN req[r]
    <3>1. req[r] \in FormWork \cup MadeWork \cup TakeWork \cup StaffWork \cup CancelWork \cup TellWork
             \cup {Idle}
      BY <1>0, KindsOfWork
    <3> QED BY <3>1 DEF FormWork, MadeWork, TakeWork, StaffWork, CancelWork, TellWork, Idle
  <2> QED BY <2>1, <2>2
<1>3a. ASSUME NEW r \in Requests, NEW pc, Then(r, pc), pc \notin CancelPc  PROVE FALSE
  BY <1>3, <1>3a
<1>4. ASSUME NEW r \in Requests, Submit(r)  PROVE FALSE
  <2>1. CASE \E f \in Forms : Quote(r, f)
    BY <1>1, <2>1 DEF Quote, Begin, CancelPc
  <2>2. CASE TakeLock(r) \/ Reward(r) \/ DepositWrite(r)
    BY <1>3a, <2>2 DEF TakeLock, Reward, DepositWrite, CancelPc
  <2>3. CASE Check(r)     BY <1>2, <1>3a, <2>3 DEF Check, CancelPc
  <2>4. CASE Deposit(r)   BY <1>3a, <2>4 DEF Deposit, CancelPc
  <2>5. CASE Create(r)    BY <1>1, <1>2, <2>5 DEF Create, Goto, CancelPc
  <2>6. CASE CardRead(r)  BY <1>1, <1>2, <2>6 DEF CardRead, Goto, CancelPc
  <2>7. CASE CardTake(r)  BY <1>2, <1>3a, <2>7 DEF CardTake, CancelPc
  <2>8. CASE CardWrite(r) BY <1>2, <2>8 DEF CardWrite
  <2> QED BY <1>4, <2>1, <2>2, <2>3, <2>4, <2>5, <2>6, <2>7, <2>8 DEF Submit
<1>5. ASSUME NEW r \in Requests, Staff(r)  PROVE FALSE
  <2>1. CASE \E c \in customers, coupon \in BOOLEAN : StaffRead(r, c, coupon)
    BY <1>1, <2>1 DEF StaffRead, Begin, CancelPc
  <2>2. CASE StaffCreate(r)  BY <1>2, <2>2 DEF StaffCreate
  <2> QED BY <1>5, <2>1, <2>2 DEF Staff
<1>6. ASSUME NEW r \in Requests, Cancel(r)  PROVE Goal
  <2>1. ASSUME NEW b \in Made, CancelRead(r, b)  PROVE Goal
    <3> PICK w : w = [pc |-> "cancelCard", bk |-> b, row |-> bookings[b], seen |-> 0]  OBVIOUS
    <3>1. r = s /\ req'[s] = w  BY <1>1, <2>1 DEF CancelRead, Begin
    <3>2. w.pc = "cancelCard" /\ w.bk = b /\ w.row = bookings[b]  OBVIOUS
    <3> QED BY <2>1, <3>1, <3>2
  <2>2. CASE CancelCard(r)
    <3> PICK w : w = [req[r] EXCEPT !.pc = "cancelWrite", !.seen = card]  OBVIOUS
    <3>1. req[r] \in CancelWork /\ req[r].pc = "cancelCard"
      BY <1>0, <2>2, KindOf DEF CancelCard, At
    <3>2. w.pc = "cancelWrite" /\ w.bk = req[r].bk /\ w.row = req[r].row  BY <3>1 DEF CancelWork
    <3>3. r = s /\ req'[s] = w  BY <1>1, <2>2 DEF CancelCard, Goto
    <3> QED BY <2>2, <3>1, <3>2, <3>3
  <2>3. CASE CancelWrite(r)
    <3>1. req[r] \in CancelWork /\ req[r].pc = "cancelWrite"
      BY <1>0, <2>3, KindOf DEF CancelWrite, At
    <3>2. r = s /\ req'[s] = [req[s] EXCEPT !.pc = "expire"]  BY <1>3, <2>3 DEF CancelWrite
    <3> QED BY <2>3, <3>1, <3>2 DEF CancelWork
  <2>4. CASE Expire(r)  BY <1>3a, <2>4 DEF Expire, CancelPc
  <2>5. CASE Find(r)    BY <1>1, <1>2, <2>5 DEF Find, Goto, CancelPc
  <2>6. CASE Tell(r) \/ Mark(r)
    BY <1>1, <1>2, <1>3a, <2>6 DEF Tell, Mark, Rest, Goto, CancelPc
  <2> QED BY <1>6, <2>1, <2>2, <2>3, <2>4, <2>5, <2>6 DEF Cancel
<1>7. ASSUME NEW r \in Requests, Crash(r)  PROVE FALSE  BY <1>2, <1>7 DEF Crash
<1>8. ASSUME UNCHANGED req  PROVE FALSE  BY <1>8
<1> HIDE DEF Goal
<1> QED BY <1>4, <1>5, <1>6, <1>7, <1>8
        DEF Next, Step, CreateCustomer, Dispatch, Join, Leave, vars

LEMMA CouponStep ==
    ASSUME TypeInv, CouponInv, [Next]_vars
    PROVE  CouponInv'
<1> PICK S, T : S = Marked("coupon") /\ T = Marked("coupon")'  OBVIOUS
<1>0. TablesOK /\ SlotsOK /\ BookingsEffect  BY BookingsStep DEF TypeInv
<1>1. IsFiniteSet(S) /\ Cardinality(S) \in Nat
  BY MarkedFinite
<1>2. S = {b \in Live : bookings[b].coupon} /\ T = {b \in Live : bookings[b].coupon}'
  BY DEF Marked
<1>3. redeemed \in Nat /\ gaveBack \in [Ids -> Nat]  BY <1>0, Sizes DEF TablesOK
<1>4. GivenBackOnce => redeemed = Cardinality(S)
  BY <1>2 DEF CouponInv, CouponBalanced
<1>5. ASSUME NEW r \in Requests, CancelWrite(r)
      PROVE  /\ req[r] \in CancelWork /\ req[r].bk \in Made /\ req[r].bk \in Ids
             /\ (req[r].row.coupon <=> bookings[req[r].bk].coupon)
             /\ gaveBack' = [gaveBack EXCEPT ![req[r].bk] = gaveBack[req[r].bk] + 1]
             /\ redeemed' = CouponAfterCancel(req[r].row)
             /\ bookings' = [bookings EXCEPT ![req[r].bk].status = "CANCELLED"]
  <2>1. req[r] \in CancelWork /\ req[r].pc = "cancelWrite"
    BY <1>0, <1>5, KindOf DEF CancelWrite, At, SlotsOK
  <2>2. req[r].bk \in Made /\ req[r].bk \in Ids
    BY <1>0, <2>1, BookingsAre DEF SlotsOK, WorkOK
  <2> QED BY <1>5, <2>1, <2>2 DEF CancelWrite, CouponInv, Remembers
<1>6. GivenBackOnce' => redeemed' = Cardinality(T)
  <2> SUFFICES ASSUME GivenBackOnce'  PROVE redeemed' = Cardinality(T)
    OBVIOUS
  <2>1. CASE T = S /\ UNCHANGED <<redeemed, gaveBack>>
    BY <1>4, <2>1 DEF GivenBackOnce
  <2>2. ASSUME NEW r \in Requests, NEW row \in Row, Adds(r, row), ~row.coupon, T = S
        PROVE  redeemed' = Cardinality(T)
    BY <1>4, <2>2 DEF Adds, GivenBackOnce
  <2>3. ASSUME NEW r \in Requests, NEW row \in Row, Adds(r, row), row.coupon,
               Len(bookings) + 1 \notin S, T = S \cup {Len(bookings) + 1}
        PROVE  redeemed' = Cardinality(T)
    <3>1. Cardinality(T) = Cardinality(S) + 1  BY <1>1, <2>3, FS_AddElement
    <3>2. redeemed' = redeemed + 1 /\ GivenBackOnce  BY <2>3 DEF Adds, GivenBackOnce
    <3> QED BY <1>4, <3>1, <3>2
  <2>4. ASSUME NEW r \in Requests, CancelWrite(r), T = S \ {req[r].bk}
        PROVE  redeemed' = Cardinality(T)
    <3> PICK b, g : b = req[r].bk /\ g = gaveBack  OBVIOUS
    <3>1. b \in Made /\ b \in Ids /\ g \in [Ids -> Nat] /\ gaveBack' = [g EXCEPT ![b] = g[b] + 1]
      BY <1>3, <1>5, <2>4
    <3>2. \A d \in Ids : gaveBack'[d] <= 1  BY DEF GivenBackOnce
    <3>3. g[b] + 1 <= 1 /\ \A d \in Ids \ {b} : g[d] <= 1
      BY <3>1, <3>2
    <3>4. g[b] = 0 /\ GivenBackOnce
      <4>1. g[b] \in Nat  BY <3>1
      <4>2. g[b] = 0  BY <3>3, <4>1
      <4> QED BY <3>3, <4>2 DEF GivenBackOnce
    <3>5. b \in Live
      <4>1. ~(g[b] >= 1)  BY <3>4
      <4>2. bookings[b].status # "CANCELLED"  BY <3>1, <4>1 DEF CouponInv
      <4> QED BY <3>1, <4>2 DEF Live
    <3>6. redeemed = Cardinality(S)  BY <1>4, <3>4
    <3>7. CASE bookings[b].coupon
      <4>1. b \in S  BY <1>2, <3>5, <3>7
      <4>2. Cardinality(T) = Cardinality(S) - 1 /\ Cardinality(S) # 0
        BY <1>1, <2>4, <4>1, FS_RemoveElement, FS_EmptySet
      <4>3. redeemed' = redeemed - 1
        <5>1. redeemed > 0  BY <1>1, <3>6, <4>2
        <5>2. redeemed' = CouponAfterCancel(req[r].row) /\ req[r].row.coupon
          BY <1>5, <2>4, <3>7
        <5> QED BY <5>1, <5>2 DEF CouponAfterCancel
      <4> QED BY <3>6, <4>2, <4>3
    <3>8. CASE ~bookings[b].coupon
      <4>1. b \notin S  BY <1>2, <3>8
      <4>2. T = S  BY <2>4, <4>1
      <4>3. redeemed' = redeemed  BY <1>5, <2>4, <3>8 DEF CouponAfterCancel
      <4> QED BY <3>6, <4>2, <4>3
    <3> QED BY <3>7, <3>8
  <2> QED
    <3>1. \/ T = S /\ UNCHANGED <<redeemed, gaveBack>>
          \/ \E r \in Requests, row \in Row : Adds(r, row) /\ ~row["coupon"] /\ T = S
          \/ \E r \in Requests, row \in Row :
                /\ Adds(r, row) /\ row["coupon"]
                /\ Len(bookings) + 1 \notin S /\ T = S \cup {Len(bookings) + 1}
          \/ \E r \in Requests : CancelWrite(r) /\ T = S \ {req[r].bk}
      BY <1>0, MarkedStep
    <3> QED BY <2>1, <2>2, <2>3, <2>4, <3>1
<1>7. CouponBalanced'
  BY <1>2, <1>6 DEF CouponBalanced
<1>8. ASSUME NEW d \in Made', bookings'[d].status = "CANCELLED"  PROVE gaveBack'[d] >= 1
  <2>1. CASE UNCHANGED <<bookings, redeemed, gaveBack>>
    BY <1>8, <2>1 DEF CouponInv, Made
  <2>2. ASSUME NEW b \in Made, NEW row \in Row, Rewrites(b, row), UNCHANGED <<redeemed, gaveBack>>
        PROVE  gaveBack'[d] >= 1
    <3>1. /\ Made' = Made
          /\ \A e \in Made : bookings'[e] = IF e = b THEN row ELSE bookings[e]
      BY <1>0, <2>2, UpdateBooking DEF Rewrites
    <3>2. d \in Made /\ bookings[d].status = "CANCELLED"
      BY <1>8, <2>2, <3>1 DEF Rewrites
    <3> QED BY <2>2, <3>2 DEF CouponInv
  <2>3. ASSUME NEW r \in Requests, NEW row \in Row, Adds(r, row)
        PROVE  gaveBack'[d] >= 1
    <3>1. /\ Made' = Made \cup {Len(bookings) + 1}
          /\ \A e \in Made : bookings'[e] = bookings[e]
          /\ bookings'[Len(bookings) + 1] = row
      BY <1>0, <2>3, AddBooking DEF Adds
    <3>2. d \in Made /\ bookings[d].status = "CANCELLED"
      BY <1>8, <2>3, <3>1 DEF Adds
    <3> QED BY <2>3, <3>2 DEF CouponInv, Adds
  <2>4. ASSUME NEW r \in Requests, CancelWrite(r)  PROVE gaveBack'[d] >= 1
    <3> PICK b, g : b = req[r].bk /\ g = gaveBack  OBVIOUS
    <3>1. /\ b \in Ids /\ g \in [Ids -> Nat] /\ gaveBack' = [g EXCEPT ![b] = g[b] + 1]
          /\ bookings' = [bookings EXCEPT ![b].status = "CANCELLED"]
      BY <1>3, <1>5, <2>4
    <3>2. CASE d = b
      <4>1. g[b] \in Nat  BY <3>1
      <4> QED BY <3>1, <3>2, <4>1
    <3>3. CASE d # b
      <4>1. d \in Made /\ bookings'[d] = bookings[d]  BY <3>1, <3>3 DEF Made
      <4>2. gaveBack'[d] = g[d]  BY <3>1, <3>3
      <4>3. g[d] >= 1  BY <1>8, <4>1 DEF CouponInv
      <4> QED BY <4>2, <4>3
    <3> QED BY <3>2, <3>3
  <2> QED BY <1>0, <2>1, <2>2, <2>3, <2>4 DEF BookingsEffect
<1>9. ASSUME NEW s \in Requests  PROVE Remembers(req[s])'
  <2> SUFFICES ASSUME req'[s].pc \in {"cancelCard", "cancelWrite"}
               PROVE  req'[s].row.coupon <=> bookings'[req'[s].bk].coupon
    BY DEF Remembers
  <2>1. \A b \in Made : bookings'[b].coupon <=> bookings[b].coupon
    <3>1. CASE UNCHANGED bookings  BY <3>1
    <3>2. ASSUME NEW b \in Made, NEW row \in Row, Rewrites(b, row)
          PROVE  \A d \in Made : bookings'[d].coupon <=> bookings[d].coupon
      BY <1>0, <3>2, UpdateBooking DEF Rewrites
    <3>3. ASSUME NEW r \in Requests, NEW row \in Row, Adds(r, row)
          PROVE  \A d \in Made : bookings'[d].coupon <=> bookings[d].coupon
      BY <1>0, <3>3, AddBooking DEF Adds
    <3>4. ASSUME NEW r \in Requests, CancelWrite(r)
          PROVE  \A d \in Made : bookings'[d].coupon <=> bookings[d].coupon
      <4> PICK b : b = req[r].bk  OBVIOUS
      <4>1. b \in Made /\ bookings' = [bookings EXCEPT ![b].status = "CANCELLED"]
        BY <1>5, <3>4
      <4>2. \A d \in Made : bookings[d] \in Row  BY <1>0, BookingsAre
      <4> PICK row : row = [bookings[b] EXCEPT !.status = "CANCELLED"]  OBVIOUS
      <4>3. row.coupon <=> bookings[b].coupon  BY <4>1, <4>2 DEF Row
      <4>4. \A d \in Made : bookings'[d] = IF d = b THEN row ELSE bookings[d]
        BY <4>1 DEF Made
      <4> QED BY <4>3, <4>4
    <3> QED BY <1>0, <3>1, <3>2, <3>3, <3>4 DEF BookingsEffect
  <2>2. req'[s].pc \in CancelPc  BY DEF CancelPc
  <2>3. \/ req'[s] = req[s]
        \/ req'[s].bk \in Made /\ req'[s].row = bookings[req'[s].bk]
        \/ req[s].pc = "cancelCard" /\ req'[s].bk = req[s].bk /\ req'[s].row = req[s].row
    BY <2>2, ToCancel
  <2>4. CASE req'[s].bk \in Made /\ req'[s].row = bookings[req'[s].bk]
    BY <2>1, <2>4
  <2>5. CASE /\ req[s].pc \in {"cancelCard", "cancelWrite"}
             /\ req'[s].bk = req[s].bk /\ req'[s].row = req[s].row
    <3>1. req[s].bk \in Made  BY <1>0, <2>5 DEF SlotsOK, WorkOK
    <3>2. req[s].row.coupon <=> bookings[req[s].bk].coupon
      BY <2>5 DEF CouponInv, Remembers
    <3> QED BY <2>1, <2>5, <3>1, <3>2
  <2> QED BY <2>3, <2>4, <2>5
<1> QED BY <1>7, <1>8, <1>9 DEF CouponInv

LEMMA CouponInvHolds == Spec => []CouponInv
<1>1. Init => CouponInv
  <2> SUFFICES ASSUME Init  PROVE CouponInv
    OBVIOUS
  <2>1. bookings = <<>> /\ req = [r \in Requests |-> Idle] /\ redeemed = 0  BY DEF Init
  <2>2. Made = {}
    <3>1. Len(bookings) = 0 /\ bookings \in Seq(Row)  BY <2>1, EmptySeq
    <3>2. Made = 1..0  BY <3>1, LenProperties DEF Made
    <3> QED BY <3>2
  <2>3. CouponBalanced
    <3>1. {b \in Live : bookings[b].coupon} = {}  BY <2>2 DEF Live
    <3> QED BY <2>1, <3>1, FS_EmptySet DEF CouponBalanced
  <2>4. \A r \in Requests : Remembers(req[r])  BY <2>1 DEF Remembers, Idle
  <2> QED BY <2>2, <2>3, <2>4 DEF CouponInv
<1>2. TypeInv /\ CouponInv /\ [Next]_vars => CouponInv'
  BY CouponStep
<1> QED BY <1>1, <1>2, TypeInvHolds, PTL DEF Spec

\* bookings.service cancelBooking: the coupon's counter is the number of live
\* bookings that used it, whatever interleaves and wherever a handler is killed,
\* unless one booking was cancelled twice at the same time.
THEOREM IntakeCouponBalanced == Spec => []CouponBalanced
<1>1. CouponInv => CouponBalanced  BY DEF CouponInv
<1> QED BY <1>1, CouponInvHolds, PTL

-----------------------------------------------------------------------------
(* A cancelled booking cannot be paid *)

\* A handler changes its own slot only.
LEMMA OwnSlot ==
    ASSUME NEW r \in Requests, Step(r)
    PROVE  \E w : req' = [req EXCEPT ![r] = w]
<1>1. ASSUME NEW pc, Then(r, pc)  PROVE \E w : req' = [req EXCEPT ![r] = w]
  BY <1>1 DEF Then
<1>2. ASSUME NEW w, Goto(r, w)  PROVE \E v : req' = [req EXCEPT ![r] = v]
  BY <1>2 DEF Goto
<1>3. ASSUME NEW w, Begin(r, w)  PROVE \E v : req' = [req EXCEPT ![r] = v]
  BY <1>3 DEF Begin
<1>4. ASSUME Return(r)  PROVE \E w : req' = [req EXCEPT ![r] = w]
  BY <1>4 DEF Return
<1>5. CASE Submit(r)
  <2>1. CASE \E f \in Forms : Quote(r, f)  BY <1>3, <2>1 DEF Quote
  <2>2. CASE TakeLock(r) \/ Reward(r) \/ DepositWrite(r)
    BY <1>1, <2>2 DEF TakeLock, Reward, DepositWrite
  <2>3. CASE Check(r) \/ Deposit(r)  BY <1>1, <1>4, <2>3 DEF Check, Deposit
  <2>4. CASE Create(r)    BY <1>2, <1>4, <2>4 DEF Create
  <2>5. CASE CardRead(r)  BY <1>2, <1>4, <2>5 DEF CardRead
  <2>6. CASE CardTake(r) \/ CardWrite(r)  BY <1>1, <1>4, <2>6 DEF CardTake, CardWrite
  <2> QED BY <1>5, <2>1, <2>2, <2>3, <2>4, <2>5, <2>6 DEF Submit
<1>6. CASE Staff(r)
  BY <1>3, <1>4, <1>6 DEF Staff, StaffRead, StaffCreate
<1>7. CASE Cancel(r)
  <2>1. CASE \E b \in Made : CancelRead(r, b)  BY <1>3, <2>1 DEF CancelRead
  <2>2. CASE CancelCard(r)  BY <1>2, <2>2 DEF CancelCard
  <2>3. CASE CancelWrite(r) \/ Expire(r)  BY <1>1, <2>3 DEF CancelWrite, Expire
  <2>4. CASE Find(r)  BY <1>2, <1>4, <2>4 DEF Find
  <2>5. CASE Tell(r) \/ Mark(r)  BY <1>1, <1>2, <1>4, <2>5 DEF Tell, Mark, Rest
  <2> QED BY <1>7, <2>1, <2>2, <2>3, <2>4, <2>5 DEF Cancel
<1>8. CASE Crash(r)  BY <1>4, <1>8 DEF Crash
<1> QED BY <1>5, <1>6, <1>7, <1>8 DEF Step

LEMMA Mover ==
    ASSUME TypeInv, [Next]_vars, NEW s \in Requests, req'[s] # req[s]
    PROVE  Step(s)
<1>0. req \in [Requests -> Work \cup {Idle}]  BY DEF TypeInv, SlotsOK
<1>1. ASSUME NEW r \in Requests, Step(r)  PROVE r = s
  <2>1. PICK w : req' = [req EXCEPT ![r] = w]  BY <1>1, OwnSlot
  <2> QED BY <1>0, <2>1
<1>2. ASSUME UNCHANGED req  PROVE FALSE  BY <1>2
<1> QED BY <1>1, <1>2 DEF Next, CreateCustomer, Dispatch, Join, Leave, vars

\* What the handler at each of these calls may do next.
LEMMA StepFrom ==
    ASSUME NEW r \in Requests, Step(r)
    PROVE  /\ req[r].pc = "deposit" => Deposit(r) \/ Crash(r)
           /\ req[r].pc = "depositWrite" => DepositWrite(r) \/ Crash(r)
           /\ req[r].pc = "expire" => Expire(r) \/ Crash(r)
           /\ req[r].pc = "mark" => Mark(r) \/ Crash(r)
           /\ req[r].pc = "tell" => Tell(r) \/ Crash(r)
<1> DEFINE pc == req[r].pc
<1>1. CASE Submit(r)
  <2>1. CASE \E f \in Forms : Quote(r, f)
    <3>1. req[r] = Idle  BY <2>1 DEF Quote, Begin
    <3> QED BY <3>1 DEF Idle
  <2>2. TakeLock(r) \/ Check(r) => pc \in {"lock", "check"}  BY DEF TakeLock, Check, At
  <2>3. Create(r) \/ Reward(r) => pc \in {"create", "reward"}  BY DEF Create, Reward, At
  <2>4. Deposit(r) => pc = "deposit"  BY DEF Deposit, At
  <2>5. DepositWrite(r) => pc = "depositWrite"  BY DEF DepositWrite, At
  <2>6. CardRead(r) \/ CardTake(r) \/ CardWrite(r) => pc \in {"cardRead", "cardTake", "cardWrite"}
    BY DEF CardRead, CardTake, CardWrite, At
  <2> QED BY <1>1, <2>1, <2>2, <2>3, <2>4, <2>5, <2>6 DEF Submit
<1>2. CASE Staff(r)
  <2>1. req[r] = Idle \/ pc = "staffCreate"  BY <1>2 DEF Staff, StaffRead, StaffCreate, Begin, At
  <2> QED BY <2>1 DEF Idle
<1>3. CASE Cancel(r)
  <2>1. CASE \E b \in Made : CancelRead(r, b)
    <3>1. req[r] = Idle  BY <2>1 DEF CancelRead, Begin
    <3> QED BY <3>1 DEF Idle
  <2>2. CancelCard(r) \/ CancelWrite(r) => pc \in {"cancelCard", "cancelWrite"}
    BY DEF CancelCard, CancelWrite, At
  <2>3. Expire(r) => pc = "expire"  BY DEF Expire, At
  <2>4. Find(r) => pc = "find"  BY DEF Find, At
  <2>5. Tell(r) => pc = "tell"  BY DEF Tell, At
  <2>6. Mark(r) => pc = "mark"  BY DEF Mark, At
  <2> QED BY <1>3, <2>1, <2>2, <2>3, <2>4, <2>5, <2>6 DEF Cancel
<1> QED BY <1>1, <1>2, <1>3 DEF Step

\* A handler that creates a booking works on that booking till it is done.
LEMMA ToCreator ==
    ASSUME TypeInv, [Next]_vars, NEW s \in Requests,
           req'[s].pc \in {"reward", "deposit", "depositWrite"}, req'[s].bk \in Made
    PROVE  /\ req[s].pc \in {"reward", "deposit", "depositWrite"} /\ req[s].bk = req'[s].bk
           /\ req'[s] = req[s] \/ req'[s].pc = "deposit" \/ (req'[s].pc = "depositWrite" /\ Deposit(s))
<1> SUFFICES ASSUME req'[s] # req[s]
             PROVE  /\ req[s].pc \in {"reward", "deposit"} /\ req[s].bk = req'[s].bk
                    /\ \/ req'[s].pc = "deposit"
                       \/ req'[s].pc = "depositWrite" /\ Deposit(s)
  OBVIOUS
<1>0. /\ req \in [Requests -> Work \cup {Idle}] /\ req[s] \in Work \cup {Idle}
      /\ Len(bookings) + 1 \notin Made
  BY BookingsAre DEF TypeInv, SlotsOK
<1>1. Step(s)  BY Mover
<1>2. ASSUME NEW w, req' = [req EXCEPT ![s] = w]  PROVE req'[s] = w
  BY <1>0, <1>2
<1>3. ASSUME Return(s)  PROVE FALSE
  BY <1>2, <1>3 DEF Return, Idle
<1>4. ASSUME NEW pc, Then(s, pc)
      PROVE  req'[s] = [req[s] EXCEPT !.pc = pc] /\ req'[s].pc = pc
  <2> PICK w : w = [req[s] EXCEPT !.pc = pc]  OBVIOUS
  <2>1. req'[s] = w  BY <1>2, <1>4 DEF Then
  <2>2. "pc" \in DOMAIN req[s]
    <3>1. req[s] \in FormWork \cup MadeWork \cup TakeWork \cup StaffWork \cup CancelWork \cup TellWork
             \cup {Idle}
      BY <1>0, KindsOfWork
    <3> QED BY <3>1 DEF FormWork, MadeWork, TakeWork, StaffWork, CancelWork, TellWork, Idle
  <2> QED BY <2>1, <2>2
<1>5. ASSUME NEW pc, Then(s, pc), pc \notin {"deposit", "depositWrite"}, pc # "reward"  PROVE FALSE
  <2>1. req'[s].pc = pc  BY <1>4, <1>5
  <2> QED BY <1>5, <2>1
<1>6. CASE Submit(s)
  <2>1. CASE \E f \in Forms : Quote(s, f)  BY <1>2, <2>1 DEF Quote, Begin
  <2>2. CASE TakeLock(s) \/ DepositWrite(s)  BY <1>5, <2>2 DEF TakeLock, DepositWrite
  <2>3. CASE Check(s)  BY <1>3, <1>5, <2>3 DEF Check
  <2>4. CASE Create(s)
    <3>1. Goto(s, [pc |-> "reward", bk |-> Len(bookings) + 1, card |-> req[s].form.card,
                   ref |-> Referred(req[s].form)])
      BY <1>3, <2>4 DEF Create
    <3>2. req'[s].bk = Len(bookings) + 1  BY <1>2, <3>1 DEF Goto
    <3> QED BY <1>0, <3>2
  <2>5. CASE Reward(s)
    <3>1. req[s] \in MadeWork /\ req[s].pc = "reward"  BY <1>0, <2>5, KindOf DEF Reward, At
    <3>2. req'[s] = [req[s] EXCEPT !.pc = "deposit"]  BY <1>4, <2>5 DEF Reward
    <3> QED BY <3>1, <3>2 DEF MadeWork
  <2>6. CASE Deposit(s)
    <3>1. req[s] \in MadeWork /\ req[s].pc = "deposit"  BY <1>0, <2>6, KindOf DEF Deposit, At
    <3>2. Then(s, "depositWrite")  BY <1>5, <2>6 DEF Deposit
    <3>3. req'[s] = [req[s] EXCEPT !.pc = "depositWrite"]  BY <1>4, <3>2
    <3> QED BY <2>6, <3>1, <3>3 DEF MadeWork
  <2>7. CASE CardRead(s)  BY <1>2, <1>3, <2>7 DEF CardRead, Goto
  <2>8. CASE CardTake(s)  BY <1>3, <1>5, <2>8 DEF CardTake
  <2>9. CASE CardWrite(s) BY <1>3, <2>9 DEF CardWrite
  <2> QED BY <1>6, <2>1, <2>2, <2>3, <2>4, <2>5, <2>6, <2>7, <2>8, <2>9 DEF Submit
<1>7. CASE Staff(s)
  <2>1. CASE \E c \in customers, coupon \in BOOLEAN : StaffRead(s, c, coupon)
    BY <1>2, <2>1 DEF StaffRead, Begin
  <2>2. CASE StaffCreate(s)  BY <1>3, <2>2 DEF StaffCreate
  <2> QED BY <1>7, <2>1, <2>2 DEF Staff
<1>8. CASE Cancel(s)
  <2>1. CASE \E b \in Made : CancelRead(s, b)  BY <1>2, <2>1 DEF CancelRead, Begin
  <2>2. CASE CancelCard(s)
    <3>1. req[s] \in CancelWork  BY <1>0, <2>2, KindOf DEF CancelCard, At
    <3>2. req'[s] = [req[s] EXCEPT !.pc = "cancelWrite", !.seen = card]
      BY <1>2, <2>2 DEF CancelCard, Goto
    <3> QED BY <3>1, <3>2 DEF CancelWork
  <2>3. CASE CancelWrite(s) \/ Expire(s)  BY <1>5, <2>3 DEF CancelWrite, Expire
  <2>4. CASE Find(s)  BY <1>2, <1>3, <2>4 DEF Find, Goto
  <2>5. CASE Tell(s) \/ Mark(s)
    <3>1. Then(s, "mark") \/ Rest(s)  BY <2>5 DEF Tell, Mark
    <3>2. ~Then(s, "mark")  BY <1>5
    <3>3. Goto(s, [pc |-> "tell", list |-> Tail(req[s].list)])  BY <1>3, <3>1, <3>2 DEF Rest
    <3> QED BY <1>2, <3>3 DEF Goto
  <2> QED BY <1>8, <2>1, <2>2, <2>3, <2>4, <2>5 DEF Cancel
<1>9. CASE Crash(s)  BY <1>3, <1>9 DEF Crash
<1> QED BY <1>1, <1>6, <1>7, <1>8, <1>9 DEF Step

\* Sessions are made by Deposit; what cannot be known stays so; a row that knows
\* its session keeps it; a row is cancelled by CancelWrite.
LEMMA SessionsStep ==
    ASSUME TypeInv, [Next]_vars
    PROVE  /\ loose \subseteq loose'
           /\ \A b \in sessions' \ sessions : \E r \in Requests :
                /\ req[r].pc = "deposit" /\ req[r].bk = b
                /\ req'[r].pc = "depositWrite" /\ req'[r].bk = b
<1>0. req \in [Requests -> Work \cup {Idle}]  BY DEF TypeInv, SlotsOK
<1>1. ASSUME NEW r \in Requests, Submit(r), ~Deposit(r)
      PROVE  UNCHANGED <<sessions, loose>>
  BY <1>1 DEF Submit, Quote, TakeLock, Check, Create, Reward, DepositWrite, CardRead,
              CardTake, CardWrite, offers, hist
<1>2. ASSUME NEW r \in Requests, Deposit(r)
      PROVE  /\ loose' = loose
             /\ sessions' = sessions \/ (/\ req[r].pc = "deposit"
                                         /\ req'[r].pc = "depositWrite" /\ req'[r].bk = req[r].bk
                                         /\ sessions' = sessions \cup {req[r].bk})
  <2>1. req[r] \in MadeWork /\ req[r].pc = "deposit"  BY <1>0, <1>2, KindOf DEF Deposit, At
  <2> PICK w : w = [req[r] EXCEPT !.pc = "depositWrite"]  OBVIOUS
  <2>2. w.pc = "depositWrite" /\ w.bk = req[r].bk  BY <2>1 DEF MadeWork
  <2>3. Then(r, "depositWrite") => req'[r] = w  BY <1>0 DEF Then
  <2> QED BY <1>2, <2>1, <2>2, <2>3 DEF Deposit, hist
<1>3. ASSUME NEW r \in Requests, Staff(r)  PROVE UNCHANGED <<sessions, loose>>
  BY <1>3 DEF Staff, StaffRead, StaffCreate, offers, hist
<1>4. ASSUME NEW r \in Requests, Cancel(r)  PROVE sessions' \subseteq sessions /\ loose \subseteq loose'
  <2>1. CASE (\E b \in Made : CancelRead(r, b)) \/ CancelCard(r) \/ CancelWrite(r)
    BY <2>1 DEF CancelRead, CancelCard, CancelWrite, offers, hist
  <2>2. CASE Expire(r)  BY <2>2 DEF Expire
  <2>3. CASE Find(r) \/ Tell(r) \/ Mark(r)
    BY <2>3 DEF Find, Tell, Mark, offers, hist
  <2> QED BY <1>4, <2>1, <2>2, <2>3 DEF Cancel
<1>5. ASSUME NEW r \in Requests, Crash(r)  PROVE sessions' = sessions /\ loose \subseteq loose'
  BY <1>5 DEF Crash, offers
<1>6. CASE \/ \E n \in Numbers : CreateCustomer(n)
           \/ \E b \in Made : Dispatch(b)
           \/ Join \/ (\E e \in DOMAIN waitlist : Leave(e)) \/ UNCHANGED vars
  BY <1>6 DEF CreateCustomer, Dispatch, Join, Leave, vars, offers, hist
<1> QED BY <1>1, <1>2, <1>3, <1>4, <1>5, <1>6 DEF Next, Step

LEMMA RowsStep ==
    ASSUME TypeInv, [Next]_vars
    PROVE  /\ Made \subseteq Made'
           /\ \A b \in Made : bookings[b].session => bookings'[b].session
           /\ \A b \in Made' : bookings'[b].status = "CANCELLED" =>
                /\ b \in Made
                /\ \/ bookings[b].status = "CANCELLED"
                   \/ \E r \in Requests : CancelWrite(r) /\ req[r].bk = b
<1>0. /\ TablesOK /\ SlotsOK /\ BookingsEffect
      /\ \A b \in Made : bookings[b] \in Row
  BY BookingsAre, BookingsStep DEF TypeInv
<1>1. CASE UNCHANGED bookings
  BY <1>1 DEF Made
<1>2. ASSUME NEW b \in Made, NEW row \in Row, Rewrites(b, row)
      PROVE  /\ Made' = Made
             /\ \A d \in Made : bookings[d].session => bookings'[d].session
             /\ \A d \in Made : bookings'[d].status = "CANCELLED" => bookings[d].status = "CANCELLED"
  <2>1. /\ Made' = Made
        /\ \A d \in Made : bookings'[d] = IF d = b THEN row ELSE bookings[d]
    BY <1>0, <1>2, UpdateBooking DEF Rewrites
  <2> QED BY <1>2, <2>1 DEF Rewrites
<1>3. ASSUME NEW r \in Requests, NEW row \in Row, Adds(r, row)
      PROVE  /\ Made \subseteq Made'
             /\ \A d \in Made : bookings'[d] = bookings[d]
             /\ \A d \in Made' : bookings'[d].status = "CANCELLED" => d \in Made
  <2>1. /\ Made' = Made \cup {Len(bookings) + 1}
        /\ \A d \in Made : bookings'[d] = bookings[d]
        /\ bookings'[Len(bookings) + 1] = row /\ row.status = "REQUESTED"
    BY <1>0, <1>3, AddBooking DEF Adds
  <2> QED BY <2>1
<1>4. ASSUME NEW r \in Requests, CancelWrite(r)
      PROVE  /\ Made' = Made
             /\ \A d \in Made : bookings[d].session => bookings'[d].session
             /\ \A d \in Made : bookings'[d].status = "CANCELLED" =>
                  bookings[d].status = "CANCELLED" \/ req[r].bk = d
  <2> PICK b : b = req[r].bk  OBVIOUS
  <2> PICK old : old = bookings[b]  OBVIOUS
  <2> PICK row : row = [old EXCEPT !.status = "CANCELLED"]  OBVIOUS
  <2>1. b \in Made /\ old \in Row  BY <1>0, <1>4 DEF CancelWrite, At, SlotsOK, WorkOK
  <2>2. row.session = old.session  BY <2>1 DEF Row
  <2>3. bookings' = [bookings EXCEPT ![b] = row]  BY <1>4 DEF CancelWrite
  <2>4. Made' = Made /\ \A d \in Made : bookings'[d] = IF d = b THEN row ELSE bookings[d]
    BY <2>3 DEF Made
  <2> QED BY <2>2, <2>4
<1>5. CASE \E b \in Made, row \in Row : Rewrites(b, row)  BY <1>2, <1>5
<1>6. CASE \E r \in Requests, row \in Row : Adds(r, row)   BY <1>3, <1>6
<1>7. CASE \E r \in Requests : CancelWrite(r)              BY <1>4, <1>7
<1> QED BY <1>0, <1>1, <1>5, <1>6, <1>7 DEF BookingsEffect

\* A session that is no fault's leftover is written in its row or about to be;
\* who cancels its booking knows of it; and once the booking is cancelled somebody
\* is about to expire it.
SessionKnown == \A b \in sessions \ loose :
    /\ b \in Made
    /\ bookings[b].session \/ \E r \in Requests : req[r].pc = "depositWrite" /\ req[r].bk = b

CancelKnows == \A r \in Requests :
    req[r].pc \in CancelPc /\ req[r].bk \notin loose =>
        /\ CreatorOf(req[r].bk) = {}
        /\ req[r].bk \in sessions => req[r].row.session

CancelledIsClosing == \A b \in Made \ loose :
    bookings[b].status = "CANCELLED" =>
        /\ CreatorOf(b) = {}
        /\ b \in sessions => \E r \in Requests : req[r].pc = "expire" /\ req[r].bk = b

PaidInv == SessionKnown /\ CancelKnows /\ CancelledIsClosing

\* A booking that nobody is making any more stays so, and gets no session.
LEMMA CreatorGone ==
    ASSUME TypeInv, [Next]_vars, NEW b \in Made, CreatorOf(b) = {}
    PROVE  CreatorOf(b)' = {} /\ (b \in sessions' => b \in sessions)
<1>1. ASSUME NEW s \in CreatorOf(b)'  PROVE FALSE
  <2>1. s \in Requests /\ req'[s].pc \in {"reward", "deposit", "depositWrite"} /\ req'[s].bk = b
    BY <1>1 DEF CreatorOf
  <2>2. req[s].pc \in {"reward", "deposit", "depositWrite"} /\ req[s].bk = b
    BY <2>1, ToCreator
  <2> QED BY <2>1, <2>2 DEF CreatorOf
<1>2. ASSUME b \in sessions', b \notin sessions  PROVE FALSE
  <2>1. \E r \in Requests : req[r].pc = "deposit" /\ req[r].bk = b
    BY <1>2, SessionsStep
  <2> QED BY <2>1 DEF CreatorOf
<1> QED BY <1>1, <1>2

LEMMA SessionKnownStep ==
    ASSUME TypeInv, PaidInv, [Next]_vars
    PROVE  SessionKnown'
<1> SUFFICES ASSUME NEW b \in sessions' \ loose'
             PROVE  /\ b \in Made'
                    /\ \/ bookings'[b].session
                       \/ \E r \in Requests : req'[r].pc = "depositWrite" /\ req'[r].bk = b
  BY DEF SessionKnown
<1>0. TablesOK /\ SlotsOK  BY DEF TypeInv
<1>1. CASE b \notin sessions
  <2>1. PICK r \in Requests : /\ req[r].pc = "deposit" /\ req[r].bk = b
                              /\ req'[r].pc = "depositWrite" /\ req'[r].bk = b
    BY <1>1, SessionsStep
  <2>2. b \in Made  BY <1>0, <2>1 DEF SlotsOK, WorkOK
  <2> QED BY <2>1, <2>2, RowsStep
<1>2. CASE b \in sessions
  <2>1. b \in sessions \ loose  BY <1>2, SessionsStep
  <2>2. b \in Made  BY <2>1 DEF PaidInv, SessionKnown
  <2>3. CASE bookings[b].session  BY <2>2, <2>3, RowsStep
  <2>4. ASSUME NEW r \in Requests, req[r].pc = "depositWrite", req[r].bk = b
        PROVE  \/ bookings'[b].session
               \/ req'[r].pc = "depositWrite" /\ req'[r].bk = b
    <3>1. CASE req'[r] = req[r]  BY <2>4, <3>1
    <3>2. CASE req'[r] # req[r]
      <4>1. DepositWrite(r) \/ Crash(r)  BY <2>4, <3>2, Mover, StepFrom
      <4>2. ~Crash(r)  BY <2>4 DEF Crash
      <4>3. bookings' = [bookings EXCEPT ![b].session = TRUE]
        BY <2>4, <4>1, <4>2 DEF DepositWrite
      <4>4. bookings[b] \in Row  BY <1>0, <2>2, BookingsAre
      <4>5. bookings'[b] = [bookings[b] EXCEPT !.session = TRUE]  BY <2>2, <4>3 DEF Made
      <4> QED BY <4>4, <4>5 DEF Row
    <3> QED BY <3>1, <3>2
  <2>5. b \in Made'  BY <2>2, RowsStep
  <2> QED BY <2>1, <2>3, <2>4, <2>5 DEF PaidInv, SessionKnown
<1> QED BY <1>1, <1>2

LEMMA CancelKnowsStep ==
    ASSUME TypeInv, PaidInv, [Next]_vars
    PROVE  CancelKnows'
<1> SUFFICES ASSUME NEW s \in Requests, req'[s].pc \in CancelPc, req'[s].bk \notin loose'
             PROVE  /\ CreatorOf(req[s].bk)' = {}
                    /\ req'[s].bk \in sessions' => req'[s].row.session
  BY DEF CancelKnows
<1> PICK b, row : b = req'[s].bk /\ row = req'[s].row  OBVIOUS
<1>0. b \notin loose  BY SessionsStep
<1>1. \/ req'[s] = req[s]
      \/ req'[s].pc = "cancelCard" /\ CancelRead(s, b) /\ b \in Made /\ row = bookings[b]
      \/ req[s].pc \in CancelPc /\ b = req[s].bk /\ row = req[s].row
  BY ToCancel DEF CancelPc
<1>2. ASSUME req[s].pc \in CancelPc, b = req[s].bk, row = req[s].row
      PROVE  CreatorOf(b) = {} /\ (b \in sessions => row.session) /\ b \in Made
  <2>1. b \in Made  BY <1>2 DEF TypeInv, SlotsOK, WorkOK, CancelPc
  <2> QED BY <1>0, <1>2, <2>1 DEF PaidInv, CancelKnows
<1>3. ASSUME CancelRead(s, b), b \in Made, row = bookings[b]
      PROVE  CreatorOf(b) = {} /\ (b \in sessions => row.session)
  <2>1. CreatorOf(b) = {}  BY <1>3 DEF CancelRead
  <2>2. \A r \in Requests : ~(req[r].pc = "depositWrite" /\ req[r].bk = b)
    BY <2>1 DEF CreatorOf
  <2> QED BY <1>0, <1>3, <2>1, <2>2 DEF PaidInv, SessionKnown
<1>4. b \in Made /\ CreatorOf(b) = {} /\ (b \in sessions => row.session)
  <2>1. CASE req'[s] = req[s]  BY <1>2, <2>1
  <2> QED BY <1>1, <1>2, <1>3, <2>1
<1>5. CreatorOf(b)' = {} /\ (b \in sessions' => b \in sessions)
  BY <1>4, CreatorGone
<1> QED BY <1>4, <1>5

LEMMA CancelledIsClosingStep ==
    ASSUME TypeInv, PaidInv, [Next]_vars
    PROVE  CancelledIsClosing'
<1> SUFFICES ASSUME NEW b \in Made' \ loose', bookings'[b].status = "CANCELLED"
             PROVE  /\ CreatorOf(b)' = {}
                    /\ b \in sessions' => \E r \in Requests : req'[r].pc = "expire" /\ req'[r].bk = b
  BY DEF CancelledIsClosing
<1>0. b \notin loose /\ b \in Made  BY SessionsStep, RowsStep
<1>1. ASSUME NEW r \in Requests, CancelWrite(r), req[r].bk = b
      PROVE  CreatorOf(b) = {} /\ req'[r].pc = "expire" /\ req'[r].bk = b
  <2>1. req[r].pc = "cancelWrite" /\ req[r] \in CancelWork
    BY <1>1, KindOf DEF CancelWrite, At, TypeInv, SlotsOK
  <2>2. CreatorOf(b) = {}  BY <1>0, <1>1, <2>1 DEF PaidInv, CancelKnows, CancelPc
  <2> PICK w : w = [req[r] EXCEPT !.pc = "expire"]  OBVIOUS
  <2>3. w.pc = "expire" /\ w.bk = b  BY <1>1, <2>1 DEF CancelWork
  <2>4. req'[r] = w  BY <1>1 DEF CancelWrite, Then, TypeInv, SlotsOK
  <2> QED BY <2>2, <2>3, <2>4
<1>2. CASE \E r \in Requests : CancelWrite(r) /\ req[r].bk = b
  BY <1>0, <1>1, <1>2, CreatorGone
<1>3. CASE bookings[b].status = "CANCELLED"
  <2>1. /\ CreatorOf(b) = {}
        /\ b \in sessions => \E r \in Requests : req[r].pc = "expire" /\ req[r].bk = b
    BY <1>0, <1>3 DEF PaidInv, CancelledIsClosing
  <2>2. CreatorOf(b)' = {} /\ (b \in sessions' => b \in sessions)
    BY <1>0, <2>1, CreatorGone
  <2>3. ASSUME NEW r \in Requests, req[r].pc = "expire", req[r].bk = b, b \in sessions'
        PROVE  req'[r].pc = "expire" /\ req'[r].bk = b
    <3>1. CASE req'[r] = req[r]  BY <2>3, <3>1
    <3>2. CASE req'[r] # req[r]
      <4>1. Expire(r) \/ Crash(r)  BY <2>3, <3>2, Mover, StepFrom
      <4>2. ~Crash(r)  BY <2>3 DEF Crash
      <4>3. b \in sessions /\ req[r].row.session
        BY <1>0, <2>2, <2>3 DEF PaidInv, CancelKnows, CancelPc
      <4>4. sessions' = sessions \ {b}  BY <2>3, <4>1, <4>2, <4>3 DEF Expire
      <4> QED BY <2>3, <4>4
    <3> QED BY <3>1, <3>2
  <2> QED BY <2>1, <2>2, <2>3
<1> QED BY <1>0, <1>2, <1>3, RowsStep

\* bookings.service cancelBooking: once nobody works on a cancelled booking, its
\* deposit session is closed, however the form, which makes the session after its
\* commit, and the cancellation interleave; but for the sessions whose id was
\* lost to a fault or not written yet when the row was read.
THEOREM IntakeCancelledCannotBePaid == Spec => []CancelledCannotBePaid
<1>1. Init => PaidInv
  <2> SUFFICES ASSUME Init  PROVE PaidInv
    OBVIOUS
  <2>1. bookings = <<>> /\ req = [r \in Requests |-> Idle] /\ sessions = {}  BY DEF Init
  <2>2. Made = {}
    <3>1. Len(bookings) = 0 /\ bookings \in Seq(Row)  BY <2>1, EmptySeq
    <3>2. Made = 1..0  BY <3>1, LenProperties DEF Made
    <3> QED BY <3>2
  <2>3. CancelKnows  BY <2>1 DEF CancelKnows, CancelPc, Idle
  <2> QED BY <2>1, <2>2, <2>3 DEF PaidInv, SessionKnown, CancelledIsClosing
<1>2. TypeInv /\ PaidInv /\ [Next]_vars => PaidInv'
  BY SessionKnownStep, CancelKnowsStep, CancelledIsClosingStep DEF PaidInv
<1>3. TypeInv /\ PaidInv => CancelledCannotBePaid
  <2> SUFFICES ASSUME TypeInv, PaidInv, NEW b \in Made \ loose, bookings[b].status = "CANCELLED",
                      \A r \in Requests : req[r] # Idle =>
                        ~(req[r].pc \in {"depositWrite", "expire"} /\ req[r].bk = b)
               PROVE  b \notin sessions
    BY DEF CancelledCannotBePaid
  <2>1. ASSUME NEW r \in Requests, req[r].pc = "expire"  PROVE req[r] # Idle
    BY <2>1 DEF Idle
  <2> QED BY <2>1 DEF PaidInv, CancelledIsClosing
<1> QED BY <1>1, <1>2, <1>3, TypeInvHolds, PTL DEF Spec

-----------------------------------------------------------------------------
(* Who joined first is told first *)

Told(d) == waitlist[d].tried \/ waitlist[d].status = "CANCELLED"

\* A handler tells those of its list in order: whoever is older than one of them
\* has been told, has left, or comes before in the list.
ListInOrder(w) == w.pc \in {"tell", "mark"} =>
    /\ \A j \in 1..Len(w.list) :
         /\ w.list[j] \in DOMAIN waitlist
         /\ \A d \in DOMAIN waitlist :
              d < w.list[j] => Told(d) \/ \E k \in 1..(j - 1) : w.list[k] = d
    /\ w.pc = "mark" => waitlist[w.list[1]].tried

TellInv ==
    /\ OldestFirst
    /\ \A e \in DOMAIN waitlist : waitlist[e].status = "NOTIFIED" => waitlist[e].tried
    /\ \A r \in Requests : ListInOrder(req[r])

\* The entry whose turn it is.
LEMMA TurnOf ==
    ASSUME TypeInv, TellInv, NEW r \in Requests, req[r].pc \in {"tell", "mark"}
    PROVE  LET e == req[r].list[1]
           IN /\ Head(req[r].list) = e /\ e \in DOMAIN waitlist
              /\ \A d \in DOMAIN waitlist : d < e => Told(d)
              /\ req[r].pc = "mark" => waitlist[e].tried
<1>1. Len(req[r].list) \in Nat \ {0} /\ Head(req[r].list) = req[r].list[1]
  BY ListIs
<1> PICK n, e : n = Len(req[r].list) /\ e = req[r].list[1]  OBVIOUS
<1>2. 1 \in 1..n  BY <1>1
<1>3. /\ e \in DOMAIN waitlist
      /\ \A d \in DOMAIN waitlist : d < e => Told(d) \/ \E k \in 1..(1 - 1) : req[r].list[k] = d
      /\ req[r].pc = "mark" => waitlist[e].tried
  BY <1>2 DEF TellInv, ListInOrder
<1> QED BY <1>1, <1>3

\* Entries come last, are told in turn, and stay told.
LEMMA WaitStep ==
    ASSUME TypeInv, TellInv, [Next]_vars
    PROVE  /\ DOMAIN waitlist \subseteq DOMAIN waitlist'
           /\ \A d \in DOMAIN waitlist' \ DOMAIN waitlist :
                /\ waitlist'[d].status = "WAITING" /\ ~waitlist'[d].tried
                /\ \A e \in DOMAIN waitlist : e < d
           /\ \A d \in DOMAIN waitlist :
                /\ waitlist[d].tried => waitlist'[d].tried
                /\ Told(d) => Told(d)'
                /\ waitlist'[d].status = "NOTIFIED" => waitlist'[d].tried
                /\ waitlist'[d].tried => \/ waitlist[d].tried
                                         \/ \E r \in Requests : /\ req[r].pc = "tell"
                                                                /\ d = req[r].list[1]
<1>0. /\ TablesOK
      /\ Len(waitlist) \in Nat /\ DOMAIN waitlist = 1..Len(waitlist)
      /\ \A e \in DOMAIN waitlist : waitlist[e] \in Entry
  BY WaitlistIs DEF TypeInv
<1>1. CASE UNCHANGED waitlist
  BY <1>1 DEF TellInv, Told
<1>2. CASE Join
  <2> PICK entry, n : entry = [status |-> "WAITING", tried |-> FALSE] /\ n = Len(waitlist)  OBVIOUS
  <2>1. entry \in Entry /\ entry.status = "WAITING" /\ ~entry.tried  BY DEF Entry
  <2>2. waitlist' = Append(waitlist, entry)  BY <1>2 DEF Join
  <2>3. /\ waitlist' \in Seq(Entry) /\ Len(waitlist') = n + 1
        /\ \A d \in 1..n : waitlist'[d] = waitlist[d]
        /\ waitlist'[n + 1] = entry
    BY <1>0, <2>1, <2>2, AppendProperties DEF TablesOK
  <2>4. DOMAIN waitlist' = 1..(n + 1)  BY <2>3, LenProperties
  <2>5. \A d \in DOMAIN waitlist' \ DOMAIN waitlist : d = n + 1
    BY <1>0, <2>4
  <2>6. \A d \in DOMAIN waitlist : d < n + 1 /\ d \in DOMAIN waitlist' /\ waitlist'[d] = waitlist[d]
    BY <1>0, <2>3, <2>4
  <2>7. \A d \in DOMAIN waitlist : waitlist[d].status = "NOTIFIED" => waitlist[d].tried
    BY DEF TellInv
  <2> QED BY <2>1, <2>3, <2>5, <2>6, <2>7 DEF Told
<1>3. ASSUME NEW e \in DOMAIN waitlist, NEW entry \in Entry,
             waitlist' = [waitlist EXCEPT ![e] = entry],
             waitlist[e].tried => entry.tried,
             Told(e) => entry.tried \/ entry.status = "CANCELLED",
             entry.status = "NOTIFIED" => entry.tried,
             entry.tried => \/ waitlist[e].tried
                            \/ \E r \in Requests : req[r].pc = "tell" /\ e = req[r].list[1]
      PROVE  /\ DOMAIN waitlist' = DOMAIN waitlist
             /\ \A d \in DOMAIN waitlist :
                  /\ waitlist[d].tried => waitlist'[d].tried
                  /\ Told(d) => Told(d)'
                  /\ waitlist'[d].status = "NOTIFIED" => waitlist'[d].tried
                  /\ waitlist'[d].tried => \/ waitlist[d].tried
                                           \/ \E r \in Requests : /\ req[r].pc = "tell"
                                                                  /\ d = req[r].list[1]
  <2>1. /\ DOMAIN waitlist' = DOMAIN waitlist
        /\ \A d \in DOMAIN waitlist : waitlist'[d] = IF d = e THEN entry ELSE waitlist[d]
    BY <1>0, <1>3, UpdateEntry
  <2>2. \A d \in DOMAIN waitlist : waitlist[d].status = "NOTIFIED" => waitlist[d].tried
    BY DEF TellInv
  <2> QED BY <1>3, <2>1, <2>2 DEF Told
<1>4. ASSUME NEW e \in DOMAIN waitlist, Leave(e)
      PROVE  \E entry \in Entry :
               /\ waitlist' = [waitlist EXCEPT ![e] = entry]
               /\ entry.status = "CANCELLED" /\ (entry.tried <=> waitlist[e].tried)
  <2> PICK entry, old : old = waitlist[e] /\ entry = [old EXCEPT !.status = "CANCELLED"]  OBVIOUS
  <2>1. old \in Entry  BY <1>0
  <2>2. entry \in Entry /\ entry.status = "CANCELLED" /\ entry.tried = old.tried  BY <2>1 DEF Entry
  <2>3. waitlist' = [waitlist EXCEPT ![e] = entry]  BY <1>4 DEF Leave
  <2> QED BY <2>2, <2>3
<1>5. ASSUME NEW r \in Requests, Tell(r)
      PROVE  \E e \in DOMAIN waitlist, entry \in Entry :
               /\ waitlist' = [waitlist EXCEPT ![e] = entry]
               /\ entry.tried /\ req[r].pc = "tell" /\ e = req[r].list[1]
  <2> PICK e : e = req[r].list[1]  OBVIOUS
  <2> PICK entry, old : old = waitlist[e] /\ entry = [old EXCEPT !.tried = TRUE]  OBVIOUS
  <2>1. req[r].pc = "tell"  BY <1>5 DEF Tell, At
  <2>2. e \in DOMAIN waitlist /\ Head(req[r].list) = e  BY <2>1, TurnOf
  <2>3. old \in Entry  BY <1>0, <2>2
  <2>4. entry \in Entry /\ entry.tried  BY <2>3 DEF Entry
  <2>5. waitlist' = [waitlist EXCEPT ![e] = entry]  BY <1>5, <2>2 DEF Tell
  <2> QED BY <2>1, <2>2, <2>4, <2>5
<1>6. ASSUME NEW r \in Requests, Mark(r)
      PROVE  \E e \in DOMAIN waitlist, entry \in Entry :
               /\ waitlist' = [waitlist EXCEPT ![e] = entry]
               /\ entry.tried /\ waitlist[e].tried
  <2> PICK e : e = req[r].list[1]  OBVIOUS
  <2> PICK entry, old : old = waitlist[e] /\ entry = [old EXCEPT !.status = "NOTIFIED"]  OBVIOUS
  <2>1. req[r].pc = "mark"  BY <1>6 DEF Mark, At
  <2>2. e \in DOMAIN waitlist /\ Head(req[r].list) = e /\ old.tried  BY <2>1, TurnOf
  <2>3. old \in Entry  BY <1>0, <2>2
  <2>4. entry \in Entry /\ entry.tried  BY <2>2, <2>3 DEF Entry
  <2>5. waitlist' = [waitlist EXCEPT ![e] = entry]  BY <1>6, <2>2 DEF Mark
  <2> QED BY <2>2, <2>4, <2>5
<1>7. ASSUME ~UNCHANGED waitlist, ~Join
      PROVE  \/ \E e \in DOMAIN waitlist : Leave(e)
             \/ \E r \in Requests : Tell(r) \/ Mark(r)
  <2>1. ASSUME NEW r \in Requests, Step(r), ~Tell(r), ~Mark(r)  PROVE UNCHANGED waitlist
    <3>1. CASE Submit(r)
      BY <3>1 DEF Submit, Quote, TakeLock, Check, Create, Reward, Deposit, DepositWrite, CardRead,
                  CardTake, CardWrite
    <3>2. CASE Staff(r)   BY <3>2 DEF Staff, StaffRead, StaffCreate
    <3>3. CASE Cancel(r)
      BY <2>1, <3>3 DEF Cancel, CancelRead, CancelCard, CancelWrite, Expire, Find
    <3>4. CASE Crash(r)   BY <3>4 DEF Crash
    <3> QED BY <2>1, <3>1, <3>2, <3>3, <3>4 DEF Step
  <2> QED BY <1>7, <2>1 DEF Next, CreateCustomer, Dispatch, vars
<1>8. CASE \E e \in DOMAIN waitlist : Leave(e)
  <2>1. PICK e \in DOMAIN waitlist, entry \in Entry :
          /\ waitlist' = [waitlist EXCEPT ![e] = entry]
          /\ entry.status = "CANCELLED" /\ (entry.tried <=> waitlist[e].tried)
    BY <1>4, <1>8
  <2> QED BY <1>3, <2>1
<1>9. CASE \E r \in Requests : Tell(r) \/ Mark(r)
  <2>1. PICK e \in DOMAIN waitlist, entry \in Entry :
          /\ waitlist' = [waitlist EXCEPT ![e] = entry] /\ entry.tried
          /\ \/ waitlist[e].tried
             \/ \E r \in Requests : req[r].pc = "tell" /\ e = req[r].list[1]
    BY <1>5, <1>6, <1>9
  <2> QED BY <1>3, <2>1
<1> QED BY <1>1, <1>2, <1>7, <1>8, <1>9

\* A slot comes to tell a list by finding it, and goes through it in its order.
LEMMA ToTell ==
    ASSUME TypeInv, [Next]_vars, NEW s \in Requests, req'[s].pc \in {"tell", "mark"}
    PROVE  \/ req'[s] = req[s]
           \/ /\ req'[s].pc = "tell" /\ req'[s].list = FirstWaiting /\ UNCHANGED waitlist
           \/ /\ req[s].pc = "tell" /\ req'[s].pc = "mark" /\ req'[s].list = req[s].list /\ Tell(s)
           \/ /\ req[s].pc \in {"tell", "mark"} /\ (Tell(s) \/ Mark(s))
              /\ Len(req[s].list) # 1
              /\ req'[s].pc = "tell" /\ req'[s].list = Tail(req[s].list)
<1> DEFINE Goal ==
       \/ /\ req'[s].pc = "tell" /\ req'[s].list = FirstWaiting /\ UNCHANGED waitlist
       \/ /\ req[s].pc = "tell" /\ req'[s].pc = "mark" /\ req'[s].list = req[s].list /\ Tell(s)
       \/ /\ req[s].pc \in {"tell", "mark"} /\ (Tell(s) \/ Mark(s))
          /\ Len(req[s].list) # 1
          /\ req'[s].pc = "tell" /\ req'[s].list = Tail(req[s].list)
<1> SUFFICES ASSUME req'[s] # req[s]  PROVE Goal
  OBVIOUS
<1>0. req \in [Requests -> Work \cup {Idle}] /\ req[s] \in Work \cup {Idle}
  BY DEF TypeInv, SlotsOK
<1>1. Step(s)  BY Mover
<1>2. ASSUME NEW w, req' = [req EXCEPT ![s] = w]  PROVE req'[s] = w
  BY <1>0, <1>2
<1>3. ASSUME Return(s)  PROVE FALSE
  BY <1>2, <1>3 DEF Return, Idle
<1>4. ASSUME NEW pc, Then(s, pc)
      PROVE  req'[s] = [req[s] EXCEPT !.pc = pc] /\ pc \in {"tell", "mark"}
  <2> PICK w : w = [req[s] EXCEPT !.pc = pc]  OBVIOUS
  <2>1. req'[s] = w  BY <1>2, <1>4 DEF Then
  <2>2. "pc" \in DOMAIN req[s]
    <3>1. req[s] \in FormWork \cup MadeWork \cup TakeWork \cup StaffWork \cup CancelWork \cup TellWork
             \cup {Idle}
      BY <1>0, KindsOfWork
    <3> QED BY <3>1 DEF FormWork, MadeWork, TakeWork, StaffWork, CancelWork, TellWork, Idle
  <2> QED BY <2>1, <2>2
<1>5. ASSUME NEW pc, Then(s, pc), pc \notin {"tell", "mark"}  PROVE FALSE
  BY <1>4, <1>5
<1>6. CASE Submit(s)
  <2>1. CASE \E f \in Forms : Quote(s, f)  BY <1>2, <2>1 DEF Quote, Begin
  <2>2. CASE TakeLock(s) \/ Reward(s) \/ DepositWrite(s)
    BY <1>5, <2>2 DEF TakeLock, Reward, DepositWrite
  <2>3. CASE Check(s) \/ Deposit(s)  BY <1>3, <1>5, <2>3 DEF Check, Deposit
  <2>4. CASE Create(s)
    <3>1. Goto(s, [pc |-> "reward", bk |-> Len(bookings) + 1, card |-> req[s].form.card,
                   ref |-> Referred(req[s].form)])
      BY <1>3, <2>4 DEF Create
    <3> QED BY <1>2, <3>1 DEF Goto
  <2>5. CASE CardRead(s)  BY <1>2, <1>3, <2>5 DEF CardRead, Goto
  <2>6. CASE CardTake(s) \/ CardWrite(s)  BY <1>3, <1>5, <2>6 DEF CardTake, CardWrite
  <2> QED BY <1>6, <2>1, <2>2, <2>3, <2>4, <2>5, <2>6 DEF Submit
<1>7. CASE Staff(s)
  <2>1. CASE \E c \in customers, coupon \in BOOLEAN : StaffRead(s, c, coupon)
    BY <1>2, <2>1 DEF StaffRead, Begin
  <2>2. CASE StaffCreate(s)  BY <1>3, <2>2 DEF StaffCreate
  <2> QED BY <1>7, <2>1, <2>2 DEF Staff
<1>8. CASE Cancel(s)
  <2>1. CASE \E b \in Made : CancelRead(s, b)  BY <1>2, <2>1 DEF CancelRead, Begin
  <2>2. CASE CancelCard(s)
    <3>1. req[s] \in CancelWork  BY <1>0, <2>2, KindOf DEF CancelCard, At
    <3>2. req'[s] = [req[s] EXCEPT !.pc = "cancelWrite", !.seen = card]
      BY <1>2, <2>2 DEF CancelCard, Goto
    <3> QED BY <3>1, <3>2 DEF CancelWork
  <2>3. CASE CancelWrite(s) \/ Expire(s)  BY <1>5, <2>3 DEF CancelWrite, Expire
  <2>4. CASE Find(s)
    <3>1. Goto(s, [pc |-> "tell", list |-> FirstWaiting])  BY <1>3, <2>4 DEF Find
    <3>2. req'[s] = [pc |-> "tell", list |-> FirstWaiting]  BY <1>2, <3>1 DEF Goto
    <3> QED BY <2>4, <3>2 DEF Find
  <2>5. CASE Tell(s) \/ Mark(s)
    <3>1. req[s].pc \in {"tell", "mark"} /\ req[s] \in TellWork
      BY <1>0, <2>5, KindOf DEF Tell, Mark, At
    <3>2. CASE Then(s, "mark") /\ Tell(s)
      <4>1. req'[s] = [req[s] EXCEPT !.pc = "mark"]  BY <1>4, <3>2
      <4>2. req[s].pc = "tell"  BY <3>2 DEF Tell, At
      <4> QED BY <3>1, <3>2, <4>1, <4>2 DEF TellWork
    <3>3. CASE Rest(s)
      <4>1. Len(req[s].list) # 1 /\ Goto(s, [pc |-> "tell", list |-> Tail(req[s].list)])
        BY <1>3, <3>3 DEF Rest
      <4>2. req'[s] = [pc |-> "tell", list |-> Tail(req[s].list)]  BY <1>2, <4>1 DEF Goto
      <4> QED BY <2>5, <3>1, <4>1, <4>2
    <3> QED BY <2>5, <3>2, <3>3 DEF Tell, Mark
  <2> HIDE DEF Goal
  <2> QED BY <1>8, <2>1, <2>2, <2>3, <2>4, <2>5 DEF Cancel
<1>9. CASE Crash(s)  BY <1>3, <1>9 DEF Crash
<1> HIDE DEF Goal
<1> QED BY <1>1, <1>6, <1>7, <1>8, <1>9 DEF Step

LEMMA TellStep ==
    ASSUME TypeInv, TellInv, [Next]_vars
    PROVE  TellInv'
<1> USE WaitStep
<1>0. TablesOK /\ DOMAIN waitlist \subseteq Nat /\ \A e \in DOMAIN waitlist : waitlist[e] \in Entry
  BY WaitlistIs DEF TypeInv
<1>1. OldestFirst'
  <2> SUFFICES ASSUME NEW e \in DOMAIN waitlist', NEW d \in DOMAIN waitlist', d < e,
                      waitlist'[e].tried
               PROVE  Told(d)'
    BY DEF OldestFirst, Told
  <2>1. e \in DOMAIN waitlist  OBVIOUS
  <2>2. d \in DOMAIN waitlist
    <3>1. ASSUME d \notin DOMAIN waitlist  PROVE FALSE
      <4>1. e < d  BY <2>1, <3>1
      <4>2. e \in Nat /\ d \in Nat
        <5>1. DOMAIN waitlist' \subseteq Nat
          <6>1. [Next]_vars /\ TypeInv  OBVIOUS
          <6>2. TypeInv'  BY <6>1, NextTypes
          <6>3. waitlist' \in Seq(Entry)  BY <6>2 DEF TypeInv, TablesOK
          <6> QED BY <6>3, LenProperties
        <5> QED BY <5>1
      <4> QED BY <4>1, <4>2
    <3> QED BY <3>1
  <2>3. Told(d)
    <3>1. CASE waitlist[e].tried  BY <2>1, <2>2, <3>1 DEF TellInv, OldestFirst, Told
    <3>2. CASE ~waitlist[e].tried
      <4>1. PICK r \in Requests : req[r].pc = "tell" /\ e = req[r].list[1]
        BY <2>1, <3>2
      <4> QED BY <2>2, <4>1, TurnOf
    <3> QED BY <3>1, <3>2
  <2> QED BY <2>2, <2>3
<1>2. \A e \in DOMAIN waitlist' : waitlist'[e].status = "NOTIFIED" => waitlist'[e].tried
  <2> TAKE e \in DOMAIN waitlist'
  <2>1. CASE e \in DOMAIN waitlist  BY <2>1
  <2>2. CASE e \notin DOMAIN waitlist  BY <2>2
  <2> QED BY <2>1, <2>2
<1>3. ASSUME NEW s \in Requests, req'[s].pc \in {"tell", "mark"}
      PROVE  ListInOrder(req[s])'
  <2> PICK list, old : list = req'[s].list /\ old = req[s].list  OBVIOUS
  <2>1. ASSUME NEW j \in 1..Len(list), list[j] \in DOMAIN waitlist,
               \A d \in DOMAIN waitlist :
                 d < list[j] => Told(d)' \/ \E k \in 1..(j - 1) : list[k] = d
        PROVE  /\ list[j] \in DOMAIN waitlist'
               /\ \A d \in DOMAIN waitlist' :
                    d < list[j] => Told(d)' \/ \E k \in 1..(j - 1) : list[k] = d
    <3>1. \A d \in DOMAIN waitlist' : d < list[j] => d \in DOMAIN waitlist
      <4> SUFFICES ASSUME NEW d \in DOMAIN waitlist' \ DOMAIN waitlist  PROVE ~(d < list[j])
        OBVIOUS
      <4>1. list[j] < d  BY <2>1
      <4>2. d \in Nat /\ list[j] \in Nat
        <5>1. TypeInv'  BY NextTypes
        <5>2. waitlist' \in Seq(Entry)  BY <5>1 DEF TypeInv, TablesOK
        <5>3. DOMAIN waitlist' \subseteq Nat  BY <5>2, LenProperties
        <5> QED BY <1>0, <2>1, <5>3
      <4> QED BY <4>1, <4>2
    <3> QED BY <2>1, <3>1
  <2>2. \A j \in 1..Len(list) :
           /\ list[j] \in DOMAIN waitlist
           /\ \A d \in DOMAIN waitlist :
                d < list[j] => Told(d)' \/ \E k \in 1..(j - 1) : list[k] = d
    <3>1. CASE req[s].pc \in {"tell", "mark"} /\ list = old
      BY <3>1 DEF TellInv, ListInOrder
    <3>2. CASE list = FirstWaiting
      <4> TAKE j \in 1..Len(list)
      <4>1. list[j] \in Waiters  BY <1>0, <3>2, FirstWaitingIs
      <4>2. ASSUME NEW d \in DOMAIN waitlist, d < list[j]
            PROVE  Told(d)' \/ \E k \in 1..(j - 1) : list[k] = d
        <5>1. CASE d \in Waiters  BY <1>0, <3>2, <4>2, <5>1, FirstWaitingIs
        <5>2. CASE d \notin Waiters
          <6>1. waitlist[d].status \in {"NOTIFIED", "CANCELLED"}
            BY <1>0, <5>2 DEF Waiters, Entry
          <6>2. Told(d)  BY <6>1 DEF Told, TellInv
          <6> QED BY <6>2
        <5> QED BY <5>1, <5>2
      <4> QED BY <4>1, <4>2 DEF Waiters
    <3>3. CASE /\ req[s].pc \in {"tell", "mark"} /\ (Tell(s) \/ Mark(s))
               /\ Len(old) # 1 /\ list = Tail(old)
      <4> PICK n : n = Len(old)  OBVIOUS
      <4>1. /\ n \in Nat \ {0} /\ Len(list) = n - 1
            /\ \A i \in 1..Len(list) : list[i] = old[i + 1]
        BY <3>3, ListIs
      <4>2. Told(old[1])'
        <5>1. Head(old) = old[1] /\ old[1] \in DOMAIN waitlist  BY <3>3, TurnOf
        <5>2. CASE Tell(s)
          <6>1. waitlist' = [waitlist EXCEPT ![old[1]].tried = TRUE]  BY <5>1, <5>2 DEF Tell
          <6>2. waitlist'[old[1]] = [waitlist[old[1]] EXCEPT !.tried = TRUE]
            BY <5>1, <6>1
          <6>3. waitlist'[old[1]].tried  BY <1>0, <5>1, <6>2 DEF Entry
          <6> QED BY <6>3 DEF Told
        <5>3. CASE Mark(s)
          <6>1. req[s].pc = "mark"  BY <5>3 DEF Mark, At
          <6>2. waitlist[old[1]].tried  BY <6>1, TurnOf
          <6> QED BY <5>1, <6>2 DEF Told
        <5> QED BY <3>3, <5>2, <5>3
      <4> TAKE j \in 1..Len(list)
      <4>3. j + 1 \in 1..n /\ list[j] = old[j + 1]  BY <4>1
      <4>4. /\ old[j + 1] \in DOMAIN waitlist
            /\ \A d \in DOMAIN waitlist :
                 d < old[j + 1] => Told(d) \/ \E k \in 1..((j + 1) - 1) : old[k] = d
        BY <3>3, <4>3 DEF TellInv, ListInOrder
      <4>5. ASSUME NEW d \in DOMAIN waitlist, d < list[j], NEW k \in 1..j, old[k] = d
            PROVE  Told(d)' \/ \E i \in 1..(j - 1) : list[i] = d
        <5>1. CASE k = 1  BY <4>2, <4>5, <5>1
        <5>2. CASE k # 1
          <6>1. k - 1 \in 1..(j - 1) /\ k - 1 \in 1..Len(list)  BY <4>1, <5>2
          <6>2. list[k - 1] = old[(k - 1) + 1] /\ (k - 1) + 1 = k  BY <4>1, <6>1
          <6> QED BY <4>5, <6>1, <6>2
        <5> QED BY <5>1, <5>2
      <4>6. ASSUME NEW d \in DOMAIN waitlist, d < list[j]
            PROVE  Told(d)' \/ \E i \in 1..(j - 1) : list[i] = d
        <5>1. (j + 1) - 1 = j  BY <4>1
        <5>2. Told(d) \/ \E k \in 1..j : old[k] = d  BY <4>3, <4>4, <4>6, <5>1
        <5>3. Told(d) => Told(d)'  OBVIOUS
        <5> QED BY <4>5, <4>6, <5>2, <5>3
      <4>7. list[j] \in DOMAIN waitlist  BY <4>3, <4>4
      <4> QED BY <4>6, <4>7
    <3> QED BY <1>3, <3>1, <3>2, <3>3, ToTell
  <2>3. req'[s].pc = "mark" => waitlist'[list[1]].tried
    <3> SUFFICES ASSUME req'[s].pc = "mark"  PROVE waitlist'[list[1]].tried
      OBVIOUS
    <3>1. CASE req'[s] = req[s]
      <4>1. old[1] \in DOMAIN waitlist /\ waitlist[old[1]].tried  BY <1>3, <3>1, TurnOf
      <4> QED BY <3>1, <4>1
    <3>2. CASE req[s].pc = "tell" /\ list = old /\ Tell(s)
      <4>1. Head(old) = old[1] /\ old[1] \in DOMAIN waitlist  BY <3>2, TurnOf
      <4>2. waitlist' = [waitlist EXCEPT ![old[1]].tried = TRUE]  BY <3>2, <4>1 DEF Tell
      <4>3. waitlist'[old[1]] = [waitlist[old[1]] EXCEPT !.tried = TRUE]
        BY <4>1, <4>2
      <4> QED BY <1>0, <3>2, <4>1, <4>3 DEF Entry
    <3> QED BY <1>3, <3>1, <3>2, ToTell
  <2> QED BY <2>1, <2>2, <2>3 DEF ListInOrder
<1>4. \A s \in Requests : ListInOrder(req[s])'
  BY <1>3 DEF ListInOrder
<1> QED BY <1>1, <1>2, <1>4 DEF TellInv

\* waitlist.service: of two who wait the one who joined first is told first, or
\* has left, although several cancellations tell at the same time, each from the
\* list it found, and a handler may be killed in the middle of its list.
THEOREM IntakeOldestFirst == Spec => []OldestFirst
<1>1. Init => TellInv
  <2> SUFFICES ASSUME Init  PROVE TellInv
    OBVIOUS
  <2>1. waitlist = <<>> /\ req = [r \in Requests |-> Idle]  BY DEF Init
  <2>2. DOMAIN waitlist = {}
    <3>1. Len(waitlist) = 0 /\ waitlist \in Seq(Entry)  BY <2>1, EmptySeq
    <3> QED BY <3>1, LenProperties
  <2> QED BY <2>1, <2>2 DEF TellInv, OldestFirst, ListInOrder, Idle
<1>2. TypeInv /\ TellInv /\ [Next]_vars => TellInv'
  BY TellStep
<1>3. TellInv => OldestFirst  BY DEF TellInv
<1> QED BY <1>1, <1>2, <1>3, TypeInvHolds, PTL DEF Spec

-----------------------------------------------------------------------------
(* The gift card *)

\* From the commit of a booking of the form to the end of its handler.
MakerPc == {"reward", "deposit", "depositWrite", "cardRead", "cardTake", "cardWrite"}

OneMaker(q) == \A r, s \in Requests :
    q[r].pc \in MakerPc /\ q[s].pc \in MakerPc /\ q[r].bk = q[s].bk => r = s

\* What was taken from the card for a booking and is not in its row yet.
TakenBy(q, b) == {r \in Requests : q[r].pc = "cardWrite" /\ q[r].bk = b}
Taking(q, b)  == IF TakenBy(q, b) = {} THEN 0 ELSE q[CHOOSE r \in TakenBy(q, b) : TRUE].take

\* What a booking has of the card, and all of them.
CostOf(k, q, b) == (IF k[b].status = "CANCELLED" THEN 0 ELSE k[b].applied) + Taking(q, b)
Costs(k, q)     == [b \in DOMAIN k |-> CostOf(k, q, b)]

\* The card is written to a row once, and who cancels has read it before or after.
NotYetApplied == \A r \in Requests : req[r].pc \in MakerPc => bookings[req[r].bk].applied = 0
ReadApplied   == \A r \in Requests : req[r].pc \in {"cancelCard", "cancelWrite"} =>
                   req[r].row.applied \in {0, bookings[req[r].bk].applied}
CardCovers    == GivenBackOnce /\ ~clobbered =>
                   card + SumFunctionOnSet(Costs(bookings, req), Made) <= CardValue

CardInv == OneMaker(req) /\ NotYetApplied /\ ReadApplied /\ CardCovers

\* The balance is taken from.
Takes(r) == /\ CardTake(r) /\ card >= req[r].take /\ card' = card - req[r].take
            /\ Then(r, "cardWrite")

\* A handler comes to these calls with a new booking or goes on with the one it has.
LEMMA ToMaker ==
    ASSUME TypeInv, [Next]_vars, NEW s \in Requests, req'[s].pc \in MakerPc
    PROVE  \/ req'[s] = req[s]
           \/ req'[s].bk = Len(bookings) + 1 /\ req'[s].pc = "reward"
           \/ /\ req[s].pc \in MakerPc /\ req[s].pc # "cardWrite" /\ req'[s].bk = req[s].bk
              /\ req'[s].pc = "cardWrite" => Takes(s) /\ req'[s].take = req[s].take
<1> DEFINE Goes == /\ req[s].pc \in MakerPc /\ req[s].pc # "cardWrite" /\ req'[s].bk = req[s].bk
                   /\ req'[s].pc = "cardWrite" => Takes(s) /\ req'[s].take = req[s].take
           Goal == \/ req'[s].bk = Len(bookings) + 1 /\ req'[s].pc = "reward"
                   \/ Goes
<1> SUFFICES ASSUME req'[s] # req[s] PROVE Goal
  OBVIOUS
<1>0. req \in [Requests -> Work \cup {Idle}] /\ req[s] \in Work \cup {Idle}
  BY DEF TypeInv, SlotsOK
<1>1. Step(s)  BY Mover
<1>2. ASSUME NEW w, req' = [req EXCEPT ![s] = w]  PROVE req'[s] = w
  BY <1>0, <1>2
<1>3. ASSUME Return(s)  PROVE FALSE
  BY <1>2, <1>3 DEF Return, Idle, MakerPc
<1>4. ASSUME NEW pc, Then(s, pc)
      PROVE  req'[s] = [req[s] EXCEPT !.pc = pc] /\ req'[s].pc = pc
  <2> PICK w : w = [req[s] EXCEPT !.pc = pc]  OBVIOUS
  <2>1. req'[s] = w  BY <1>2, <1>4 DEF Then
  <2>2. "pc" \in DOMAIN req[s]
    <3>1. req[s] \in FormWork \cup MadeWork \cup TakeWork \cup StaffWork \cup CancelWork \cup TellWork
             \cup {Idle}
      BY <1>0, KindsOfWork
    <3> QED BY <3>1 DEF FormWork, MadeWork, TakeWork, StaffWork, CancelWork, TellWork, Idle
  <2> QED BY <2>1, <2>2
<1>5. ASSUME NEW pc, Then(s, pc), pc \notin MakerPc  PROVE FALSE
  <2>1. req'[s].pc = pc  BY <1>4, <1>5
  <2> QED BY <1>5, <2>1
<1>6. ASSUME NEW pc \in {"deposit", "depositWrite", "cardRead"}, Then(s, pc), req[s] \in MadeWork
      PROVE  Goal
  <2>1. req'[s] = [req[s] EXCEPT !.pc = pc]  BY <1>4, <1>6
  <2>2. req'[s].pc = pc /\ req'[s].bk = req[s].bk  BY <1>6, <2>1 DEF MadeWork
  <2>3. req[s].pc \in MakerPc /\ req[s].pc # "cardWrite"  BY <1>6 DEF MadeWork, MakerPc
  <2>4. Goes  BY <1>6, <2>2, <2>3
  <2> QED BY <2>4
<1> HIDE DEF Goal
<1>7. CASE Submit(s)
  <2>1. CASE \E f \in Forms : Quote(s, f)  BY <1>2, <2>1 DEF Quote, Begin, MakerPc
  <2>2. CASE TakeLock(s)  BY <1>5, <2>2 DEF TakeLock, MakerPc
  <2>3. CASE Check(s)  BY <1>3, <1>5, <2>3 DEF Check, MakerPc
  <2>4. CASE Create(s)
    <3> PICK w : w = [pc |-> "reward", bk |-> Len(bookings) + 1, card |-> req[s].form.card,
                      ref |-> Referred(req[s].form)]
      OBVIOUS
    <3>1. Goto(s, w)  BY <1>3, <2>4 DEF Create
    <3>2. req'[s] = w  BY <1>2, <3>1 DEF Goto
    <3>3. w.bk = Len(bookings) + 1 /\ w.pc = "reward"  OBVIOUS
    <3> QED BY <3>2, <3>3 DEF Goal
  <2>5. CASE Reward(s) \/ Deposit(s) \/ DepositWrite(s)
    <3>1. req[s] \in MadeWork  BY <1>0, <2>5, KindOf DEF Reward, Deposit, DepositWrite, At
    <3> QED BY <1>6, <2>5, <3>1 DEF Reward, Deposit, DepositWrite
  <2>6. CASE CardRead(s)
    <3>1. req[s] \in MadeWork /\ req[s].pc = "cardRead"  BY <1>0, <2>6, KindOf DEF CardRead, At
    <3> PICK take : take = Min({card, bookings[req[s].bk].price})  OBVIOUS
    <3> PICK w : w = [pc |-> "cardTake", bk |-> req[s].bk, take |-> take]  OBVIOUS
    <3>2. Goto(s, w)  BY <1>3, <2>6 DEF CardRead
    <3>3. req'[s] = w  BY <1>2, <3>2 DEF Goto
    <3> QED BY <3>1, <3>3 DEF Goal, MakerPc
  <2>7. CASE CardTake(s)
    <3>1. req[s] \in TakeWork /\ req[s].pc = "cardTake"  BY <1>0, <2>7, KindOf DEF CardTake, At
    <3>2. Takes(s)  BY <1>3, <2>7 DEF CardTake, Takes
    <3>3. req'[s] = [req[s] EXCEPT !.pc = "cardWrite"]  BY <1>4, <3>2 DEF Takes
    <3>4. req'[s].bk = req[s].bk /\ req'[s].take = req[s].take  BY <3>1, <3>3 DEF TakeWork
    <3> QED BY <3>1, <3>2, <3>4 DEF Goal, MakerPc
  <2>8. CASE CardWrite(s)  BY <1>3, <2>8 DEF CardWrite
  <2> QED BY <1>7, <2>1, <2>2, <2>3, <2>4, <2>5, <2>6, <2>7, <2>8 DEF Submit
<1>8. CASE Staff(s)
  <2>1. CASE \E c \in customers, coupon \in BOOLEAN : StaffRead(s, c, coupon)
    BY <1>2, <2>1 DEF StaffRead, Begin, MakerPc
  <2>2. CASE StaffCreate(s)  BY <1>3, <2>2 DEF StaffCreate
  <2> QED BY <1>8, <2>1, <2>2 DEF Staff
<1>9. CASE Cancel(s)
  <2>1. CASE \E b \in Made : CancelRead(s, b)  BY <1>2, <2>1 DEF CancelRead, Begin, MakerPc
  <2>2. CASE CancelCard(s)
    <3>1. req[s] \in CancelWork  BY <1>0, <2>2, KindOf DEF CancelCard, At
    <3>2. req'[s] = [req[s] EXCEPT !.pc = "cancelWrite", !.seen = card]
      BY <1>2, <2>2 DEF CancelCard, Goto
    <3> QED BY <3>1, <3>2 DEF CancelWork, MakerPc
  <2>3. CASE CancelWrite(s) \/ Expire(s)  BY <1>5, <2>3 DEF CancelWrite, Expire, MakerPc
  <2>4. CASE Find(s)  BY <1>2, <1>3, <2>4 DEF Find, Goto, MakerPc
  <2>5. CASE Tell(s) \/ Mark(s)
    <3>1. Then(s, "mark") \/ Rest(s)  BY <2>5 DEF Tell, Mark
    <3>2. ~Then(s, "mark")  BY <1>5 DEF MakerPc
    <3>3. Goto(s, [pc |-> "tell", list |-> Tail(req[s].list)])  BY <1>3, <3>1, <3>2 DEF Rest
    <3> QED BY <1>2, <3>3 DEF Goto, MakerPc
  <2> QED BY <1>9, <2>1, <2>2, <2>3, <2>4, <2>5 DEF Cancel
<1>10. CASE Crash(s)  BY <1>3, <1>10 DEF Crash
<1> QED BY <1>1, <1>7, <1>8, <1>9, <1>10 DEF Step

\* What a step makes of the rows: a new one has nothing of the card, an old one
\* gets it from CardWrite alone; none comes back from being cancelled.
LEMMA AppliedStep ==
    ASSUME TypeInv, [Next]_vars
    PROVE  /\ Made' = Made \/ (Made' = Made \cup {Len(bookings) + 1} /\ Len(bookings) + 1 \notin Made
                               /\ bookings'[Len(bookings) + 1].applied = 0)
           /\ \A b \in Made :
                \/ bookings'[b].applied = bookings[b].applied
                \/ \E r \in Requests : CardWrite(r) /\ req[r].bk = b /\ bookings'[b].applied = req[r].take
           /\ \A b \in Made : bookings[b].status = "CANCELLED" => bookings'[b].status = "CANCELLED"
<1> DEFINE Kept(b) == /\ bookings'[b].applied = bookings[b].applied
                      /\ bookings[b].status = "CANCELLED" => bookings'[b].status = "CANCELLED"
<1>0. /\ TablesOK /\ SlotsOK /\ req \in [Requests -> Work \cup {Idle}] /\ \A r \in Requests : WorkOK(req[r])
      /\ \A b \in Made : bookings[b] \in Row
  BY BookingsAre DEF TypeInv, SlotsOK
<1>1. ASSUME UNCHANGED bookings  PROVE Made' = Made /\ \A b \in Made : Kept(b)
  BY <1>1 DEF Made
<1>2. ASSUME NEW row \in Row, row.applied = 0, bookings' = Append(bookings, row)
      PROVE  /\ Made' = Made \cup {Len(bookings) + 1} /\ Len(bookings) + 1 \notin Made
             /\ bookings'[Len(bookings) + 1].applied = 0
             /\ \A b \in Made : Kept(b)
  BY <1>0, <1>2, AddBooking
<1>4. ASSUME NEW r \in Requests, Create(r), ~UNCHANGED bookings
      PROVE  \E row \in Row : row.applied = 0 /\ bookings' = Append(bookings, row)
  <2>1. req[r] \in FormWork  BY <1>0, <1>4, KindOf DEF Create, At
  <2> PICK f, c, ref, price :
         /\ f = req[r].form /\ c = Stored(f) /\ ref = Referred(f)
         /\ price = IF req[r].cheap \/ ref THEN Price - Discount ELSE Price
    OBVIOUS
  <2> PICK row : row = NewRow(c, TRUE, price, f.coupon, ref, Known(f.num) = {})  OBVIOUS
  <2>2. f \in Forms /\ c \in Phones /\ f.coupon \in BOOLEAN
    BY <1>0, <2>1, StoredIsPhone, FormsAssumption DEF FormWork
  <2>3. row \in Row /\ row.applied = 0
    BY <2>2, Sizes DEF NewRow, Row, Status, Referred
  <2>4. bookings' = Append(bookings, row)  BY <1>4 DEF Create
  <2> QED BY <2>3, <2>4
<1>5. ASSUME NEW r \in Requests, StaffCreate(r), ~UNCHANGED bookings
      PROVE  \E row \in Row : row.applied = 0 /\ bookings' = Append(bookings, row)
  <2>1. req[r] \in StaffWork  BY <1>0, <1>5, KindOf DEF StaffCreate, At
  <2> PICK w, row : /\ w = req[r]
                    /\ row = NewRow(w.cust, FALSE, IF w.cheap THEN Price - Discount ELSE Price,
                                    w.coupon, FALSE, FALSE)
    OBVIOUS
  <2>2. row \in Row /\ row.applied = 0
    BY <2>1, Sizes DEF NewRow, Row, Status, StaffWork
  <2> QED BY <1>5, <2>2 DEF StaffCreate
<1>6. ASSUME NEW r \in Requests, DepositWrite(r) \/ CardWrite(r) \/ CancelWrite(r)
      PROVE  req[r].bk \in Made
  BY <1>0, <1>6 DEF DepositWrite, CardWrite, CancelWrite, At, WorkOK
<1>7. ASSUME NEW r \in Requests, DepositWrite(r)  PROVE Made' = Made /\ \A b \in Made : Kept(b)
  <2> PICK b, old, row : b = req[r].bk /\ old = bookings[b] /\ row = [old EXCEPT !.session = TRUE]
    OBVIOUS
  <2>1. b \in Made /\ old \in Row  BY <1>0, <1>6, <1>7
  <2>2. row.applied = old.applied /\ row.status = old.status  BY <2>1 DEF Row
  <2>3. bookings' = [bookings EXCEPT ![b] = row]  BY <1>7 DEF DepositWrite
  <2>4. Made' = Made /\ \A d \in Made : bookings'[d] = IF d = b THEN row ELSE bookings[d]
    BY <2>1, <2>3 DEF Made
  <2> QED BY <2>2, <2>4
<1>8. ASSUME NEW r \in Requests, CancelWrite(r)  PROVE Made' = Made /\ \A b \in Made : Kept(b)
  <2> PICK b, old, row : b = req[r].bk /\ old = bookings[b] /\ row = [old EXCEPT !.status = "CANCELLED"]
    OBVIOUS
  <2>1. b \in Made /\ old \in Row  BY <1>0, <1>6, <1>8
  <2>2. row.applied = old.applied /\ row.status = "CANCELLED"  BY <2>1 DEF Row
  <2>3. bookings' = [bookings EXCEPT ![b] = row]  BY <1>8 DEF CancelWrite
  <2>4. Made' = Made /\ \A d \in Made : bookings'[d] = IF d = b THEN row ELSE bookings[d]
    BY <2>1, <2>3 DEF Made
  <2> QED BY <2>2, <2>4
<1>9. ASSUME NEW b \in Made, Dispatch(b)  PROVE Made' = Made /\ \A d \in Made : Kept(d)
  <2> PICK old, row : old = bookings[b] /\ row = [old EXCEPT !.status = "ASSIGNED"]
    OBVIOUS
  <2>1. old \in Row /\ old.status # "CANCELLED"  BY <1>0, <1>9 DEF Dispatch
  <2>2. row.applied = old.applied  BY <2>1 DEF Row
  <2>3. bookings' = [bookings EXCEPT ![b] = row]  BY <1>9 DEF Dispatch
  <2>4. Made' = Made /\ \A d \in Made : bookings'[d] = IF d = b THEN row ELSE bookings[d]
    BY <2>1, <2>3 DEF Made
  <2> QED BY <2>1, <2>2, <2>4
<1>10. ASSUME NEW r \in Requests, CardWrite(r)
       PROVE  /\ Made' = Made
              /\ \A d \in Made : Kept(d) \/ (d = req[r].bk /\ bookings'[d].applied = req[r].take)
              /\ \A d \in Made : bookings'[d].status = bookings[d].status
  <2> PICK b, old, row : b = req[r].bk /\ old = bookings[b] /\ row = [old EXCEPT !.applied = req[r].take]
    OBVIOUS
  <2>1. b \in Made /\ old \in Row  BY <1>0, <1>6, <1>10
  <2>2. row.applied = req[r].take /\ row.status = old.status  BY <2>1 DEF Row
  <2>3. bookings' = [bookings EXCEPT ![b] = row]  BY <1>10 DEF CardWrite
  <2>4. Made' = Made /\ \A d \in Made : bookings'[d] = IF d = b THEN row ELSE bookings[d]
    BY <2>1, <2>3 DEF Made
  <2> QED BY <2>2, <2>4
<1>11. ASSUME NEW r \in Requests, Step(r)
       PROVE  \/ UNCHANGED bookings \/ Create(r) \/ StaffCreate(r)
              \/ DepositWrite(r) \/ CardWrite(r) \/ CancelWrite(r)
  BY <1>11 DEF Step, Submit, Staff, Cancel, Crash, Quote, TakeLock, Check, Reward, Deposit, CardRead, CardTake,
               StaffRead, CancelRead, CancelCard, Expire, Find, Tell, Mark
<1>12. \/ UNCHANGED bookings
       \/ \E b \in Made : Dispatch(b)
       \/ \E row \in Row : row.applied = 0 /\ bookings' = Append(bookings, row)
       \/ \E r \in Requests : DepositWrite(r) \/ CardWrite(r) \/ CancelWrite(r)
  BY <1>4, <1>5, <1>11 DEF Next, CreateCustomer, Join, Leave, vars
<1> QED BY <1>1, <1>2, <1>7, <1>8, <1>9, <1>10, <1>12

\* Only CardTake and CancelWrite write the balance.
LEMMA CardStep ==
    ASSUME TypeInv, [Next]_vars
    PROVE  \/ UNCHANGED <<card, clobbered, gaveBack>>
           \/ \E r \in Requests : Takes(r)
           \/ \E r \in Requests : CancelWrite(r)
<1>1. ASSUME NEW r \in Requests, Submit(r), ~Takes(r)
      PROVE  UNCHANGED <<card, clobbered, gaveBack>>
  <2>1. CASE CardTake(r)  BY <1>1, <2>1 DEF CardTake, Takes, hist
  <2>2. CASE ~CardTake(r)
    BY <1>1, <2>2 DEF Submit, Quote, TakeLock, Check, Create, Reward, Deposit, DepositWrite, CardRead,
                      CardWrite, offers, hist
  <2> QED BY <2>1, <2>2
<1>2. ASSUME NEW r \in Requests, Staff(r) \/ Crash(r)
      PROVE  UNCHANGED <<card, clobbered, gaveBack>>
  BY <1>2 DEF Staff, StaffRead, StaffCreate, Crash, offers, hist
<1>3. ASSUME NEW r \in Requests, Cancel(r), ~CancelWrite(r)
      PROVE  UNCHANGED <<card, clobbered, gaveBack>>
  BY <1>3 DEF Cancel, CancelRead, CancelCard, Expire, Find, Tell, Mark, offers, hist
<1>4. CASE \/ \E n \in Numbers : CreateCustomer(n)
           \/ \E b \in Made : Dispatch(b)
           \/ Join \/ (\E e \in DOMAIN waitlist : Leave(e)) \/ UNCHANGED vars
  BY <1>4 DEF CreateCustomer, Dispatch, Join, Leave, vars, offers, hist
<1> QED BY <1>1, <1>2, <1>3, <1>4 DEF Next, Step

LEMMA TakingIs ==
    ASSUME NEW q, OneMaker(q), NEW b, NEW r \in Requests, q[r].pc = "cardWrite", q[r].bk = b
    PROVE  Taking(q, b) = q[r].take
<1>1. TakenBy(q, b) = {r}
  BY DEF TakenBy, OneMaker, MakerPc
<1> QED BY <1>1 DEF Taking

LEMMA TakingNone ==
    ASSUME NEW q, NEW b, \A r \in Requests : ~(q[r].pc = "cardWrite" /\ q[r].bk = b)
    PROVE  Taking(q, b) = 0
<1>1. TakenBy(q, b) = {}
  BY DEF TakenBy
<1> QED BY <1>1 DEF Taking

LEMMA CostIsNat ==
    ASSUME NEW k \in Seq(Row), NEW q \in [Requests -> Work \cup {Idle}], OneMaker(q), NEW b \in DOMAIN k
    PROVE  /\ Taking(q, b) \in Nat /\ k[b].applied \in Nat /\ CostOf(k, q, b) \in Nat
<1>1. Taking(q, b) \in Nat
  <2>1. CASE \A r \in Requests : ~(q[r].pc = "cardWrite" /\ q[r].bk = b)
    BY <2>1, TakingNone
  <2>2. ASSUME NEW r \in Requests, q[r].pc = "cardWrite", q[r].bk = b
        PROVE  Taking(q, b) \in Nat
    <3>1. q[r] \in TakeWork
      BY <2>2, KindOf
    <3> QED BY <2>2, <3>1, TakingIs DEF TakeWork
  <2> QED BY <2>1, <2>2
<1>2. k[b].applied \in Nat
  <2>1. k[b] \in Row
    BY LenProperties, ElementOfSeq
  <2> QED BY <2>1, Sizes DEF Row
<1> QED BY <1>1, <1>2 DEF CostOf

LEMMA CostNat ==
    ASSUME TypeInv, OneMaker(req), NEW b \in Made
    PROVE  /\ Taking(req, b) \in Nat /\ bookings[b].applied \in Nat /\ CostOf(bookings, req, b) \in Nat
BY CostIsNat DEF TypeInv, TablesOK, SlotsOK, Made

LEMMA OneMakerStep == ASSUME TypeInv, OneMaker(req), [Next]_vars PROVE OneMaker(req')
<1> SUFFICES ASSUME NEW r \in Requests, NEW s \in Requests, req'[r].pc \in MakerPc, req'[s].pc \in MakerPc,
                    req'[r].bk = req'[s].bk
             PROVE  r = s
  BY DEF OneMaker
<1>1. \A t \in Requests : req[t].pc \in MakerPc => req[t].bk \in Made /\ req[t].bk # Len(bookings) + 1
  BY BookingsAre DEF MakerPc, TypeInv, SlotsOK, WorkOK
<1>2. \A t \in Requests : req'[t].pc \in MakerPc =>
         \/ req'[t] # req[t] /\ req'[t].bk = Len(bookings) + 1
         \/ req[t].pc \in MakerPc /\ req'[t].bk = req[t].bk
  BY <1>1, ToMaker
<1>3. CASE req[r].pc \in MakerPc /\ req'[r].bk = req[r].bk /\ req[s].pc \in MakerPc /\ req'[s].bk = req[s].bk
  BY <1>3 DEF OneMaker
<1>4. CASE req'[r] # req[r] /\ req'[s] # req[s]
  <2>1. Step(r)
    BY <1>4, Mover
  <2>2. PICK w : req' = [req EXCEPT ![r] = w]
    BY <2>1, OwnSlot
  <2> QED BY <1>4, <2>2 DEF TypeInv, SlotsOK
<1> QED BY <1>1, <1>2, <1>3, <1>4

LEMMA AppliedAfter == ASSUME TypeInv, CardInv, [Next]_vars PROVE NotYetApplied'
<1> SUFFICES ASSUME NEW s \in Requests, req'[s].pc \in MakerPc PROVE bookings'[req'[s].bk].applied = 0
  BY DEF NotYetApplied
<1>1. TypeInv' /\ OneMaker(req')
  BY NextTypes, OneMakerStep DEF CardInv
<1>2. req'[s].bk \in Made'
  BY <1>1 DEF TypeInv, SlotsOK, WorkOK, MakerPc
<1>3. CASE req'[s].bk \notin Made
  BY <1>2, <1>3, AppliedStep
<1>4. CASE req'[s].bk \in Made
  <2>1. PICK b \in Made : b = req'[s].bk
    BY <1>4
  <2>2. req[s].pc \in MakerPc /\ req[s].bk = b /\ (req[s].pc = "cardWrite" => req'[s] = req[s])
    BY <2>1, ToMaker, BookingsAre DEF TypeInv
  <2>3. bookings[b].applied = 0
    BY <2>2 DEF CardInv, NotYetApplied
  <2>4. ASSUME NEW r \in Requests, CardWrite(r), req[r].bk = b
        PROVE  FALSE
    <3>1. req[r].pc = "cardWrite" /\ Return(r)
      BY <2>4 DEF CardWrite, At
    <3>2. r = s
      BY <2>2, <2>4, <3>1 DEF CardInv, OneMaker, MakerPc
    <3>3. req'[s] = Idle
      BY <3>1, <3>2 DEF Return, TypeInv, SlotsOK
    <3> QED BY <3>3 DEF Idle, MakerPc
  <2> QED BY <2>1, <2>3, <2>4, AppliedStep
<1> QED BY <1>3, <1>4

LEMMA ReadAfter == ASSUME TypeInv, CardInv, [Next]_vars PROVE ReadApplied'
<1> SUFFICES ASSUME NEW s \in Requests, req'[s].pc \in {"cancelCard", "cancelWrite"}
             PROVE  req'[s].row.applied \in {0, bookings'[req'[s].bk].applied}
  BY DEF ReadApplied
<1>1. \A b \in Made : bookings'[b].applied = bookings[b].applied \/ bookings[b].applied = 0
  <2> SUFFICES ASSUME NEW b \in Made, NEW r \in Requests, CardWrite(r), req[r].bk = b
               PROVE  bookings[b].applied = 0
    BY AppliedStep
  <2> QED BY DEF CardInv, NotYetApplied, MakerPc, CardWrite, At
<1>2. req'[s].pc \in CancelPc  BY DEF CancelPc
<1>3. \/ req'[s] = req[s]
      \/ req'[s].bk \in Made /\ req'[s].row = bookings[req'[s].bk]
      \/ req[s].pc = "cancelCard" /\ req'[s].bk = req[s].bk /\ req'[s].row = req[s].row
  BY <1>2, ToCancel
<1>4. CASE req'[s].bk \in Made /\ req'[s].row = bookings[req'[s].bk]
  BY <1>1, <1>4
<1>5. CASE /\ req[s].pc \in {"cancelCard", "cancelWrite"}
           /\ req'[s].bk = req[s].bk /\ req'[s].row = req[s].row
  <2>1. req[s].bk \in Made  BY <1>5 DEF TypeInv, SlotsOK, WorkOK
  <2>2. req[s].row.applied \in {0, bookings[req[s].bk].applied}
    BY <1>5 DEF CardInv, ReadApplied
  <2> QED BY <1>1, <1>5, <2>1, <2>2
<1> QED BY <1>3, <1>4, <1>5

\* Who is about to write what it took has been there before, unless it takes now.
LEMMA TakingAfter ==
    ASSUME TypeInv, CardInv, [Next]_vars, NEW b \in Made, NEW s \in Requests,
           req'[s].pc = "cardWrite", req'[s].bk = b, ~Takes(s)
    PROVE  req'[s] = req[s] /\ Taking(req', b) = Taking(req, b) /\ ~\E r \in Requests : CardWrite(r) /\ req[r].bk = b
<1>1. req'[s] = req[s]
  BY ToMaker DEF MakerPc
<1>2. OneMaker(req) /\ OneMaker(req')
  BY OneMakerStep DEF CardInv
<1>3. PICK q : q = req
  OBVIOUS
<1>4. PICK n : n = req'
  OBVIOUS
<1>5. Taking(q, b) = q[s].take /\ Taking(n, b) = n[s].take
  BY <1>1, <1>2, <1>3, <1>4, TakingIs
<1>6. ASSUME NEW r \in Requests, CardWrite(r), req[r].bk = b
      PROVE  FALSE
  <2>1. req[r].pc = "cardWrite" /\ Return(r)
    BY <1>6 DEF CardWrite, At
  <2>2. r = s
    BY <1>1, <1>2, <1>6, <2>1 DEF OneMaker, MakerPc
  <2>3. req'[s] = Idle
    BY <2>1, <2>2 DEF Return, TypeInv, SlotsOK
  <2> QED BY <2>3 DEF Idle
<1> QED BY <1>1, <1>3, <1>4, <1>5, <1>6

\* But for a handler that takes and one that gives back, no booking comes to
\* have more of the card.
LEMMA CostAfter ==
    ASSUME TypeInv, CardInv, [Next]_vars, NEW b \in Made, \A s \in Requests : ~Takes(s)
    PROVE  CostOf(bookings', req', b) <= CostOf(bookings, req, b)
<1>1. TypeInv' /\ OneMaker(req) /\ OneMaker(req') /\ b \in Made'
  BY NextTypes, OneMakerStep, AppliedStep DEF CardInv
<1>2. PICK q : q = req
  OBVIOUS
<1>3. PICK n : n = req'
  OBVIOUS
<1>4. PICK o : o = bookings[b]
  OBVIOUS
<1>5. PICK w : w = bookings'[b]
  OBVIOUS
<1>6. Taking(q, b) \in Nat /\ o.applied \in Nat
  BY <1>1, <1>2, <1>4, CostNat
<1>7. PICK t \in Nat : t = Taking(q, b)
  BY <1>6
<1>8. PICK a \in Nat : a = o.applied
  BY <1>6
<1>9. o.status = "CANCELLED" => w.status = "CANCELLED"
  BY <1>4, <1>5, AppliedStep
<1>10. CASE \E r \in Requests : CardWrite(r) /\ req[r].bk = b
  <2>1. PICK r \in Requests : CardWrite(r) /\ req[r].bk = b
    BY <1>10
  <2>2. q[r].pc = "cardWrite" /\ q[r].bk = b
    BY <1>2, <2>1 DEF CardWrite, At
  <2>3. t = q[r].take
    BY <1>1, <1>2, <1>7, <2>2, TakingIs
  <2>4. a = 0
    BY <1>2, <1>4, <1>8, <2>2 DEF CardInv, NotYetApplied, MakerPc
  <2>5. \A s \in Requests : ~(n[s].pc = "cardWrite" /\ n[s].bk = b)
    BY <1>3, <2>1, TakingAfter
  <2>6. Taking(n, b) = 0
    BY <2>5, TakingNone
  <2>7. w.applied = 0 \/ w.applied = t
    <3>1. ASSUME NEW s \in Requests, CardWrite(s), req[s].bk = b
          PROVE  s = r
      BY <1>1, <1>2, <2>2, <3>1 DEF CardWrite, At, OneMaker, MakerPc
    <3> QED BY <1>2, <1>4, <1>5, <1>8, <2>3, <2>4, <3>1, AppliedStep
  <2>8. CostOf(bookings', n, b) = IF w.status = "CANCELLED" THEN 0 ELSE w.applied
    BY <1>5, <2>6, <2>7 DEF CostOf
  <2>9. CostOf(bookings, q, b) = t
    BY <1>4, <1>7, <1>8, <2>4 DEF CostOf
  <2>10. (IF w.status = "CANCELLED" THEN 0 ELSE w.applied) <= t
    BY <2>7
  <2> QED BY <1>2, <1>3, <2>8, <2>9, <2>10
<1>11. CASE ~\E r \in Requests : CardWrite(r) /\ req[r].bk = b
  <2>1. w.applied = a
    BY <1>4, <1>5, <1>8, <1>11, AppliedStep
  <2>2. Taking(n, b) \in {0, t}
    <3>1. CASE \A s \in Requests : ~(n[s].pc = "cardWrite" /\ n[s].bk = b)
      BY <3>1, TakingNone
    <3>2. ASSUME NEW s \in Requests, n[s].pc = "cardWrite", n[s].bk = b
          PROVE  Taking(n, b) = t
      BY <1>2, <1>3, <1>7, <3>2, TakingAfter
    <3> QED BY <3>1, <3>2
  <2>3. PICK u \in Nat : u = Taking(n, b) /\ u <= t
    BY <2>2
  <2>4. CostOf(bookings', n, b) = (IF w.status = "CANCELLED" THEN 0 ELSE a) + u
    BY <1>5, <2>1, <2>3 DEF CostOf
  <2>5. CostOf(bookings, q, b) = (IF o.status = "CANCELLED" THEN 0 ELSE a) + t
    BY <1>4, <1>7, <1>8 DEF CostOf
  <2>6. (IF w.status = "CANCELLED" THEN 0 ELSE a) + u <= (IF o.status = "CANCELLED" THEN 0 ELSE a) + t
    BY <1>9, <2>3
  <2> QED BY <1>2, <1>3, <2>4, <2>5, <2>6
<1> QED BY <1>10, <1>11

\* What is taken leaves the balance for the booking.
LEMMA TakesCovers ==
    ASSUME TypeInv, CardInv, [Next]_vars, NEW r \in Requests, Takes(r)
    PROVE  CardCovers'
<1>1. TypeInv' /\ OneMaker(req) /\ OneMaker(req')
  BY NextTypes, OneMakerStep DEF CardInv
<1>2. /\ UNCHANGED <<bookings, gaveBack, clobbered>> /\ Made' = Made
      /\ req[r].pc = "cardTake" /\ req[r] \in TakeWork /\ req[r].bk \in Made
  <2>1. req[r].pc = "cardTake"
    BY DEF Takes, CardTake, At
  <2> QED BY <2>1, KindOf DEF Takes, CardTake, hist, Made, TypeInv, SlotsOK, WorkOK
<1>3. PICK b \in Made : b = req[r].bk
  BY <1>2
<1>4. PICK k : k = bookings /\ k = bookings' /\ DOMAIN k = Made
  BY <1>2 DEF Made
<1>5. PICK q : q = req
  OBVIOUS
<1>6. PICK w : w = [req[r] EXCEPT !.pc = "cardWrite"]
  OBVIOUS
<1>7. PICK n : n = req' /\ n = [q EXCEPT ![r] = w]
  BY <1>5, <1>6 DEF Takes, Then
<1>8. w.pc = "cardWrite" /\ w.bk = b /\ w.take = q[r].take /\ q[r].take \in Nat
  BY <1>2, <1>3, <1>5, <1>6 DEF TakeWork
<1>9. n[r] = w /\ \A s \in Requests \ {r} : n[s] = q[s]
  BY <1>5, <1>7 DEF TypeInv, SlotsOK
<1>10. Taking(n, b) = q[r].take
  BY <1>1, <1>7, <1>8, <1>9, TakingIs
<1>11. Taking(q, b) = 0
  <2>1. \A s \in Requests : ~(q[s].pc = "cardWrite" /\ q[s].bk = b)
    BY <1>1, <1>2, <1>3, <1>5 DEF OneMaker, MakerPc
  <2> QED BY <2>1, TakingNone
<1>12. ASSUME NEW d \in Made, d # b
       PROVE  Taking(n, d) = Taking(q, d)
  <2>1. TakenBy(n, d) = TakenBy(q, d)
    BY <1>2, <1>3, <1>5, <1>8, <1>9, <1>12 DEF TakenBy
  <2>2. \A s \in TakenBy(q, d) : n[s] = q[s]
    BY <1>2, <1>5, <1>9 DEF TakenBy
  <2> QED BY <2>1, <2>2 DEF Taking
<1>13. PICK f : f = Costs(k, q)
  OBVIOUS
<1>14. PICK g : g = Costs(k, n)
  OBVIOUS
<1>15. \A d \in Made : f[d] = CostOf(k, q, d) /\ g[d] = CostOf(k, n, d)
  BY <1>4, <1>13, <1>14 DEF Costs
<1>16. \A d \in Made : f[d] \in Nat
  BY <1>1, <1>4, <1>5, <1>15, CostNat
<1>17. \A d \in Made \ {b} : g[d] = f[d]
  BY <1>12, <1>15 DEF CostOf
<1>18. g[b] = f[b] + q[r].take
  <2>1. PICK a \in Nat : a = IF k[b].status = "CANCELLED" THEN 0 ELSE k[b].applied
    BY <1>1, <1>4, CostNat
  <2> QED BY <1>8, <1>10, <1>11, <1>15, <2>1 DEF CostOf
<1>19. \A d \in Made : f[d] \in Int /\ g[d] \in Int
  BY <1>8, <1>16, <1>17, <1>18
<1>20. IsFiniteSet(Made)
  BY BookingsAre DEF TypeInv
<1>21. PICK S : S = Made
  OBVIOUS
<1>22. SumFunctionOnSet(g, S) = SumFunctionOnSet(f, S) - f[b] + g[b]
  BY <1>17, <1>19, <1>20, <1>21, SumOneChanged
<1>23. PICK c \in Nat : c = card
  BY Sizes DEF TypeInv, TablesOK
<1>24. card' = c - q[r].take
  BY <1>5, <1>23 DEF Takes
<1>25. SumFunctionOnSet(f, S) \in Int
  BY <1>19, <1>20, <1>21, SumInt
<1>26. SUFFICES ASSUME GivenBackOnce', ~clobbered'
                PROVE  card' + SumFunctionOnSet(g, S) <= CardValue
  BY <1>2, <1>4, <1>7, <1>14, <1>21 DEF CardCovers
<1>27. c + SumFunctionOnSet(f, S) <= CardValue
  BY <1>2, <1>4, <1>5, <1>13, <1>21, <1>23, <1>26 DEF CardInv, CardCovers, GivenBackOnce
<1>28. PICK x \in Int : x = SumFunctionOnSet(f, S)
  BY <1>25
<1>29. PICK y \in Int : y = f[b]
  BY <1>19
<1> QED BY <1>8, <1>18, <1>22, <1>23, <1>24, <1>27, <1>28, <1>29, Sizes

\* What is given back is what leaves with the booking.
LEMMA CancelCovers ==
    ASSUME TypeInv, CardInv, CouponInv, NEW r \in Requests, CancelWrite(r)
    PROVE  CardCovers'
<1>1. /\ req[r].pc = "cancelWrite" /\ req[r] \in CancelWork /\ req[r].bk \in Made /\ req[r].bk \in Ids
      /\ OneMaker(req)
  <2>1. req[r].pc = "cancelWrite" /\ req[r] \in CancelWork
    BY KindOf DEF CancelWrite, At, TypeInv, SlotsOK
  <2>2. req[r].bk \in Made
    BY <2>1 DEF TypeInv, SlotsOK, WorkOK
  <2> QED BY <2>1, <2>2, BookingsAre DEF TypeInv, CardInv
<1>2. PICK b \in Made : b = req[r].bk /\ b \in Ids
  BY <1>1
<1>3. PICK o : o = bookings[b] /\ o \in Row
  BY BookingsAre DEF TypeInv
<1>4. PICK v : v = [o EXCEPT !.status = "CANCELLED"]
  OBVIOUS
<1>5. v.status = "CANCELLED" /\ o.applied \in Nat
  BY <1>3, <1>4, Sizes DEF Row
<1>6. PICK k : k = bookings /\ DOMAIN k = Made
  BY DEF Made
<1>7. PICK l : l = bookings' /\ l = [k EXCEPT ![b] = v]
  BY <1>2, <1>3, <1>4, <1>6 DEF CancelWrite
<1>8. DOMAIN l = Made /\ Made' = Made /\ l[b] = v /\ \A d \in Made \ {b} : l[d] = k[d]
  BY <1>6, <1>7 DEF Made
<1>9. PICK q : q = req
  OBVIOUS
<1>10. PICK w : w = [req[r] EXCEPT !.pc = "expire"]
  OBVIOUS
<1>11. PICK n : n = req' /\ n = [q EXCEPT ![r] = w]
  BY <1>9, <1>10 DEF CancelWrite, Then
<1>12. w.pc = "expire" /\ n[r] = w /\ \A s \in Requests \ {r} : n[s] = q[s]
  BY <1>1, <1>9, <1>10, <1>11 DEF TypeInv, SlotsOK, CancelWork
<1>13. \A d : Taking(n, d) = Taking(q, d)
  <2> SUFFICES ASSUME NEW d PROVE Taking(n, d) = Taking(q, d)
    OBVIOUS
  <2>1. TakenBy(n, d) = TakenBy(q, d)
    BY <1>1, <1>9, <1>12 DEF TakenBy
  <2>2. \A s \in TakenBy(q, d) : n[s] = q[s]
    BY <1>1, <1>9, <1>12 DEF TakenBy
  <2> QED BY <2>1, <2>2 DEF Taking
<1>14. PICK f : f = Costs(k, q)
  OBVIOUS
<1>15. PICK g : g = Costs(l, n)
  OBVIOUS
<1>16. \A d \in Made : f[d] = CostOf(k, q, d) /\ g[d] = CostOf(l, n, d)
  BY <1>6, <1>8, <1>14, <1>15 DEF Costs
<1>17. \A d \in Made : f[d] \in Nat /\ Taking(q, d) \in Nat
  BY <1>1, <1>6, <1>9, <1>16, CostNat
<1>18. \A d \in Made \ {b} : g[d] = f[d]
  BY <1>8, <1>13, <1>16 DEF CostOf
<1>19. g[b] = Taking(q, b)
  <2>1. g[b] = 0 + Taking(q, b)
    BY <1>5, <1>8, <1>13, <1>16 DEF CostOf
  <2> QED BY <1>17, <2>1
<1>20. SUFFICES ASSUME GivenBackOnce', ~clobbered'
                PROVE  card' + SumFunctionOnSet(g, Made) <= CardValue
  BY <1>7, <1>8, <1>11, <1>15 DEF CardCovers
<1>21. GivenBackOnce /\ o.status # "CANCELLED"
  <2> PICK h : h = gaveBack  OBVIOUS
  <2>1. h \in [Ids -> Nat] /\ gaveBack' = [h EXCEPT ![b] = h[b] + 1]
    BY <1>2 DEF CancelWrite, TypeInv, TablesOK
  <2>2. \A d \in Ids : gaveBack'[d] <= 1
    BY <1>20 DEF GivenBackOnce
  <2>3. h[b] + 1 <= 1 /\ \A d \in Ids \ {b} : h[d] <= 1
    BY <1>2, <2>1, <2>2
  <2>4. h[b] \in Nat /\ h[b] = 0
    BY <1>2, <2>1, <2>3
  <2>5. GivenBackOnce
    BY <2>3, <2>4 DEF GivenBackOnce
  <2>6. ~(h[b] >= 1)
    BY <2>4
  <2>7. o.status # "CANCELLED"
    BY <1>3, <2>6 DEF CouponInv
  <2> QED BY <2>5, <2>7
<1>22. f[b] = o.applied + Taking(q, b)
  BY <1>3, <1>6, <1>16, <1>21 DEF CostOf
<1>23. ~clobbered /\ (req[r].row.applied > 0 => card = req[r].seen)
  BY <1>20 DEF CancelWrite
<1>24. PICK c \in Nat : c = card /\ c <= CardValue
  BY Sizes DEF TypeInv, TablesOK
<1>25. PICK a \in Nat : a = req[r].row.applied /\ a <= o.applied
  <2>1. req[r].row.applied \in {0, o.applied}
    BY <1>1, <1>2, <1>3 DEF CardInv, ReadApplied
  <2> QED BY <1>5, <2>1
<1>26. card' \in Nat /\ card' <= c + o.applied
  <2>1. card' = IF a = 0 THEN c ELSE Min({CardValue, req[r].seen + a})
    BY <1>24, <1>25 DEF CancelWrite, Restored
  <2>2. CASE a = 0
    BY <1>5, <1>24, <2>1, <2>2
  <2>3. CASE a # 0
    <3>1. req[r].seen = c
      BY <1>23, <1>24, <1>25, <2>3
    <3>2. PICK x \in Nat : x = c + a
      BY <1>24, <1>25
    <3>3. card' = Min({CardValue, x})
      BY <2>1, <2>3, <3>1, <3>2
    <3>4. card' \in Nat /\ card' <= x
      BY <3>3, MinOfTwo, Sizes
    <3> QED BY <1>5, <1>25, <3>2, <3>4
  <2> QED BY <2>2, <2>3
<1>27. \A d \in Made : f[d] \in Int /\ g[d] \in Int
  BY <1>17, <1>18, <1>19
<1>28. IsFiniteSet(Made)
  BY BookingsAre DEF TypeInv
<1>29. PICK S : S = Made
  OBVIOUS
<1>30. SumFunctionOnSet(g, S) = SumFunctionOnSet(f, S) - f[b] + g[b]
  BY <1>18, <1>27, <1>28, <1>29, SumOneChanged
<1>31. PICK x \in Int : x = SumFunctionOnSet(f, S)
  BY <1>27, <1>28, <1>29, SumInt
<1>32. c + x <= CardValue
  BY <1>6, <1>9, <1>14, <1>21, <1>23, <1>24, <1>29, <1>31 DEF CardInv, CardCovers
<1>33. PICK t \in Nat : t = Taking(q, b)
  BY <1>17
<1>34. SumFunctionOnSet(g, S) = x - (o.applied + t) + t
  BY <1>19, <1>22, <1>30, <1>31, <1>33
<1> QED BY <1>5, <1>24, <1>26, <1>29, <1>31, <1>32, <1>34, Sizes

LEMMA OtherCovers ==
    ASSUME TypeInv, CardInv, [Next]_vars, UNCHANGED <<card, clobbered, gaveBack>>, \A s \in Requests : ~Takes(s)
    PROVE  CardCovers'
<1>1. TypeInv' /\ OneMaker(req) /\ OneMaker(req')
  BY NextTypes, OneMakerStep DEF CardInv
<1>2. PICK k : k = bookings /\ DOMAIN k = Made
  BY DEF Made
<1>3. PICK l : l = bookings' /\ DOMAIN l = Made' /\ l \in Seq(Row)
  BY <1>1 DEF Made, TypeInv, TablesOK
<1>4. PICK q : q = req
  OBVIOUS
<1>5. PICK n : n = req' /\ n \in [Requests -> Work \cup {Idle}]
  BY <1>1 DEF TypeInv, SlotsOK
<1>6. PICK f : f = Costs(k, q)
  OBVIOUS
<1>7. PICK g : g = Costs(l, n)
  OBVIOUS
<1>8. PICK S : S = Made /\ IsFiniteSet(S)
  BY BookingsAre DEF TypeInv
<1>9. PICK T : T = Made' /\ S \subseteq T
  BY <1>8, AppliedStep
<1>10. \A b \in S : f[b] \in Nat /\ g[b] \in Nat /\ g[b] <= f[b]
  <2>1. \A b \in S : f[b] = CostOf(k, q, b) /\ f[b] \in Nat
    BY <1>1, <1>2, <1>4, <1>6, <1>8, CostNat DEF Costs
  <2>2. \A b \in S : g[b] = CostOf(l, n, b) /\ g[b] \in Nat
    BY <1>1, <1>3, <1>5, <1>7, <1>9, CostIsNat DEF Costs
  <2>3. \A b \in S : CostOf(l, n, b) <= CostOf(k, q, b)
    BY <1>2, <1>3, <1>4, <1>5, <1>8, CostAfter
  <2> QED BY <2>1, <2>2, <2>3
<1>11. \A b \in S : g[b] \in Int /\ f[b] \in Int /\ g[b] <= f[b]
  BY <1>10
<1>12. SumFunctionOnSet(g, S) <= SumFunctionOnSet(f, S)
  BY <1>8, <1>11, SumAtMost
<1>13. SumFunctionOnSet(g, T) = SumFunctionOnSet(g, S)
  <2>1. CASE T = S
    BY <2>1
  <2>2. ASSUME NEW x, x = Len(bookings) + 1, T = S \cup {x}, x \notin S, l[x].applied = 0
        PROVE  SumFunctionOnSet(g, T) = SumFunctionOnSet(g, S)
    <3>1. \A s \in Requests : ~(n[s].pc = "cardWrite" /\ n[s].bk = x)
      <4> SUFFICES ASSUME NEW s \in Requests, n[s].pc = "cardWrite", n[s].bk = x PROVE FALSE
        OBVIOUS
      <4>1. req'[s] = req[s]
        BY <1>5, ToMaker DEF MakerPc
      <4>2. req[s].bk \in Made
        BY <1>5, <4>1 DEF TypeInv, SlotsOK, WorkOK
      <4> QED BY <1>5, <1>8, <2>2, <4>1, <4>2
    <3>2. g[x] = 0
      <4>1. Taking(n, x) = 0
        BY <3>1, TakingNone
      <4>2. g[x] = CostOf(l, n, x)
        BY <1>3, <1>7, <1>9, <2>2 DEF Costs
      <4> QED BY <2>2, <4>1, <4>2 DEF CostOf
    <3>3. \A y \in S \cup {x} : g[y] \in Int
      BY <1>11, <3>2
    <3>4. SumFunctionOnSet(g, S \cup {x}) = g[x] + SumFunctionOnSet(g, S)
      BY <1>8, <2>2, <3>3, SumAdd
    <3>5. SumFunctionOnSet(g, S) \in Int
      BY <1>8, <1>11, SumInt
    <3> QED BY <2>2, <3>2, <3>4, <3>5
  <2> QED BY <1>3, <1>8, <1>9, <2>1, <2>2, AppliedStep
<1>14. PICK x \in Int : x = SumFunctionOnSet(f, S)
  BY <1>8, <1>11, SumInt
<1>15. PICK y \in Int : y = SumFunctionOnSet(g, T)
  BY <1>8, <1>11, <1>13, SumInt
<1>16. PICK c \in Nat : c = card
  BY Sizes DEF TypeInv, TablesOK
<1>17. SUFFICES ASSUME GivenBackOnce, ~clobbered PROVE c + y <= CardValue
  BY <1>3, <1>5, <1>7, <1>9, <1>15, <1>16 DEF CardCovers, GivenBackOnce
<1>18. c + x <= CardValue
  BY <1>2, <1>4, <1>6, <1>8, <1>14, <1>16, <1>17 DEF CardInv, CardCovers
<1>19. y <= x
  BY <1>12, <1>13, <1>14, <1>15
<1> QED BY <1>18, <1>19, Sizes

LEMMA CardInvStep == ASSUME TypeInv, CouponInv, CardInv, [Next]_vars PROVE CardInv'
<1>1. OneMaker(req') /\ NotYetApplied' /\ ReadApplied'
  BY OneMakerStep, AppliedAfter, ReadAfter DEF CardInv
<1>2. CASE \E r \in Requests : Takes(r)
  BY <1>2, TakesCovers, <1>1 DEF CardInv
<1>3. CASE \E r \in Requests : CancelWrite(r)
  BY <1>3, CancelCovers, <1>1 DEF CardInv
<1>4. CASE UNCHANGED <<card, clobbered, gaveBack>> /\ ~\E r \in Requests : Takes(r)
  BY <1>4, OtherCovers, <1>1 DEF CardInv
<1> QED BY <1>2, <1>3, <1>4, CardStep

\* What the live bookings have of the card is part of what is accounted for.
LEMMA CoversLive == ASSUME TypeInv, CardInv PROVE CardNotOverspent
<1>1. PICK S : S = Made /\ IsFiniteSet(S)
  BY BookingsAre DEF TypeInv
<1>2. PICK L \in SUBSET S : L = Live
  BY <1>1 DEF Live
<1>3. IsFiniteSet(L)
  BY <1>1, FS_Subset
<1>4. PICK f : f = Costs(bookings, req)
  OBVIOUS
<1>5. PICK a : a = [b \in Live |-> bookings[b].applied]
  OBVIOUS
<1>6. \A b \in S : f[b] \in Nat
  BY <1>1, <1>4, CostNat DEF Costs, CardInv, Made
<1>7. \A b \in L : a[b] \in Int /\ f[b] \in Int /\ a[b] <= f[b]
  <2> SUFFICES ASSUME NEW b \in L PROVE a[b] \in Int /\ f[b] \in Int /\ a[b] <= f[b]
    OBVIOUS
  <2>1. Taking(req, b) \in Nat /\ bookings[b].applied \in Nat
    BY <1>1, CostNat DEF CardInv
  <2>2. f[b] = bookings[b].applied + Taking(req, b)
    BY <1>1, <1>2, <1>4 DEF Costs, CostOf, Live, Made
  <2>3. a[b] = bookings[b].applied
    BY <1>2, <1>5
  <2> QED BY <2>1, <2>2, <2>3
<1>8. SumFunctionOnSet(a, L) <= SumFunctionOnSet(f, L)
  BY <1>3, <1>7, SumAtMost
<1>9. SumFunctionOnSet(f, L) <= SumFunctionOnSet(f, S)
  BY <1>1, <1>6, SumOfPart
<1>10. PICK x \in Int : x = SumFunctionOnSet(a, L)
  BY <1>3, <1>7, SumInt
<1>11. PICK y \in Int : y = SumFunctionOnSet(f, L)
  BY <1>3, <1>7, SumInt
<1>12. PICK z \in Nat : z = SumFunctionOnSet(f, S)
  BY <1>1, <1>6, SumNat
<1>13. PICK c \in Nat : c = card
  BY Sizes DEF TypeInv, TablesOK
<1>14. SUFFICES ASSUME GivenBackOnce, ~clobbered PROVE c + x <= CardValue
  BY <1>2, <1>5, <1>10, <1>13 DEF CardNotOverspent
<1>15. c + z <= CardValue
  BY <1>1, <1>4, <1>12, <1>13, <1>14 DEF CardInv, CardCovers
<1>16. x <= z
  BY <1>8, <1>9, <1>10, <1>11, <1>12
<1> QED BY <1>15, <1>16, Sizes

LEMMA NothingSpent == ASSUME Init PROVE CardInv
<1>1. bookings = <<>> /\ req = [r \in Requests |-> Idle] /\ card = CardValue
  BY DEF Init
<1>2. Made = {}
  <2>1. Len(bookings) = 0 /\ bookings \in Seq(Row)  BY <1>1, EmptySeq
  <2>2. Made = 1..0  BY <2>1, LenProperties DEF Made
  <2> QED BY <2>2
<1>3. OneMaker(req) /\ NotYetApplied /\ ReadApplied
  BY <1>1 DEF OneMaker, NotYetApplied, ReadApplied, MakerPc, Idle
<1>4. PICK f : f = Costs(bookings, req)
  OBVIOUS
<1>5. SumFunctionOnSet(f, Made) = 0
  BY <1>2, SumEmpty
<1>6. CardCovers
  BY <1>1, <1>4, <1>5, Sizes DEF CardCovers
<1> QED BY <1>3, <1>6 DEF CardInv

\* What is granted once is given back once, for any number of handlers that
\* interleave and die anywhere: the coupon's counter is the number of live
\* bookings that used it, and the card and what the live bookings have of it
\* together are no more than it was sold for, but for two cancellations of one
\* booking and a balance restored over another redemption (widget.service
\* submitBooking, bookings.service cancelBooking).
THEOREM IntakeDiscountsBalanced == Spec => []DiscountsBalanced
<1>1. Init => CardInv
  BY NothingSpent
<1>2. TypeInv /\ CouponInv /\ CardInv /\ [Next]_vars => CardInv'
  BY CardInvStep
<1>3. TypeInv /\ CouponInv /\ CardInv => DiscountsBalanced
  BY CoversLive DEF CouponInv, DiscountsBalanced
<1> QED BY <1>1, <1>2, <1>3, TypeInvHolds, CouponInvHolds, PTL DEF Spec
=============================================================================
