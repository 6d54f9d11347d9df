---------------------------- MODULE PlatformProofs ----------------------------
(***************************************************************************)
(* What a business stands on, for any number of people, firms, requests,   *)
(* codes, businesses and events.  The components of Platform share no      *)
(* variable, so each is proved about alone, from its own initial states    *)
(* and its own steps, and the last lemma of each part brings the result to *)
(* Platform's Spec.                                                        *)
(***************************************************************************)
EXTENDS Platform, FiniteSetTheorems, SequenceTheorems, TLAPS

-----------------------------------------------------------------------------
(* Accounts: the types of the tables and of what a request carries *)

AccountsSpec == AccountsInit /\ [][AccountsNext]_accountVars

\* What a request may carry at each place it stops at.
WorkOK(w) ==
    \/ w = Quiet
    \/ w \in [pc : {"choose"}, who : People, version : 0..MaxVersion, missed : Missed]
    \/ w \in [pc : {"issue"}, who : People, at : Firms \cup {NoFirm}, of : 0..MaxSessions,
              version : 0..MaxVersion, missed : Missed]
    \/ w \in [pc : {"rotate"}, of : 1..MaxSessions]
    \/ w \in [pc : {"renew"}, who : People, of : 1..MaxSessions, missed : Missed]
    \/ w \in [pc : {"setPassword", "markUsed", "disable", "endSessions"}, who : People, by : SUBSET Links]
    \/ w \in [pc : {"enable"}, who : People]
    \/ w \in [pc : {"endWorkspace"}, who : People, at : Firms]

\* A request that renews a session has found it in the table.
Points(w) ==
    /\ w.pc \in {"rotate", "renew"} => w.of \in DOMAIN sessions
    /\ w.pc = "renew" => w.who = sessions[w.of].who

Tables ==
    /\ person \in [People -> Person]
    /\ member \in [Firms -> [People -> Member]]
    /\ cleaner \in [Firms -> [People -> {"NONE", "ACTIVE", "SUSPENDED", "OFFBOARDED"}]]
    /\ link \in [Links -> Link \cup {Unsent}]
    /\ deaths \in 0..MaxDeaths /\ undone \subseteq People

SessionsOK == sessions \in Seq(Session) /\ Len(sessions) <= MaxSessions

\* The requests are a function on Requests.
WorksOK == req = [r \in Requests |-> req[r]] /\ \A r \in Requests : WorkOK(req[r]) /\ Points(req[r])

AccountsInv == Tables /\ SessionsOK /\ WorksOK

-----------------------------------------------------------------------------
(* What a step does to the sessions: it adds one, or none and no life *)

\* The rows there were keep all they say; none comes back to life.
Kept ==
    /\ DOMAIN sessions' = DOMAIN sessions
    /\ \A i \in DOMAIN sessions :
         /\ sessions'[i].who = sessions[i].who /\ sessions'[i].at = sessions[i].at
         /\ sessions'[i].of = sessions[i].of /\ sessions'[i].version = sessions[i].version
         /\ sessions'[i].missed = sessions[i].missed
         /\ sessions'[i].live => sessions[i].live

\* Sessions that stay as they are.
LEMMA SameSessions ==
    ASSUME SessionsOK, UNCHANGED sessions
    PROVE  Kept /\ SessionsOK'
BY DEF Kept, SessionsOK

\* One session that is ended.
LEMMA OneEnded ==
    ASSUME SessionsOK, NEW i \in DOMAIN sessions,
           sessions' = [sessions EXCEPT ![i].live = FALSE]
    PROVE  Kept /\ SessionsOK' /\ ~sessions'[i].live
<1>1. sessions \in [1..Len(sessions) -> Session] /\ DOMAIN sessions = 1..Len(sessions) /\ Len(sessions) \in Nat
  BY LenProperties DEF SessionsOK
<1>2. ASSUME NEW j \in DOMAIN sessions
      PROVE  sessions'[j] = IF j = i THEN [sessions[j] EXCEPT !.live = FALSE] ELSE sessions[j]
  BY <1>1
<1>3. \A j \in DOMAIN sessions : sessions[j] \in Session
  BY <1>1
<1>4. \A s \in Session : /\ [s EXCEPT !.live = FALSE] \in Session
                         /\ LET t == [s EXCEPT !.live = FALSE]
                            IN t.who = s.who /\ t.at = s.at /\ t.of = s.of /\ t.version = s.version
                               /\ t.missed = s.missed /\ t.live = FALSE
  BY DEF Session
<1>5. sessions' \in [1..Len(sessions) -> Session]
  BY <1>1, <1>3, <1>4
<1>6. sessions' \in Seq(Session) /\ Len(sessions') = Len(sessions)
  BY <1>1, <1>5, SeqDef, LenProperties
<1>7. DOMAIN sessions' = DOMAIN sessions
  BY <1>1, <1>5
<1> QED BY <1>2, <1>3, <1>4, <1>6, <1>7 DEF Kept, SessionsOK

\* The sessions of one person in some places that are ended.
LEMMA SomeEnded ==
    ASSUME SessionsOK, NEW p, NEW places, sessions' = Deleted(p, places)
    PROVE  /\ Kept /\ SessionsOK'
           /\ \A i \in DOMAIN sessions : sessions[i].who = p /\ sessions[i].at \in places => ~sessions'[i].live
<1>1. sessions \in [1..Len(sessions) -> Session] /\ DOMAIN sessions = 1..Len(sessions) /\ Len(sessions) \in Nat
  BY LenProperties DEF SessionsOK
<1>2. PICK gone : gone = [i \in DOMAIN sessions |-> sessions[i].who = p /\ sessions[i].at \in places]
  OBVIOUS
<1>3. ASSUME NEW j \in DOMAIN sessions
      PROVE  sessions'[j] = [sessions[j] EXCEPT !.live = @ /\ ~gone[j]]
  BY <1>2 DEF Deleted
<1>4. \A j \in DOMAIN sessions : sessions[j] \in Session /\ gone[j] \in BOOLEAN
                                  /\ (gone[j] <=> sessions[j].who = p /\ sessions[j].at \in places)
  BY <1>1, <1>2
<1>5. ASSUME NEW s \in Session, NEW g \in BOOLEAN
      PROVE  /\ [s EXCEPT !.live = @ /\ ~g] \in Session
             /\ LET t == [s EXCEPT !.live = @ /\ ~g]
                IN t.who = s.who /\ t.at = s.at /\ t.of = s.of /\ t.version = s.version
                   /\ t.missed = s.missed /\ (t.live => s.live) /\ (g => ~t.live)
  BY DEF Session
<1>6. DOMAIN sessions' = DOMAIN sessions /\ sessions' \in [1..Len(sessions) -> Session]
  BY <1>1, <1>3, <1>4, <1>5 DEF Deleted
<1>7. sessions' \in Seq(Session) /\ Len(sessions') = Len(sessions)
  BY <1>1, <1>6, SeqDef, LenProperties
<1>8. ASSUME NEW j \in DOMAIN sessions
      PROVE  /\ sessions'[j].who = sessions[j].who /\ sessions'[j].at = sessions[j].at
             /\ sessions'[j].of = sessions[j].of /\ sessions'[j].version = sessions[j].version
             /\ sessions'[j].missed = sessions[j].missed
             /\ sessions'[j].live => sessions[j].live
             /\ gone[j] => ~sessions'[j].live
  <2>1. PICK s \in Session : s = sessions[j]
    BY <1>4
  <2>2. PICK g \in BOOLEAN : g = gone[j]
    BY <1>4
  <2>3. sessions'[j] = [s EXCEPT !.live = @ /\ ~g]
    BY <1>3, <2>1, <2>2
  <2> QED BY <1>5, <2>1, <2>2, <2>3
<1>9. Kept
  BY <1>6, <1>8 DEF Kept
<1>10. SessionsOK'
  BY <1>7 DEF SessionsOK
<1> QED BY <1>4, <1>8, <1>9, <1>10

\* A session that is issued comes behind the ones there were.
LEMMA OneIssued ==
    ASSUME SessionsOK, Len(sessions) < MaxSessions, NEW s \in Session, sessions' = Append(sessions, s)
    PROVE  /\ SessionsOK'
           /\ DOMAIN sessions' = DOMAIN sessions \cup {Len(sessions) + 1}
           /\ Len(sessions) + 1 \notin DOMAIN sessions
           /\ sessions'[Len(sessions) + 1] = s
           /\ \A i \in DOMAIN sessions : sessions'[i] = sessions[i]
<1>1. DOMAIN sessions = 1..Len(sessions) /\ Len(sessions) \in Nat
  BY LenProperties DEF SessionsOK
<1>2. /\ sessions' \in Seq(Session) /\ Len(sessions') = Len(sessions) + 1
      /\ \A i \in 1..Len(sessions) : sessions'[i] = sessions[i]
      /\ sessions'[Len(sessions) + 1] = s
  BY AppendProperties DEF SessionsOK
<1>3. DOMAIN sessions' = 1..(Len(sessions) + 1)
  BY <1>2, LenProperties
<1>4. SessionsOK'
  BY <1>1, <1>2, AccountsAssumption DEF SessionsOK
<1>5. Len(sessions) + 1 \notin DOMAIN sessions
  BY <1>1
<1>6. DOMAIN sessions' = DOMAIN sessions \cup {Len(sessions) + 1}
  BY <1>1, <1>3
<1> QED BY <1>1, <1>2, <1>4, <1>5, <1>6

-----------------------------------------------------------------------------
(* What a step does to the requests *)

\* The rows a request may point at stay where they are.
Holders == \A i \in DOMAIN sessions : i \in DOMAIN sessions' /\ sessions'[i].who = sessions[i].who

\* What is carried, by the place the request stops at.
LEMMA WorkKinds ==
    ASSUME NEW w, WorkOK(w)
    PROVE  /\ w.pc = "idle" => w = Quiet
           /\ w.pc = "choose" => /\ w.who \in People /\ w.version \in 0..MaxVersion /\ w.missed \in Missed
                                 /\ w = [pc |-> "choose", who |-> w.who, version |-> w.version, missed |-> w.missed]
           /\ w.pc = "issue" => /\ w.who \in People /\ w.at \in Firms \cup {NoFirm} /\ w.of \in 0..MaxSessions
                                /\ w.version \in 0..MaxVersion /\ w.missed \in Missed
                                /\ w = [pc |-> "issue", who |-> w.who, at |-> w.at, of |-> w.of,
                                        version |-> w.version, missed |-> w.missed]
           /\ w.pc = "rotate" => w.of \in 1..MaxSessions
           /\ w.pc = "renew" => /\ w.who \in People /\ w.of \in 1..MaxSessions /\ w.missed \in Missed
                                /\ w = [pc |-> "renew", who |-> w.who, of |-> w.of, missed |-> w.missed]
           /\ w.pc \in {"setPassword", "markUsed", "disable", "endSessions"} =>
                /\ w.who \in People /\ w.by \subseteq Links
                /\ w = [pc |-> w.pc, who |-> w.who, by |-> w.by]
           /\ w.pc = "enable" => w.who \in People
           /\ w.pc = "endWorkspace" => w.who \in People /\ w.at \in Firms
BY DEF WorkOK, Quiet

\* A request that goes somewhere else, the others staying.
LEMMA Entered ==
    ASSUME WorksOK, Holders, NEW r \in Requests, NEW w, Enter(r, w), WorkOK(w), Points(w)'
    PROVE  WorksOK' /\ req'[r] = w /\ \A q \in Requests \ {r} : req'[q] = req[q]
<1>1. DOMAIN req = Requests /\ \A q \in Requests : WorkOK(req[q]) /\ Points(req[q])
  BY DEF WorksOK
<1>2. \A q \in Requests : req'[q] = IF q = r THEN w ELSE req[q]
  BY <1>1 DEF Enter
<1>3. req' = [q \in Requests |-> req'[q]]
  BY <1>1, <1>2 DEF Enter
<1>4. ASSUME NEW q \in Requests
      PROVE  WorkOK(req[q])' /\ Points(req[q])'
  <2>1. CASE q = r
    BY <1>2, <2>1 DEF WorkOK, Points
  <2>2. CASE q # r
    <3>1. req'[q] = req[q] /\ WorkOK(req[q]) /\ Points(req[q])
      BY <1>1, <1>2, <2>2
    <3> QED BY <3>1 DEF Holders, WorkOK, Points
  <2> QED BY <2>1, <2>2
<1> QED BY <1>2, <1>3, <1>4 DEF WorksOK

\* A request that rests.
LEMMA Left ==
    ASSUME WorksOK, Holders, NEW r \in Requests, Leave(r)
    PROVE  WorksOK' /\ req'[r] = Quiet /\ \A q \in Requests \ {r} : req'[q] = req[q]
<1>1. WorkOK(Quiet) /\ Points(Quiet)'
  BY DEF WorkOK, Points, Quiet
<1> QED BY <1>1, Entered DEF Leave

\* A request that has missed a deletion, or not.
MissedIt(q, what) ==
    \/ req'[q] = req[q]
    \/ req[q].pc \in {"choose", "renew", "issue"} /\ req'[q] = [req[q] EXCEPT !.missed = @ \cup {what}]

\* What a request carries that has missed one.
LEMMA MissedKinds ==
    ASSUME NEW w, WorkOK(w), NEW what \in {"credentials", "workspace"}, w.pc \in {"choose", "renew", "issue"}
    PROVE  LET v == [w EXCEPT !.missed = @ \cup {what}]
           IN /\ WorkOK(v) /\ v.pc = w.pc /\ v.who = w.who /\ v.missed = w.missed \cup {what}
              /\ w.pc = "choose" => v.version = w.version
              /\ w.pc = "renew" => v.of = w.of
              /\ w.pc = "issue" => v.at = w.at /\ v.of = w.of /\ v.version = w.version
<1> DEFINE v == [w EXCEPT !.missed = @ \cup {what}]
<1>1. CASE w.pc = "choose"
  <2>1. w \in [pc : {"choose"}, who : People, version : 0..MaxVersion, missed : Missed]
    BY <1>1 DEF WorkOK, Quiet
  <2>2. v \in [pc : {"choose"}, who : People, version : 0..MaxVersion, missed : Missed]
    BY <2>1 DEF Missed
  <2> QED BY <1>1, <2>1, <2>2 DEF WorkOK
<1>2. CASE w.pc = "renew"
  <2>1. w \in [pc : {"renew"}, who : People, of : 1..MaxSessions, missed : Missed]
    BY <1>2 DEF WorkOK, Quiet
  <2>2. v \in [pc : {"renew"}, who : People, of : 1..MaxSessions, missed : Missed]
    BY <2>1 DEF Missed
  <2> QED BY <1>2, <2>1, <2>2 DEF WorkOK
<1>3. CASE w.pc = "issue"
  <2>1. w \in [pc : {"issue"}, who : People, at : Firms \cup {NoFirm}, of : 0..MaxSessions,
               version : 0..MaxVersion, missed : Missed]
    BY <1>3 DEF WorkOK, Quiet
  <2>2. v \in [pc : {"issue"}, who : People, at : Firms \cup {NoFirm}, of : 0..MaxSessions,
               version : 0..MaxVersion, missed : Missed]
    BY <2>1 DEF Missed
  <2> QED BY <1>3, <2>1, <2>2 DEF WorkOK
<1> QED BY <1>1, <1>2, <1>3

\* The requests of rs rest; of the others, everyone asleep has missed it, and
\* nobody else.
Missing(p, what, places, rs) ==
    /\ req' = [q \in Requests |-> req'[q]]
    /\ \A q \in Requests : req'[q] = IF q \in rs THEN Quiet ELSE Noted(p, what, places)[q]

TheyMiss(p, what, places, rs) ==
    /\ \A q \in Requests \ rs : MissedIt(q, what)
    /\ \A q \in Requests \ rs : q \in Asleep(p, what, places) =>
         /\ req[q].pc \in {"choose", "renew", "issue"}
         /\ req'[q] = [req[q] EXCEPT !.missed = @ \cup {what}]
    /\ \A q \in rs : req'[q] = Quiet

LEMMA NotedAll ==
    ASSUME WorksOK, Holders, NEW p, NEW what \in {"credentials", "workspace"}, NEW places,
           NEW rs \in SUBSET Requests, Missing(p, what, places, rs)
    PROVE  WorksOK' /\ TheyMiss(p, what, places, rs)
<1>1. \A q \in Requests : WorkOK(req[q]) /\ Points(req[q])
  BY DEF WorksOK
<1>2. \A q \in Requests \ rs : req'[q] = IF q \in Asleep(p, what, places)
                                         THEN [req[q] EXCEPT !.missed = @ \cup {what}] ELSE req[q]
  BY DEF Missing, Noted
<1>3. \A q \in Requests : q \in Asleep(p, what, places) => req[q].pc \in {"choose", "renew", "issue"}
  BY DEF Asleep
<1>4. \A q \in rs : req'[q] = Quiet
  BY DEF Missing
<1>6. ASSUME NEW q \in Requests
      PROVE  WorkOK(req[q])' /\ Points(req[q])'
  <2>1. CASE q \in rs
    BY <1>4, <2>1 DEF WorkOK, Points, Quiet
  <2>2. CASE q \notin rs /\ q \notin Asleep(p, what, places)
    <3>1. req'[q] = req[q] /\ WorkOK(req[q]) /\ Points(req[q])
      BY <1>1, <1>2, <2>2
    <3> QED BY <3>1 DEF Holders, WorkOK, Points
  <2>3. CASE q \notin rs /\ q \in Asleep(p, what, places)
    <3>1. PICK w : w = req[q]
      OBVIOUS
    <3>2. WorkOK(w) /\ Points(w) /\ w.pc \in {"choose", "renew", "issue"}
      BY <1>1, <1>3, <2>3, <3>1
    <3>3. PICK v : v = [w EXCEPT !.missed = @ \cup {what}]
      OBVIOUS
    <3>4. /\ WorkOK(v) /\ v.pc = w.pc /\ v.who = w.who
          /\ w.pc = "renew" => v.of = w.of
      BY <3>2, <3>3, MissedKinds
    <3>5. req'[q] = v
      BY <1>2, <2>3, <3>1, <3>3
    <3>6. Points(v)'
      BY <3>2, <3>4 DEF Points, Holders
    <3> QED BY <3>4, <3>5, <3>6 DEF WorkOK, Points
  <2> QED BY <2>1, <2>2, <2>3
<1>7. WorksOK'
  BY <1>6 DEF WorksOK, Missing
<1>8. \A q \in Requests \ rs : MissedIt(q, what)
  BY <1>2, <1>3 DEF MissedIt
<1>9. ASSUME NEW q \in Requests \ rs, q \in Asleep(p, what, places)
      PROVE  /\ req[q].pc \in {"choose", "renew", "issue"}
             /\ req'[q] = [req[q] EXCEPT !.missed = @ \cup {what}]
  BY <1>2, <1>3, <1>9
<1>10. TheyMiss(p, what, places, rs)
  BY <1>4, <1>8, <1>9 DEF TheyMiss
<1> QED BY <1>7, <1>10

\* The two deletions that are a request's last statement.
LEMMA NotedAndLeft ==
    ASSUME WorksOK, Holders, NEW r \in Requests, NEW p, NEW what \in {"credentials", "workspace"}, NEW places,
           req' = [Noted(p, what, places) EXCEPT ![r] = Quiet]
    PROVE  WorksOK' /\ TheyMiss(p, what, places, {r})
<1>1. Missing(p, what, places, {r})
  BY DEF Missing, Noted
<1> QED BY <1>1, NotedAll

\* The one that is part of a transaction.
LEMMA NotedOnly ==
    ASSUME WorksOK, Holders, NEW p, NEW what \in {"credentials", "workspace"}, NEW places,
           req' = Noted(p, what, places)
    PROVE  WorksOK' /\ TheyMiss(p, what, places, {})
<1>1. Missing(p, what, places, {})
  BY DEF Missing, Noted
<1> QED BY <1>1, NotedAll

-----------------------------------------------------------------------------
(* The types hold *)

LEMMA AccountsStart == ASSUME AccountsInit PROVE AccountsInv
<1>1. Tables
  BY AccountsAssumption DEF AccountsInit, Tables, Person, Member, Roles, NoAccount
<1>2. SessionsOK
  BY AccountsAssumption, EmptySeq DEF AccountsInit, SessionsOK
<1>3. WorkOK(Quiet) /\ Points(Quiet)
  BY DEF WorkOK, Points, Quiet
<1>4. WorksOK
  BY <1>3 DEF AccountsInit, WorksOK
<1> QED BY <1>1, <1>2, <1>4 DEF AccountsInv

\* A link that is mailed, and the account of a person nobody knew.
LEMMA MailedOK ==
    ASSUME Tables, NEW l \in Links, NEW p \in People, Mailed(l, p)
    PROVE  link' \in [Links -> Link \cup {Unsent}]
BY DEF Tables, Mailed, Link

LEMMA KnownOK ==
    ASSUME Tables, NEW p \in People, Known(p)
    PROVE  person' \in [People -> Person] /\ link' \in [Links -> Link \cup {Unsent}]
<1>1. CASE person[p].version # NoAccount
  BY <1>1 DEF Known, Tables
<1>2. CASE person[p].version = NoAccount
  <2>1. PICK old \in Person : old = person[p]
    BY DEF Tables
  <2>2. [old EXCEPT !.version = Unusable] \in Person
    BY <2>1, AccountsAssumption DEF Person, Unusable, NoAccount
  <2>3. person' = [person EXCEPT ![p] = [old EXCEPT !.version = Unusable]]
    BY <1>2, <2>1 DEF Known
  <2>4. person' \in [People -> Person]
    BY <2>2, <2>3 DEF Tables
  <2> QED BY <1>2, <2>4, MailedOK DEF Known, Tables
<1> QED BY <1>1, <1>2

\* What a request may begin.
LEMMA BeginTypes ==
    ASSUME AccountsInv, NEW r \in Requests, Begin(r)
    PROVE  AccountsInv'
<1> USE DEF AccountsInv
<1>0. \A i \in DOMAIN sessions : sessions[i] \in Session
  BY ElementOfSeq, LenProperties DEF SessionsOK
<1>1. UNCHANGED sessions
  BY DEF Begin, Register, RemoveMember, Login, ChangePassword, Verify2FA, Disable2FA, Refresh, SelectBusiness,
         ConfirmPasswordReset
<1>2. SessionsOK' /\ Holders
  BY <1>1, SameSessions DEF Kept, Holders
<1>3. ASSUME NEW w, Enter(r, w), WorkOK(w), w.pc \notin {"rotate", "renew"}
      PROVE  WorksOK'
  BY <1>2, <1>3, Entered DEF Points
<1>4. ASSUME NEW f \in Firms, NEW p \in People, Register(r, f, p) PROVE AccountsInv'
  <2>1. WorksOK'
    <3>1. PICK w : w = Issuing(p, f, 0, 1, {})
      OBVIOUS
    <3>2. WorkOK(w) /\ w.pc = "issue"
      BY <3>1, AccountsAssumption DEF Issuing, WorkOK, Missed
    <3> QED BY <1>3, <1>4, <3>1, <3>2 DEF Register
  <2>2. person' \in [People -> Person]
    <3>1. PICK old \in Person : old = person[p]
      BY DEF Tables
    <3>2. [old EXCEPT !.version = 1] \in Person
      BY <3>1, AccountsAssumption DEF Person, NoAccount
    <3> QED BY <1>4, <3>1, <3>2 DEF Register, Tables
  <2>3. member' \in [Firms -> [People -> Member]]
    BY <1>4 DEF Register, Tables, Member, Roles
  <2> QED BY <1>2, <1>4, <2>1, <2>2, <2>3 DEF Register, Tables
<1>5. ASSUME NEW f \in Firms, NEW p \in People, RemoveMember(r, f, p) PROVE AccountsInv'
  <2>1. WorksOK'
    <3>1. PICK w : w = [pc |-> "endWorkspace", who |-> p, at |-> f]
      OBVIOUS
    <3>2. WorkOK(w) /\ w.pc = "endWorkspace"
      BY <3>1 DEF WorkOK
    <3> QED BY <1>3, <1>5, <3>1, <3>2 DEF RemoveMember
  <2>2. member' \in [Firms -> [People -> Member]]
    <3>1. PICK old \in Member : old = member[f][p]
      BY DEF Tables
    <3>2. [old EXCEPT !.active = FALSE] \in Member
      BY <3>1 DEF Member
    <3>3. PICK staff \in [People -> Member] : staff = member[f]
      BY DEF Tables
    <3>4. [staff EXCEPT ![p] = [old EXCEPT !.active = FALSE]] \in [People -> Member]
      BY <3>2
    <3>5. member' = [member EXCEPT ![f] = [staff EXCEPT ![p] = [old EXCEPT !.active = FALSE]]]
      BY <1>5, <3>1, <3>3 DEF RemoveMember
    <3> QED BY <3>4, <3>5 DEF Tables
  <2> QED BY <1>2, <1>5, <2>1, <2>2 DEF RemoveMember, Tables
<1>6. ASSUME NEW p \in People, Login(r, p) PROVE AccountsInv'
  <2>1. PICK w : w = [pc |-> "choose", who |-> p, version |-> person[p].version, missed |-> {}]
    OBVIOUS
  <2>2. person[p].version \in 0..MaxVersion
    BY <1>6, AccountsAssumption DEF Login, Active, Tables, Person, NoAccount
  <2>3. WorkOK(w) /\ w.pc = "choose"
    BY <2>1, <2>2 DEF WorkOK, Missed
  <2>4. WorksOK'
    BY <1>3, <1>6, <2>1, <2>3 DEF Login
  <2> QED BY <1>2, <1>6, <2>4 DEF Login, Tables
<1>7. ASSUME NEW p \in People, ChangePassword(r, p) PROVE AccountsInv'
  <2>1. PICK w : w = [pc |-> "setPassword", who |-> p, by |-> {}]
    OBVIOUS
  <2>2. WorkOK(w) /\ w.pc = "setPassword"
    BY <2>1 DEF WorkOK
  <2>3. WorksOK'
    BY <1>3, <1>7, <2>1, <2>2 DEF ChangePassword
  <2> QED BY <1>2, <1>7, <2>3 DEF ChangePassword, Tables
<1>8. ASSUME NEW p \in People, Verify2FA(r, p) PROVE AccountsInv'
  <2>1. PICK w : w = [pc |-> "enable", who |-> p]
    OBVIOUS
  <2>2. WorkOK(w) /\ w.pc = "enable"
    BY <2>1 DEF WorkOK
  <2>3. WorksOK'
    BY <1>3, <1>8, <2>1, <2>2 DEF Verify2FA
  <2> QED BY <1>2, <1>8, <2>3 DEF Verify2FA, Tables
<1>9. ASSUME NEW p \in People, Disable2FA(r, p) PROVE AccountsInv'
  <2>1. PICK w : w = [pc |-> "disable", who |-> p, by |-> {}]
    OBVIOUS
  <2>2. WorkOK(w) /\ w.pc = "disable"
    BY <2>1 DEF WorkOK
  <2>3. WorksOK'
    BY <1>3, <1>9, <2>1, <2>2 DEF Disable2FA
  <2> QED BY <1>2, <1>9, <2>3 DEF Disable2FA, Tables
<1>10. ASSUME NEW i \in DOMAIN sessions, Refresh(r, i) PROVE AccountsInv'
  <2>1. PICK w : w = [pc |-> "rotate", of |-> i]
    OBVIOUS
  <2>2. i \in 1..MaxSessions
    BY LenProperties, AccountsAssumption DEF SessionsOK
  <2>3. WorkOK(w)
    BY <2>1, <2>2 DEF WorkOK
  <2>4. Points(w)'
    BY <1>1, <2>1 DEF Points
  <2>5. Enter(r, w)
    BY <1>10, <2>1 DEF Refresh
  <2>6. WorksOK'
    BY <1>2, <2>3, <2>4, <2>5, Entered
  <2> QED BY <1>2, <1>10, <2>6 DEF Refresh, Tables
<1>11. ASSUME NEW i \in DOMAIN sessions, NEW f \in Firms, SelectBusiness(r, i, f) PROVE AccountsInv'
  <2>1. PICK m : m = IF sessions[i].version = person[sessions[i].who].version THEN {} ELSE {"credentials"}
    OBVIOUS
  <2>2. PICK w : w = Issuing(sessions[i].who, f, 0, sessions[i].version, m)
    OBVIOUS
  <2>3. m \in Missed
    BY <2>1 DEF Missed
  <2>4. sessions[i].who \in People /\ sessions[i].version \in 0..MaxVersion
    BY <1>0 DEF Session
  <2>5. WorkOK(w) /\ w.pc = "issue"
    BY <2>2, <2>3, <2>4, AccountsAssumption DEF Issuing, WorkOK
  <2>6. Enter(r, w)
    BY <1>11, <2>1, <2>2 DEF SelectBusiness
  <2>7. WorksOK'
    BY <1>3, <2>5, <2>6
  <2> QED BY <1>2, <1>11, <2>7 DEF SelectBusiness, Tables
<1>12. ASSUME NEW l \in Links, ConfirmPasswordReset(r, l) PROVE AccountsInv'
  <2>1. PICK w : w = [pc |-> "setPassword", who |-> link[l].who, by |-> {l}]
    OBVIOUS
  <2>2. link[l].who \in People
    BY <1>12 DEF ConfirmPasswordReset, Tables, Link, Unsent
  <2>3. WorkOK(w) /\ w.pc = "setPassword"
    BY <2>1, <2>2 DEF WorkOK
  <2>4. WorksOK'
    BY <1>3, <1>12, <2>1, <2>3 DEF ConfirmPasswordReset
  <2> QED BY <1>2, <1>12, <2>4 DEF ConfirmPasswordReset, Tables
<1> QED BY <1>4, <1>5, <1>6, <1>7, <1>8, <1>9, <1>10, <1>11, <1>12 DEF Begin

LEMMA KeptHolds == ASSUME Kept PROVE Holders
BY DEF Kept, Holders

\* One step of a request, and its death.
LEMMA ContinueTypes ==
    ASSUME AccountsInv, NEW r \in Requests, Continue(r)
    PROVE  AccountsInv'
<1> USE DEF AccountsInv
<1>0. /\ WorkOK(req[r]) /\ Points(req[r])
      /\ \A i \in DOMAIN sessions : sessions[i] \in Session
  BY ElementOfSeq, LenProperties DEF SessionsOK, WorksOK
<1>1. ASSUME NEW w, Enter(r, w), WorkOK(w), w.pc \notin {"rotate", "renew"}, Kept
      PROVE  WorksOK'
  BY <1>1, KeptHolds, Entered DEF Points
<1>2. ASSUME UNCHANGED sessions PROVE Kept /\ SessionsOK'
  BY <1>2, SameSessions
<1>3. ASSUME Leave(r), Holders PROVE WorksOK'
  BY <1>3, Left
<1>4. PICK old : old = req[r]
  OBVIOUS
<1>5. WorkOK(old) /\ Points(old)
  BY <1>0, <1>4
<1>6. CASE Choose(r)
  <2>1. UNCHANGED <<person, member, cleaner, sessions, link, deaths, undone>> /\ old.pc = "choose"
    BY <1>4, <1>6 DEF Choose, At
  <2>2. CASE Leave(r)
    BY <1>2, <1>3, <2>1, <2>2, KeptHolds DEF Tables
  <2>3. CASE \E f \in Firms \cup {NoFirm} : Enter(r, Issuing(old.who, f, 0, old.version, old.missed))
    <3>1. PICK f \in Firms \cup {NoFirm} : Enter(r, Issuing(old.who, f, 0, old.version, old.missed))
      BY <2>3
    <3>2. PICK w : w = Issuing(old.who, f, 0, old.version, old.missed)
      OBVIOUS
    <3>3. WorkOK(w) /\ w.pc = "issue"
      BY <1>5, <2>1, <3>2, WorkKinds, AccountsAssumption DEF Issuing, WorkOK
    <3>4. WorksOK'
      BY <1>1, <1>2, <2>1, <3>1, <3>2, <3>3
    <3> QED BY <1>2, <2>1, <3>4 DEF Tables
  <2>4. Leave(r) \/ \E f \in Firms \cup {NoFirm} : Enter(r, Issuing(old.who, f, 0, old.version, old.missed))
    <3>1. Workspaces(old.who) \subseteq Firms
      BY DEF Workspaces, Staffs, Cleans
    <3> QED BY <1>4, <1>6, <3>1 DEF Choose
  <2> QED BY <2>2, <2>3, <2>4
<1>7. CASE Rotate(r)
  <2>1. /\ UNCHANGED <<person, member, cleaner, link, deaths, undone>> /\ old.pc = "rotate"
        /\ old.of \in DOMAIN sessions /\ old.of \in 1..MaxSessions
    BY <1>4, <1>5, <1>7, WorkKinds DEF Rotate, At, Points
  <2>2. CASE sessions[old.of].live
    <3>1. sessions' = [sessions EXCEPT ![old.of].live = FALSE] /\ Enter(r, Renewing(old.of))
      BY <1>4, <1>7, <2>2 DEF Rotate
    <3>2. Kept /\ SessionsOK'
      BY <2>1, <3>1, OneEnded
    <3>3. PICK w : w = Renewing(old.of)
      OBVIOUS
    <3>4. sessions[old.of].who \in People /\ sessions[old.of].missed \in Missed
      BY <1>0, <2>1 DEF Session
    <3>5. WorkOK(w)
      BY <2>1, <3>3, <3>4 DEF WorkOK, Renewing
    <3>6. Points(w)'
      BY <2>1, <3>2, <3>3 DEF Points, Renewing, Kept
    <3>7. WorksOK'
      BY <3>1, <3>2, <3>3, <3>5, <3>6, KeptHolds, Entered
    <3> QED BY <2>1, <3>2, <3>7 DEF Tables
  <2>3. CASE ~sessions[old.of].live
    <3>1. UNCHANGED sessions /\ Leave(r)
      BY <1>4, <1>7, <2>3 DEF Rotate
    <3> QED BY <1>2, <1>3, <2>1, <3>1, KeptHolds DEF Tables
  <2> QED BY <2>2, <2>3
<1>8. CASE Renew(r)
  <2>1. /\ UNCHANGED <<person, member, cleaner, sessions, link, deaths, undone>> /\ old.pc = "renew"
        /\ old.of \in DOMAIN sessions /\ old.of \in 1..MaxSessions
    BY <1>4, <1>5, <1>8, WorkKinds DEF Renew, At, Points
  <2>2. CASE Leave(r)
    BY <1>2, <1>3, <2>1, <2>2, KeptHolds DEF Tables
  <2>3. CASE \E f \in Firms \cup {NoFirm} :
               Enter(r, Issuing(old.who, f, old.of, sessions[old.of].version, old.missed))
    <3>1. PICK f \in Firms \cup {NoFirm} :
               Enter(r, Issuing(old.who, f, old.of, sessions[old.of].version, old.missed))
      BY <2>3
    <3>2. PICK w : w = Issuing(old.who, f, old.of, sessions[old.of].version, old.missed)
      OBVIOUS
    <3>3. sessions[old.of].version \in 0..MaxVersion
      BY <1>0, <2>1 DEF Session
    <3>4. WorkOK(w) /\ w.pc = "issue"
      BY <1>5, <2>1, <3>2, <3>3, WorkKinds, AccountsAssumption DEF Issuing, WorkOK
    <3>5. WorksOK'
      BY <1>1, <1>2, <2>1, <3>1, <3>2, <3>4
    <3> QED BY <1>2, <2>1, <3>5 DEF Tables
  <2>4. \/ Leave(r)
        \/ \E f \in Firms \cup {NoFirm} :
               Enter(r, Issuing(old.who, f, old.of, sessions[old.of].version, old.missed))
    <3>1. sessions[old.of].at \in Firms \cup {NoFirm}
      BY <1>0, <2>1 DEF Session
    <3>2. Staffs(old.who) \subseteq Firms /\ Cleans(old.who) \subseteq Firms
      BY DEF Staffs, Cleans
    <3>3. (CASE sessions[old.of].at \in Workspaces(old.who) -> {sessions[old.of].at}
             [] Staffs(old.who) # {} -> Staffs(old.who)
             [] Cleans(old.who) # {} -> Cleans(old.who)
             [] OTHER -> {NoFirm}) \subseteq Firms \cup {NoFirm}
      BY <3>1, <3>2
    <3> QED BY <1>4, <1>8, <3>3 DEF Renew
  <2> QED BY <2>2, <2>3, <2>4
<1>9. CASE IssueSession(r)
  <2>1. /\ UNCHANGED <<person, member, cleaner, link, deaths, undone>> /\ old.pc = "issue"
        /\ Len(sessions) < MaxSessions /\ Leave(r)
    BY <1>4, <1>9 DEF IssueSession, At
  <2>2. PICK s : s = [who |-> old.who, at |-> old.at, of |-> old.of, version |-> old.version,
                      missed |-> old.missed, live |-> TRUE]
    OBVIOUS
  <2>3. s \in Session
    BY <1>5, <2>1, <2>2, WorkKinds DEF Session
  <2>4. sessions' = Append(sessions, s)
    BY <1>4, <1>9, <2>2 DEF IssueSession
  <2>5. SessionsOK' /\ Holders
    BY <2>1, <2>3, <2>4, OneIssued DEF Holders
  <2> QED BY <1>3, <2>1, <2>5 DEF Tables
<1>10. ASSUME old.pc \in {"setPassword", "disable"}, NEW pc \in {"endSessions", "markUsed"},
              Enter(r, [old EXCEPT !.pc = pc]), UNCHANGED sessions
       PROVE  WorksOK' /\ SessionsOK'
  <2>1. PICK w : w = [old EXCEPT !.pc = pc]
    OBVIOUS
  <2>2. old = [pc |-> old.pc, who |-> old.who, by |-> old.by] /\ old.who \in People /\ old.by \subseteq Links
    BY <1>5, <1>10, WorkKinds
  <2>3. w = [pc |-> pc, who |-> old.who, by |-> old.by]
    BY <2>1, <2>2
  <2>4. WorkOK(w) /\ w.pc \notin {"rotate", "renew"}
    BY <2>2, <2>3 DEF WorkOK
  <2> QED BY <1>1, <1>2, <1>10, <2>1, <2>4
<1>11. CASE SetPassword(r)
  <2>1. old.pc = "setPassword" /\ old.who \in People /\ UNCHANGED <<member, cleaner, sessions, link, deaths, undone>>
    BY <1>4, <1>5, <1>11, WorkKinds DEF SetPassword, At
  <2>2. PICK acct \in Person : acct = person[old.who]
    BY <2>1 DEF Tables
  <2>3. acct.version < MaxVersion /\ person' = [person EXCEPT ![old.who] = [acct EXCEPT !.version = @ + 1]]
    BY <1>4, <1>11, <2>2 DEF SetPassword
  <2>4. [acct EXCEPT !.version = @ + 1] \in Person
    BY <2>2, <2>3, AccountsAssumption DEF Person, NoAccount
  <2>5. WorksOK' /\ SessionsOK'
    <3>1. CASE req[r].by = {}
      BY <1>4, <1>10, <1>11, <2>1, <3>1 DEF SetPassword
    <3>2. CASE req[r].by # {}
      BY <1>4, <1>10, <1>11, <2>1, <3>2 DEF SetPassword
    <3> QED BY <3>1, <3>2
  <2> QED BY <2>1, <2>3, <2>4, <2>5 DEF Tables
<1>12. CASE MarkUsed(r)
  <2>1. old.pc = "markUsed" /\ UNCHANGED <<person, member, cleaner, sessions, deaths, undone>>
    BY <1>4, <1>12 DEF MarkUsed, At
  <2>2. ASSUME NEW l \in Links, l \in req[r].by
        PROVE  [link[l] EXCEPT !.used = TRUE] \in Link \cup {Unsent}
    <3>1. PICK k \in Link \cup {Unsent} : k = link[l]
      BY DEF Tables
    <3>2. CASE k \in Link
      <4>1. [k EXCEPT !.used = TRUE] \in Link
        BY <3>2 DEF Link
      <4> QED BY <3>1, <4>1
    <3>3. CASE k = Unsent
      <4>1. k \in [used : {TRUE}]
        BY <3>3 DEF Unsent
      <4>2. [k EXCEPT !.used = TRUE] \in [used : {TRUE}]
        BY <4>1
      <4>3. ASSUME NEW u \in [used : {TRUE}] PROVE u = Unsent
        BY DEF Unsent
      <4> QED BY <3>1, <4>2, <4>3
    <3> QED BY <3>1, <3>2, <3>3
  <2>3. link' \in [Links -> Link \cup {Unsent}]
    BY <1>12, <2>2 DEF MarkUsed, Tables
  <2>4. old = [pc |-> old.pc, who |-> old.who, by |-> old.by] /\ old.who \in People /\ old.by \subseteq Links
    BY <1>5, <2>1, WorkKinds
  <2>5. PICK w : w = [old EXCEPT !.pc = "endSessions"]
    OBVIOUS
  <2>6. w = [pc |-> "endSessions", who |-> old.who, by |-> old.by]
    BY <2>4, <2>5
  <2>7. WorkOK(w) /\ w.pc \notin {"rotate", "renew"}
    BY <2>4, <2>6 DEF WorkOK
  <2>8. WorksOK'
    BY <1>1, <1>2, <1>4, <1>12, <2>1, <2>5, <2>7 DEF MarkUsed
  <2> QED BY <1>2, <2>1, <2>3, <2>8 DEF Tables
<1>13. CASE Enable2FA(r)
  <2>1. /\ old.pc = "enable" /\ old.who \in People /\ UNCHANGED <<member, cleaner, sessions, link, deaths, undone>>
        /\ Leave(r)
    BY <1>4, <1>5, <1>13, WorkKinds DEF Enable2FA, At
  <2>2. PICK acct \in Person : acct = person[old.who]
    BY <2>1 DEF Tables
  <2>3. person' = [person EXCEPT ![old.who] = [acct EXCEPT !.enabled = TRUE]]
    BY <1>4, <1>13, <2>2 DEF Enable2FA
  <2>4. [acct EXCEPT !.enabled = TRUE] \in Person
    BY <2>2 DEF Person
  <2> QED BY <1>2, <1>3, <2>1, <2>3, <2>4, KeptHolds DEF Tables
<1>14. CASE Disabled(r)
  <2>1. old.pc = "disable" /\ old.who \in People /\ UNCHANGED <<member, cleaner, sessions, link, deaths, undone>>
    BY <1>4, <1>5, <1>14, WorkKinds DEF Disabled, At
  <2>2. PICK acct \in Person : acct = person[old.who]
    BY <2>1 DEF Tables
  <2>3. acct.version < MaxVersion
    BY <1>4, <1>14, <2>2 DEF Disabled
  <2>4. PICK v : v = acct.version + 1
    OBVIOUS
  <2>6. v \in NoAccount..MaxVersion
    BY <2>2, <2>3, <2>4, AccountsAssumption DEF Person, NoAccount
  <2>7. [acct EXCEPT !.enabled = FALSE, !.secret = FALSE, !.version = v] \in Person
    BY <2>2, <2>6 DEF Person
  <2>8. person' = [person EXCEPT ![old.who] = [acct EXCEPT !.enabled = FALSE, !.secret = FALSE, !.version = v]]
    BY <1>4, <1>14, <2>1, <2>2, <2>4 DEF Disabled, Tables, Person
  <2>5. WorksOK' /\ SessionsOK'
    BY <1>4, <1>10, <1>14, <2>1 DEF Disabled
  <2> QED BY <2>1, <2>5, <2>7, <2>8 DEF Tables
<1>15. CASE EndSessions(r)
  <2>1. Kept /\ SessionsOK'
    BY <1>15, SomeEnded DEF EndSessions
  <2>2. PICK p : p = req[r].who
    OBVIOUS
  <2>3. req' = [Noted(p, "credentials", Firms) EXCEPT ![r] = Quiet]
    BY <1>15, <2>2 DEF EndSessions
  <2>4. WorksOK'
    BY <2>1, <2>3, KeptHolds, NotedAndLeft
  <2> QED BY <1>15, <2>1, <2>4 DEF EndSessions, Tables
<1>16. CASE EndWorkspace(r)
  <2>1. PICK p : p = req[r].who
    OBVIOUS
  <2>2. PICK places : places = {req[r].at}
    OBVIOUS
  <2>3. sessions' = Deleted(p, places) /\ req' = [Noted(p, "workspace", places) EXCEPT ![r] = Quiet]
    BY <1>16, <2>1, <2>2 DEF EndWorkspace
  <2>4. Kept /\ SessionsOK'
    BY <2>3, SomeEnded
  <2>5. WorksOK'
    BY <2>3, <2>4, KeptHolds, NotedAndLeft
  <2> QED BY <1>16, <2>4, <2>5 DEF EndWorkspace, Tables
<1>17. CASE Die(r)
  <2>1. /\ Leave(r) /\ UNCHANGED <<person, member, cleaner, sessions, link>>
        /\ deaths < MaxDeaths /\ deaths' = deaths + 1
    BY <1>17 DEF Die
  <2>2. undone' \subseteq People
    BY <1>5, <1>4, <1>17, WorkKinds DEF Die, Tables
  <2>3. deaths' \in 0..MaxDeaths
    BY <2>1, AccountsAssumption DEF Tables
  <2> QED BY <1>2, <1>3, <2>1, <2>2, <2>3, KeptHolds DEF Tables
<1> QED BY <1>6, <1>7, <1>8, <1>9, <1>11, <1>12, <1>13, <1>14, <1>15, <1>16, <1>17 DEF Continue

\* A statement that needs no second one.
LEMMA AtOnceTypes ==
    ASSUME AccountsInv, AtOnce
    PROVE  AccountsInv'
<1> USE DEF AccountsInv
<1>1. ASSUME UNCHANGED <<sessions, req>> PROVE SessionsOK' /\ WorksOK'
  BY <1>1 DEF SessionsOK, WorksOK, Points
<1>2. ASSUME NEW i \in DOMAIN sessions, Logout(i) PROVE AccountsInv'
  <2>1. Kept /\ SessionsOK' /\ UNCHANGED req
    BY <1>2, OneEnded DEF Logout
  <2>2. ASSUME NEW q \in Requests PROVE WorkOK(req[q])' /\ Points(req[q])'
    BY <2>1 DEF WorksOK, Points, Kept
  <2>3. WorksOK'
    BY <2>1, <2>2 DEF WorksOK
  <2> QED BY <1>2, <2>1, <2>3 DEF Logout, Tables
<1>3. ASSUME NEW l \in Links, NEW p \in People, RequestPasswordReset(l, p) PROVE AccountsInv'
  BY <1>1, <1>3, MailedOK DEF RequestPasswordReset, Tables
<1>4. ASSUME NEW p \in People, Generate2FASecret(p) PROVE AccountsInv'
  <2>1. PICK acct \in Person : acct = person[p]
    BY DEF Tables
  <2>2. [acct EXCEPT !.secret = TRUE] \in Person
    BY <2>1 DEF Person
  <2>3. person' \in [People -> Person]
    BY <1>4, <2>1, <2>2 DEF Generate2FASecret, Tables
  <2> QED BY <1>1, <1>4, <2>3 DEF Generate2FASecret, Tables
<1>5. ASSUME NEW p \in People, NEW on \in BOOLEAN, SetUserActive(p, on) PROVE AccountsInv'
  <2>1. PICK acct \in Person : acct = person[p]
    BY DEF Tables
  <2>2. [acct EXCEPT !.active = on] \in Person
    BY <2>1 DEF Person
  <2>3. person' \in [People -> Person]
    BY <1>5, <2>1, <2>2 DEF SetUserActive, Tables
  <2> QED BY <1>1, <1>5, <2>3 DEF SetUserActive, Tables
<1>6. ASSUME NEW f \in Firms, NEW p \in People, NEW role \in Roles, InviteMember(f, p, role) PROVE AccountsInv'
  <2>1. [role |-> role, active |-> TRUE] \in Member
    BY DEF Member
  <2>2. member' \in [Firms -> [People -> Member]]
    BY <1>6, <2>1 DEF InviteMember, Tables
  <2> QED BY <1>1, <1>6, <2>2, KnownOK DEF InviteMember, Tables
<1>7. ASSUME NEW f \in Firms, NEW p \in People, NEW role \in Roles, UpdateMemberRole(f, p, role) PROVE AccountsInv'
  <2>1. PICK old \in Member : old = member[f][p]
    BY DEF Tables
  <2>2. [old EXCEPT !.role = role] \in Member
    BY <2>1 DEF Member
  <2>3. PICK staff \in [People -> Member] : staff = member[f]
    BY DEF Tables
  <2>4. [staff EXCEPT ![p] = [old EXCEPT !.role = role]] \in [People -> Member]
    BY <2>2
  <2>5. member' = [member EXCEPT ![f] = [staff EXCEPT ![p] = [old EXCEPT !.role = role]]]
    BY <1>7, <2>1, <2>3 DEF UpdateMemberRole
  <2> QED BY <1>1, <1>7, <2>4, <2>5 DEF UpdateMemberRole, Tables
<1>8. ASSUME NEW f \in Firms, NEW p \in People, OnboardCleaner(f, p) PROVE AccountsInv'
  BY <1>1, <1>8, KnownOK DEF OnboardCleaner, Tables
<1>9. ASSUME NEW f \in Firms, NEW p \in People, ReactivateCleaner(f, p) PROVE AccountsInv'
  BY <1>1, <1>9 DEF ReactivateCleaner, Tables
<1>10. ASSUME NEW f \in Firms, NEW p \in People, NEW status \in {"SUSPENDED", "OFFBOARDED"},
              ReleaseCleaner(f, p, status)
       PROVE  AccountsInv'
  <2>1. Kept /\ SessionsOK'
    BY <1>10, SomeEnded DEF ReleaseCleaner
  <2>2. WorksOK'
    BY <1>10, <2>1, KeptHolds, NotedOnly DEF ReleaseCleaner
  <2> QED BY <1>10, <2>1, <2>2 DEF ReleaseCleaner, Tables
<1> QED BY <1>2, <1>3, <1>4, <1>5, <1>6, <1>7, <1>8, <1>9, <1>10 DEF AtOnce

LEMMA AccountsNextTypes ==
    ASSUME AccountsInv, [AccountsNext]_accountVars
    PROVE  AccountsInv'
<1>1. CASE AccountsNext
  BY <1>1, BeginTypes, ContinueTypes, AtOnceTypes DEF AccountsNext
<1>2. CASE UNCHANGED accountVars
  BY <1>2 DEF accountVars, AccountsInv, Tables, SessionsOK, WorksOK, Points
<1> QED BY <1>1, <1>2

LEMMA AccountsTyped == AccountsSpec => []AccountsInv
BY AccountsStart, AccountsNextTypes, PTL DEF AccountsSpec

-----------------------------------------------------------------------------
(* A session is renewed once *)

\* The session that a request is about to renew, or 0.
Carried(w) == IF w.pc \in {"renew", "issue"} THEN w.of ELSE 0

\* A session has a successor only when it is over; who is about to renew one
\* has ended it, is alone in this, and comes before any successor.
SuccInv ==
    /\ \A j \in DOMAIN sessions : sessions[j].of # 0 =>
         sessions[j].of \in DOMAIN sessions /\ ~sessions[sessions[j].of].live
    /\ OneSuccessor
    /\ \A r \in Requests : Carried(req[r]) # 0 =>
         /\ Carried(req[r]) \in DOMAIN sessions /\ ~sessions[Carried(req[r])].live
         /\ \A j \in DOMAIN sessions : sessions[j].of # Carried(req[r])
    /\ \A r, q \in Requests : Carried(req[r]) # 0 /\ Carried(req[r]) = Carried(req[q]) => r = q

\* Nothing is taken up that was not carried before.
TakesUpNothing == Kept /\ \A q \in Requests : Carried(req'[q]) \in {0, Carried(req[q])}

LEMMA SuccCalm == ASSUME SuccInv, TakesUpNothing PROVE SuccInv'
<1>1. \A j \in DOMAIN sessions' : /\ j \in DOMAIN sessions /\ sessions'[j].of = sessions[j].of
                                  /\ sessions'[j].live => sessions[j].live
  BY DEF TakesUpNothing, Kept
<1>2. DOMAIN sessions' = DOMAIN sessions
  BY DEF TakesUpNothing, Kept
<1>3. \A q \in Requests : Carried(req'[q]) # 0 => Carried(req'[q]) = Carried(req[q])
  BY DEF TakesUpNothing
<1>4. ASSUME NEW j \in DOMAIN sessions', sessions'[j].of # 0
      PROVE  sessions'[j].of \in DOMAIN sessions' /\ ~sessions'[sessions'[j].of].live
  BY <1>1, <1>2, <1>4 DEF SuccInv
<1>5. OneSuccessor'
  BY <1>1 DEF SuccInv, OneSuccessor
<1>6. ASSUME NEW r \in Requests, Carried(req'[r]) # 0
      PROVE  /\ Carried(req'[r]) \in DOMAIN sessions' /\ ~sessions'[Carried(req'[r])].live
             /\ \A j \in DOMAIN sessions' : sessions'[j].of # Carried(req'[r])
  BY <1>1, <1>2, <1>3, <1>6 DEF SuccInv
<1>7. ASSUME NEW r \in Requests, NEW q \in Requests, Carried(req'[r]) # 0, Carried(req'[r]) = Carried(req'[q])
      PROVE  r = q
  BY <1>3, <1>7 DEF SuccInv
<1>8. \A r \in Requests : Carried(req[r])' = Carried(req'[r])
  BY DEF Carried
<1> QED BY <1>4, <1>5, <1>6, <1>7, <1>8 DEF SuccInv

\* A request that enters a place with w in its hands.
LEMMA CalmEnter ==
    ASSUME WorksOK, NEW r \in Requests, NEW w, Enter(r, w), Carried(w) \in {0, Carried(req[r])}, Kept
    PROVE  TakesUpNothing
<1>1. \A q \in Requests : req'[q] = IF q = r THEN w ELSE req[q]
  BY DEF WorksOK, Enter
<1> QED BY <1>1 DEF TakesUpNothing

LEMMA CalmLeave ==
    ASSUME WorksOK, NEW r \in Requests, Leave(r), Kept
    PROVE  TakesUpNothing
<1>1. Carried(Quiet) = 0
  BY DEF Carried, Quiet
<1> QED BY <1>1, CalmEnter DEF Leave

LEMMA CalmMissing ==
    ASSUME WorksOK, Kept, NEW p, NEW what \in {"credentials", "workspace"}, NEW places,
           NEW rs \in SUBSET Requests, TheyMiss(p, what, places, rs)
    PROVE  TakesUpNothing
<1>1. ASSUME NEW q \in Requests PROVE Carried(req'[q]) \in {0, Carried(req[q])}
  <2>1. CASE q \in rs
    BY <2>1 DEF TheyMiss, Carried, Quiet
  <2>2. CASE q \notin rs
    <3>1. PICK w : w = req[q]
      OBVIOUS
    <3>2. WorkOK(w)
      BY <3>1 DEF WorksOK
    <3>3. CASE req'[q] = w
      BY <3>1, <3>3
    <3>4. CASE w.pc \in {"choose", "renew", "issue"} /\ req'[q] = [w EXCEPT !.missed = @ \cup {what}]
      <4>1. PICK v : v = [w EXCEPT !.missed = @ \cup {what}]
        OBVIOUS
      <4>2. v.pc = w.pc /\ (w.pc \in {"renew", "issue"} => v.of = w.of)
        BY <3>2, <3>4, <4>1, MissedKinds
      <4>3. Carried(v) \in {0, Carried(w)}
        BY <4>2 DEF Carried
      <4> QED BY <3>1, <3>4, <4>1, <4>3
    <3> QED BY <2>2, <3>1, <3>3, <3>4 DEF TheyMiss, MissedIt
  <2> QED BY <2>1, <2>2
<1> QED BY <1>1 DEF TakesUpNothing

LEMMA SuccBegin ==
    ASSUME AccountsInv, NEW r \in Requests, Begin(r)
    PROVE  TakesUpNothing
<1>1. UNCHANGED sessions
  BY DEF Begin, Register, RemoveMember, Login, ChangePassword, Verify2FA, Disable2FA, Refresh, SelectBusiness,
         ConfirmPasswordReset
<1>2. Kept /\ WorksOK
  BY <1>1, SameSessions DEF AccountsInv
<1>3. ASSUME NEW w, Enter(r, w), Carried(w) = 0 PROVE TakesUpNothing
  BY <1>2, <1>3, CalmEnter
<1>4. ASSUME NEW f \in Firms, NEW p \in People, Register(r, f, p) \/ RemoveMember(r, f, p) PROVE TakesUpNothing
  <2>1. Carried(Issuing(p, f, 0, 1, {})) = 0 /\ Carried([pc |-> "endWorkspace", who |-> p, at |-> f]) = 0
    BY DEF Carried, Issuing
  <2> QED BY <1>3, <1>4, <2>1 DEF Register, RemoveMember
<1>5. ASSUME NEW p \in People, Login(r, p) \/ ChangePassword(r, p) \/ Verify2FA(r, p) \/ Disable2FA(r, p) PROVE TakesUpNothing
  <2>1. PICK w : /\ Enter(r, w)
                 /\ \/ w = [pc |-> "choose", who |-> p, version |-> person[p].version, missed |-> {}]
                    \/ w = [pc |-> "setPassword", who |-> p, by |-> {}]
                    \/ w = [pc |-> "enable", who |-> p]
                    \/ w = [pc |-> "disable", who |-> p, by |-> {}]
    BY <1>5 DEF Login, ChangePassword, Verify2FA, Disable2FA
  <2>2. Carried(w) = 0
    BY <2>1 DEF Carried
  <2> QED BY <1>3, <2>1, <2>2
<1>6. ASSUME NEW i \in DOMAIN sessions, Refresh(r, i) PROVE TakesUpNothing
  <2>1. Carried([pc |-> "rotate", of |-> i]) = 0
    BY DEF Carried
  <2> QED BY <1>3, <1>6, <2>1 DEF Refresh
<1>7. ASSUME NEW i \in DOMAIN sessions, NEW f \in Firms, SelectBusiness(r, i, f) PROVE TakesUpNothing
  <2>1. PICK w, v, m : Enter(r, w) /\ w = Issuing(sessions[i].who, f, 0, v, m)
    BY <1>7 DEF SelectBusiness
  <2>2. Carried(w) = 0
    BY <2>1 DEF Carried, Issuing
  <2> QED BY <1>3, <2>1, <2>2
<1>8. ASSUME NEW l \in Links, ConfirmPasswordReset(r, l) PROVE TakesUpNothing
  <2>1. PICK w : Enter(r, w) /\ w = [pc |-> "setPassword", who |-> link[l].who, by |-> {l}]
    BY <1>8 DEF ConfirmPasswordReset
  <2>2. Carried(w) = 0
    BY <2>1 DEF Carried
  <2> QED BY <1>3, <2>1, <2>2
<1> QED BY <1>4, <1>5, <1>6, <1>7, <1>8 DEF Begin

LEMMA SuccAtOnce ==
    ASSUME AccountsInv, AtOnce
    PROVE  TakesUpNothing
<1>0. SessionsOK /\ WorksOK
  BY DEF AccountsInv
<1>1. ASSUME UNCHANGED <<sessions, req>> PROVE TakesUpNothing
  BY <1>0, <1>1, SameSessions DEF TakesUpNothing
<1>2. ASSUME NEW i \in DOMAIN sessions, Logout(i) PROVE TakesUpNothing
  BY <1>0, <1>2, OneEnded DEF Logout, TakesUpNothing
<1>3. ASSUME NEW f \in Firms, NEW p \in People, NEW status, ReleaseCleaner(f, p, status) PROVE TakesUpNothing
  <2>1. Kept
    BY <1>0, <1>3, SomeEnded DEF ReleaseCleaner
  <2>2. TheyMiss(p, "workspace", {f}, {})
    BY <1>0, <1>3, <2>1, KeptHolds, NotedOnly DEF ReleaseCleaner
  <2> QED BY <1>0, <2>1, <2>2, CalmMissing
<1>4. UNCHANGED <<sessions, req>> \/ (\E i \in DOMAIN sessions : Logout(i))
        \/ \E f \in Firms, p \in People, status \in {"SUSPENDED", "OFFBOARDED"} : ReleaseCleaner(f, p, status)
  BY DEF AtOnce, RequestPasswordReset, Generate2FASecret, SetUserActive, InviteMember, UpdateMemberRole,
         OnboardCleaner, ReactivateCleaner
<1> QED BY <1>1, <1>2, <1>3, <1>4

LEMMA SuccRotate ==
    ASSUME AccountsInv, SuccInv, NEW r \in Requests, Rotate(r)
    PROVE  SuccInv'
<1>0. SessionsOK /\ WorksOK /\ WorkOK(req[r]) /\ Points(req[r]) /\ At(r, "rotate")
  BY DEF AccountsInv, WorksOK, Rotate
<1>1. PICK i : i = req[r].of
  OBVIOUS
<1>2. i \in DOMAIN sessions /\ i \in 1..MaxSessions /\ Carried(req[r]) = 0
  BY <1>0, <1>1, WorkKinds DEF Points, At, Carried
<1>3. CASE ~sessions[i].live
  <2>1. UNCHANGED sessions /\ Leave(r)
    BY <1>1, <1>3 DEF Rotate
  <2> QED BY <1>0, <2>1, SameSessions, CalmLeave, SuccCalm
<1>4. CASE sessions[i].live
  <2>1. PICK w : w = Renewing(i)
    OBVIOUS
  <2>2. sessions' = [sessions EXCEPT ![i].live = FALSE] /\ Enter(r, w)
    BY <1>1, <1>4, <2>1 DEF Rotate
  <2>3. Kept /\ ~sessions'[i].live
    BY <1>0, <1>2, <2>2, OneEnded
  <2>4. \A q \in Requests : req'[q] = IF q = r THEN w ELSE req[q]
    BY <1>0, <2>2 DEF Enter, WorksOK
  <2>5. Carried(w) = i /\ i # 0
    BY <1>2, <2>1, AccountsAssumption DEF Carried, Renewing
  <2>6. \A j \in DOMAIN sessions : /\ sessions'[j].of = sessions[j].of /\ (sessions'[j].live => sessions[j].live)
                                   /\ sessions[j].of # i
    BY <1>2, <1>4, <2>3, <2>5 DEF Kept, SuccInv
  <2>7. \A q \in Requests : Carried(req[q]) # i
    BY <1>4, <2>5 DEF SuccInv
  <2>8. DOMAIN sessions' = DOMAIN sessions
    BY <2>3 DEF Kept
  <2>9. \A q \in Requests : Carried(req'[q]) = IF q = r THEN i ELSE Carried(req[q])
    BY <2>4, <2>5
  <2>10. ASSUME NEW j \in DOMAIN sessions', sessions'[j].of # 0
         PROVE  sessions'[j].of \in DOMAIN sessions' /\ ~sessions'[sessions'[j].of].live
    BY <2>6, <2>8, <2>10 DEF SuccInv
  <2>11. OneSuccessor'
    BY <2>6, <2>8 DEF SuccInv, OneSuccessor
  <2>12. ASSUME NEW q \in Requests, Carried(req'[q]) # 0
         PROVE  /\ Carried(req'[q]) \in DOMAIN sessions' /\ ~sessions'[Carried(req'[q])].live
                /\ \A j \in DOMAIN sessions' : sessions'[j].of # Carried(req'[q])
    <3>1. CASE q = r
      BY <1>2, <2>3, <2>6, <2>8, <2>9, <3>1
    <3>2. CASE q # r
      BY <2>6, <2>8, <2>9, <2>12, <3>2 DEF SuccInv
    <3> QED BY <3>1, <3>2
  <2>13. ASSUME NEW p \in Requests, NEW q \in Requests, Carried(req'[p]) # 0, Carried(req'[p]) = Carried(req'[q])
         PROVE  p = q
    BY <2>7, <2>9, <2>13 DEF SuccInv
  <2>14. \A q \in Requests : Carried(req[q])' = Carried(req'[q])
    BY DEF Carried
  <2> QED BY <2>10, <2>11, <2>12, <2>13, <2>14 DEF SuccInv
<1> QED BY <1>3, <1>4

LEMMA SuccIssue ==
    ASSUME AccountsInv, SuccInv, NEW r \in Requests, IssueSession(r)
    PROVE  SuccInv'
<1>0. SessionsOK /\ WorksOK /\ WorkOK(req[r]) /\ req[r].pc = "issue" /\ Len(sessions) < MaxSessions /\ Leave(r)
  BY DEF AccountsInv, WorksOK, IssueSession, At
<1>1. PICK n : n = Len(sessions) + 1
  OBVIOUS
<1>2. PICK s : s = [who |-> req[r].who, at |-> req[r].at, of |-> req[r].of, version |-> req[r].version,
                    missed |-> req[r].missed, live |-> TRUE]
  OBVIOUS
<1>3. s \in Session /\ s.of = Carried(req[r])
  BY <1>0, <1>2, WorkKinds DEF Session, Carried
<1>4. sessions' = Append(sessions, s)
  BY <1>2 DEF IssueSession
<1>5. /\ DOMAIN sessions' = DOMAIN sessions \cup {n} /\ n \notin DOMAIN sessions /\ sessions'[n] = s
      /\ \A i \in DOMAIN sessions : sessions'[i] = sessions[i]
  BY <1>0, <1>1, <1>3, <1>4, OneIssued
<1>6. \A q \in Requests : req'[q] = IF q = r THEN Quiet ELSE req[q]
  BY <1>0 DEF Leave, Enter, WorksOK
<1>7. \A q \in Requests : Carried(req'[q]) = IF q = r THEN 0 ELSE Carried(req[q])
  BY <1>6 DEF Carried, Quiet
<1>8. s.of # 0 => /\ s.of \in DOMAIN sessions /\ ~sessions[s.of].live
                  /\ \A j \in DOMAIN sessions : sessions[j].of # s.of
  BY <1>3 DEF SuccInv
<1>9. ASSUME NEW j \in DOMAIN sessions', sessions'[j].of # 0
      PROVE  sessions'[j].of \in DOMAIN sessions' /\ ~sessions'[sessions'[j].of].live
  <2>1. CASE j = n
    BY <1>5, <1>8, <1>9, <2>1
  <2>2. CASE j # n
    BY <1>5, <1>9, <2>2 DEF SuccInv
  <2> QED BY <2>1, <2>2
<1>10. OneSuccessor'
  BY <1>5, <1>8 DEF SuccInv, OneSuccessor
<1>11. ASSUME NEW q \in Requests, Carried(req'[q]) # 0
       PROVE  /\ Carried(req'[q]) \in DOMAIN sessions' /\ ~sessions'[Carried(req'[q])].live
              /\ \A j \in DOMAIN sessions' : sessions'[j].of # Carried(req'[q])
  <2>1. q # r /\ Carried(req'[q]) = Carried(req[q])
    BY <1>7, <1>11
  <2>2. Carried(req[q]) # s.of
    BY <1>3, <1>11, <2>1 DEF SuccInv
  <2> QED BY <1>5, <1>11, <2>1, <2>2 DEF SuccInv
<1>12. ASSUME NEW p \in Requests, NEW q \in Requests, Carried(req'[p]) # 0, Carried(req'[p]) = Carried(req'[q])
       PROVE  p = q
  BY <1>7, <1>12 DEF SuccInv
<1>13. \A q \in Requests : Carried(req[q])' = Carried(req'[q])
  BY DEF Carried
<1> QED BY <1>9, <1>10, <1>11, <1>12, <1>13 DEF SuccInv

LEMMA SuccContinue ==
    ASSUME AccountsInv, SuccInv, NEW r \in Requests, Continue(r)
    PROVE  SuccInv'
<1>0. SessionsOK /\ WorksOK /\ WorkOK(req[r])
  BY DEF AccountsInv, WorksOK
<1>1. PICK old : old = req[r]
  OBVIOUS
<1>2. ASSUME UNCHANGED sessions PROVE Kept
  BY <1>0, <1>2, SameSessions
<1>3. ASSUME UNCHANGED sessions, NEW w, Enter(r, w), Carried(w) \in {0, Carried(old)} PROVE SuccInv'
  BY <1>0, <1>1, <1>2, <1>3, CalmEnter, SuccCalm
<1>4. ASSUME UNCHANGED sessions, Leave(r) PROVE SuccInv'
  BY <1>0, <1>2, <1>4, CalmLeave, SuccCalm
<1>5. CASE Choose(r)
  <2>1. UNCHANGED sessions
    BY <1>5 DEF Choose
  <2>2. Leave(r) \/ \E f : Enter(r, Issuing(old.who, f, 0, old.version, old.missed))
    BY <1>1, <1>5 DEF Choose
  <2>3. ASSUME NEW f, Enter(r, Issuing(old.who, f, 0, old.version, old.missed)) PROVE SuccInv'
    <3>1. Carried(Issuing(old.who, f, 0, old.version, old.missed)) = 0
      BY DEF Carried, Issuing
    <3> QED BY <1>3, <2>1, <2>3, <3>1
  <2> QED BY <1>4, <2>1, <2>2, <2>3
<1>6. CASE Renew(r)
  <2>1. UNCHANGED sessions /\ old.pc = "renew"
    BY <1>1, <1>6 DEF Renew, At
  <2>2. Leave(r) \/ \E f : Enter(r, Issuing(old.who, f, old.of, sessions[old.of].version, old.missed))
    BY <1>1, <1>6 DEF Renew
  <2>3. ASSUME NEW f, Enter(r, Issuing(old.who, f, old.of, sessions[old.of].version, old.missed)) PROVE SuccInv'
    <3>1. PICK w : w = Issuing(old.who, f, old.of, sessions[old.of].version, old.missed)
      OBVIOUS
    <3>2. Carried(w) = Carried(old)
      BY <2>1, <3>1 DEF Carried, Issuing
    <3> QED BY <1>3, <2>1, <2>3, <3>1, <3>2
  <2> QED BY <1>4, <2>1, <2>2, <2>3
<1>7. ASSUME NEW pc \in {"endSessions", "markUsed"}, UNCHANGED sessions, Enter(r, [old EXCEPT !.pc = pc]),
             old.pc \in {"setPassword", "markUsed", "disable"}
      PROVE  SuccInv'
  <2>1. PICK w : w = [old EXCEPT !.pc = pc]
    OBVIOUS
  <2>2. old = [pc |-> old.pc, who |-> old.who, by |-> old.by]
    BY <1>0, <1>1, <1>7, WorkKinds
  <2>3. w.pc = pc
    BY <2>1, <2>2
  <2>4. Carried(w) = 0
    BY <2>3 DEF Carried
  <2> QED BY <1>3, <1>7, <2>1, <2>4
<1>8. CASE SetPassword(r)
  <2>1. CASE req[r].by = {}
    BY <1>1, <1>7, <1>8, <2>1 DEF SetPassword, At
  <2>2. CASE req[r].by # {}
    BY <1>1, <1>7, <1>8, <2>2 DEF SetPassword, At
  <2> QED BY <2>1, <2>2
<1>9. CASE MarkUsed(r)
  BY <1>1, <1>7, <1>9 DEF MarkUsed, At
<1>10. CASE Disabled(r)
  BY <1>1, <1>7, <1>10 DEF Disabled, At
<1>11. CASE Enable2FA(r) \/ Die(r)
  BY <1>4, <1>11 DEF Enable2FA, Die
<1>12. CASE EndSessions(r)
  <2>1. PICK p : p = req[r].who
    OBVIOUS
  <2>2. Kept
    BY <1>0, <1>12, SomeEnded DEF EndSessions
  <2>3. TheyMiss(p, "credentials", Firms, {r})
    BY <1>0, <1>12, <2>1, <2>2, KeptHolds, NotedAndLeft DEF EndSessions
  <2> QED BY <1>0, <2>2, <2>3, CalmMissing, SuccCalm
<1>13. CASE EndWorkspace(r)
  <2>1. PICK p : p = req[r].who
    OBVIOUS
  <2>2. PICK places : places = {req[r].at}
    OBVIOUS
  <2>3. Kept
    BY <1>0, <1>13, SomeEnded DEF EndWorkspace
  <2>4. TheyMiss(p, "workspace", places, {r})
    BY <1>0, <1>13, <2>1, <2>2, <2>3, KeptHolds, NotedAndLeft DEF EndWorkspace
  <2> QED BY <1>0, <2>3, <2>4, CalmMissing, SuccCalm
<1> QED BY <1>5, <1>6, <1>8, <1>9, <1>10, <1>11, <1>12, <1>13, SuccRotate, SuccIssue DEF Continue

LEMMA SuccHolds == AccountsSpec => []SuccInv
<1>1. AccountsInit => SuccInv
  BY DEF AccountsInit, SuccInv, OneSuccessor, Carried, Quiet
<1>2. AccountsInv /\ SuccInv /\ [AccountsNext]_accountVars => SuccInv'
  <2> SUFFICES ASSUME AccountsInv, SuccInv, [AccountsNext]_accountVars PROVE SuccInv'
    OBVIOUS
  <2>1. CASE AccountsNext
    BY <2>1, SuccBegin, SuccAtOnce, SuccContinue, SuccCalm DEF AccountsNext
  <2>2. CASE UNCHANGED accountVars
    BY <2>2 DEF accountVars, SuccInv, OneSuccessor, Carried
  <2> QED BY <2>1, <2>2
<1> QED BY <1>1, <1>2, AccountsTyped, PTL DEF AccountsSpec

-----------------------------------------------------------------------------
(* A change of credentials ends the sessions *)

Issuers == {"choose", "renew", "issue"}
Enders  == {"markUsed", "endSessions"}

\* The sessions of p are about to be ended, or will not be.
Excused(p) == p \in undone \/ \E r \in Requests : req[r].pc \in Enders /\ req[r].who = p

\* A session of p from before the last change has been excused.
Since(p, v, m) == v # person[p].version => "credentials" \in m \/ Excused(p)

\* The version that what a request will issue is to bear.
Reads(w) == IF w.pc = "renew" THEN sessions[w.of].version ELSE w.version

\* SignedInSince, of the sessions there are and of those to come.
SinceInv ==
    /\ \A i \in DOMAIN sessions : sessions[i].live => Since(sessions[i].who, sessions[i].version, sessions[i].missed)
    /\ \A q \in Requests : req[q].pc \in Issuers => Since(req[q].who, Reads(req[q]), req[q].missed)

\* The excuse outlives the step, and a new version comes with one.
Stays(p) ==
    /\ Excused(p) => Excused(p)'
    /\ person'[p].version = person[p].version \/ person[p].version = NoAccount \/ Excused(p)'

\* What the request is to issue it was to issue before, or it is all right.
Same(q) ==
    /\ req[q].pc \in Issuers /\ req'[q].who = req[q].who /\ Reads(req[q])' = Reads(req[q])
    /\ req[q].missed \subseteq req'[q].missed

Issues(q) == req'[q].pc \in Issuers => Same(q) \/ Since(req[q].who, Reads(req[q]), req[q].missed)'

LEMMA SinceStays ==
    ASSUME NEW p \in People, NEW v \in 0..MaxVersion, NEW m, NEW n, m \subseteq n, Since(p, v, m), Stays(p)
    PROVE  Since(p, v, n)'
<1>1. v # NoAccount
  BY AccountsAssumption DEF NoAccount
<1> QED BY <1>1 DEF Since, Stays

\* Who is about to end sessions goes on to, or is recorded to have died.
LEMMA ExcuseStays ==
    ASSUME undone \subseteq undone',
           \A q \in Requests : req[q].pc \in Enders =>
             (req'[q].pc \in Enders /\ req'[q].who = req[q].who) \/ req[q].who \in undone'
    PROVE  \A p : Excused(p) => Excused(p)'
BY DEF Excused

\* The types of what a session and a request say.
LEMMA SaysTypes ==
    ASSUME AccountsInv
    PROVE  /\ \A i \in DOMAIN sessions : sessions[i] \in Session
           /\ \A q \in Requests : req[q].pc \in Issuers =>
                req[q].who \in People /\ Reads(req[q]) \in 0..MaxVersion /\ req[q].missed \in Missed
<1>1. \A i \in DOMAIN sessions : sessions[i] \in Session
  BY ElementOfSeq, LenProperties DEF AccountsInv, SessionsOK
<1>2. ASSUME NEW q \in Requests, req[q].pc \in Issuers
      PROVE  req[q].who \in People /\ Reads(req[q]) \in 0..MaxVersion /\ req[q].missed \in Missed
  <2>1. PICK w : w = req[q]
    OBVIOUS
  <2>2. WorkOK(w) /\ Points(w) /\ w.pc \in Issuers
    BY <1>2, <2>1 DEF AccountsInv, WorksOK
  <2>3. w.who \in People /\ w.missed \in Missed /\ (w.pc # "renew" => w.version \in 0..MaxVersion)
    BY <2>2, WorkKinds DEF Issuers
  <2>4. Reads(w) \in 0..MaxVersion
    BY <1>1, <2>2, <2>3 DEF Reads, Points, Session
  <2> QED BY <2>1, <2>3, <2>4
<1> QED BY <1>1, <1>2

LEMMA SinceStep ==
    ASSUME AccountsInv, AccountsInv', SinceInv, Kept, \A p \in People : Stays(p), \A q \in Requests : Issues(q)
    PROVE  SinceInv'
<1>1. ASSUME NEW i \in DOMAIN sessions', sessions'[i].live
      PROVE  Since(sessions[i].who, sessions[i].version, sessions[i].missed)'
  <2>1. i \in DOMAIN sessions /\ sessions[i].live
    BY <1>1 DEF Kept
  <2>2. PICK p, v, m : p = sessions[i].who /\ v = sessions[i].version /\ m = sessions[i].missed
    OBVIOUS
  <2>3. p \in People /\ v \in 0..MaxVersion /\ Since(p, v, m)
    BY <2>1, <2>2, SaysTypes DEF Session, SinceInv
  <2>4. Since(p, v, m)'
    BY <2>3, SinceStays
  <2>5. p = sessions'[i].who /\ v = sessions'[i].version /\ m = sessions'[i].missed
    BY <2>1, <2>2 DEF Kept
  <2> QED BY <2>4, <2>5 DEF Since, Excused
<1>2. ASSUME NEW q \in Requests, req'[q].pc \in Issuers
      PROVE  Since(req[q].who, Reads(req[q]), req[q].missed)'
  <2>1. CASE Same(q)
    <3>1. PICK p, v, m : p = req[q].who /\ v = Reads(req[q]) /\ m = req[q].missed
      OBVIOUS
    <3>2. p \in People /\ v \in 0..MaxVersion /\ Since(p, v, m)
      BY <2>1, <3>1, SaysTypes DEF Same, SinceInv
    <3>3. PICK n : n = req'[q].missed
      OBVIOUS
    <3>4. Since(p, v, n)'
      BY <2>1, <3>1, <3>2, <3>3, SinceStays DEF Same
    <3>5. p = req'[q].who /\ v = Reads(req[q])'
      BY <2>1, <3>1 DEF Same
    <3> QED BY <3>3, <3>4, <3>5 DEF Since, Excused, Reads
  <2>2. CASE Since(req[q].who, Reads(req[q]), req[q].missed)'
    BY <2>2
  <2> QED BY <1>2, <2>1, <2>2 DEF Issues
<1> QED BY <1>1, <1>2 DEF SinceInv

\* A request that does not move issues what it was to issue.
LEMMA IssuesStill ==
    ASSUME Kept, WorksOK, NEW q \in Requests, req'[q] = req[q]
    PROVE  Issues(q)
<1>1. req[q].pc = "renew" => req[q].of \in DOMAIN sessions /\ sessions'[req[q].of].version = sessions[req[q].of].version
  BY DEF Kept, WorksOK, Points
<1>2. req[q].pc \in Issuers => Reads(req[q])' = Reads(req[q])
  BY <1>1 DEF Reads
<1> QED BY <1>2 DEF Issues, Same

\* Nor does one that has missed a deletion.
LEMMA IssuesMissing ==
    ASSUME Kept, WorksOK, NEW q \in Requests, NEW what \in {"credentials", "workspace"}, MissedIt(q, what)
    PROVE  Issues(q)
<1>1. CASE req'[q] = req[q]
  BY <1>1, IssuesStill
<1>2. CASE req[q].pc \in Issuers /\ req'[q] = [req[q] EXCEPT !.missed = @ \cup {what}]
  <2>1. PICK w : w = req[q]
    OBVIOUS
  <2>2. PICK v : v = [w EXCEPT !.missed = @ \cup {what}]
    OBVIOUS
  <2>3. /\ v.pc = w.pc /\ v.who = w.who /\ v.missed = w.missed \cup {what}
        /\ w.pc # "renew" => v.version = w.version
        /\ w.pc = "renew" => v.of = w.of
    BY <1>2, <2>1, <2>2, MissedKinds DEF WorksOK, Issuers
  <2>4. req'[q] = v
    BY <1>2, <2>1, <2>2
  <2>5. w.pc = "renew" => w.of \in DOMAIN sessions /\ sessions'[w.of].version = sessions[w.of].version
    BY <2>1 DEF Kept, WorksOK, Points
  <2>6. Reads(req[q])' = Reads(req[q])
    BY <2>1, <2>3, <2>4, <2>5 DEF Reads
  <2> QED BY <1>2, <2>1, <2>3, <2>4, <2>6 DEF Issues, Same
<1> QED BY <1>1, <1>2 DEF MissedIt, Issuers

LEMMA SinceBegin ==
    ASSUME AccountsInv, AccountsInv', SinceInv, NEW r \in Requests, Begin(r)
    PROVE  SinceInv'
<1>0. WorksOK /\ SessionsOK /\ Tables
  BY DEF AccountsInv
<1>1. UNCHANGED <<sessions, undone>> /\ req[r].pc = "idle"
  BY DEF Begin, Register, RemoveMember, Login, ChangePassword, Verify2FA, Disable2FA, Refresh, SelectBusiness,
         ConfirmPasswordReset, At
<1>2. Kept
  BY <1>0, <1>1, SameSessions
<1>3. ASSUME NEW w, Enter(r, w),
             \A p \in People : person'[p].version = person[p].version \/ person[p].version = NoAccount,
             w.pc \in Issuers => Since(req[r].who, Reads(req[r]), req[r].missed)'
      PROVE  SinceInv'
  <2>1. \A q \in Requests : req'[q] = IF q = r THEN w ELSE req[q]
    BY <1>0, <1>3 DEF Enter, WorksOK
  <2>2. \A q \in Requests : req[q].pc \in Enders => req'[q].pc \in Enders /\ req'[q].who = req[q].who
    BY <1>1, <2>1 DEF Enders
  <2>3. \A p \in People : Stays(p)
    BY <1>1, <1>3, <2>2, ExcuseStays DEF Stays
  <2>4. ASSUME NEW q \in Requests PROVE Issues(q)
    <3>1. CASE q = r
      BY <1>3, <2>1, <3>1 DEF Issues
    <3>2. CASE q # r
      BY <1>0, <1>2, <2>1, <3>2, IssuesStill
    <3> QED BY <3>1, <3>2
  <2> QED BY <1>2, <2>3, <2>4, SinceStep
<1>4. ASSUME NEW f \in Firms, NEW p \in People, Register(r, f, p) PROVE SinceInv'
  <2>1. PICK w : w = Issuing(p, f, 0, 1, {})
    OBVIOUS
  <2>2. Enter(r, w) /\ person' = [person EXCEPT ![p].version = 1] /\ person[p].version = NoAccount
    BY <1>4, <2>1 DEF Register
  <2>3. \A q \in People : person'[q].version = person[q].version \/ person[q].version = NoAccount
    BY <1>0, <2>2 DEF Tables
  <2>4. person'[p].version = 1
    BY <1>0, <2>2 DEF Tables, Person
  <2>5. req'[r] = w
    BY <1>0, <2>2 DEF Enter, WorksOK
  <2>6. Since(req[r].who, Reads(req[r]), req[r].missed)'
    BY <2>1, <2>4, <2>5 DEF Since, Reads, Issuing
  <2> QED BY <1>3, <2>2, <2>3, <2>6
<1>5. ASSUME NEW p \in People, Login(r, p) PROVE SinceInv'
  <2>1. PICK w : w = [pc |-> "choose", who |-> p, version |-> person[p].version, missed |-> {}]
    OBVIOUS
  <2>2. Enter(r, w) /\ UNCHANGED person
    BY <1>5, <2>1 DEF Login
  <2>3. req'[r] = w
    BY <1>0, <2>2 DEF Enter, WorksOK
  <2>4. Since(req[r].who, Reads(req[r]), req[r].missed)'
    BY <2>1, <2>2, <2>3 DEF Since, Reads
  <2> QED BY <1>3, <2>2, <2>4
<1>6. ASSUME NEW w, Enter(r, w), UNCHANGED person, w.pc \notin Issuers PROVE SinceInv'
  BY <1>3, <1>6
<1>7. ASSUME NEW p \in People, ChangePassword(r, p) \/ Verify2FA(r, p) \/ Disable2FA(r, p) PROVE SinceInv'
  <2>1. PICK w : /\ Enter(r, w)
                 /\ \/ w = [pc |-> "setPassword", who |-> p, by |-> {}]
                    \/ w = [pc |-> "enable", who |-> p]
                    \/ w = [pc |-> "disable", who |-> p, by |-> {}]
    BY <1>7 DEF ChangePassword, Verify2FA, Disable2FA
  <2>2. w.pc \notin Issuers
    BY <2>1 DEF Issuers
  <2> QED BY <1>6, <1>7, <2>1, <2>2 DEF ChangePassword, Verify2FA, Disable2FA
<1>8. ASSUME NEW f \in Firms, NEW p \in People, RemoveMember(r, f, p) PROVE SinceInv'
  <2>1. PICK w : w = [pc |-> "endWorkspace", who |-> p, at |-> f]
    OBVIOUS
  <2> QED BY <1>6, <1>8, <2>1 DEF RemoveMember, Issuers
<1>9. ASSUME NEW i \in DOMAIN sessions, Refresh(r, i) PROVE SinceInv'
  <2>1. PICK w : w = [pc |-> "rotate", of |-> i]
    OBVIOUS
  <2> QED BY <1>6, <1>9, <2>1 DEF Refresh, Issuers
<1>10. ASSUME NEW i \in DOMAIN sessions, NEW f \in Firms, SelectBusiness(r, i, f) PROVE SinceInv'
  <2>1. PICK p, v : p = sessions[i].who /\ v = sessions[i].version
    OBVIOUS
  <2>2. PICK m : m = IF v = person[p].version THEN {} ELSE {"credentials"}
    OBVIOUS
  <2>3. PICK w : w = Issuing(p, f, 0, v, m)
    OBVIOUS
  <2>4. Enter(r, w) /\ UNCHANGED person
    BY <1>10, <2>1, <2>2, <2>3 DEF SelectBusiness
  <2>5. req'[r] = w
    BY <1>0, <2>4 DEF Enter, WorksOK
  <2>6. Since(req[r].who, Reads(req[r]), req[r].missed)'
    BY <2>2, <2>3, <2>4, <2>5 DEF Since, Reads, Issuing
  <2> QED BY <1>3, <2>4, <2>6
<1>11. ASSUME NEW l \in Links, ConfirmPasswordReset(r, l) PROVE SinceInv'
  <2>1. PICK w : w = [pc |-> "setPassword", who |-> link[l].who, by |-> {l}]
    OBVIOUS
  <2> QED BY <1>6, <1>11, <2>1 DEF ConfirmPasswordReset, Issuers
<1> QED BY <1>4, <1>5, <1>7, <1>8, <1>9, <1>10, <1>11 DEF Begin

LEMMA SinceAtOnce ==
    ASSUME AccountsInv, AccountsInv', SinceInv, AtOnce
    PROVE  SinceInv'
<1>0. WorksOK /\ SessionsOK /\ Tables /\ UNCHANGED undone
  BY DEF AccountsInv, AtOnce, Logout, ReleaseCleaner, RequestPasswordReset, Generate2FASecret, SetUserActive,
         InviteMember, UpdateMemberRole, OnboardCleaner, ReactivateCleaner
<1>1. ASSUME Kept, UNCHANGED req,
             \A p \in People : person'[p].version = person[p].version \/ person[p].version = NoAccount
      PROVE  SinceInv'
  <2>1. \A p \in People : Stays(p)
    BY <1>0, <1>1, ExcuseStays DEF Stays
  <2>2. \A q \in Requests : Issues(q)
    BY <1>0, <1>1, IssuesStill
  <2> QED BY <1>1, <2>1, <2>2, SinceStep
<1>2. ASSUME NEW p \in People, Known(p)
      PROVE  \A q \in People : person'[q].version = person[q].version \/ person[q].version = NoAccount
  <2>1. CASE person[p].version # NoAccount
    BY <1>2, <2>1 DEF Known
  <2>2. CASE person[p].version = NoAccount
    <3>1. person' = [person EXCEPT ![p].version = Unusable]
      BY <1>2, <2>2 DEF Known
    <3> QED BY <1>0, <2>2, <3>1 DEF Tables
  <2> QED BY <2>1, <2>2
<1>3. ASSUME UNCHANGED <<sessions, req>>,
             \A p \in People : person'[p].version = person[p].version \/ person[p].version = NoAccount
      PROVE  SinceInv'
  BY <1>0, <1>1, <1>3, SameSessions
<1>4. ASSUME NEW i \in DOMAIN sessions, Logout(i) PROVE SinceInv'
  BY <1>0, <1>1, <1>4, OneEnded DEF Logout
<1>5. ASSUME NEW l \in Links, NEW p \in People, RequestPasswordReset(l, p) PROVE SinceInv'
  BY <1>3, <1>5 DEF RequestPasswordReset
<1>6. ASSUME NEW p \in People, Generate2FASecret(p) PROVE SinceInv'
  <2>1. \A q \in People : person'[q].version = person[q].version
    BY <1>0, <1>6 DEF Generate2FASecret, Tables, Person
  <2> QED BY <1>3, <1>6, <2>1 DEF Generate2FASecret
<1>7. ASSUME NEW p \in People, NEW on \in BOOLEAN, SetUserActive(p, on) PROVE SinceInv'
  <2>1. \A q \in People : person'[q].version = person[q].version
    BY <1>0, <1>7 DEF SetUserActive, Tables, Person
  <2> QED BY <1>3, <1>7, <2>1 DEF SetUserActive
<1>8. ASSUME NEW f \in Firms, NEW p \in People, NEW role \in Roles,
             InviteMember(f, p, role) \/ UpdateMemberRole(f, p, role) PROVE SinceInv'
  BY <1>2, <1>3, <1>8 DEF InviteMember, UpdateMemberRole
<1>9. ASSUME NEW f \in Firms, NEW p \in People, OnboardCleaner(f, p) \/ ReactivateCleaner(f, p) PROVE SinceInv'
  BY <1>2, <1>3, <1>9 DEF OnboardCleaner, ReactivateCleaner
<1>10. ASSUME NEW f \in Firms, NEW p \in People, NEW status, ReleaseCleaner(f, p, status) PROVE SinceInv'
  <2>1. Kept
    BY <1>0, <1>10, SomeEnded DEF ReleaseCleaner
  <2>2. TheyMiss(p, "workspace", {f}, {})
    BY <1>0, <1>10, <2>1, KeptHolds, NotedOnly DEF ReleaseCleaner
  <2>3. \A q \in Requests : MissedIt(q, "workspace")
    BY <2>2 DEF TheyMiss
  <2>4. \A q \in Requests : Issues(q)
    BY <1>0, <2>1, <2>3, IssuesMissing
  <2>5. \A q \in Requests : req[q].pc \in Enders => req'[q] = req[q]
    BY <2>3 DEF MissedIt, Enders
  <2>6. \A q \in People : Stays(q)
    BY <1>0, <1>10, <2>5, ExcuseStays DEF Stays, ReleaseCleaner
  <2> QED BY <2>1, <2>4, <2>6, SinceStep
<1> QED BY <1>4, <1>5, <1>6, <1>7, <1>8, <1>9, <1>10 DEF AtOnce

\* A request takes w up, nobody else moves, and no session comes.
LEMMA SinceEnter ==
    ASSUME AccountsInv, AccountsInv', SinceInv, NEW r \in Requests, NEW w, Enter(r, w), Kept,
           undone \subseteq undone',
           req[r].pc \in Enders => (w.pc \in Enders /\ w.who = req[r].who) \/ req[r].who \in undone',
           \A p \in People : \/ person'[p].version = person[p].version
                             \/ person[p].version = NoAccount
                             \/ w.pc \in Enders /\ w.who = p,
           w.pc \in Issuers => Issues(r)
    PROVE  SinceInv'
<1>0. WorksOK
  BY DEF AccountsInv
<1>1. \A q \in Requests : req'[q] = IF q = r THEN w ELSE req[q]
  BY <1>0 DEF Enter, WorksOK
<1>2. \A q \in Requests : req[q].pc \in Enders =>
         (req'[q].pc \in Enders /\ req'[q].who = req[q].who) \/ req[q].who \in undone'
  BY <1>1
<1>3. w.pc \in Enders => Excused(w.who)'
  BY <1>1 DEF Excused
<1>4. \A p \in People : Stays(p)
  BY <1>2, <1>3, ExcuseStays DEF Stays
<1>5. ASSUME NEW q \in Requests PROVE Issues(q)
  <2>1. CASE q = r /\ w.pc \in Issuers
    BY <2>1
  <2>2. CASE q = r /\ w.pc \notin Issuers
    BY <1>1, <2>2 DEF Issues
  <2>3. CASE q # r
    BY <1>0, <1>1, <2>3, IssuesStill
  <2> QED BY <2>1, <2>2, <2>3
<1> QED BY <1>4, <1>5, SinceStep

LEMMA SinceRotate ==
    ASSUME AccountsInv, AccountsInv', SinceInv, NEW r \in Requests, Rotate(r)
    PROVE  SinceInv'
<1>0. SessionsOK /\ WorksOK /\ WorkOK(req[r]) /\ Points(req[r]) /\ req[r].pc = "rotate" /\ UNCHANGED <<person, undone>>
  BY DEF AccountsInv, WorksOK, Rotate, At
<1>1. PICK i : i = req[r].of
  OBVIOUS
<1>2. i \in DOMAIN sessions /\ req[r].pc \notin Enders
  BY <1>0, <1>1 DEF Points, Enders
<1>3. CASE ~sessions[i].live
  <2>1. UNCHANGED sessions /\ Leave(r)
    BY <1>1, <1>3 DEF Rotate
  <2>2. Kept
    BY <1>0, <2>1, SameSessions
  <2>3. PICK w : w = Quiet
    OBVIOUS
  <2>4. w.pc \notin Issuers
    BY <2>3 DEF Quiet, Issuers
  <2> QED BY <1>0, <1>2, <2>1, <2>2, <2>3, <2>4, SinceEnter DEF Leave
<1>4. CASE sessions[i].live
  <2>1. PICK p, v, m : p = sessions[i].who /\ v = sessions[i].version /\ m = sessions[i].missed
    OBVIOUS
  <2>2. PICK w : w = [pc |-> "renew", who |-> p, of |-> i, missed |-> m]
    OBVIOUS
  <2>3. sessions' = [sessions EXCEPT ![i].live = FALSE] /\ Enter(r, w)
    BY <1>1, <1>4, <2>1, <2>2 DEF Rotate, Renewing
  <2>4. Kept
    BY <1>0, <1>2, <2>3, OneEnded
  <2>5. Since(p, v, m) /\ p \in People /\ v \in 0..MaxVersion
    BY <1>2, <1>4, <2>1, SaysTypes DEF SinceInv, Session
  <2>6. \A q \in Requests : req'[q] = IF q = r THEN w ELSE req[q]
    BY <1>0, <2>3 DEF Enter, WorksOK
  <2>7. Stays(p)
    BY <1>0, <1>2, <2>6, ExcuseStays DEF Stays
  <2>8. Since(p, v, m)'
    BY <2>5, <2>7, SinceStays
  <2>9. Reads(req[r])' = v
    BY <1>2, <2>1, <2>2, <2>4, <2>6 DEF Reads, Kept
  <2>10. Issues(r)
    BY <2>2, <2>6, <2>8, <2>9 DEF Issues, Since, Excused
  <2> QED BY <1>0, <1>2, <2>3, <2>4, <2>10, SinceEnter
<1> QED BY <1>3, <1>4

LEMMA SinceIssue ==
    ASSUME AccountsInv, AccountsInv', SinceInv, NEW r \in Requests, IssueSession(r)
    PROVE  SinceInv'
<1>0. /\ SessionsOK /\ WorksOK /\ WorkOK(req[r]) /\ req[r].pc = "issue" /\ Len(sessions) < MaxSessions /\ Leave(r)
      /\ UNCHANGED <<person, undone>>
  BY DEF AccountsInv, WorksOK, IssueSession, At
<1>1. PICK n : n = Len(sessions) + 1
  OBVIOUS
<1>2. PICK s : s = [who |-> req[r].who, at |-> req[r].at, of |-> req[r].of, version |-> req[r].version,
                    missed |-> req[r].missed, live |-> TRUE]
  OBVIOUS
<1>3. s \in Session
  BY <1>0, <1>2, WorkKinds DEF Session
<1>4. sessions' = Append(sessions, s)
  BY <1>2 DEF IssueSession
<1>5. /\ DOMAIN sessions' = DOMAIN sessions \cup {n} /\ sessions'[n] = s
      /\ \A i \in DOMAIN sessions : sessions'[i] = sessions[i]
  BY <1>0, <1>1, <1>3, <1>4, OneIssued
<1>6. \A q \in Requests : req'[q] = IF q = r THEN Quiet ELSE req[q]
  BY <1>0 DEF Leave, Enter, WorksOK
<1>7. \A q \in Requests : req[q].pc \in Enders => req'[q] = req[q]
  BY <1>0, <1>6 DEF Enders
<1>8. \A p \in People : Stays(p)
  BY <1>0, <1>7, ExcuseStays DEF Stays
<1>9. ASSUME NEW p \in People, NEW v \in 0..MaxVersion, NEW m, Since(p, v, m) PROVE Since(p, v, m)'
  BY <1>8, <1>9, SinceStays
<1>10. ASSUME NEW i \in DOMAIN sessions', sessions'[i].live
       PROVE  Since(sessions[i].who, sessions[i].version, sessions[i].missed)'
  <2>1. CASE i = n
    <3>1. PICK p, v, m : p = req[r].who /\ v = req[r].version /\ m = req[r].missed
      OBVIOUS
    <3>2. Since(p, v, m) /\ p \in People /\ v \in 0..MaxVersion
      BY <1>0, <3>1, WorkKinds DEF SinceInv, Issuers, Reads
    <3>3. Since(p, v, m)'
      BY <1>9, <3>2
    <3>4. sessions'[i].who = p /\ sessions'[i].version = v /\ sessions'[i].missed = m
      BY <1>2, <1>5, <2>1, <3>1
    <3> QED BY <3>3, <3>4 DEF Since, Excused
  <2>2. CASE i # n
    <3>1. PICK p, v, m : p = sessions[i].who /\ v = sessions[i].version /\ m = sessions[i].missed
      OBVIOUS
    <3>2. i \in DOMAIN sessions /\ sessions'[i] = sessions[i]
      BY <1>5, <2>2
    <3>3. Since(p, v, m) /\ p \in People /\ v \in 0..MaxVersion
      BY <1>10, <3>1, <3>2, SaysTypes DEF SinceInv, Session
    <3>4. Since(p, v, m)'
      BY <1>9, <3>3
    <3> QED BY <3>1, <3>2, <3>4 DEF Since, Excused
  <2> QED BY <2>1, <2>2
<1>11. ASSUME NEW q \in Requests, req'[q].pc \in Issuers
       PROVE  Since(req[q].who, Reads(req[q]), req[q].missed)'
  <2>1. q # r /\ req'[q] = req[q]
    BY <1>6, <1>11 DEF Issuers, Quiet
  <2>2. PICK p, v, m : p = req[q].who /\ v = Reads(req[q]) /\ m = req[q].missed
    OBVIOUS
  <2>3. Since(p, v, m) /\ p \in People /\ v \in 0..MaxVersion
    BY <1>11, <2>1, <2>2, SaysTypes DEF SinceInv
  <2>4. Since(p, v, m)'
    BY <1>9, <2>3
  <2>5. req[q].pc = "renew" => sessions'[req[q].of] = sessions[req[q].of]
    BY <1>0, <1>5 DEF WorksOK, Points
  <2>6. Reads(req[q])' = v
    BY <2>1, <2>2, <2>5 DEF Reads
  <2> QED BY <2>1, <2>2, <2>4, <2>6 DEF Since, Excused
<1> QED BY <1>10, <1>11 DEF SinceInv

\* The statement that ends the sessions of p: they are ended, and whoever is
\* about to issue another has missed it.
LEMMA SinceEnd ==
    ASSUME AccountsInv, AccountsInv', SinceInv, NEW r \in Requests, EndSessions(r)
    PROVE  SinceInv'
<1>0. SessionsOK /\ WorksOK /\ WorkOK(req[r]) /\ req[r].pc = "endSessions" /\ UNCHANGED <<person, undone>>
  BY DEF AccountsInv, WorksOK, EndSessions, At
<1>1. PICK p : p = req[r].who
  OBVIOUS
<1>2. Kept /\ \A i \in DOMAIN sessions :
        sessions[i].who = p /\ sessions[i].at \in Firms \cup {NoFirm} => ~sessions'[i].live
  BY <1>0, <1>1, SomeEnded DEF EndSessions
<1>3. TheyMiss(p, "credentials", Firms, {r})
  BY <1>0, <1>1, <1>2, KeptHolds, NotedAndLeft DEF EndSessions
<1>4. \A q \in Requests \ {r} : MissedIt(q, "credentials")
  BY <1>3 DEF TheyMiss
<1>5. \A q \in Requests \ {r} : req[q].pc \in Enders => req'[q] = req[q]
  BY <1>4 DEF MissedIt, Enders
<1>6. \A x \in People : x # p => Stays(x)
  BY <1>0, <1>1, <1>5 DEF Stays, Excused
<1>7. ASSUME NEW x \in People, x # p, NEW v \in 0..MaxVersion, NEW m, NEW n, m \subseteq n, Since(x, v, m)
      PROVE  Since(x, v, n)'
  BY <1>6, <1>7, SinceStays
<1>8. ASSUME NEW i \in DOMAIN sessions', sessions'[i].live
      PROVE  Since(sessions[i].who, sessions[i].version, sessions[i].missed)'
  <2>1. i \in DOMAIN sessions /\ sessions[i].live /\ sessions[i] \in Session
    BY <1>2, <1>8, SaysTypes DEF Kept
  <2>2. PICK x, v, m : x = sessions[i].who /\ v = sessions[i].version /\ m = sessions[i].missed
    OBVIOUS
  <2>3. x # p
    BY <1>2, <1>8, <2>1, <2>2 DEF Session
  <2>4. Since(x, v, m) /\ x \in People /\ v \in 0..MaxVersion
    BY <2>1, <2>2 DEF SinceInv, Session
  <2>5. Since(x, v, m)'
    BY <1>7, <2>3, <2>4
  <2>6. x = sessions'[i].who /\ v = sessions'[i].version /\ m = sessions'[i].missed
    BY <1>2, <2>1, <2>2 DEF Kept
  <2> QED BY <2>5, <2>6 DEF Since, Excused
<1>9. ASSUME NEW q \in Requests, req'[q].pc \in Issuers
      PROVE  Since(req[q].who, Reads(req[q]), req[q].missed)'
  <2>1. q # r /\ Issues(q)
    <3>1. q # r
      BY <1>3, <1>9 DEF TheyMiss, Issuers, Quiet
    <3>2. MissedIt(q, "credentials")
      BY <1>4, <3>1
    <3> QED BY <1>0, <1>2, <3>1, <3>2, IssuesMissing
  <2>2. CASE Same(q) /\ req[q].who # p
    <3>1. PICK x, v, m, n : x = req[q].who /\ v = Reads(req[q]) /\ m = req[q].missed /\ n = req'[q].missed
      OBVIOUS
    <3>2. Since(x, v, m) /\ x \in People /\ v \in 0..MaxVersion
      BY <2>2, <3>1, SaysTypes DEF SinceInv, Same
    <3>3. Since(x, v, n)'
      BY <1>7, <2>2, <3>1, <3>2 DEF Same
    <3>4. x = req'[q].who /\ v = Reads(req[q])' /\ n = req'[q].missed
      BY <2>2, <3>1 DEF Same
    <3> QED BY <3>3, <3>4 DEF Since, Excused
  <2>3. CASE Same(q) /\ req[q].who = p
    <3>1. q \in Asleep(p, "credentials", Firms)
      BY <2>3 DEF Same, Issuers, Asleep
    <3>2. req[q].pc \in {"choose", "renew", "issue"} /\ req'[q] = [req[q] EXCEPT !.missed = @ \cup {"credentials"}]
      BY <1>3, <2>1, <3>1 DEF TheyMiss
    <3>3. PICK w : w = req[q]
      OBVIOUS
    <3>4. PICK v : v = [w EXCEPT !.missed = @ \cup {"credentials"}]
      OBVIOUS
    <3>5. WorkOK(w)
      BY <1>0, <3>3 DEF WorksOK
    <3>6. v.missed = w.missed \cup {"credentials"}
      BY <3>2, <3>3, <3>4, <3>5, MissedKinds
    <3>7. "credentials" \in req'[q].missed
      BY <3>2, <3>3, <3>4, <3>6
    <3> QED BY <3>7 DEF Since
  <2> QED BY <1>9, <2>1, <2>2, <2>3 DEF Issues
<1> QED BY <1>8, <1>9 DEF SinceInv

LEMMA SinceContinue ==
    ASSUME AccountsInv, AccountsInv', SinceInv, NEW r \in Requests, Continue(r)
    PROVE  SinceInv'
<1>0. SessionsOK /\ WorksOK /\ WorkOK(req[r]) /\ Points(req[r]) /\ Tables
  BY DEF AccountsInv, WorksOK
<1>1. PICK old : old = req[r]
  OBVIOUS
<1>2. ASSUME UNCHANGED sessions PROVE Kept
  BY <1>0, <1>2, SameSessions
<1>3. ASSUME NEW w, Enter(r, w) PROVE req'[r] = w
  BY <1>0, <1>3 DEF Enter, WorksOK
<1>4. ASSUME Leave(r), UNCHANGED sessions, undone \subseteq undone', old.pc \in Enders => old.who \in undone',
             \A p \in People : person'[p].version = person[p].version
      PROVE  SinceInv'
  <2>1. PICK w : w = Quiet
    OBVIOUS
  <2>2. w.pc \notin Issuers
    BY <2>1 DEF Quiet, Issuers
  <2> QED BY <1>1, <1>2, <1>4, <2>1, <2>2, SinceEnter DEF Leave
<1>5. CASE Choose(r)
  <2>1. UNCHANGED <<sessions, person, undone>> /\ old.pc = "choose"
    BY <1>1, <1>5 DEF Choose, At
  <2>2. Leave(r) \/ \E f : Enter(r, Issuing(old.who, f, 0, old.version, old.missed))
    BY <1>1, <1>5 DEF Choose
  <2>3. ASSUME NEW f, Enter(r, Issuing(old.who, f, 0, old.version, old.missed)) PROVE SinceInv'
    <3>1. PICK w : w = Issuing(old.who, f, 0, old.version, old.missed)
      OBVIOUS
    <3>2. req'[r] = w
      BY <1>3, <2>3, <3>1
    <3>3. Issues(r)
      BY <1>1, <2>1, <3>1, <3>2 DEF Issues, Same, Issuing, Issuers, Reads
    <3> QED BY <1>1, <1>2, <2>1, <2>3, <3>1, <3>3, SinceEnter DEF Enders
  <2> QED BY <1>4, <2>1, <2>2, <2>3 DEF Enders
<1>6. CASE Renew(r)
  <2>1. UNCHANGED <<sessions, person, undone>> /\ old.pc = "renew"
    BY <1>1, <1>6 DEF Renew, At
  <2>2. Leave(r) \/ \E f : Enter(r, Issuing(old.who, f, old.of, sessions[old.of].version, old.missed))
    BY <1>1, <1>6 DEF Renew
  <2>3. ASSUME NEW f, Enter(r, Issuing(old.who, f, old.of, sessions[old.of].version, old.missed)) PROVE SinceInv'
    <3>1. PICK w : w = Issuing(old.who, f, old.of, sessions[old.of].version, old.missed)
      OBVIOUS
    <3>2. req'[r] = w
      BY <1>3, <2>3, <3>1
    <3>3. Issues(r)
      BY <1>1, <2>1, <3>1, <3>2 DEF Issues, Same, Issuing, Issuers, Reads
    <3> QED BY <1>1, <1>2, <2>1, <2>3, <3>1, <3>3, SinceEnter DEF Enders
  <2> QED BY <1>4, <2>1, <2>2, <2>3 DEF Enders
<1>7. ASSUME NEW pc \in Enders, UNCHANGED <<sessions, undone>>, Enter(r, [old EXCEPT !.pc = pc]),
             old.pc \in {"setPassword", "markUsed", "disable"},
             \A p \in People : person'[p].version = person[p].version \/ p = old.who
      PROVE  SinceInv'
  <2>1. PICK w : w = [old EXCEPT !.pc = pc]
    OBVIOUS
  <2>2. old = [pc |-> old.pc, who |-> old.who, by |-> old.by]
    BY <1>0, <1>1, <1>7, WorkKinds
  <2>3. w.pc = pc /\ w.who = old.who
    BY <2>1, <2>2
  <2>4. w.pc \notin Issuers /\ w.pc \in Enders
    BY <1>7, <2>3 DEF Issuers, Enders
  <2> QED BY <1>1, <1>2, <1>7, <2>1, <2>3, <2>4, SinceEnter
<1>8. CASE SetPassword(r)
  <2>1. old.pc = "setPassword" /\ UNCHANGED <<sessions, undone>>
    BY <1>1, <1>8 DEF SetPassword, At
  <2>2. \A p \in People : person'[p].version = person[p].version \/ p = old.who
    BY <1>0, <1>1, <1>8 DEF SetPassword, Tables
  <2>3. CASE req[r].by = {}
    BY <1>1, <1>7, <1>8, <2>1, <2>2, <2>3 DEF SetPassword, Enders
  <2>4. CASE req[r].by # {}
    BY <1>1, <1>7, <1>8, <2>1, <2>2, <2>4 DEF SetPassword, Enders
  <2> QED BY <2>3, <2>4
<1>9. CASE MarkUsed(r)
  BY <1>1, <1>7, <1>9 DEF MarkUsed, At, Enders
<1>10. CASE Disabled(r)
  <2>1. old.pc = "disable" /\ UNCHANGED <<sessions, undone>>
    BY <1>1, <1>10 DEF Disabled, At
  <2>2. \A p \in People : person'[p].version = person[p].version \/ p = old.who
    BY <1>0, <1>1, <1>10 DEF Disabled, Tables
  <2> QED BY <1>1, <1>7, <1>10, <2>1, <2>2 DEF Disabled, Enders
<1>11. CASE Enable2FA(r)
  <2>1. \A p \in People : person'[p].version = person[p].version
    BY <1>0, <1>11 DEF Enable2FA, Tables, Person
  <2>2. old.pc \notin Enders
    BY <1>1, <1>11 DEF Enable2FA, At, Enders
  <2> QED BY <1>4, <1>11, <2>1, <2>2 DEF Enable2FA
<1>12. CASE Die(r)
  BY <1>1, <1>4, <1>12 DEF Die, Enders
<1>13. CASE EndWorkspace(r)
  <2>1. PICK p : p = req[r].who
    OBVIOUS
  <2>2. PICK places : places = {req[r].at}
    OBVIOUS
  <2>3. Kept
    BY <1>0, <1>13, SomeEnded DEF EndWorkspace
  <2>4. TheyMiss(p, "workspace", places, {r})
    BY <1>0, <1>13, <2>1, <2>2, <2>3, KeptHolds, NotedAndLeft DEF EndWorkspace
  <2>5. \A q \in Requests \ {r} : MissedIt(q, "workspace")
    BY <2>4 DEF TheyMiss
  <2>6. ASSUME NEW q \in Requests PROVE Issues(q)
    <3>1. CASE q = r
      BY <2>4, <3>1 DEF TheyMiss, Issues, Quiet, Issuers
    <3>2. CASE q # r
      <4>1. MissedIt(q, "workspace")
        BY <2>5, <3>2
      <4> QED BY <1>0, <2>3, <4>1, IssuesMissing
    <3> QED BY <3>1, <3>2
  <2>7. \A q \in Requests : req[q].pc \in Enders => req'[q] = req[q]
    BY <1>13, <2>5 DEF MissedIt, Enders, EndWorkspace, At
  <2>8. \A q \in People : Stays(q)
    BY <1>13, <2>7, ExcuseStays DEF Stays, EndWorkspace
  <2> QED BY <2>3, <2>6, <2>8, SinceStep
<1> QED BY <1>5, <1>6, <1>8, <1>9, <1>10, <1>11, <1>12, <1>13, SinceRotate, SinceIssue, SinceEnd DEF Continue

LEMMA SinceHolds == AccountsSpec => []SinceInv
<1>1. AccountsInit => SinceInv
  BY DEF AccountsInit, SinceInv, Quiet, Issuers
<1>2. AccountsInv /\ AccountsInv' /\ SinceInv /\ [AccountsNext]_accountVars => SinceInv'
  <2> SUFFICES ASSUME AccountsInv, AccountsInv', SinceInv, [AccountsNext]_accountVars PROVE SinceInv'
    OBVIOUS
  <2>1. CASE AccountsNext
    BY <2>1, SinceBegin, SinceAtOnce, SinceContinue DEF AccountsNext
  <2>2. CASE UNCHANGED accountVars
    BY <2>2 DEF accountVars, SinceInv, Since, Excused, Reads
  <2> QED BY <2>1, <2>2
<1> QED BY <1>1, <1>2, AccountsTyped, PTL DEF AccountsSpec

\* It says of the sessions what SignedInSince says.
LEMMA SinceIsSignedIn == ASSUME SinceInv PROVE SignedInSince
BY DEF SinceInv, Since, Excused, Enders, SignedInSince

-----------------------------------------------------------------------------
(* A session works in a firm of its person *)

\* The sessions of p in f are about to be ended, or will not be.
Cover(p, f) == p \in undone \/ \E r \in Requests : At(r, "endWorkspace") /\ req[r].who = p /\ req[r].at = f

\* A session of p in a firm that is no longer p's is covered.
Inside(p, f, m) == f \in Firms \ Workspaces(p) => "workspace" \in m \/ Cover(p, f)

\* InOwnWorkspace, of the sessions there are and of those to come.
InsideInv ==
    /\ \A i \in DOMAIN sessions : sessions[i].live => Inside(sessions[i].who, sessions[i].at, sessions[i].missed)
    /\ \A q \in Requests : req[q].pc = "issue" => Inside(req[q].who, req[q].at, req[q].missed)

\* The cover outlives the step, and whoever goes leaves under one.
Stands(p, f) == Cover(p, f) \/ (f \in Workspaces(p) /\ f \notin Workspaces(p)') => Cover(p, f)'

SamePlace(q) ==
    /\ req[q].pc = "issue" /\ req'[q].who = req[q].who /\ req'[q].at = req[q].at
    /\ req[q].missed \subseteq req'[q].missed

Settles(q) == req'[q].pc = "issue" => SamePlace(q) \/ Inside(req[q].who, req[q].at, req[q].missed)'

LEMMA InsideStays ==
    ASSUME NEW p \in People, NEW f, NEW m, NEW n, m \subseteq n, Inside(p, f, m), f \in Firms => Stands(p, f)
    PROVE  Inside(p, f, n)'
BY DEF Inside, Stands

\* Who is about to end the sessions in a firm stays about it, or has died.
LEMMA CoverStays ==
    ASSUME undone \subseteq undone',
           \A q \in Requests : req[q].pc = "endWorkspace" => req'[q] = req[q] \/ req[q].who \in undone'
    PROVE  \A p, f : Cover(p, f) => Cover(p, f)'
BY DEF Cover, At

\* The places of a session and of a request.
LEMMA PlaceTypes ==
    ASSUME AccountsInv
    PROVE  /\ \A i \in DOMAIN sessions : sessions[i] \in Session
           /\ \A q \in Requests : req[q].pc = "issue" =>
                req[q].who \in People /\ req[q].at \in Firms \cup {NoFirm} /\ req[q].missed \in Missed
<1>1. \A i \in DOMAIN sessions : sessions[i] \in Session
  BY ElementOfSeq, LenProperties DEF AccountsInv, SessionsOK
<1>2. ASSUME NEW q \in Requests, req[q].pc = "issue"
      PROVE  req[q].who \in People /\ req[q].at \in Firms \cup {NoFirm} /\ req[q].missed \in Missed
  BY <1>2, WorkKinds DEF AccountsInv, WorksOK
<1> QED BY <1>1, <1>2

\* A step after which nobody in the set there is left uncovered.
LEMMA InsideStep ==
    ASSUME AccountsInv, InsideInv, Kept, NEW gone,
           \A p \in People, f \in Firms : <<p, f>> \in gone \/ Stands(p, f),
           \A i \in DOMAIN sessions : <<sessions[i].who, sessions[i].at>> \in gone => ~sessions'[i].live,
           \A q \in Requests : Settles(q),
           \A q \in Requests : req[q].pc = "issue" /\ <<req[q].who, req[q].at>> \in gone =>
               "workspace" \in req'[q].missed \/ req'[q].pc # "issue"
    PROVE  InsideInv'
<1>1. ASSUME NEW i \in DOMAIN sessions', sessions'[i].live
      PROVE  Inside(sessions[i].who, sessions[i].at, sessions[i].missed)'
  <2>1. i \in DOMAIN sessions /\ sessions[i].live
    BY <1>1 DEF Kept
  <2>2. PICK p, f, m : p = sessions[i].who /\ f = sessions[i].at /\ m = sessions[i].missed
    OBVIOUS
  <2>3. p \in People /\ Inside(p, f, m)
    BY <2>1, <2>2, PlaceTypes DEF Session, InsideInv
  <2>4. f \in Firms => Stands(p, f)
    BY <1>1, <2>1, <2>2, <2>3
  <2>5. Inside(p, f, m)'
    BY <2>3, <2>4, InsideStays
  <2>6. p = sessions'[i].who /\ f = sessions'[i].at /\ m = sessions'[i].missed
    BY <2>1, <2>2 DEF Kept
  <2> QED BY <2>5, <2>6 DEF Inside, Cover, Workspaces, Staffs, Cleans
<1>2. ASSUME NEW q \in Requests, req'[q].pc = "issue"
      PROVE  Inside(req[q].who, req[q].at, req[q].missed)'
  <2>1. CASE SamePlace(q)
    <3>1. PICK p, f, m, n : p = req[q].who /\ f = req[q].at /\ m = req[q].missed /\ n = req'[q].missed
      OBVIOUS
    <3>2. p \in People /\ Inside(p, f, m)
      BY <2>1, <3>1, PlaceTypes DEF SamePlace, InsideInv
    <3>3. p = req'[q].who /\ f = req'[q].at /\ m \subseteq n
      BY <2>1, <3>1 DEF SamePlace
    <3>4. CASE <<p, f>> \in gone
      <4>1. "workspace" \in req'[q].missed
        BY <1>2, <2>1, <3>1, <3>4 DEF SamePlace
      <4> QED BY <4>1 DEF Inside
    <3>5. CASE <<p, f>> \notin gone
      <4>1. f \in Firms => Stands(p, f)
        BY <3>2, <3>5
      <4>2. Inside(p, f, n)'
        BY <3>2, <3>3, <4>1, InsideStays
      <4> QED BY <3>1, <3>3, <4>2 DEF Inside, Cover, Workspaces, Staffs, Cleans
    <3> QED BY <3>4, <3>5
  <2> QED BY <1>2, <2>1 DEF Settles
<1> QED BY <1>1, <1>2 DEF InsideInv

LEMMA InsideSame ==
    ASSUME AccountsInv, InsideInv, Kept,
           \A p \in People, f \in Firms : Stands(p, f), \A q \in Requests : Settles(q)
    PROVE  InsideInv'
<1>1. PICK gone : gone = {}
  OBVIOUS
<1>2. /\ \A p \in People, f \in Firms : <<p, f>> \in gone \/ Stands(p, f)
      /\ \A i \in DOMAIN sessions : <<sessions[i].who, sessions[i].at>> \in gone => ~sessions'[i].live
      /\ \A q \in Requests : req[q].pc = "issue" /\ <<req[q].who, req[q].at>> \in gone =>
             "workspace" \in req'[q].missed \/ req'[q].pc # "issue"
  BY <1>1
<1> HIDE <1>1
<1> QED BY <1>2, InsideStep

\* A request that does not move, and one that has missed a deletion.
LEMMA SettlesStill ==
    ASSUME NEW q \in Requests, req'[q] = req[q]
    PROVE  Settles(q)
BY DEF Settles, SamePlace

LEMMA SettlesMissing ==
    ASSUME WorksOK, NEW q \in Requests, NEW what \in {"credentials", "workspace"}, MissedIt(q, what)
    PROVE  Settles(q)
<1>1. CASE req'[q] = req[q]
  BY <1>1, SettlesStill
<1>2. CASE req[q].pc \in {"choose", "renew", "issue"} /\ req'[q] = [req[q] EXCEPT !.missed = @ \cup {what}]
  <2>1. PICK w : w = req[q]
    OBVIOUS
  <2>2. PICK v : v = [w EXCEPT !.missed = @ \cup {what}]
    OBVIOUS
  <2>3. /\ v.pc = w.pc /\ v.who = w.who /\ v.missed = w.missed \cup {what}
        /\ w.pc = "issue" => v.at = w.at
    BY <1>2, <2>1, <2>2, MissedKinds DEF WorksOK
  <2> QED BY <1>2, <2>1, <2>2, <2>3 DEF Settles, SamePlace
<1> QED BY <1>1, <1>2 DEF MissedIt

\* A request takes w up, nobody else moves, and no session comes.
LEMMA InsideEnter ==
    ASSUME AccountsInv, InsideInv, NEW r \in Requests, NEW w, Enter(r, w), Kept, undone \subseteq undone',
           req[r].pc = "endWorkspace" => req[r].who \in undone',
           \A p \in People, f \in Firms :
             f \in Workspaces(p) => f \in Workspaces(p)' \/ (w.pc = "endWorkspace" /\ w.who = p /\ w.at = f),
           w.pc = "issue" => Settles(r)
    PROVE  InsideInv'
<1>1. \A q \in Requests : req'[q] = IF q = r THEN w ELSE req[q]
  BY DEF Enter, WorksOK, AccountsInv
<1>2. \A p, f : Cover(p, f) => Cover(p, f)'
  BY <1>1, CoverStays
<1>3. \A p, f : w.pc = "endWorkspace" /\ w.who = p /\ w.at = f => Cover(p, f)'
  BY <1>1 DEF Cover, At
<1>4. \A p \in People, f \in Firms : Stands(p, f)
  BY <1>2, <1>3 DEF Stands
<1>5. ASSUME NEW q \in Requests PROVE Settles(q)
  <2>1. CASE q = r /\ w.pc = "issue"
    BY <2>1
  <2>2. CASE q = r /\ w.pc # "issue"
    BY <1>1, <2>2 DEF Settles
  <2>3. CASE q # r
    BY <1>1, <2>3, SettlesStill
  <2> QED BY <2>1, <2>2, <2>3
<1> QED BY <1>4, <1>5, InsideSame

\* The firms of a person, spelled out.
LEMMA Belongs ==
    ASSUME NEW p, NEW f \in Firms
    PROVE  /\ f \in Workspaces(p) <=> (member[f][p].active \/ cleaner[f][p] = "ACTIVE")
           /\ f \in Workspaces(p)' <=> (member'[f][p].active \/ cleaner'[f][p] = "ACTIVE")
BY DEF Workspaces, Staffs, Cleans

LEMMA InsideBegin ==
    ASSUME AccountsInv, InsideInv, NEW r \in Requests, Begin(r)
    PROVE  InsideInv'
<1>0. WorksOK /\ SessionsOK /\ Tables
  BY DEF AccountsInv
<1>1. UNCHANGED <<sessions, undone, cleaner>> /\ req[r].pc = "idle"
  BY DEF Begin, Register, RemoveMember, Login, ChangePassword, Verify2FA, Disable2FA, Refresh, SelectBusiness,
         ConfirmPasswordReset, At
<1>2. Kept
  BY <1>0, <1>1, SameSessions
<1>3. ASSUME NEW w, Enter(r, w) PROVE req'[r] = w
  BY <1>0, <1>3 DEF Enter, WorksOK
<1>4. ASSUME UNCHANGED member, NEW p, NEW f \in Firms PROVE f \in Workspaces(p) => f \in Workspaces(p)'
  BY <1>1, <1>4, Belongs
<1>5. ASSUME NEW w, Enter(r, w), UNCHANGED member, w.pc # "issue" PROVE InsideInv'
  BY <1>1, <1>2, <1>4, <1>5, InsideEnter
<1>6. ASSUME NEW f \in Firms, NEW p \in People, Register(r, f, p) PROVE InsideInv'
  <2>1. PICK w : w = Issuing(p, f, 0, 1, {})
    OBVIOUS
  <2>2. Enter(r, w) /\ member' = [member EXCEPT ![f][p] = [role |-> "BUSINESS_OWNER", active |-> TRUE]]
    BY <1>6, <2>1 DEF Register
  <2>3. \A g \in Firms, q \in People : member'[g][q].active \/ member'[g][q] = member[g][q]
    BY <1>0, <2>2 DEF Tables
  <2>4. member'[f][p].active
    BY <1>0, <2>2 DEF Tables
  <2>5. \A q \in People, g \in Firms : g \in Workspaces(q) => g \in Workspaces(q)'
    BY <1>1, <2>3, Belongs
  <2>6. f \in Workspaces(p)'
    BY <2>4, Belongs
  <2>7. req'[r] = w
    BY <1>3, <2>2
  <2>8. req'[r].who = p /\ req'[r].at = f
    BY <2>1, <2>7 DEF Issuing
  <2>9. Settles(r)
    BY <2>6, <2>8 DEF Settles, Inside, Workspaces, Staffs, Cleans
  <2> QED BY <1>1, <1>2, <2>2, <2>5, <2>9, InsideEnter
<1>7. ASSUME NEW f \in Firms, NEW p \in People, RemoveMember(r, f, p) PROVE InsideInv'
  <2>1. PICK w : w = [pc |-> "endWorkspace", who |-> p, at |-> f]
    OBVIOUS
  <2>2. Enter(r, w) /\ member' = [member EXCEPT ![f][p].active = FALSE]
    BY <1>7, <2>1 DEF RemoveMember
  <2>3. \A g \in Firms, q \in People : <<g, q>> # <<f, p>> => member'[g][q] = member[g][q]
    BY <1>0, <2>2 DEF Tables
  <2>4. \A q \in People, g \in Firms :
          g \in Workspaces(q) => g \in Workspaces(q)' \/ (w.pc = "endWorkspace" /\ w.who = q /\ w.at = g)
    BY <1>1, <2>1, <2>3, Belongs
  <2>5. w.pc # "issue"
    BY <2>1
  <2> QED BY <1>1, <1>2, <2>2, <2>4, <2>5, InsideEnter
<1>8. ASSUME NEW p \in People, Login(r, p) \/ ChangePassword(r, p) \/ Verify2FA(r, p) \/ Disable2FA(r, p) PROVE InsideInv'
  <2>1. PICK w : /\ Enter(r, w)
                 /\ \/ w = [pc |-> "choose", who |-> p, version |-> person[p].version, missed |-> {}]
                    \/ w = [pc |-> "setPassword", who |-> p, by |-> {}]
                    \/ w = [pc |-> "enable", who |-> p]
                    \/ w = [pc |-> "disable", who |-> p, by |-> {}]
    BY <1>8 DEF Login, ChangePassword, Verify2FA, Disable2FA
  <2>2. w.pc # "issue"
    BY <2>1
  <2> QED BY <1>5, <1>8, <2>1, <2>2 DEF Login, ChangePassword, Verify2FA, Disable2FA
<1>9. ASSUME NEW i \in DOMAIN sessions, Refresh(r, i) PROVE InsideInv'
  <2>1. PICK w : w = [pc |-> "rotate", of |-> i]
    OBVIOUS
  <2> QED BY <1>5, <1>9, <2>1 DEF Refresh
<1>10. ASSUME NEW i \in DOMAIN sessions, NEW f \in Firms, SelectBusiness(r, i, f) PROVE InsideInv'
  <2>1. PICK p, v : p = sessions[i].who /\ v = sessions[i].version
    OBVIOUS
  <2>2. PICK m : m = IF v = person[p].version THEN {} ELSE {"credentials"}
    OBVIOUS
  <2>3. PICK w : w = Issuing(p, f, 0, v, m)
    OBVIOUS
  <2>4. Enter(r, w) /\ UNCHANGED member /\ f \in Workspaces(p)
    BY <1>10, <2>1, <2>2, <2>3 DEF SelectBusiness
  <2>5. req'[r] = w
    BY <1>3, <2>4
  <2>6. f \in Workspaces(p)'
    BY <1>4, <2>4
  <2>7. req'[r].who = p /\ req'[r].at = f
    BY <2>3, <2>5 DEF Issuing
  <2>8. Settles(r)
    BY <2>6, <2>7 DEF Settles, Inside, Workspaces, Staffs, Cleans
  <2>9. \A q \in People, g \in Firms : g \in Workspaces(q) => g \in Workspaces(q)'
    BY <1>4, <2>4
  <2> QED BY <1>1, <1>2, <2>4, <2>8, <2>9, InsideEnter
<1>11. ASSUME NEW l \in Links, ConfirmPasswordReset(r, l) PROVE InsideInv'
  <2>1. PICK w : w = [pc |-> "setPassword", who |-> link[l].who, by |-> {l}]
    OBVIOUS
  <2> QED BY <1>5, <1>11, <2>1 DEF ConfirmPasswordReset
<1> QED BY <1>6, <1>7, <1>8, <1>9, <1>10, <1>11 DEF Begin

\* The sessions of p in f are ended, and the requests on their way there know.
LEMMA InsideEnded ==
    ASSUME AccountsInv, InsideInv, NEW p \in People, NEW f, NEW rs \in SUBSET Requests,
           sessions' = Deleted(p, {f}), TheyMiss(p, "workspace", {f}, rs),
           \A x \in People, g \in Firms : (x = p /\ g = f) \/ Stands(x, g)
    PROVE  InsideInv'
<1>0. WorksOK /\ SessionsOK
  BY DEF AccountsInv
<1>1. Kept /\ \A i \in DOMAIN sessions : sessions[i].who = p /\ sessions[i].at \in {f} => ~sessions'[i].live
  BY <1>0, SomeEnded
<1>2. PICK gone : gone = {<<p, f>>}
  OBVIOUS
<1>3. \A x, g : <<x, g>> \in gone <=> x = p /\ g = f
  BY <1>2
<1>4. ASSUME NEW q \in Requests PROVE Settles(q)
  <2>1. CASE q \in rs
    BY <2>1 DEF TheyMiss, Settles, Quiet
  <2>2. CASE q \notin rs
    <3>1. MissedIt(q, "workspace")
      BY <2>2 DEF TheyMiss
    <3> QED BY <1>0, <3>1, SettlesMissing
  <2> QED BY <2>1, <2>2
<1>5. ASSUME NEW q \in Requests, req[q].pc = "issue", <<req[q].who, req[q].at>> \in gone
      PROVE  "workspace" \in req'[q].missed \/ req'[q].pc # "issue"
  <2>1. CASE q \in rs
    BY <2>1 DEF TheyMiss, Quiet
  <2>2. CASE q \notin rs
    <3>1. q \in Asleep(p, "workspace", {f})
      BY <1>3, <1>5 DEF Asleep, At
    <3>2. req'[q] = [req[q] EXCEPT !.missed = @ \cup {"workspace"}]
      BY <2>2, <3>1 DEF TheyMiss
    <3>3. PICK w : w = req[q]
      OBVIOUS
    <3>4. PICK v : v = [w EXCEPT !.missed = @ \cup {"workspace"}]
      OBVIOUS
    <3>5. v.missed = w.missed \cup {"workspace"}
      BY <1>0, <1>5, <3>3, <3>4, MissedKinds DEF WorksOK
    <3> QED BY <3>2, <3>3, <3>4, <3>5
  <2> QED BY <2>1, <2>2
<1>6. \A x \in People, g \in Firms : <<x, g>> \in gone \/ Stands(x, g)
  BY <1>3
<1>7. \A i \in DOMAIN sessions : <<sessions[i].who, sessions[i].at>> \in gone => ~sessions'[i].live
  BY <1>1, <1>3
<1> HIDE <1>2
<1> QED BY <1>1, <1>4, <1>5, <1>6, <1>7, InsideStep

LEMMA InsideAtOnce ==
    ASSUME AccountsInv, InsideInv, AtOnce
    PROVE  InsideInv'
<1>0. WorksOK /\ SessionsOK /\ Tables /\ UNCHANGED undone
  BY DEF AccountsInv, AtOnce, Logout, ReleaseCleaner, RequestPasswordReset, Generate2FASecret, SetUserActive,
         InviteMember, UpdateMemberRole, OnboardCleaner, ReactivateCleaner
<1>1. ASSUME Kept, UNCHANGED req, \A p \in People, f \in Firms : f \in Workspaces(p) => f \in Workspaces(p)'
      PROVE  InsideInv'
  <2>1. \A p \in People, f \in Firms : Stands(p, f)
    BY <1>0, <1>1, CoverStays DEF Stands
  <2>2. \A q \in Requests : Settles(q)
    BY <1>1, SettlesStill
  <2> QED BY <1>1, <2>1, <2>2, InsideSame
<1>2. ASSUME UNCHANGED <<sessions, req, member, cleaner>> PROVE InsideInv'
  BY <1>0, <1>1, <1>2, SameSessions, Belongs
<1>3. ASSUME NEW i \in DOMAIN sessions, Logout(i) PROVE InsideInv'
  <2>1. Kept /\ UNCHANGED <<req, member, cleaner>>
    BY <1>0, <1>3, OneEnded DEF Logout
  <2> QED BY <1>1, <2>1, Belongs
<1>4. ASSUME NEW f \in Firms, NEW p \in People, NEW role \in Roles, InviteMember(f, p, role) PROVE InsideInv'
  <2>1. /\ member' = [member EXCEPT ![f][p] = [role |-> role, active |-> TRUE]]
        /\ UNCHANGED <<sessions, req, cleaner>>
    BY <1>4 DEF InviteMember
  <2>2. \A g \in Firms, q \in People : member'[g][q].active \/ member'[g][q] = member[g][q]
    BY <1>0, <2>1 DEF Tables
  <2>3. \A q \in People, g \in Firms : g \in Workspaces(q) => g \in Workspaces(q)'
    BY <2>1, <2>2, Belongs
  <2> QED BY <1>0, <1>1, <2>1, <2>3, SameSessions
<1>5. ASSUME NEW f \in Firms, NEW p \in People, NEW role \in Roles, UpdateMemberRole(f, p, role) PROVE InsideInv'
  <2>1. member' = [member EXCEPT ![f][p].role = role] /\ UNCHANGED <<sessions, req, cleaner>>
    BY <1>5 DEF UpdateMemberRole
  <2>2. PICK old \in Member : old = member[f][p]
    BY <1>0 DEF Tables
  <2>3. member'[f][p] = [old EXCEPT !.role = role]
    BY <1>0, <2>1, <2>2 DEF Tables
  <2>4. member'[f][p].active = member[f][p].active
    BY <2>2, <2>3 DEF Member
  <2>5. \A g \in Firms, q \in People : <<g, q>> # <<f, p>> => member'[g][q] = member[g][q]
    BY <1>0, <2>1 DEF Tables
  <2>6. \A q \in People, g \in Firms : g \in Workspaces(q) => g \in Workspaces(q)'
    BY <2>1, <2>4, <2>5, Belongs
  <2> QED BY <1>0, <1>1, <2>1, <2>6, SameSessions
<1>6. ASSUME NEW f \in Firms, NEW p \in People, OnboardCleaner(f, p) \/ ReactivateCleaner(f, p) PROVE InsideInv'
  <2>1. cleaner' = [cleaner EXCEPT ![f][p] = "ACTIVE"] /\ UNCHANGED <<sessions, req, member>>
    BY <1>6 DEF OnboardCleaner, ReactivateCleaner
  <2>2. \A g \in Firms, q \in People : cleaner[g][q] = "ACTIVE" => cleaner'[g][q] = "ACTIVE"
    BY <1>0, <2>1 DEF Tables
  <2>3. \A q \in People, g \in Firms : g \in Workspaces(q) => g \in Workspaces(q)'
    BY <2>1, <2>2, Belongs
  <2> QED BY <1>0, <1>1, <2>1, <2>3, SameSessions
<1>7. ASSUME NEW f \in Firms, NEW p \in People, NEW status, ReleaseCleaner(f, p, status) PROVE InsideInv'
  <2>1. /\ cleaner' = [cleaner EXCEPT ![f][p] = status] /\ UNCHANGED member
        /\ sessions' = Deleted(p, {f}) /\ req' = Noted(p, "workspace", {f})
    BY <1>7 DEF ReleaseCleaner
  <2>2. Kept
    BY <1>0, <2>1, SomeEnded
  <2>3. TheyMiss(p, "workspace", {f}, {})
    BY <1>0, <2>1, <2>2, KeptHolds, NotedOnly
  <2>4. \A g \in Firms, q \in People : <<g, q>> # <<f, p>> => cleaner'[g][q] = cleaner[g][q]
    BY <1>0, <2>1 DEF Tables
  <2>5. \A q \in People, g \in Firms : (q = p /\ g = f) \/ (g \in Workspaces(q) => g \in Workspaces(q)')
    BY <2>1, <2>4, Belongs
  <2>6. \A q \in Requests : req[q].pc = "endWorkspace" => req'[q] = req[q]
    BY <2>3 DEF TheyMiss, MissedIt
  <2>7. \A x, g : Cover(x, g) => Cover(x, g)'
    BY <1>0, <2>6, CoverStays
  <2>8. \A q \in People, g \in Firms : (q = p /\ g = f) \/ Stands(q, g)
    BY <2>5, <2>7 DEF Stands
  <2> QED BY <2>1, <2>3, <2>8, InsideEnded
<1>8. ASSUME NEW p \in People, Generate2FASecret(p) \/ (\E on \in BOOLEAN : SetUserActive(p, on)) PROVE InsideInv'
  BY <1>2, <1>8 DEF Generate2FASecret, SetUserActive
<1>9. ASSUME NEW l \in Links, NEW p \in People, RequestPasswordReset(l, p) PROVE InsideInv'
  BY <1>2, <1>9 DEF RequestPasswordReset
<1> QED BY <1>3, <1>4, <1>5, <1>6, <1>7, <1>8, <1>9 DEF AtOnce

LEMMA InsideIssue ==
    ASSUME AccountsInv, InsideInv, NEW r \in Requests, IssueSession(r)
    PROVE  InsideInv'
<1>0. /\ SessionsOK /\ WorksOK /\ WorkOK(req[r]) /\ req[r].pc = "issue" /\ Len(sessions) < MaxSessions /\ Leave(r)
      /\ UNCHANGED <<member, cleaner, undone>>
  BY DEF AccountsInv, WorksOK, IssueSession, At
<1>1. PICK n : n = Len(sessions) + 1
  OBVIOUS
<1>2. PICK s : s = [who |-> req[r].who, at |-> req[r].at, of |-> req[r].of, version |-> req[r].version,
                    missed |-> req[r].missed, live |-> TRUE]
  OBVIOUS
<1>3. s \in Session
  BY <1>0, <1>2, WorkKinds DEF Session
<1>4. sessions' = Append(sessions, s)
  BY <1>2 DEF IssueSession
<1>5. /\ DOMAIN sessions' = DOMAIN sessions \cup {n} /\ sessions'[n] = s
      /\ \A i \in DOMAIN sessions : sessions'[i] = sessions[i]
  BY <1>0, <1>1, <1>3, <1>4, OneIssued
<1>6. \A q \in Requests : req'[q] = IF q = r THEN Quiet ELSE req[q]
  BY <1>0 DEF Leave, Enter, WorksOK
<1>7. \A p, f : Cover(p, f) => Cover(p, f)'
  BY <1>0, <1>6, CoverStays
<1>8. \A p \in People, f \in Firms : Stands(p, f)
  BY <1>0, <1>7, Belongs DEF Stands
<1>9. ASSUME NEW p \in People, NEW f, NEW m, Inside(p, f, m) PROVE Inside(p, f, m)'
  BY <1>8, <1>9, InsideStays
<1>10. ASSUME NEW i \in DOMAIN sessions', sessions'[i].live
       PROVE  Inside(sessions[i].who, sessions[i].at, sessions[i].missed)'
  <2>1. PICK p, f, m : p = sessions'[i].who /\ f = sessions'[i].at /\ m = sessions'[i].missed
    OBVIOUS
  <2>2. p \in People /\ Inside(p, f, m)
    <3>1. CASE i = n
      BY <1>0, <1>2, <1>3, <1>5, <2>1, <3>1 DEF InsideInv, Session
    <3>2. CASE i # n
      BY <1>5, <1>10, <2>1, <3>2, PlaceTypes DEF InsideInv, Session
    <3> QED BY <3>1, <3>2
  <2>3. Inside(p, f, m)'
    BY <1>9, <2>2
  <2> QED BY <2>1, <2>3 DEF Inside, Cover, Workspaces, Staffs, Cleans
<1>11. ASSUME NEW q \in Requests, req'[q].pc = "issue"
       PROVE  Inside(req[q].who, req[q].at, req[q].missed)'
  <2>1. req'[q] = req[q]
    BY <1>6, <1>11 DEF Quiet
  <2>2. PICK p, f, m : p = req[q].who /\ f = req[q].at /\ m = req[q].missed
    OBVIOUS
  <2>3. p \in People /\ Inside(p, f, m)
    BY <1>11, <2>1, <2>2, PlaceTypes DEF InsideInv
  <2>4. Inside(p, f, m)'
    BY <1>9, <2>3
  <2> QED BY <2>1, <2>2, <2>4 DEF Inside, Cover, Workspaces, Staffs, Cleans
<1> QED BY <1>10, <1>11 DEF InsideInv

LEMMA InsideEndWorkspace ==
    ASSUME AccountsInv, InsideInv, NEW r \in Requests, EndWorkspace(r)
    PROVE  InsideInv'
<1>0. /\ SessionsOK /\ WorksOK /\ WorkOK(req[r]) /\ req[r].pc = "endWorkspace"
      /\ UNCHANGED <<member, cleaner, undone>>
  BY DEF AccountsInv, WorksOK, EndWorkspace, At
<1>1. PICK p, f : p = req[r].who /\ f = req[r].at
  OBVIOUS
<1>2. p \in People /\ f \in Firms
  BY <1>0, <1>1, WorkKinds
<1>3. sessions' = Deleted(p, {f}) /\ req' = [Noted(p, "workspace", {f}) EXCEPT ![r] = Quiet]
  BY <1>1 DEF EndWorkspace
<1>4. Kept
  BY <1>0, <1>3, SomeEnded
<1>6. TheyMiss(p, "workspace", {f}, {r})
  BY <1>0, <1>3, <1>4, KeptHolds, NotedAndLeft
<1>7. \A q \in Requests \ {r} : req[q].pc = "endWorkspace" => req'[q] = req[q]
  BY <1>6 DEF TheyMiss, MissedIt
<1>8. ASSUME NEW x \in People, NEW g \in Firms, ~(x = p /\ g = f), Cover(x, g) PROVE Cover(x, g)'
  <2>1. CASE x \in undone
    BY <1>0, <2>1 DEF Cover
  <2>2. CASE x \notin undone
    <3>1. PICK q \in Requests : req[q].pc = "endWorkspace" /\ req[q].who = x /\ req[q].at = g
      BY <1>8, <2>2 DEF Cover, At
    <3>2. q # r
      BY <1>1, <1>8, <3>1
    <3>3. req'[q] = req[q]
      BY <1>7, <3>1, <3>2
    <3> QED BY <3>1, <3>3 DEF Cover, At
  <2> QED BY <2>1, <2>2
<1>9. \A x \in People, g \in Firms : (x = p /\ g = f) \/ Stands(x, g)
  BY <1>0, <1>8, Belongs DEF Stands
<1>10. {r} \in SUBSET Requests
  OBVIOUS
<1>11. sessions' = Deleted(p, {f})
  BY <1>3
<1> QED BY <1>2, <1>6, <1>9, <1>10, <1>11, InsideEnded

LEMMA InsideContinue ==
    ASSUME AccountsInv, InsideInv, NEW r \in Requests, Continue(r)
    PROVE  InsideInv'
<1>0. SessionsOK /\ WorksOK /\ WorkOK(req[r]) /\ Points(req[r])
  BY DEF AccountsInv, WorksOK
<1>1. PICK old : old = req[r]
  OBVIOUS
<1>2. ASSUME UNCHANGED <<sessions, member, cleaner>>
      PROVE  Kept /\ \A p \in People, f \in Firms : f \in Workspaces(p) => f \in Workspaces(p)'
  BY <1>0, <1>2, SameSessions, Belongs
<1>3. ASSUME NEW w, Enter(r, w) PROVE req'[r] = w
  BY <1>0, <1>3 DEF Enter, WorksOK
<1>4. ASSUME UNCHANGED <<sessions, member, cleaner>>, undone \subseteq undone', NEW w, Enter(r, w), w.pc # "issue",
             old.pc = "endWorkspace" => old.who \in undone'
      PROVE  InsideInv'
  BY <1>1, <1>2, <1>4, InsideEnter
<1>5. ASSUME UNCHANGED <<sessions, member, cleaner>>, undone \subseteq undone', Leave(r),
             old.pc = "endWorkspace" => old.who \in undone'
      PROVE  InsideInv'
  <2>1. PICK w : w = Quiet
    OBVIOUS
  <2> QED BY <1>4, <1>5, <2>1 DEF Leave, Quiet
<1>6. ASSUME UNCHANGED <<sessions, member, cleaner, undone>>, NEW p, NEW f, NEW i, NEW v, NEW m,
             f \in Workspaces(p) \/ f = NoFirm, Enter(r, Issuing(p, f, i, v, m)), old.pc # "endWorkspace"
      PROVE  InsideInv'
  <2>1. PICK w : w = Issuing(p, f, i, v, m)
    OBVIOUS
  <2>2. req'[r] = w
    BY <1>3, <1>6, <2>1
  <2>3. req'[r].who = p /\ req'[r].at = f
    BY <2>1, <2>2 DEF Issuing
  <2>4. f \in Workspaces(p)' \/ f = NoFirm
    BY <1>6 DEF Workspaces, Staffs, Cleans
  <2>5. Settles(r)
    BY <2>3, <2>4, AccountsAssumption DEF Settles, Inside, Workspaces, Staffs, Cleans
  <2> QED BY <1>1, <1>2, <1>6, <2>1, <2>5, InsideEnter
<1>7. CASE Choose(r)
  <2>1. UNCHANGED <<sessions, member, cleaner, undone>> /\ old.pc = "choose"
    BY <1>1, <1>7 DEF Choose, At
  <2>2. Leave(r) \/ \E f : /\ f \in Workspaces(old.who) \/ f = NoFirm
                           /\ Enter(r, Issuing(old.who, f, 0, old.version, old.missed))
    BY <1>1, <1>7 DEF Choose
  <2> QED BY <1>5, <1>6, <2>1, <2>2
<1>8. CASE Renew(r)
  <2>1. UNCHANGED <<sessions, member, cleaner, undone>> /\ old.pc = "renew"
    BY <1>1, <1>8 DEF Renew, At
  <2>2. ASSUME NEW f, f \in (CASE sessions[old.of].at \in Workspaces(old.who) -> {sessions[old.of].at}
                               [] Staffs(old.who) # {} -> Staffs(old.who)
                               [] Cleans(old.who) # {} -> Cleans(old.who)
                               [] OTHER -> {NoFirm})
        PROVE  f \in Workspaces(old.who) \/ f = NoFirm
    BY <2>2 DEF Workspaces
  <2>3. Leave(r) \/ \E f : /\ f \in Workspaces(old.who) \/ f = NoFirm
                           /\ Enter(r, Issuing(old.who, f, old.of, sessions[old.of].version, old.missed))
    BY <1>1, <1>8, <2>2 DEF Renew
  <2> QED BY <1>5, <1>6, <2>1, <2>3
<1>9. CASE Rotate(r)
  <2>1. PICK i : i = req[r].of
    OBVIOUS
  <2>2. i \in DOMAIN sessions /\ UNCHANGED <<member, cleaner, undone>> /\ old.pc = "rotate"
    BY <1>0, <1>1, <1>9, <2>1 DEF Rotate, At, Points
  <2>3. CASE sessions[i].live
    <3>1. PICK w : w = Renewing(i)
      OBVIOUS
    <3>2. sessions' = [sessions EXCEPT ![i].live = FALSE] /\ Enter(r, w)
      BY <1>9, <2>1, <2>3, <3>1 DEF Rotate
    <3>3. Kept
      BY <1>0, <2>2, <3>2, OneEnded
    <3>4. w.pc # "issue" /\ w.pc # "endWorkspace"
      BY <3>1 DEF Renewing
    <3>5. \A p \in People, f \in Firms : f \in Workspaces(p) => f \in Workspaces(p)'
      BY <2>2, Belongs
    <3> QED BY <1>1, <2>2, <3>2, <3>3, <3>4, <3>5, InsideEnter
  <2>4. CASE ~sessions[i].live
    BY <1>5, <1>9, <2>1, <2>2, <2>4 DEF Rotate
  <2> QED BY <2>3, <2>4
<1>10. ASSUME NEW pc \in {"endSessions", "markUsed"}, UNCHANGED <<sessions, member, cleaner, undone>>,
              Enter(r, [old EXCEPT !.pc = pc]), old.pc \in {"setPassword", "markUsed", "disable"}
       PROVE  InsideInv'
  <2>1. PICK w : w = [old EXCEPT !.pc = pc]
    OBVIOUS
  <2>2. old = [pc |-> old.pc, who |-> old.who, by |-> old.by]
    BY <1>0, <1>1, <1>10, WorkKinds
  <2>3. w.pc = pc
    BY <2>1, <2>2
  <2> QED BY <1>4, <1>10, <2>1, <2>3
<1>11. CASE SetPassword(r)
  <2>1. CASE req[r].by = {}
    BY <1>1, <1>10, <1>11, <2>1 DEF SetPassword, At
  <2>2. CASE req[r].by # {}
    BY <1>1, <1>10, <1>11, <2>2 DEF SetPassword, At
  <2> QED BY <2>1, <2>2
<1>12. CASE MarkUsed(r)
  BY <1>1, <1>10, <1>12 DEF MarkUsed, At
<1>13. CASE Disabled(r)
  BY <1>1, <1>10, <1>13 DEF Disabled, At
<1>14. CASE Enable2FA(r)
  BY <1>1, <1>5, <1>14 DEF Enable2FA, At
<1>15. CASE Die(r)
  BY <1>1, <1>5, <1>15 DEF Die
<1>16. CASE EndSessions(r)
  <2>1. PICK p : p = req[r].who
    OBVIOUS
  <2>2. Kept
    BY <1>0, <1>16, SomeEnded DEF EndSessions
  <2>3. TheyMiss(p, "credentials", Firms, {r})
    BY <1>0, <1>16, <2>1, <2>2, KeptHolds, NotedAndLeft DEF EndSessions
  <2>4. \A q \in Requests \ {r} : MissedIt(q, "credentials")
    BY <2>3 DEF TheyMiss
  <2>5. ASSUME NEW q \in Requests PROVE Settles(q)
    <3>1. CASE q = r
      BY <2>3, <3>1 DEF TheyMiss, Settles, Quiet
    <3>2. CASE q # r
      <4>1. MissedIt(q, "credentials")
        BY <2>4, <3>2
      <4> QED BY <1>0, <4>1, SettlesMissing
    <3> QED BY <3>1, <3>2
  <2>6. UNCHANGED <<member, cleaner, undone>> /\ req[r].pc = "endSessions"
    BY <1>16 DEF EndSessions, At
  <2>7. \A q \in Requests : req[q].pc = "endWorkspace" => req'[q] = req[q]
    BY <2>4, <2>6 DEF MissedIt
  <2>8. \A p1, f : Cover(p1, f) => Cover(p1, f)'
    BY <2>6, <2>7, CoverStays
  <2>9. \A p1 \in People, f \in Firms : Stands(p1, f)
    BY <2>6, <2>8, Belongs DEF Stands
  <2> QED BY <2>2, <2>5, <2>9, InsideSame
<1> QED BY <1>7, <1>8, <1>9, <1>11, <1>12, <1>13, <1>14, <1>15, <1>16, InsideIssue, InsideEndWorkspace DEF Continue

LEMMA InsideHolds == AccountsSpec => []InsideInv
<1>1. AccountsInit => InsideInv
  BY DEF AccountsInit, InsideInv, Quiet
<1>2. AccountsInv /\ InsideInv /\ [AccountsNext]_accountVars => InsideInv'
  <2> SUFFICES ASSUME AccountsInv, InsideInv, [AccountsNext]_accountVars PROVE InsideInv'
    OBVIOUS
  <2>1. CASE AccountsNext
    BY <2>1, InsideBegin, InsideAtOnce, InsideContinue DEF AccountsNext
  <2>2. CASE UNCHANGED accountVars
    BY <2>2 DEF accountVars, InsideInv, Inside, Cover, At, Workspaces, Staffs, Cleans
  <2> QED BY <2>1, <2>2
<1> QED BY <1>1, <1>2, AccountsTyped, PTL DEF AccountsSpec

LEMMA InsideIsOwn == ASSUME InsideInv PROVE InOwnWorkspace
BY DEF InsideInv, Inside, Cover, InOwnWorkspace

-----------------------------------------------------------------------------
(* Accounts, as a part of Platform *)

LEMMA PlatformAccounts == Spec => AccountsSpec
<1>1. Init => AccountsInit
  BY DEF Init
<1>2. [Next]_vars => [AccountsNext]_accountVars
  BY DEF Next, AccountsStep, CodesStep, BusinessesStep, SubscriptionsStep, vars, accountVars
<1> QED BY <1>1, <1>2, PTL DEF Spec, AccountsSpec

\* A refresh token is renewed once, however many requests present it: at most
\* one session takes the place of another (refresh, auth.service.js:280-284).
THEOREM AccountsOneSuccessor == Spec => []OneSuccessor
<1>1. SuccInv => OneSuccessor
  BY DEF SuccInv
<1> QED BY <1>1, PlatformAccounts, SuccHolds, PTL

\* A changed password, and a second factor that is turned off, end the sessions
\* there were, but for the windows and the deaths that the property names
\* (changePassword, disable2FA, confirmPasswordReset: auth.service.js:322-344,
\* 416-432, 492-522).
THEOREM AccountsSignedInSince == Spec => []SignedInSince
BY PlatformAccounts, SinceHolds, SinceIsSignedIn, PTL

\* A session works in a firm its person belongs to, but for the windows and the
\* deaths that the property names (removeMember, releaseCleaner:
\* staff.service.js:160-169, cleaners.service.js:160-168).
THEOREM AccountsInOwnWorkspace == Spec => []InOwnWorkspace
BY PlatformAccounts, InsideHolds, InsideIsOwn, PTL

-----------------------------------------------------------------------------
(* Codes: the types, and only the newest code *)

CodesSpec == CodesInit /\ [][CodesNext]_codeVars

\* What a request may carry at each place it stops at.
CallOK(w) ==
    \/ w = Away
    \/ w \in [pc : {"retire", "send"}, for : Sendable]
    \/ w \in [pc : {"find"}, for : Purposes, typed : 0..MaxCodes]
    \/ w \in [pc : {"redeem"}, for : Sendable, typed : 0..MaxCodes]

CodesInv ==
    /\ codes \in [Purposes -> SUBSET Code] /\ codes["LOGIN_2FA"] = {}
    /\ sent \in Nat /\ failed \in [Purposes -> Nat] /\ lastCode \in 0..MaxCodes
    /\ caller = [c \in Callers |-> caller[c]]
    /\ \A c \in Callers : CallOK(caller[c])

\* One code at most was sent alone; and while a request stands between
\* retiring the old codes and sending its own, there is none.
NewestInv ==
    \A k \in Purposes :
        /\ \A x, y \in codes[k] : ~x.beside /\ ~y.beside => x = y
        /\ (\E c \in Callers : Calls(c, "send", k)) => \A x \in codes[k] : x.beside

LEMMA CallKinds ==
    ASSUME NEW w, CallOK(w)
    PROVE  /\ w.pc \in {"retire", "send", "redeem"} => w.for \in Sendable
           /\ w.pc = "find" => w.for \in Purposes /\ w.typed \in 0..MaxCodes
           /\ w.pc = "idle" => w = Away
           /\ w.pc \in {"idle", "retire", "send", "find", "redeem"}
BY DEF CallOK, Away

\* A request that goes somewhere else, the others staying.
LEMMA Gone ==
    ASSUME CodesInv, NEW c \in Callers, NEW w, Goes(c, w), CallOK(w)
    PROVE  /\ caller' = [d \in Callers |-> caller'[d]]
           /\ \A d \in Callers : CallOK(caller[d])'
           /\ caller'[c] = w /\ \A d \in Callers \ {c} : caller'[d] = caller[d]
<1>1. DOMAIN caller = Callers /\ \A d \in Callers : CallOK(caller[d])
  BY DEF CodesInv
<1>2. \A d \in Callers : caller'[d] = IF d = c THEN w ELSE caller[d]
  BY <1>1 DEF Goes
<1>3. caller' = [d \in Callers |-> caller'[d]]
  BY <1>1 DEF Goes
<1> QED BY <1>1, <1>2, <1>3 DEF CallOK

\* The steps of the requests, with the purpose they are for.
LEMMA CodesSteps ==
    ASSUME CodesNext
    PROVE  \/ SendIsForgotten
           \/ \E k \in Purposes : CodeExpires(k) \/ FailureIsForgotten(k)
           \/ \E c \in Callers, k \in Sendable : Ask(c, k) \/ Retire(c, k) \/ Send(c, k) \/ Redeem(c, k)
           \/ \E c \in Callers, k \in Purposes :
                TryLocked(c, k) \/ Judge(c, k) \/ (\E x \in NoCode..lastCode : Try(c, k, x))
BY DEF CodesNext

LEMMA CodesTypes ==
    ASSUME CodesInv, [CodesNext]_codeVars
    PROVE  CodesInv'
<1> USE DEF CodesInv
<1>1. ASSUME UNCHANGED caller
      PROVE  caller' = [d \in Callers |-> caller'[d]] /\ \A d \in Callers : CallOK(caller[d])'
  BY <1>1 DEF CallOK
<1>2. ASSUME NEW c \in Callers, NEW w, Goes(c, w), CallOK(w)
      PROVE  caller' = [d \in Callers |-> caller'[d]] /\ \A d \in Callers : CallOK(caller[d])'
  BY <1>2, Gone
<1>3. Sendable \subseteq Purposes /\ "LOGIN_2FA" \notin Sendable /\ CallOK(Away)
  BY DEF Sendable, Purposes, CallOK
<1>4. CASE SendIsForgotten
  BY <1>1, <1>4 DEF SendIsForgotten
<1>5. ASSUME NEW k \in Purposes, CodeExpires(k) PROVE CodesInv'
  <2>1. PICK code \in codes[k] : codes' = [codes EXCEPT ![k] = @ \ {code}]
    BY <1>5 DEF CodeExpires
  <2>2. codes' \in [Purposes -> SUBSET Code] /\ codes'["LOGIN_2FA"] = {}
    BY <2>1 DEF Purposes
  <2> QED BY <1>1, <1>5, <2>2 DEF CodeExpires
<1>6. ASSUME NEW k \in Purposes, FailureIsForgotten(k) PROVE CodesInv'
  BY <1>1, <1>6 DEF FailureIsForgotten
<1>7. ASSUME NEW c \in Callers, NEW k \in Sendable, Ask(c, k) PROVE CodesInv'
  <2>1. PICK w : w = [pc |-> "retire", for |-> k]
    OBVIOUS
  <2>2. CallOK(w)
    BY <2>1 DEF CallOK
  <2> QED BY <1>2, <1>7, <2>1, <2>2 DEF Ask
<1>8. ASSUME NEW c \in Callers, NEW k \in Sendable, Retire(c, k) PROVE CodesInv'
  <2>1. PICK w : w = [pc |-> "send", for |-> k]
    OBVIOUS
  <2>2. CallOK(w)
    BY <2>1 DEF CallOK
  <2>3. codes' \in [Purposes -> SUBSET Code] /\ codes'["LOGIN_2FA"] = {}
    BY <1>3, <1>8 DEF Retire
  <2> QED BY <1>2, <1>8, <2>1, <2>2, <2>3 DEF Retire
<1>9. ASSUME NEW c \in Callers, NEW k \in Sendable, Send(c, k) PROVE CodesInv'
  <2>1. PICK new : new = [id |-> lastCode + 1, beside |-> \E d \in Callers \ {c} : Calls(d, "send", k)]
    OBVIOUS
  <2>2. lastCode + 1 \in 1..MaxCodes
    BY <1>9, CodesAssumption DEF Send
  <2>3. new \in Code
    BY <2>1, <2>2 DEF Code
  <2>4. codes' = [codes EXCEPT ![k] = @ \cup {new}] /\ lastCode' = lastCode + 1
    BY <1>9, <2>1 DEF Send
  <2>5. codes' \in [Purposes -> SUBSET Code] /\ codes'["LOGIN_2FA"] = {}
    BY <1>3, <2>3, <2>4
  <2>6. sent' \in Nat /\ lastCode' \in 0..MaxCodes
    BY <1>9, <2>2 DEF Send
  <2> QED BY <1>2, <1>3, <1>9, <2>5, <2>6 DEF Send
<1>10. ASSUME NEW c \in Callers, NEW k \in Sendable, Redeem(c, k) PROVE CodesInv'
  <2>1. codes' \in [Purposes -> SUBSET Code] /\ codes'["LOGIN_2FA"] = {}
    BY <1>3, <1>10 DEF Redeem
  <2> QED BY <1>2, <1>3, <1>10, <2>1 DEF Redeem
<1>11. ASSUME NEW c \in Callers, NEW k \in Purposes, TryLocked(c, k) PROVE CodesInv'
  <2>1. codes' \in [Purposes -> SUBSET Code] /\ codes'["LOGIN_2FA"] = {}
    BY <1>11 DEF TryLocked
  <2> QED BY <1>1, <1>11, <2>1 DEF TryLocked
<1>12. ASSUME NEW c \in Callers, NEW k \in Purposes, Judge(c, k) PROVE CodesInv'
  <2>1. failed' \in [Purposes -> Nat]
    BY <1>12 DEF Judge
  <2>2. CASE Goes(c, Away)
    BY <1>2, <1>3, <1>12, <2>1, <2>2 DEF Judge
  <2>3. CASE k \in Sendable /\ Goes(c, [pc |-> "redeem", for |-> k, typed |-> caller[c].typed])
    <3>1. PICK w : w = [pc |-> "redeem", for |-> k, typed |-> caller[c].typed]
      OBVIOUS
    <3>2. caller[c].typed \in 0..MaxCodes
      BY <1>12, CallKinds DEF Judge, Calls
    <3>3. CallOK(w)
      BY <2>3, <3>1, <3>2 DEF CallOK
    <3> QED BY <1>2, <1>12, <2>1, <2>3, <3>1, <3>3 DEF Judge
  <2> QED BY <1>12, <2>2, <2>3 DEF Judge
<1>13. ASSUME NEW c \in Callers, NEW k \in Purposes, NEW x \in NoCode..lastCode, Try(c, k, x) PROVE CodesInv'
  <2>1. PICK w : w = [pc |-> "find", for |-> k, typed |-> x]
    OBVIOUS
  <2>2. x \in 0..MaxCodes
    BY CodesAssumption DEF NoCode
  <2>3. CallOK(w)
    BY <2>1, <2>2 DEF CallOK
  <2> QED BY <1>2, <1>13, <2>1, <2>3 DEF Try
<1>14. CASE UNCHANGED codeVars
  BY <1>1, <1>14 DEF codeVars
<1> QED BY <1>4, <1>5, <1>6, <1>7, <1>8, <1>9, <1>10, <1>11, <1>12, <1>13, <1>14, CodesSteps

LEMMA CodesTyped == CodesSpec => []CodesInv
<1>1. CodesInit => CodesInv
  BY CodesAssumption DEF CodesInit, CodesInv, CallOK, Purposes, Sendable
<1> QED BY <1>1, CodesTypes, PTL DEF CodesSpec

\* Codes that are not beside another can only have gone, and nobody new stands
\* between retiring and sending, or every code has gone.
Shrinks == \A k \in Purposes :
    /\ codes'[k] \subseteq codes[k]
    /\ codes'[k] = {} \/ \A c \in Callers : Calls(c, "send", k)' => Calls(c, "send", k)

LEMMA NewestShrinks == ASSUME NewestInv, Shrinks PROVE NewestInv'
<1> SUFFICES ASSUME NEW k \in Purposes
             PROVE  /\ \A x, y \in codes'[k] : ~x.beside /\ ~y.beside => x = y
                    /\ (\E c \in Callers : Calls(c, "send", k)') => \A x \in codes'[k] : x.beside
  BY DEF NewestInv
<1> QED BY DEF NewestInv, Shrinks

\* A new code stands alone only when nobody else is about to send one.
LEMMA NewestSend ==
    ASSUME CodesInv, NewestInv, NEW c \in Callers, NEW k \in Sendable, Send(c, k)
    PROVE  NewestInv'
<1>1. PICK new : new = [id |-> lastCode + 1, beside |-> \E d \in Callers \ {c} : Calls(d, "send", k)]
  OBVIOUS
<1>2. new.beside <=> \E d \in Callers \ {c} : Calls(d, "send", k)
  BY <1>1
<1>3. k \in Purposes /\ Calls(c, "send", k) /\ codes' = [codes EXCEPT ![k] = @ \cup {new}] /\ Goes(c, Away)
  BY <1>1 DEF Send, Purposes
<1>4. caller'[c] = Away /\ \A d \in Callers \ {c} : caller'[d] = caller[d]
  BY <1>3, Gone DEF CallOK
<1>5. \A d \in Callers : \A j \in Purposes : Calls(d, "send", j)' => d # c /\ Calls(d, "send", j)
  BY <1>4 DEF Calls, Away
<1>6. codes'[k] = codes[k] \cup {new} /\ \A j \in Purposes \ {k} : codes'[j] = codes[j]
  BY <1>3 DEF CodesInv
<1>7. \A x \in codes[k] : x.beside
  BY <1>3 DEF NewestInv
<1>8. ASSUME NEW j \in Purposes
      PROVE  /\ \A x, y \in codes'[j] : ~x.beside /\ ~y.beside => x = y
             /\ (\E d \in Callers : Calls(d, "send", j)') => \A x \in codes'[j] : x.beside
  <2>1. CASE j = k
    BY <1>2, <1>5, <1>6, <1>7, <2>1
  <2>2. CASE j # k
    BY <1>5, <1>6, <2>2 DEF NewestInv
  <2> QED BY <2>1, <2>2
<1> QED BY <1>8 DEF NewestInv

LEMMA NewestStep ==
    ASSUME CodesInv, NewestInv, [CodesNext]_codeVars
    PROVE  NewestInv'
<1>1. ASSUME UNCHANGED codes, UNCHANGED caller PROVE NewestInv'
  BY <1>1 DEF NewestInv, Calls
<1>2. ASSUME UNCHANGED codes, NEW c \in Callers, NEW w, Goes(c, w), CallOK(w), w.pc # "send" PROVE NewestInv'
  <2>1. caller'[c] = w /\ \A d \in Callers \ {c} : caller'[d] = caller[d]
    BY <1>2, Gone
  <2> QED BY <1>2, <2>1, NewestShrinks DEF Shrinks, Calls
<1>3. Sendable \subseteq Purposes /\ CallOK(Away) /\ Away.pc # "send"
  BY DEF Purposes, CallOK, Away
<1>4. CASE SendIsForgotten
  BY <1>1, <1>4 DEF SendIsForgotten
<1>5. ASSUME NEW k \in Purposes, CodeExpires(k) PROVE NewestInv'
  BY <1>5, NewestShrinks DEF CodeExpires, Shrinks, Calls, CodesInv
<1>6. ASSUME NEW k \in Purposes, FailureIsForgotten(k) PROVE NewestInv'
  BY <1>1, <1>6 DEF FailureIsForgotten
<1>7. ASSUME NEW c \in Callers, NEW k \in Sendable, Ask(c, k) PROVE NewestInv'
  <2>1. PICK w : w = [pc |-> "retire", for |-> k]
    OBVIOUS
  <2>2. CallOK(w) /\ w.pc # "send"
    BY <2>1 DEF CallOK
  <2> QED BY <1>2, <1>7, <2>1, <2>2 DEF Ask
<1>8. ASSUME NEW c \in Callers, NEW k \in Sendable, Retire(c, k) PROVE NewestInv'
  <2>1. PICK w : w = [pc |-> "send", for |-> k]
    OBVIOUS
  <2>2. CallOK(w) /\ w.for = k
    BY <2>1 DEF CallOK
  <2>3. caller'[c] = w /\ \A d \in Callers \ {c} : caller'[d] = caller[d]
    BY <1>8, <2>1, <2>2, Gone DEF Retire
  <2>4. codes'[k] = {} /\ \A j \in Purposes \ {k} : codes'[j] = codes[j]
    BY <1>3, <1>8 DEF Retire, CodesInv
  <2>5. Shrinks
    BY <1>3, <2>2, <2>3, <2>4 DEF Shrinks, Calls
  <2> QED BY <2>5, NewestShrinks
<1>9. ASSUME NEW c \in Callers, NEW k \in Sendable, Send(c, k) PROVE NewestInv'
  BY <1>9, NewestSend
<1>10. ASSUME NEW c \in Callers, NEW k \in Sendable, Redeem(c, k) PROVE NewestInv'
  <2>1. caller'[c] = Away /\ \A d \in Callers \ {c} : caller'[d] = caller[d]
    BY <1>3, <1>10, Gone DEF Redeem
  <2>2. \A j \in Purposes : codes'[j] \subseteq codes[j]
    BY <1>10 DEF Redeem, CodesInv
  <2> QED BY <1>3, <2>1, <2>2, NewestShrinks DEF Shrinks, Calls
<1>11. ASSUME NEW c \in Callers, NEW k \in Purposes, TryLocked(c, k) PROVE NewestInv'
  <2>1. \A j \in Purposes : codes'[j] \subseteq codes[j]
    BY <1>11 DEF TryLocked, CodesInv
  <2> QED BY <1>11, <2>1, NewestShrinks DEF Shrinks, Calls, TryLocked
<1>12. ASSUME NEW c \in Callers, NEW k \in Purposes, Judge(c, k) PROVE NewestInv'
  <2>1. CASE Goes(c, Away)
    BY <1>2, <1>3, <1>12, <2>1 DEF Judge
  <2>2. CASE k \in Sendable /\ Goes(c, [pc |-> "redeem", for |-> k, typed |-> caller[c].typed])
    <3>1. PICK w : w = [pc |-> "redeem", for |-> k, typed |-> caller[c].typed]
      OBVIOUS
    <3>2. caller[c].typed \in 0..MaxCodes
      BY <1>12, CallKinds DEF Judge, Calls, CodesInv
    <3>3. CallOK(w) /\ w.pc # "send"
      BY <2>2, <3>1, <3>2 DEF CallOK
    <3> QED BY <1>2, <1>12, <2>2, <3>1, <3>3 DEF Judge
  <2> QED BY <1>12, <2>1, <2>2 DEF Judge
<1>13. ASSUME NEW c \in Callers, NEW k \in Purposes, NEW x \in NoCode..lastCode, Try(c, k, x) PROVE NewestInv'
  <2>1. PICK w : w = [pc |-> "find", for |-> k, typed |-> x]
    OBVIOUS
  <2>2. x \in 0..MaxCodes
    BY CodesAssumption DEF NoCode, CodesInv
  <2>3. CallOK(w) /\ w.pc # "send"
    BY <2>1, <2>2 DEF CallOK
  <2> QED BY <1>2, <1>13, <2>1, <2>3 DEF Try
<1>14. CASE UNCHANGED codeVars
  BY <1>1, <1>14 DEF codeVars
<1> QED BY <1>4, <1>5, <1>6, <1>7, <1>8, <1>9, <1>10, <1>11, <1>12, <1>13, <1>14, CodesSteps

LEMMA NewestHolds == CodesSpec => []NewestInv
<1>1. CodesInit => NewestInv
  BY DEF CodesInit, NewestInv, Calls, Away
<1> QED BY <1>1, NewestStep, CodesTyped, PTL DEF CodesSpec

LEMMA NewestIsOnly == ASSUME NewestInv PROVE OnlyNewest
<1> SUFFICES ASSUME NEW k \in Purposes
             PROVE  Cardinality({code \in codes[k] : ~code.beside}) <= 1
  BY DEF OnlyNewest
<1>1. PICK alone : alone = {code \in codes[k] : ~code.beside}
  OBVIOUS
<1>2. \A x, y \in alone : x = y
  BY <1>1 DEF NewestInv
<1>3. CASE alone = {}
  BY <1>1, <1>3, FS_EmptySet
<1>4. ASSUME NEW x \in alone PROVE Cardinality(alone) <= 1
  <2>1. alone = {x}
    BY <1>2
  <2> QED BY <2>1, FS_Singleton
<1> QED BY <1>1, <1>3, <1>4

-----------------------------------------------------------------------------
(* Codes: the limits are overshot by the requests that run at once *)

\* The requests that have read a limit and not used it up yet.
Finding(k) == {c \in Callers : Calls(c, "find", k)}
Sending    == {c \in Callers : Calls(c, "retire", "CUSTOMER_PORTAL") \/ Calls(c, "send", "CUSTOMER_PORTAL")}

LimitsInv ==
    /\ \A k \in Purposes : failed[k] + Cardinality(Finding(k)) < MaxFailures + Cardinality(Callers)
    /\ sent + Cardinality(Sending) < MaxPerWindow + Cardinality(Callers)

\* A count and those who may still add to it: they are joined under the limit,
\* and one leaves for what it adds.
Spends(S, S2, n, n2, max) ==
    \/ n < max /\ n2 <= n
    \/ S2 \subseteq S /\ n2 <= n
    \/ \E c \in S : c \notin S2 /\ S2 \subseteq S /\ n2 <= n + 1

LEMMA Overshoot ==
    ASSUME NEW U, IsFiniteSet(U), NEW S \in SUBSET U, NEW S2 \in SUBSET U,
           NEW n \in Nat, NEW n2 \in Nat, NEW max \in Nat,
           n + Cardinality(S) < max + Cardinality(U), Spends(S, S2, n, n2, max)
    PROVE  n2 + Cardinality(S2) < max + Cardinality(U)
<1>1. /\ IsFiniteSet(S) /\ Cardinality(S) \in Nat
      /\ Cardinality(S2) \in Nat /\ Cardinality(U) \in Nat /\ Cardinality(S2) <= Cardinality(U)
  BY FS_Subset, FS_CardinalityType
<1>2. CASE n < max /\ n2 <= n
  BY <1>1, <1>2
<1>3. CASE S2 \subseteq S /\ n2 <= n
  <2>1. Cardinality(S2) <= Cardinality(S)
    BY <1>1, <1>3, FS_Subset
  <2> QED BY <1>1, <1>3, <2>1
<1>4. ASSUME NEW c \in S, c \notin S2, S2 \subseteq S, n2 <= n + 1
      PROVE  n2 + Cardinality(S2) < max + Cardinality(U)
  <2>1. IsFiniteSet(S \ {c}) /\ Cardinality(S \ {c}) = Cardinality(S) - 1
    BY <1>1, FS_RemoveElement
  <2>2. S2 \in SUBSET (S \ {c})
    BY <1>4
  <2>3. Cardinality(S2) <= Cardinality(S \ {c})
    BY <2>1, <2>2, FS_Subset
  <2> QED BY <1>1, <1>4, <2>1, <2>3
<1> QED BY <1>2, <1>3, <1>4 DEF Spends

LimitsStep ==
    /\ \A k \in Purposes : Spends(Finding(k), Finding(k)', failed[k], failed'[k], MaxFailures)
    /\ Spends(Sending, Sending', sent, sent', MaxPerWindow)

LEMMA LimitsKept ==
    ASSUME IsFiniteSet(Callers), CodesInv, CodesInv', LimitsInv, LimitsStep
    PROVE  LimitsInv'
<1>1. MaxFailures \in Nat /\ MaxPerWindow \in Nat
  BY CodesAssumption
<1>2. ASSUME NEW k \in Purposes
      PROVE  failed'[k] + Cardinality(Finding(k)') < MaxFailures + Cardinality(Callers)
  <2>1. PICK S, S2, n, n2 : S = Finding(k) /\ S2 = Finding(k)' /\ n = failed[k] /\ n2 = failed'[k]
    OBVIOUS
  <2>2. S \in SUBSET Callers /\ S2 \in SUBSET Callers
    BY <2>1 DEF Finding
  <2>3. n \in Nat /\ n2 \in Nat
    BY <2>1 DEF CodesInv
  <2>4. n + Cardinality(S) < MaxFailures + Cardinality(Callers) /\ Spends(S, S2, n, n2, MaxFailures)
    BY <2>1 DEF LimitsInv, LimitsStep
  <2> HIDE DEF Finding
  <2>5. n2 + Cardinality(S2) < MaxFailures + Cardinality(Callers)
    BY <1>1, <2>2, <2>3, <2>4, Overshoot
  <2> QED BY <2>1, <2>5
<1>3. sent' + Cardinality(Sending') < MaxPerWindow + Cardinality(Callers)
  <2>1. PICK S, S2, n, n2 : S = Sending /\ S2 = Sending' /\ n = sent /\ n2 = sent'
    OBVIOUS
  <2>2. S \in SUBSET Callers /\ S2 \in SUBSET Callers
    BY <2>1 DEF Sending
  <2>3. n \in Nat /\ n2 \in Nat
    BY <2>1 DEF CodesInv
  <2>4. n + Cardinality(S) < MaxPerWindow + Cardinality(Callers) /\ Spends(S, S2, n, n2, MaxPerWindow)
    BY <2>1 DEF LimitsInv, LimitsStep
  <2>5. n2 + Cardinality(S2) < MaxPerWindow + Cardinality(Callers)
    BY <1>1, <2>2, <2>3, <2>4, Overshoot
  <2> QED BY <2>1, <2>5
<1> QED BY <1>2, <1>3 DEF LimitsInv

\* A request that goes on without using up a limit, or having read that it may.
LEMMA LimitsMove ==
    ASSUME CodesInv, NEW c \in Callers, NEW w, Goes(c, w), CallOK(w),
           \A k \in Purposes : failed'[k] <= failed[k], sent' <= sent,
           \A k \in Purposes : w.pc = "find" /\ w.for = k => failed[k] < MaxFailures,
           w.pc \in {"retire", "send"} /\ w.for = "CUSTOMER_PORTAL" => sent < MaxPerWindow \/ c \in Sending
    PROVE  LimitsStep
<1>1. caller'[c] = w /\ \A d \in Callers \ {c} : caller'[d] = caller[d]
  BY Gone
<1>2. ASSUME NEW k \in Purposes
      PROVE  Spends(Finding(k), Finding(k)', failed[k], failed'[k], MaxFailures)
  <2>1. failed[k] < MaxFailures \/ Finding(k)' \subseteq Finding(k)
    BY <1>1 DEF Finding, Calls
  <2> QED BY <2>1 DEF Spends
<1>3. sent < MaxPerWindow \/ Sending' \subseteq Sending
  BY <1>1 DEF Sending, Calls
<1> QED BY <1>2, <1>3 DEF LimitsStep, Spends

LEMMA LimitsSteps ==
    ASSUME CodesInv, [CodesNext]_codeVars
    PROVE  LimitsStep
<1>0. Sendable \subseteq Purposes /\ CallOK(Away) /\ Away.pc = "idle"
  BY DEF Purposes, CallOK, Away
<1>1. /\ failed \in [Purposes -> Nat] /\ sent \in Nat
      /\ \A n \in Nat : n <= n /\ n - 1 <= n
  BY DEF CodesInv
<1>2. ASSUME UNCHANGED caller, \A k \in Purposes : failed'[k] <= failed[k], sent' <= sent PROVE LimitsStep
  BY <1>2 DEF LimitsStep, Spends, Finding, Sending, Calls
<1>4. CASE SendIsForgotten
  BY <1>1, <1>2, <1>4 DEF SendIsForgotten
<1>5. ASSUME NEW k \in Purposes, CodeExpires(k) PROVE LimitsStep
  BY <1>1, <1>2, <1>5 DEF CodeExpires
<1>6. ASSUME NEW k \in Purposes, FailureIsForgotten(k) PROVE LimitsStep
  <2>1. \A j \in Purposes : failed'[j] <= failed[j]
    BY <1>1, <1>6 DEF FailureIsForgotten
  <2> QED BY <1>1, <1>2, <1>6, <2>1 DEF FailureIsForgotten
<1>7. ASSUME NEW c \in Callers, NEW k \in Sendable, Ask(c, k) PROVE LimitsStep
  <2>1. PICK w : w = [pc |-> "retire", for |-> k]
    OBVIOUS
  <2>2. CallOK(w) /\ w.pc = "retire" /\ w.for = k
    BY <2>1 DEF CallOK
  <2>3. Goes(c, w) /\ UNCHANGED <<failed, sent>> /\ (k = "CUSTOMER_PORTAL" => sent < MaxPerWindow)
    BY <1>7, <2>1 DEF Ask
  <2> QED BY <1>1, <2>2, <2>3, LimitsMove
<1>8. ASSUME NEW c \in Callers, NEW k \in Sendable, Retire(c, k) PROVE LimitsStep
  <2>1. PICK w : w = [pc |-> "send", for |-> k]
    OBVIOUS
  <2>2. CallOK(w) /\ w.pc = "send" /\ w.for = k
    BY <2>1 DEF CallOK
  <2>3. Goes(c, w) /\ UNCHANGED <<failed, sent>> /\ (k = "CUSTOMER_PORTAL" => c \in Sending)
    BY <1>8, <2>1 DEF Retire, Sending
  <2> QED BY <1>1, <2>2, <2>3, LimitsMove
<1>9. ASSUME NEW c \in Callers, NEW k \in Sendable, Send(c, k) PROVE LimitsStep
  <2>1. caller'[c] = Away /\ \A d \in Callers \ {c} : caller'[d] = caller[d]
    BY <1>0, <1>9, Gone DEF Send
  <2>2. UNCHANGED failed /\ \A j \in Purposes : Finding(j)' \subseteq Finding(j)
    BY <1>0, <1>9, <2>1 DEF Finding, Calls, Send
  <2>3. Sending' \subseteq Sending /\ c \notin Sending'
    BY <1>0, <2>1 DEF Sending, Calls
  <2>4. \/ sent' = sent
        \/ sent' = sent + 1 /\ c \in Sending
    BY <1>9 DEF Send, Sending
  <2>5. Spends(Sending, Sending', sent, sent', MaxPerWindow)
    BY <1>1, <2>3, <2>4 DEF Spends
  <2>6. \A j \in Purposes : failed'[j] <= failed[j]
    BY <1>1, <2>2
  <2> QED BY <2>2, <2>5, <2>6 DEF LimitsStep, Spends
<1>10. ASSUME NEW c \in Callers, NEW k \in Sendable, Redeem(c, k) PROVE LimitsStep
  BY <1>0, <1>1, <1>10, LimitsMove DEF Redeem
<1>11. ASSUME NEW c \in Callers, NEW k \in Purposes, TryLocked(c, k) PROVE LimitsStep
  BY <1>1, <1>2, <1>11 DEF TryLocked
<1>12. ASSUME NEW c \in Callers, NEW k \in Purposes, Judge(c, k) PROVE LimitsStep
  <2>1. CASE Goes(c, Away) /\ UNCHANGED failed
    BY <1>0, <1>1, <1>12, <2>1, LimitsMove DEF Judge
  <2>2. CASE k \in Sendable /\ Goes(c, [pc |-> "redeem", for |-> k, typed |-> caller[c].typed]) /\ UNCHANGED failed
    <3>1. PICK w : w = [pc |-> "redeem", for |-> k, typed |-> caller[c].typed]
      OBVIOUS
    <3>2. caller[c].typed \in 0..MaxCodes
      BY <1>12, CallKinds DEF Judge, Calls, CodesInv
    <3>3. CallOK(w) /\ w.pc = "redeem"
      BY <2>2, <3>1, <3>2 DEF CallOK
    <3>4. Goes(c, w) /\ UNCHANGED <<failed, sent>>
      BY <1>12, <2>2, <3>1 DEF Judge
    <3> QED BY <1>1, <3>3, <3>4, LimitsMove
  <2>3. CASE Goes(c, Away) /\ failed' = [failed EXCEPT ![k] = @ + 1]
    <3>1. caller'[c] = Away /\ \A d \in Callers \ {c} : caller'[d] = caller[d]
      BY <1>0, <2>3, Gone
    <3>2. \A j \in Purposes : Finding(j)' \subseteq Finding(j) /\ c \notin Finding(j)'
      BY <1>0, <3>1 DEF Finding, Calls
    <3>3. c \in Finding(k)
      BY <1>12 DEF Judge, Finding
    <3>4. \A j \in Purposes : failed'[j] <= failed[j] \/ (j = k /\ failed'[j] <= failed[j] + 1)
      BY <1>1, <2>3
    <3>5. \A j \in Purposes : Spends(Finding(j), Finding(j)', failed[j], failed'[j], MaxFailures)
      BY <3>2, <3>3, <3>4 DEF Spends
    <3>6. Sending' \subseteq Sending
      BY <1>0, <3>1 DEF Sending, Calls
    <3>7. sent' <= sent
      BY <1>1, <1>12 DEF Judge
    <3> QED BY <3>5, <3>6, <3>7 DEF LimitsStep, Spends
  <2> QED BY <1>12, <2>1, <2>2, <2>3 DEF Judge
<1>13. ASSUME NEW c \in Callers, NEW k \in Purposes, NEW x \in NoCode..lastCode, Try(c, k, x) PROVE LimitsStep
  <2>1. PICK w : w = [pc |-> "find", for |-> k, typed |-> x]
    OBVIOUS
  <2>2. x \in 0..MaxCodes
    BY CodesAssumption DEF NoCode, CodesInv
  <2>3. CallOK(w) /\ w.pc = "find" /\ w.for = k
    BY <2>1, <2>2 DEF CallOK
  <2>4. Goes(c, w) /\ UNCHANGED <<failed, sent>>
    BY <1>13, <2>1 DEF Try
  <2>5. failed[k] < MaxFailures
    BY <1>1, <1>13, CodesAssumption DEF Try, Locked
  <2> QED BY <1>1, <2>3, <2>4, <2>5, LimitsMove
<1>14. CASE UNCHANGED codeVars
  BY <1>1, <1>2, <1>14 DEF codeVars
<1> QED BY <1>4, <1>5, <1>6, <1>7, <1>8, <1>9, <1>10, <1>11, <1>12, <1>13, <1>14, CodesSteps

LEMMA LimitsHold == ASSUME IsFiniteSet(Callers) PROVE CodesSpec => []LimitsInv
<1>1. CodesInit => LimitsInv
  <2> SUFFICES ASSUME CodesInit PROVE LimitsInv
    OBVIOUS
  <2>1. Sending = {} /\ \A k \in Purposes : Finding(k) = {}
    BY DEF CodesInit, Sending, Finding, Calls, Away
  <2>2. Cardinality({}) = 0 /\ Cardinality(Callers) \in Nat
    BY FS_EmptySet, FS_CardinalityType
  <2>3. sent = 0 /\ \A k \in Purposes : failed[k] = 0
    BY DEF CodesInit
  <2>4. MaxFailures \in Nat \ {0} /\ MaxPerWindow \in Nat \ {0}
    BY CodesAssumption
  <2> QED BY <2>1, <2>2, <2>3, <2>4 DEF LimitsInv
<1>2. CodesInv /\ CodesInv' /\ LimitsInv /\ [CodesNext]_codeVars => LimitsInv'
  BY LimitsSteps, LimitsKept
<1> QED BY <1>1, <1>2, CodesTyped, PTL DEF CodesSpec

LEMMA LimitsAreOvershoot ==
    ASSUME IsFiniteSet(Callers), CodesInv, LimitsInv PROVE LimitsOvershootByCallers
<1>1. Cardinality(Callers) \in Nat /\ MaxFailures \in Nat /\ MaxPerWindow \in Nat
  BY FS_CardinalityType, CodesAssumption
<1>2. \A n, m \in Nat : \A b \in Nat : n + m < b => n < b
  OBVIOUS
<1>3. \A S \in SUBSET Callers : Cardinality(S) \in Nat
  BY FS_Subset, FS_CardinalityType
<1>4. Cardinality(Sending) \in Nat /\ \A k \in Purposes : Cardinality(Finding(k)) \in Nat
  BY <1>3 DEF Sending, Finding
<1>5. sent \in Nat /\ failed \in [Purposes -> Nat]
  BY DEF CodesInv
<1> QED BY <1>1, <1>4, <1>5 DEF LimitsInv, LimitsOvershootByCallers

LEMMA PlatformCodes == Spec => CodesSpec
<1>1. Init => CodesInit
  BY DEF Init
<1>2. [Next]_vars => [CodesNext]_codeVars
  BY DEF Next, AccountsStep, CodesStep, BusinessesStep, SubscriptionsStep, vars, codeVars
<1> QED BY <1>1, <1>2, PTL DEF Spec, CodesSpec

\* Only the newest code is valid, and the limits of a window are overshot by
\* the requests that run at once and by no more, however many they are
\* (auth.service.js:350-363, customerPortal.service.js:62-133, lib/otp.js:4-9).
THEOREM CodesHoldTogether == ASSUME IsFiniteSet(Callers) PROVE Spec => []CodesHold
<1>1. CodesInv /\ NewestInv /\ LimitsInv => CodesHold
  BY NewestIsOnly, LimitsAreOvershoot DEF CodesHold
<1> QED BY <1>1, PlatformCodes, CodesTyped, NewestHolds, LimitsHold, PTL

-----------------------------------------------------------------------------
(* Businesses: the types *)

BizSpec == BizInit /\ [][BizNext]_bizVars

Place    == Names \cup {NoName}
Readings == [Shops -> [domain : Place, token : Ids]]

\* What a request, or the worker, may carry at each place it stops at.
HandOK(w) ==
    \/ w = Calm
    \/ w \in [pc : {"look"}, rows : SUBSET Shops, read : Readings]
    \/ w \in [pc : {"found"}, rows : SUBSET Shops, read : Readings, at : Shops, ok : BOOLEAN] /\ w.at \in w.rows
    \/ \E f \in Shops : \/ w \in [pc : {"save"}, rows : {{f}}, patch : Patches]
                        \/ w \in [pc : {"link"}, rows : {{f}}, account : Ids]
                        \/ w \in [pc : {"status"}, rows : {{f}}, charges : BOOLEAN]

BizTables ==
    /\ biz \in [Shops -> Biz] /\ taken \in [Shops -> SUBSET Currencies] /\ crossed \in [Shops -> SUBSET Aspects]
    /\ drawn \in [token : Ids, account : Ids]
    /\ \A e \in notices : e.account \in Ids /\ e.charges \in BOOLEAN

HandsOK == form = [h \in Hands |-> form[h]] /\ \A h \in Hands : HandOK(form[h])

BizInv == BizTables /\ HandsOK

LEMMA HandKinds ==
    ASSUME NEW w, HandOK(w)
    PROVE  /\ w.pc \in {"look", "found"} => w.rows \in SUBSET Shops /\ w.read \in Readings
           /\ w.pc = "found" => w.at \in w.rows /\ w.at \in Shops /\ w.ok \in BOOLEAN
           /\ w.pc \in {"save", "link", "status"} => \E f \in Shops : w.rows = {f}
           /\ w.pc = "save" => w.patch \in Patches
           /\ w.pc = "link" => w.account \in Ids
           /\ w.pc = "status" => w.charges \in BOOLEAN
           /\ w.pc = "idle" => w = Calm
BY DEF HandOK, Calm

\* A hand that goes on to something else, the others staying.
LEMMA HandDid ==
    ASSUME HandsOK, NEW h \in Hands, NEW w, Does(h, w), HandOK(w)
    PROVE  HandsOK' /\ form'[h] = w /\ \A g \in Hands \ {h} : form'[g] = form[g]
<1>1. \A g \in Hands : form'[g] = IF g = h THEN w ELSE form[g]
  BY DEF Does, HandsOK
<1>2. form' = [g \in Hands |-> form'[g]]
  BY DEF Does, HandsOK
<1> QED BY <1>1, <1>2 DEF HandsOK

LEMMA HandStill == ASSUME HandsOK, UNCHANGED form PROVE HandsOK'
BY DEF HandsOK

LEMMA HandRests ==
    ASSUME HandsOK, NEW h \in Hands, Rests(h)
    PROVE  HandsOK' /\ form'[h] = Calm /\ \A g \in Hands \ {h} : form'[g] = form[g]
BY HandDid DEF Rests, HandOK

LEMMA SeenReads == ASSUME biz \in [Shops -> Biz] PROVE Seen \in Readings
BY DEF Seen, Readings, Place, Biz

LEMMA CrossedTypes ==
    ASSUME crossed \in [Shops -> SUBSET Aspects], NEW f \in Shops, NEW what \in Aspects, NEW really,
           Crossing(f, what, really)
    PROVE  /\ crossed' \in [Shops -> SUBSET Aspects]
           /\ \A g \in Shops, x \in Aspects : g # f \/ x # what => (x \in crossed'[g] <=> x \in crossed[g])
           /\ really => what \in crossed'[f]
BY DEF Crossing

\* The row that is written with a patch.
LEMMA Patched ==
    ASSUME NEW b \in Biz, NEW body \in Patches, NEW new,
           new = [x \in DOMAIN b |-> IF x \in DOMAIN body THEN body[x] ELSE b[x]]
    PROVE  /\ new \in Biz
           /\ new.domain = b.domain /\ new.token = b.token /\ new.status = b.status /\ new.charges = b.charges
           /\ new.currency = IF "currency" \in DOMAIN body THEN body.currency ELSE b.currency
           /\ new.collects = IF "collects" \in DOMAIN body THEN body.collects ELSE b.collects
<1>1. DOMAIN b = {"exists", "top", "active", "currency", "collects", "account", "charges", "domain", "status", "token"}
  BY DEF Biz
<1>2. /\ DOMAIN body \subseteq {"currency", "collects"}
      /\ "currency" \in DOMAIN body => body.currency \in Currencies
      /\ "collects" \in DOMAIN body => body.collects \in Collections
  BY DEF Patches
<1>3. /\ new.exists = b.exists /\ new.top = b.top /\ new.active = b.active /\ new.account = b.account
      /\ new.charges = b.charges /\ new.domain = b.domain /\ new.status = b.status /\ new.token = b.token
      /\ new.currency = IF "currency" \in DOMAIN body THEN body.currency ELSE b.currency
      /\ new.collects = IF "collects" \in DOMAIN body THEN body.collects ELSE b.collects
  BY <1>1, <1>2
<1>4. new = [exists |-> new.exists, top |-> new.top, active |-> new.active, currency |-> new.currency,
             collects |-> new.collects, account |-> new.account, charges |-> new.charges,
             domain |-> new.domain, status |-> new.status, token |-> new.token]
  BY <1>1
<1>5. new \in Biz
  BY <1>2, <1>3, <1>4 DEF Biz
<1> QED BY <1>3, <1>5

LEMMA BizSteps ==
    ASSUME BizNext
    PROVE  \/ Tick
           \/ \E a \in 1..drawn.account : AccountChanges(a)
           \/ \E e \in notices : AccountUpdated(e)
           \/ \E h \in Hands : Found(h)
           \/ \E h \in Hands, f \in Shops : Look(h, f)
           \/ \E h \in Hands : Save(h) \/ StoreAccount(h) \/ StoreStatus(h)
           \/ \E f \in Shops : RemoveDomain(f) \/ Publish(f) \/ Paid(f)
           \/ \E f, g \in Shops : CreateLocation(g, f)
           \/ \E f \in Shops, on \in BOOLEAN : SetBusinessActive(f, on)
           \/ \E f \in Shops, n \in Names : SetDomain(f, n)
           \/ \E f \in Shops, n \in Place : PatchDomain(f, n)
           \/ \E f \in Shops, h \in Hands : VerifyNow(h, f) \/ StartOnboarding(h, f) \/ RefreshStatus(h, f)
           \/ \E f \in Shops, h \in Hands, patch \in Patches : UpdateBusiness(h, f, patch)
<1>1. Forms \subseteq Hands
  BY DEF Hands
<1> QED BY <1>1 DEF BizNext, Place

\* The row of f learns whether it may charge.
LEMMA ChargingTypes ==
    ASSUME BizTables, NEW f \in Shops, NEW on \in BOOLEAN, Charging(f, on)
    PROVE  /\ biz' \in [Shops -> Biz] /\ crossed' \in [Shops -> SUBSET Aspects]
           /\ \A g \in Shops : /\ biz'[g].domain = biz[g].domain /\ biz'[g].token = biz[g].token
                               /\ biz'[g].status = biz[g].status /\ biz'[g].currency = biz[g].currency
                               /\ biz'[g].collects = biz[g].collects
           /\ \A g \in Shops, x \in Aspects : g # f \/ x # "charges" => (x \in crossed'[g] <=> x \in crossed[g])
<1>1. biz \in [Shops -> Biz] /\ crossed \in [Shops -> SUBSET Aspects] /\ "charges" \in Aspects
  BY DEF BizTables, Aspects
<1>2. biz' = [biz EXCEPT ![f].charges = on]
  BY DEF Charging
<1>3. biz' \in [Shops -> Biz]
  BY <1>1, <1>2 DEF Biz
<1>4. \A g \in Shops : /\ biz'[g].domain = biz[g].domain /\ biz'[g].token = biz[g].token
                       /\ biz'[g].status = biz[g].status /\ biz'[g].currency = biz[g].currency
                       /\ biz'[g].collects = biz[g].collects
  BY <1>1, <1>2 DEF Biz
<1>5. /\ crossed' \in [Shops -> SUBSET Aspects]
      /\ \A g \in Shops, x \in Aspects : g # f \/ x # "charges" => (x \in crossed'[g] <=> x \in crossed[g])
  BY <1>1, CrossedTypes DEF Charging
<1> QED BY <1>3, <1>4, <1>5

LEMMA BizTypes ==
    ASSUME BizInv, [BizNext]_bizVars
    PROVE  BizInv'
<1>0. MaxTokens \in Nat /\ {"domain", "currency", "charges"} \subseteq Aspects /\ Names \subseteq Place
  BY BusinessesAssumption DEF Aspects, Place
<1>1. BizTables /\ HandsOK
  BY DEF BizInv
<1> USE DEF BizTables
<1>3. CASE Tick
  <2>1. PICK w : w = [pc |-> "look", rows |-> {f \in Shops : biz[f].status = "PENDING"}, read |-> Seen]
    OBVIOUS
  <2>2. HandOK(w)
    BY <1>1, <2>1, SeenReads DEF HandOK
  <2>3. Worker \in Hands /\ Does(Worker, w)
    BY <1>3, <2>1 DEF Tick, Hands
  <2> QED BY <1>1, <1>3, <2>2, <2>3, HandDid DEF Tick, BizInv
<1>4. ASSUME NEW a \in 1..drawn.account, AccountChanges(a) PROVE BizInv'
  <2>1. a \in Ids
    BY <1>0, <1>1 DEF Ids
  <2>2. notices' = notices \cup {[account |-> a, charges |-> a \notin enabled]}
    BY <1>4 DEF AccountChanges
  <2>3. PICK v : v = [account |-> a, charges |-> a \notin enabled]
    OBVIOUS
  <2>4. v.account = a /\ v.charges \in BOOLEAN /\ notices' = notices \cup {v}
    BY <2>2, <2>3
  <2>5. \A e \in notices' : e.account \in Ids /\ e.charges \in BOOLEAN
    BY <1>1, <2>1, <2>4
  <2> QED BY <1>1, <1>4, <2>5, HandStill DEF AccountChanges, BizInv
<1>5. ASSUME NEW e \in notices, AccountUpdated(e) PROVE BizInv'
  <2>1. CASE UNCHANGED <<biz, crossed>>
    BY <1>1, <1>5, <2>1, HandStill DEF AccountUpdated, BizInv
  <2>2. ASSUME NEW f \in Shops, Charging(f, e.charges) PROVE BizInv'
    <3>1. biz' \in [Shops -> Biz] /\ crossed' \in [Shops -> SUBSET Aspects]
      BY <1>1, <2>2, ChargingTypes
    <3> QED BY <1>1, <1>5, <3>1, HandStill DEF AccountUpdated, BizInv
  <2> QED BY <1>5, <2>1, <2>2 DEF AccountUpdated
<1>6. ASSUME NEW h \in Hands, Found(h) PROVE BizInv'
  <2>1. HandOK(form[h]) /\ form[h].pc = "found"
    BY <1>1, <1>6 DEF HandsOK, Found, Is
  <2>2. form[h].at \in Shops /\ form[h].rows \in SUBSET Shops /\ form[h].read \in Readings
    BY <2>1, HandKinds
  <2>3. biz' \in [Shops -> Biz]
    BY <1>1, <1>6, <2>2 DEF Found, Biz
  <2>4. PICK w : w = [pc |-> "look", rows |-> form[h].rows \ {form[h].at}, read |-> form[h].read]
    OBVIOUS
  <2>5. HandOK(w)
    BY <2>2, <2>4 DEF HandOK
  <2>6. Rests(h) \/ Does(h, w)
    BY <1>6, <2>4 DEF Found
  <2>7. HandsOK'
    BY <1>1, <2>5, <2>6, HandDid, HandRests
  <2> QED BY <1>1, <1>6, <2>3, <2>7 DEF Found, BizInv
<1>7. ASSUME NEW h \in Hands, NEW f \in Shops, Look(h, f) PROVE BizInv'
  <2>1. HandOK(form[h]) /\ form[h].pc = "look" /\ f \in form[h].rows
    BY <1>1, <1>7 DEF HandsOK, Look, Is
  <2>2. form[h].rows \in SUBSET Shops /\ form[h].read \in Readings
    BY <2>1, HandKinds
  <2>3. PICK ok \in BOOLEAN : ok <=> Owns(form[h].read[f])
    OBVIOUS
  <2>4. PICK w : w = [pc |-> "found", rows |-> form[h].rows, read |-> form[h].read, at |-> f, ok |-> Owns(form[h].read[f])]
    OBVIOUS
  <2>5. PICK v : v = [form[h] EXCEPT !.rows = form[h].rows \ {f}]
    OBVIOUS
  <2>6. HandOK(w)
    BY <2>1, <2>2, <2>4 DEF HandOK, Owns
  <2>7. HandOK(v)
    <3>1. form[h] \in [pc : {"look"}, rows : SUBSET Shops, read : Readings]
      BY <2>1 DEF HandOK, Calm
    <3>2. v \in [pc : {"look"}, rows : SUBSET Shops, read : Readings]
      BY <2>2, <2>5, <3>1
    <3> QED BY <3>2 DEF HandOK
  <2>8. Rests(h) \/ Does(h, w) \/ Does(h, v)
    BY <1>7, <2>4, <2>5 DEF Look
  <2>9. HandsOK'
    BY <1>1, <2>6, <2>7, <2>8, HandDid, HandRests
  <2> QED BY <1>1, <1>7, <2>9 DEF Look, BizInv
<1>8. ASSUME NEW h \in Hands, Save(h) PROVE BizInv'
  <2>1. HandOK(form[h]) /\ form[h].pc = "save"
    BY <1>1, <1>8 DEF HandsOK, Save, Is
  <2>2. PICK f \in Shops : form[h].rows = {f}
    BY <2>1, HandKinds
  <2>3. PICK body : body = form[h].patch
    OBVIOUS
  <2>4. body \in Patches
    BY <2>1, <2>3, HandKinds
  <2>5. PICK new : new = [x \in DOMAIN biz[f] |-> IF x \in DOMAIN body THEN body[x] ELSE biz[f][x]]
    OBVIOUS
  <2>6. biz' = [biz EXCEPT ![f] = new]
    BY <1>1, <1>8, <2>2, <2>3, <2>5 DEF Save
  <2>7. new \in Biz
    BY <1>1, <2>4, <2>5, Patched
  <2>8. biz' \in [Shops -> Biz]
    BY <1>1, <2>6, <2>7
  <2> QED BY <1>1, <1>8, <2>8, HandRests DEF Save, BizInv
<1>9. ASSUME NEW h \in Hands, StoreAccount(h) PROVE BizInv'
  <2>1. HandOK(form[h]) /\ form[h].pc = "link"
    BY <1>1, <1>9 DEF HandsOK, StoreAccount, Is
  <2>2. PICK f \in Shops : form[h].rows = {f}
    BY <2>1, HandKinds
  <2>3. form[h].account \in Ids
    BY <2>1, HandKinds
  <2>4. biz' = [biz EXCEPT ![f].account = form[h].account]
    BY <1>9, <2>2 DEF StoreAccount
  <2>5. biz' \in [Shops -> Biz]
    BY <1>1, <2>3, <2>4 DEF Biz
  <2> QED BY <1>1, <1>9, <2>5, HandRests DEF StoreAccount, BizInv
<1>10. ASSUME NEW h \in Hands, StoreStatus(h) PROVE BizInv'
  <2>1. HandOK(form[h]) /\ form[h].pc = "status"
    BY <1>1, <1>10 DEF HandsOK, StoreStatus, Is
  <2>2. PICK f \in Shops : form[h].rows = {f}
    BY <2>1, HandKinds
  <2>3. form[h].charges \in BOOLEAN /\ Charging(f, form[h].charges)
    BY <1>10, <2>1, <2>2, HandKinds DEF StoreStatus
  <2>4. biz' \in [Shops -> Biz] /\ crossed' \in [Shops -> SUBSET Aspects]
    BY <1>1, <2>3, ChargingTypes
  <2> QED BY <1>1, <1>10, <2>4, HandRests DEF StoreStatus, BizInv
<1>11. ASSUME NEW f \in Shops, RemoveDomain(f) PROVE BizInv'
  <2>1. biz' \in [Shops -> Biz]
    <3>1. PICK new : new = [biz[f] EXCEPT !.domain = NoName, !.status = "NONE", !.token = 0]
      OBVIOUS
    <3>2. 0 \in Ids
      BY <1>0 DEF Ids
    <3>3. new \in Biz
      BY <1>1, <3>1, <3>2 DEF Biz
    <3>4. biz' = [biz EXCEPT ![f] = new]
      BY <1>1, <1>11, <3>1 DEF RemoveDomain
    <3> QED BY <1>1, <3>3, <3>4
  <2>2. crossed' \in [Shops -> SUBSET Aspects]
    BY <1>0, <1>1, <1>11, CrossedTypes DEF RemoveDomain
  <2> QED BY <1>1, <1>11, <2>1, <2>2, HandStill DEF RemoveDomain, BizInv
<1>12. ASSUME NEW f \in Shops, Publish(f) PROVE BizInv'
  BY <1>1, <1>12, HandStill DEF Publish, BizInv
<1>13. ASSUME NEW f \in Shops, Paid(f) PROVE BizInv'
  <2>1. taken' \in [Shops -> SUBSET Currencies]
    BY <1>1, <1>13 DEF Paid, Biz
  <2>2. crossed' \in [Shops -> SUBSET Aspects]
    BY <1>0, <1>1, <1>13, CrossedTypes DEF Paid
  <2> QED BY <1>1, <1>13, <2>1, <2>2, HandStill DEF Paid, BizInv
<1>14. ASSUME NEW f \in Shops, NEW g \in Shops, CreateLocation(g, f) PROVE BizInv'
  <2>1. biz' \in [Shops -> Biz]
    BY <1>1, <1>14 DEF CreateLocation, Biz
  <2> QED BY <1>1, <1>14, <2>1, HandStill DEF CreateLocation, BizInv
<1>15. ASSUME NEW f \in Shops, NEW on \in BOOLEAN, SetBusinessActive(f, on) PROVE BizInv'
  <2>1. biz' \in [Shops -> Biz]
    BY <1>1, <1>15 DEF SetBusinessActive, Biz
  <2> QED BY <1>1, <1>15, <2>1, HandStill DEF SetBusinessActive, BizInv
<1>16. ASSUME NEW f \in Shops, NEW n \in Names, SetDomain(f, n) PROVE BizInv'
  <2>1. drawn.token + 1 \in Ids
    BY <1>0, <1>1, <1>16 DEF SetDomain, Ids
  <2>2. biz' \in [Shops -> Biz]
    BY <1>1, <1>16, <2>1 DEF SetDomain, Named, Biz
  <2>3. drawn' \in [token : Ids, account : Ids]
    BY <1>1, <1>16, <2>1 DEF SetDomain
  <2>4. crossed' \in [Shops -> SUBSET Aspects]
    BY <1>0, <1>1, <1>16, CrossedTypes DEF SetDomain
  <2> QED BY <1>1, <1>16, <2>2, <2>3, <2>4, HandStill DEF SetDomain, BizInv
<1>17. ASSUME NEW f \in Shops, NEW n \in Place, PatchDomain(f, n) PROVE BizInv'
  <2>1. biz' \in [Shops -> Biz]
    BY <1>1, <1>17 DEF PatchDomain, Place, Biz
  <2>2. crossed' \in [Shops -> SUBSET Aspects]
    BY <1>0, <1>1, <1>17, CrossedTypes DEF PatchDomain
  <2> QED BY <1>1, <1>17, <2>1, <2>2, HandStill DEF PatchDomain, BizInv
<1>18. ASSUME NEW f \in Shops, NEW h \in Hands, VerifyNow(h, f) PROVE BizInv'
  <2>1. PICK w : w = [pc |-> "look", rows |-> {f}, read |-> Seen]
    OBVIOUS
  <2>2. HandOK(w)
    BY <1>1, <2>1, SeenReads DEF HandOK
  <2> QED BY <1>1, <1>18, <2>1, <2>2, HandDid DEF VerifyNow, BizInv
<1>19. ASSUME NEW f \in Shops, NEW h \in Hands, StartOnboarding(h, f) PROVE BizInv'
  <2>1. drawn.account + 1 \in Ids
    BY <1>0, <1>1, <1>19 DEF StartOnboarding, Ids
  <2>2. PICK w : w = [pc |-> "link", rows |-> {f}, account |-> drawn.account + 1]
    OBVIOUS
  <2>3. HandOK(w)
    BY <2>1, <2>2 DEF HandOK
  <2>4. drawn' \in [token : Ids, account : Ids]
    BY <1>1, <1>19, <2>1 DEF StartOnboarding
  <2> QED BY <1>1, <1>19, <2>2, <2>3, <2>4, HandDid DEF StartOnboarding, BizInv
<1>20. ASSUME NEW f \in Shops, NEW h \in Hands, RefreshStatus(h, f) PROVE BizInv'
  <2>1. PICK w : w = [pc |-> "status", rows |-> {f}, charges |-> biz[f].account \in enabled]
    OBVIOUS
  <2>2. HandOK(w)
    BY <2>1 DEF HandOK
  <2> QED BY <1>1, <1>20, <2>1, <2>2, HandDid DEF RefreshStatus, BizInv
<1>21. ASSUME NEW f \in Shops, NEW h \in Hands, NEW patch \in Patches, UpdateBusiness(h, f, patch) PROVE BizInv'
  <2>1. PICK w : w = [pc |-> "save", rows |-> {f}, patch |-> patch]
    OBVIOUS
  <2>2. HandOK(w)
    BY <2>1 DEF HandOK
  <2> QED BY <1>1, <1>21, <2>1, <2>2, HandDid DEF UpdateBusiness, BizInv
<1>22. CASE UNCHANGED bizVars
  BY <1>1, <1>22, HandStill DEF bizVars, BizInv
<1>23. CASE BizNext
  BY <1>23, <1>3, <1>4, <1>5, <1>6, <1>7, <1>8, <1>9, <1>10, <1>11, <1>12, <1>13, <1>14, <1>15, <1>16,
     <1>17, <1>18, <1>19, <1>20, <1>21, BizSteps
<1> QED BY <1>22, <1>23

LEMMA BizTyped == BizSpec => []BizInv
<1>1. BizInit => BizInv
  BY BusinessesAssumption
     DEF BizInit, BizInv, BizTables, HandsOK, HandOK, Biz, Ids, Collections
<1> QED BY <1>1, BizTypes, PTL DEF BizSpec

-----------------------------------------------------------------------------
(* Businesses: what is verified has been proved *)

Proven(f, b)  == "domain" \in crossed[f] \/ <<b.domain, b.token>> \in proved
Current(f, b) == "domain" \in crossed[f] \/ (b.domain = biz[f].domain /\ b.token = biz[f].token)

\* A check knows the name and the token of each row it will write, unless they
\* changed behind it; what it has found is proved, and so is a verified row.
DomainOf(f) ==
    /\ biz[f].status = "VERIFIED" => Proven(f, biz[f])
    /\ \A h \in Hands :
         /\ form[h].pc \in {"look", "found"} /\ f \in form[h].rows => Current(f, form[h].read[f])
         /\ form[h].pc = "found" /\ form[h].at = f /\ form[h].ok => Proven(f, form[h].read[f])

DomainInv == \A f \in Shops : DomainOf(f)

\* Nothing about the name of f changes, and no check of it begins.
NameStill(f) ==
    /\ biz'[f].domain = biz[f].domain /\ biz'[f].token = biz[f].token
    /\ biz'[f].status = "VERIFIED" => biz[f].status = "VERIFIED"
    /\ "domain" \in crossed'[f] <=> "domain" \in crossed[f]
    /\ proved \subseteq proved'

CheckGoesOn(h, f) ==
    form'[h].pc \in {"look", "found"} /\ f \in form'[h].rows =>
        /\ form[h].pc \in {"look", "found"} /\ f \in form[h].rows
        /\ form'[h].read = form[h].read
        /\ form'[h].pc = "found" => form[h].pc = "found" /\ form'[h].at = form[h].at /\ form'[h].ok = form[h].ok

LEMMA DomainStays ==
    ASSUME BizInv, BizInv', NEW f \in Shops, DomainOf(f), NameStill(f), \A h \in Hands : CheckGoesOn(h, f)
    PROVE  DomainOf(f)'
<1>1. biz'[f].status = "VERIFIED" => Proven(f, biz[f])'
  BY DEF DomainOf, NameStill, Proven
<1>2. ASSUME NEW h \in Hands
      PROVE  /\ form'[h].pc \in {"look", "found"} /\ f \in form'[h].rows => Current(f, form[h].read[f])'
             /\ form'[h].pc = "found" /\ form'[h].at = f /\ form'[h].ok => Proven(f, form[h].read[f])'
  <2>1. form'[h].pc = "found" => form'[h].at \in form'[h].rows
    BY HandKinds DEF BizInv, HandsOK
  <2>2. CheckGoesOn(h, f)
    OBVIOUS
  <2> QED BY <2>1, <2>2 DEF DomainOf, NameStill, Proven, Current, CheckGoesOn
<1> QED BY <1>1, <1>2 DEF DomainOf

LEMMA DomainIdle ==
    ASSUME BizInv, BizInv', DomainInv, UNCHANGED form, \A f \in Shops : NameStill(f)
    PROVE  DomainInv'
<1>1. \A f \in Shops, h \in Hands : CheckGoesOn(h, f)
  BY DEF CheckGoesOn
<1> QED BY <1>1, DomainStays DEF DomainInv

LEMMA DomainOther ==
    ASSUME BizInv, BizInv', DomainInv, NEW h \in Hands, NEW w, HandOK(w), Does(h, w),
           w.pc \notin {"look", "found"}, \A f \in Shops : NameStill(f)
    PROVE  DomainInv'
<1>1. form'[h] = w /\ \A g \in Hands \ {h} : form'[g] = form[g]
  BY HandDid DEF BizInv
<1>2. \A f \in Shops, g \in Hands : CheckGoesOn(g, f)
  BY <1>1 DEF CheckGoesOn
<1> QED BY <1>2, DomainStays DEF DomainInv

\* A check begins with the rows as they are.
LEMMA DomainBegins ==
    ASSUME BizInv, BizInv', DomainInv, NEW h \in Hands, NEW w, Does(h, w),
           HandOK(w), w.pc = "look", w.read = Seen, UNCHANGED <<biz, proved, crossed>>
    PROVE  DomainInv'
<1>1. form'[h] = w /\ \A g \in Hands \ {h} : form'[g] = form[g]
  BY HandDid DEF BizInv
<1> SUFFICES ASSUME NEW f \in Shops PROVE DomainOf(f)'
  BY DEF DomainInv
<1>2. Current(f, w.read[f])'
  BY DEF Current, Seen
<1>3. DomainOf(f)
  BY DEF DomainInv
<1>4. ASSUME NEW g \in Hands
      PROVE  /\ form'[g].pc \in {"look", "found"} /\ f \in form'[g].rows => Current(f, form[g].read[f])'
             /\ form'[g].pc = "found" /\ form'[g].at = f /\ form'[g].ok => Proven(f, form[g].read[f])'
  <2>1. CASE g = h
    BY <1>1, <1>2, <2>1 DEF Current
  <2>2. CASE g # h
    BY <1>1, <1>3, <2>2 DEF DomainOf, Current, Proven
  <2> QED BY <2>1, <2>2
<1>5. biz'[f].status = "VERIFIED" => Proven(f, biz[f])'
  BY <1>3 DEF DomainOf, Proven
<1> QED BY <1>4, <1>5 DEF DomainOf

LEMMA DomainLook ==
    ASSUME BizInv, BizInv', DomainInv, NEW h \in Hands, NEW a \in Shops, Look(h, a)
    PROVE  DomainInv'
<1>1. HandOK(form[h]) /\ form[h].pc = "look" /\ a \in form[h].rows /\ HandsOK
  BY DEF BizInv, HandsOK, Look, Is
<1>2. PICK w : w = [pc |-> "found", rows |-> form[h].rows, read |-> form[h].read, at |-> a, ok |-> Owns(form[h].read[a])]
  OBVIOUS
<1>3. PICK v : v = [form[h] EXCEPT !.rows = form[h].rows \ {a}]
  OBVIOUS
<1>4. form[h] \in [pc : {"look"}, rows : SUBSET Shops, read : Readings]
  BY <1>1 DEF HandOK, Calm
<1>5. v \in [pc : {"look"}, rows : SUBSET Shops, read : Readings] /\ v.rows \subseteq form[h].rows /\ v.read = form[h].read
  BY <1>3, <1>4
<1>6. HandOK(w) /\ HandOK(v) /\ HandOK(Calm)
  BY <1>1, <1>2, <1>4, <1>5 DEF HandOK, Owns
<1>7. /\ w.pc = "found" /\ w.rows = form[h].rows /\ w.read = form[h].read /\ w.at = a
      /\ w.ok <=> Owns(form[h].read[a])
  BY <1>2
<1>8. \A f \in Shops : NameStill(f)
  BY DEF Look, NameStill
<1>9. CASE Does(h, v) \/ Rests(h)
  <2>1. (form'[h] = v \/ form'[h] = Calm) /\ \A g \in Hands \ {h} : form'[g] = form[g]
    BY <1>1, <1>6, <1>9, HandDid, HandRests
  <2>2. \A f \in Shops, g \in Hands : CheckGoesOn(g, f)
    BY <1>4, <1>5, <2>1 DEF CheckGoesOn, Calm
  <2> QED BY <1>8, <2>2, DomainStays DEF DomainInv
<1>10. CASE Does(h, w)
  <2>1. form'[h] = w /\ \A g \in Hands \ {h} : form'[g] = form[g]
    BY <1>1, <1>6, <1>10, HandDid
  <2> SUFFICES ASSUME NEW f \in Shops PROVE DomainOf(f)'
    BY DEF DomainInv
  <2>2. DomainOf(f) /\ UNCHANGED <<biz, crossed>> /\ proved \subseteq proved'
    BY DEF DomainInv, Look
  <2>3. f \in w.rows => Current(f, w.read[f])'
    BY <1>1, <1>7, <2>2 DEF DomainOf, Current
  <2>4. a = f /\ w.ok => Proven(f, w.read[f])'
    BY <1>7 DEF Look, Proven, Owns
  <2>5. ASSUME NEW g \in Hands
        PROVE  /\ form'[g].pc \in {"look", "found"} /\ f \in form'[g].rows => Current(f, form[g].read[f])'
               /\ form'[g].pc = "found" /\ form'[g].at = f /\ form'[g].ok => Proven(f, form[g].read[f])'
    <3>1. CASE g = h
      BY <1>7, <2>1, <2>3, <2>4, <3>1 DEF Current, Proven
    <3>2. CASE g # h
      BY <2>1, <2>2, <3>2 DEF DomainOf, Current, Proven
    <3> QED BY <3>1, <3>2
  <2>6. biz'[f].status = "VERIFIED" => Proven(f, biz[f])'
    BY <2>2 DEF DomainOf, Proven
  <2> QED BY <2>5, <2>6 DEF DomainOf
<1> QED BY <1>2, <1>3, <1>9, <1>10 DEF Look

LEMMA DomainFound ==
    ASSUME BizInv, BizInv', DomainInv, NEW h \in Hands, Found(h)
    PROVE  DomainInv'
<1>1. HandOK(form[h]) /\ form[h].pc = "found" /\ HandsOK /\ biz \in [Shops -> Biz]
  BY DEF BizInv, HandsOK, Found, Is, BizTables
<1>2. form[h].at \in form[h].rows /\ form[h].at \in Shops /\ form[h].ok \in BOOLEAN
      /\ form[h].rows \in SUBSET Shops /\ form[h].read \in Readings
  BY <1>1, HandKinds
<1>3. PICK w : w = [pc |-> "look", rows |-> form[h].rows \ {form[h].at}, read |-> form[h].read]
  OBVIOUS
<1>4. HandOK(w) /\ HandOK(Calm)
  BY <1>2, <1>3 DEF HandOK
<1>5. Does(h, w) \/ Rests(h)
  BY <1>3 DEF Found
<1>6. (form'[h] = w \/ form'[h] = Calm) /\ \A g \in Hands \ {h} : form'[g] = form[g]
  BY <1>1, <1>4, <1>5, HandDid, HandRests
<1>7. /\ \A f \in Shops : biz'[f].domain = biz[f].domain /\ biz'[f].token = biz[f].token
      /\ \A f \in Shops \ {form[h].at} : biz'[f].status = biz[f].status
      /\ biz'[form[h].at].status = "VERIFIED" => form[h].ok
  BY <1>1, <1>2 DEF Found, Biz
<1>8. UNCHANGED <<proved, crossed>>
  BY DEF Found
<1>9. \A f \in Shops, g \in Hands : CheckGoesOn(g, f)
  BY <1>1, <1>3, <1>6 DEF CheckGoesOn, Calm
<1>10. ASSUME NEW f \in Shops, f # form[h].at PROVE DomainOf(f)'
  <2>1. NameStill(f)
    BY <1>7, <1>8, <1>10 DEF NameStill
  <2> QED BY <1>9, <2>1, DomainStays DEF DomainInv
<1>11. ASSUME NEW f \in Shops, f = form[h].at PROVE DomainOf(f)'
  <2>1. DomainOf(f)
    BY DEF DomainInv
  <2>2. form[h].ok => Proven(f, form[h].read[f]) /\ Current(f, form[h].read[f])
    BY <1>1, <1>2, <1>11, <2>1 DEF DomainOf
  <2>3. biz'[f].status = "VERIFIED" => Proven(f, biz[f])'
    BY <1>7, <1>8, <1>11, <2>2 DEF Proven, Current
  <2>4. ASSUME NEW g \in Hands
        PROVE  /\ form'[g].pc \in {"look", "found"} /\ f \in form'[g].rows => Current(f, form[g].read[f])'
               /\ form'[g].pc = "found" /\ form'[g].at = f /\ form'[g].ok => Proven(f, form[g].read[f])'
    <3>1. CASE g = h
      BY <1>3, <1>6, <1>11, <3>1 DEF Calm
    <3>2. CASE g # h
      BY <1>6, <1>7, <1>8, <2>1, <3>2 DEF DomainOf, Current, Proven
    <3> QED BY <3>1, <3>2
  <2> QED BY <2>3, <2>4 DEF DomainOf
<1> QED BY <1>10, <1>11 DEF DomainInv

\* A name that is set, changed or taken away is not verified, or has crossed.
LEMMA DomainRenamed ==
    ASSUME BizInv, BizInv', DomainInv, NEW a \in Shops, NEW really, Crossing(a, "domain", really),
           \A f \in Shops \ {a} : biz'[f] = biz[f], UNCHANGED <<form, proved>>,
           \/ really <=> TRUE
           \/ biz'[a].status # "VERIFIED" /\ (really <=> Reading(a, {"look", "found"}))
    PROVE  DomainInv'
<1>0. crossed \in [Shops -> SUBSET Aspects] /\ "domain" \in Aspects
  BY DEF BizInv, BizTables, Aspects
<1>1. /\ \A f \in Shops \ {a} : "domain" \in crossed'[f] <=> "domain" \in crossed[f]
      /\ really => "domain" \in crossed'[a]
  BY <1>0, CrossedTypes
<1>2. ASSUME NEW f \in Shops, f # a PROVE DomainOf(f)'
  BY <1>1, <1>2 DEF DomainInv, DomainOf, Proven, Current
<1>3. DomainOf(a)'
  <2>1. CASE really
    BY <1>1, <2>1 DEF DomainOf, Proven, Current
  <2>2. CASE ~really
    <3>1. \A h \in Hands : form[h].pc \in {"look", "found"} => a \notin form[h].rows
      BY <2>2 DEF Reading
    <3>2. \A h \in Hands : form[h].pc = "found" => form[h].at \in form[h].rows
      BY HandKinds DEF BizInv, HandsOK
    <3>3. biz'[a].status # "VERIFIED"
      BY <2>2
    <3> QED BY <3>1, <3>2, <3>3 DEF DomainOf
  <2> QED BY <2>1, <2>2
<1> QED BY <1>2, <1>3 DEF DomainInv

LEMMA DomainStep ==
    ASSUME BizInv, [BizNext]_bizVars, DomainInv
    PROVE  DomainInv'
<1>0. /\ BizInv' /\ BizTables /\ HandsOK /\ biz \in [Shops -> Biz] /\ crossed \in [Shops -> SUBSET Aspects]
      /\ {"domain", "currency", "charges"} \subseteq Aspects
  BY BizTypes DEF BizInv, BizTables, Aspects
<1>1. HandOK(Calm) /\ Calm.pc = "idle"
  BY DEF HandOK, Calm
<1>2. ASSUME UNCHANGED <<biz, proved, crossed>> PROVE \A f \in Shops : NameStill(f)
  BY <1>2 DEF NameStill
<1>3. CASE Tick
  <2>1. PICK w : w = [pc |-> "look", rows |-> {f \in Shops : biz[f].status = "PENDING"}, read |-> Seen]
    OBVIOUS
  <2>2. HandOK(w) /\ w.pc = "look" /\ w.read = Seen
    BY <1>0, <2>1, SeenReads DEF HandOK
  <2>3. Worker \in Hands /\ Does(Worker, w) /\ UNCHANGED <<biz, proved, crossed>>
    BY <1>3, <2>1 DEF Tick, Hands
  <2> QED BY <1>0, <2>2, <2>3, DomainBegins
<1>4. ASSUME NEW a \in 1..drawn.account, AccountChanges(a) PROVE DomainInv'
  BY <1>0, <1>2, <1>4, DomainIdle DEF AccountChanges
<1>5. ASSUME NEW e \in notices, AccountUpdated(e) PROVE DomainInv'
  <2>1. CASE UNCHANGED <<biz, crossed>>
    BY <1>0, <1>2, <1>5, <2>1, DomainIdle DEF AccountUpdated
  <2>2. ASSUME NEW f \in Shops, Charging(f, e.charges) PROVE DomainInv'
    <3>1. e.charges \in BOOLEAN
      BY <1>0 DEF BizTables
    <3>2. \A g \in Shops : NameStill(g)
      BY <1>0, <1>5, <2>2, <3>1, ChargingTypes DEF NameStill, AccountUpdated
    <3> QED BY <1>0, <1>5, <3>2, DomainIdle DEF AccountUpdated
  <2> QED BY <1>5, <2>1, <2>2 DEF AccountUpdated
<1>6. ASSUME NEW h \in Hands, Found(h) PROVE DomainInv'
  BY <1>0, <1>6, DomainFound
<1>7. ASSUME NEW h \in Hands, NEW f \in Shops, Look(h, f) PROVE DomainInv'
  BY <1>0, <1>7, DomainLook
<1>8. ASSUME NEW h \in Hands, Save(h) PROVE DomainInv'
  <2>1. HandOK(form[h]) /\ form[h].pc = "save"
    BY <1>0, <1>8 DEF HandsOK, Save, Is
  <2>2. PICK f \in Shops : form[h].rows = {f}
    BY <2>1, HandKinds
  <2>3. PICK body : body = form[h].patch
    OBVIOUS
  <2>4. body \in Patches
    BY <2>1, <2>3, HandKinds
  <2>5. PICK new : new = [x \in DOMAIN biz[f] |-> IF x \in DOMAIN body THEN body[x] ELSE biz[f][x]]
    OBVIOUS
  <2>6. biz' = [biz EXCEPT ![f] = new]
    BY <1>0, <1>8, <2>2, <2>3, <2>5 DEF Save
  <2>7. new.domain = biz[f].domain /\ new.token = biz[f].token /\ new.status = biz[f].status
    BY <1>0, <2>4, <2>5, Patched
  <2>8. \A g \in Shops : NameStill(g)
    BY <1>0, <1>8, <2>6, <2>7 DEF NameStill, Save
  <2> QED BY <1>0, <1>1, <1>8, <2>8, DomainOther DEF Save, Rests
<1>9. ASSUME NEW h \in Hands, StoreAccount(h) PROVE DomainInv'
  <2>1. PICK f \in form[h].rows : biz' = [biz EXCEPT ![f].account = form[h].account]
    BY <1>9 DEF StoreAccount
  <2>2. \A g \in Shops : NameStill(g)
    BY <1>0, <1>9, <2>1 DEF NameStill, StoreAccount, Biz
  <2> QED BY <1>0, <1>1, <1>9, <2>2, DomainOther DEF StoreAccount, Rests
<1>10. ASSUME NEW h \in Hands, StoreStatus(h) PROVE DomainInv'
  <2>1. HandOK(form[h]) /\ form[h].pc = "status"
    BY <1>0, <1>10 DEF HandsOK, StoreStatus, Is
  <2>2. PICK f \in Shops : form[h].rows = {f}
    BY <2>1, HandKinds
  <2>3. form[h].charges \in BOOLEAN /\ Charging(f, form[h].charges)
    BY <1>10, <2>1, <2>2, HandKinds DEF StoreStatus
  <2>4. \A g \in Shops : NameStill(g)
    BY <1>0, <1>10, <2>3, ChargingTypes DEF NameStill, StoreStatus
  <2> QED BY <1>0, <1>1, <1>10, <2>4, DomainOther DEF StoreStatus, Rests
<1>11. ASSUME NEW f \in Shops, RemoveDomain(f) PROVE DomainInv'
  <2>1. biz'[f].status = "NONE" /\ \A g \in Shops \ {f} : biz'[g] = biz[g]
    BY <1>0, <1>11 DEF RemoveDomain, Biz
  <2> QED BY <1>0, <1>11, <2>1, DomainRenamed DEF RemoveDomain
<1>12. ASSUME NEW f \in Shops, Publish(f) PROVE DomainInv'
  BY <1>0, <1>2, <1>12, DomainIdle DEF Publish
<1>13. ASSUME NEW f \in Shops, Paid(f) PROVE DomainInv'
  <2>1. \A g \in Shops : NameStill(g)
    BY <1>0, <1>13, CrossedTypes DEF NameStill, Paid
  <2> QED BY <1>0, <1>13, <2>1, DomainIdle DEF Paid
<1>14. ASSUME NEW f \in Shops, NEW g \in Shops, CreateLocation(g, f) PROVE DomainInv'
  <2>1. \A x \in Shops : NameStill(x)
    BY <1>0, <1>14 DEF NameStill, CreateLocation, Biz
  <2> QED BY <1>0, <1>14, <2>1, DomainIdle DEF CreateLocation
<1>15. ASSUME NEW f \in Shops, NEW on \in BOOLEAN, SetBusinessActive(f, on) PROVE DomainInv'
  <2>1. \A x \in Shops : NameStill(x)
    BY <1>0, <1>15 DEF NameStill, SetBusinessActive, Biz
  <2> QED BY <1>0, <1>15, <2>1, DomainIdle DEF SetBusinessActive
<1>16. ASSUME NEW f \in Shops, NEW n \in Names, SetDomain(f, n) PROVE DomainInv'
  <2>1. biz'[f].status = "PENDING" /\ \A g \in Shops \ {f} : biz'[g] = biz[g]
    BY <1>0, <1>16 DEF SetDomain, Named, Biz
  <2> QED BY <1>0, <1>16, <2>1, DomainRenamed DEF SetDomain
<1>17. ASSUME NEW f \in Shops, NEW n \in Place, PatchDomain(f, n) PROVE DomainInv'
  <2>1. \A g \in Shops \ {f} : biz'[g] = biz[g]
    BY <1>0, <1>17 DEF PatchDomain
  <2> QED BY <1>0, <1>17, <2>1, DomainRenamed DEF PatchDomain
<1>18. ASSUME NEW f \in Shops, NEW h \in Hands, VerifyNow(h, f) PROVE DomainInv'
  <2>1. PICK w : w = [pc |-> "look", rows |-> {f}, read |-> Seen]
    OBVIOUS
  <2>2. HandOK(w) /\ w.pc = "look" /\ w.read = Seen
    BY <1>0, <2>1, SeenReads DEF HandOK
  <2>3. Does(h, w) /\ UNCHANGED <<biz, proved, crossed>>
    BY <1>18, <2>1 DEF VerifyNow
  <2> QED BY <1>0, <2>2, <2>3, DomainBegins
<1>19. ASSUME NEW f \in Shops, NEW h \in Hands, StartOnboarding(h, f) PROVE DomainInv'
  <2>1. PICK w : w = [pc |-> "link", rows |-> {f}, account |-> drawn.account + 1]
    OBVIOUS
  <2>2. form'[h] = w /\ w.pc = "link" /\ \A g \in Hands \ {h} : form'[g] = form[g]
    BY <1>0, <1>19, <2>1 DEF StartOnboarding, Does, HandsOK
  <2>3. \A x \in Shops, g \in Hands : CheckGoesOn(g, x)
    BY <2>2 DEF CheckGoesOn
  <2> QED BY <1>0, <1>2, <1>19, <2>3, DomainStays DEF StartOnboarding, DomainInv
<1>20. ASSUME NEW f \in Shops, NEW h \in Hands, RefreshStatus(h, f) PROVE DomainInv'
  <2>1. PICK w : w = [pc |-> "status", rows |-> {f}, charges |-> biz[f].account \in enabled]
    OBVIOUS
  <2>2. HandOK(w) /\ w.pc = "status"
    BY <2>1 DEF HandOK
  <2> QED BY <1>0, <1>2, <1>20, <2>1, <2>2, DomainOther DEF RefreshStatus
<1>21. ASSUME NEW f \in Shops, NEW h \in Hands, NEW patch \in Patches, UpdateBusiness(h, f, patch) PROVE DomainInv'
  <2>1. PICK w : w = [pc |-> "save", rows |-> {f}, patch |-> patch]
    OBVIOUS
  <2>2. HandOK(w) /\ w.pc = "save"
    BY <2>1 DEF HandOK
  <2> QED BY <1>0, <1>2, <1>21, <2>1, <2>2, DomainOther DEF UpdateBusiness
<1>22. CASE UNCHANGED bizVars
  BY <1>0, <1>2, <1>22, DomainIdle DEF bizVars
<1>23. CASE BizNext
  BY <1>23, <1>3, <1>4, <1>5, <1>6, <1>7, <1>8, <1>9, <1>10, <1>11, <1>12, <1>13, <1>14, <1>15, <1>16,
     <1>17, <1>18, <1>19, <1>20, <1>21, BizSteps
<1> QED BY <1>22, <1>23

LEMMA DomainHolds == BizSpec => []DomainInv
<1>1. BizInit => DomainInv
  BY DEF BizInit, DomainInv, DomainOf, Calm
<1> QED BY <1>1, DomainStep, BizTyped, PTL DEF BizSpec

-----------------------------------------------------------------------------
(* Businesses: what the settings form has checked stays true *)

Saves(h, f, x) == form[h].pc = "save" /\ f \in form[h].rows /\ x \in DOMAIN form[h].patch

\* A business was paid in the currency it has, and in the one a form will write.
CurrencyOf(f) ==
    \/ "currency" \in crossed[f]
    \/ /\ taken[f] \subseteq {biz[f].currency}
       /\ \A h \in Hands : Saves(h, f, "currency") => taken[f] \subseteq {form[h].patch.currency}

\* A business that cannot charge neither takes cards only, nor is about to.
ChargesOf(f) ==
    \/ "charges" \in crossed[f] \/ biz[f].charges
    \/ /\ biz[f].collects # "ONLINE_CARD"
       /\ \A h \in Hands : Saves(h, f, "collects") => form[h].patch.collects # "ONLINE_CARD"

FormInv == \A f \in Shops : CurrencyOf(f) /\ ChargesOf(f)

MoneyStill(f) ==
    /\ biz'[f].currency = biz[f].currency /\ biz'[f].collects = biz[f].collects
    /\ biz'[f].charges <=> biz[f].charges
    /\ taken'[f] = taken[f]
    /\ \A x \in {"currency", "charges"} : x \in crossed'[f] <=> x \in crossed[f]

SaveGoesOn(h, f) == form'[h].pc = "save" /\ f \in form'[h].rows => form'[h] = form[h]

LEMMA FormStays ==
    ASSUME NEW f \in Shops, CurrencyOf(f), ChargesOf(f), MoneyStill(f), \A h \in Hands : SaveGoesOn(h, f)
    PROVE  CurrencyOf(f)' /\ ChargesOf(f)'
<1>1. \A h \in Hands : \A x \in {"currency", "collects"} :
        Saves(h, f, x)' => Saves(h, f, x) /\ form'[h].patch = form[h].patch
  BY DEF Saves, SaveGoesOn
<1>2. CurrencyOf(f)'
  BY <1>1 DEF CurrencyOf, MoneyStill
<1>3. ChargesOf(f)'
  BY <1>1 DEF ChargesOf, MoneyStill
<1> QED BY <1>2, <1>3

LEMMA FormIdle ==
    ASSUME FormInv, UNCHANGED form, \A f \in Shops : MoneyStill(f)
    PROVE  FormInv'
<1>1. \A f \in Shops, h \in Hands : SaveGoesOn(h, f)
  BY DEF SaveGoesOn
<1> QED BY <1>1, FormStays DEF FormInv

\* A hand that goes on, but not to save a form.
LEMMA NoNewSave ==
    ASSUME HandsOK, NEW h \in Hands, NEW w, Does(h, w), w.pc # "save"
    PROVE  \A f \in Shops, g \in Hands : SaveGoesOn(g, f)
BY DEF SaveGoesOn, Does, HandsOK

LEMMA FormOther ==
    ASSUME HandsOK, FormInv, NEW h \in Hands, NEW w, Does(h, w), w.pc # "save", \A f \in Shops : MoneyStill(f)
    PROVE  FormInv'
BY NoNewSave, FormStays DEF FormInv

LEMMA FormCharging ==
    ASSUME BizInv, FormInv, NEW a \in Shops, NEW on \in BOOLEAN, Charging(a, on), UNCHANGED taken,
           \A f \in Shops, h \in Hands : SaveGoesOn(h, f)
    PROVE  FormInv'
<1>1. BizTables /\ biz \in [Shops -> Biz] /\ crossed \in [Shops -> SUBSET Aspects] /\ {"currency", "charges"} \subseteq Aspects
  BY DEF BizInv, BizTables, Aspects
<1>2. /\ \A g \in Shops : biz'[g].currency = biz[g].currency /\ biz'[g].collects = biz[g].collects
      /\ \A g \in Shops, x \in Aspects : g # a \/ x # "charges" => (x \in crossed'[g] <=> x \in crossed[g])
  BY <1>1, ChargingTypes
<1>3. /\ biz'[a].charges <=> on
      /\ \A g \in Shops \ {a} : biz'[g] = biz[g]
  BY <1>1 DEF Charging, Biz
<1>4. \A g \in Shops \ {a} : MoneyStill(g)
  BY <1>1, <1>2, <1>3 DEF MoneyStill
<1>5. \A g \in Shops \ {a} : CurrencyOf(g)' /\ ChargesOf(g)'
  BY <1>4, FormStays DEF FormInv
<1>6. \A h \in Hands : \A x \in {"currency", "collects"} :
        Saves(h, a, x)' => Saves(h, a, x) /\ form'[h].patch = form[h].patch
  BY DEF Saves, SaveGoesOn
<1>7. CurrencyOf(a)'
  BY <1>1, <1>2, <1>6 DEF FormInv, CurrencyOf
<1>8. ChargesOf(a)'
  <2>1. CASE on
    BY <1>3, <2>1 DEF ChargesOf
  <2>2. CASE ~on /\ (biz[a].collects = "ONLINE_CARD" \/ Reading(a, {"save"}) \/ "charges" \in crossed[a])
    BY <1>1, <2>2, CrossedTypes DEF ChargesOf, Charging
  <2>3. CASE biz[a].collects # "ONLINE_CARD" /\ ~Reading(a, {"save"})
    BY <1>2, <1>6, <2>3 DEF ChargesOf, Reading, Saves
  <2> QED BY <2>1, <2>2, <2>3
<1> QED BY <1>5, <1>7, <1>8 DEF FormInv

\* A payment in the currency the business has.
LEMMA FormPaid ==
    ASSUME BizInv, FormInv, NEW a \in Shops, Paid(a)
    PROVE  FormInv'
<1>1. /\ biz \in [Shops -> Biz] /\ crossed \in [Shops -> SUBSET Aspects] /\ taken \in [Shops -> SUBSET Currencies]
      /\ {"currency", "charges"} \subseteq Aspects
  BY DEF BizInv, BizTables, Aspects
<1>2. UNCHANGED <<biz, form>> /\ taken' = [taken EXCEPT ![a] = @ \cup {biz[a].currency}]
  BY DEF Paid
<1>3. \A g \in Shops, x \in Aspects : g # a \/ x # "currency" => (x \in crossed'[g] <=> x \in crossed[g])
  BY <1>1, CrossedTypes DEF Paid
<1>4. \A g \in Shops \ {a} : MoneyStill(g)
  BY <1>1, <1>2, <1>3 DEF MoneyStill
<1>5. \A g \in Shops \ {a} : CurrencyOf(g)' /\ ChargesOf(g)'
  BY <1>2, <1>4, FormStays DEF FormInv, SaveGoesOn
<1>6. ChargesOf(a)'
  BY <1>1, <1>2, <1>3 DEF FormInv, ChargesOf, Saves
<1>7. CurrencyOf(a)'
  <2>1. CASE Reading(a, {"save"}) \/ "currency" \in crossed[a]
    BY <1>1, <2>1, CrossedTypes DEF CurrencyOf, Paid
  <2>2. CASE ~Reading(a, {"save"}) /\ "currency" \notin crossed[a]
    <3>1. taken[a] \subseteq {biz[a].currency}
      BY <2>2 DEF FormInv, CurrencyOf
    <3>2. taken'[a] \subseteq {biz'[a].currency}
      BY <1>1, <1>2, <3>1
    <3>3. \A h \in Hands : ~Saves(h, a, "currency")'
      BY <1>2, <2>2 DEF Reading, Saves
    <3> QED BY <3>2, <3>3 DEF CurrencyOf
  <2> QED BY <2>1, <2>2
<1> QED BY <1>5, <1>6, <1>7 DEF FormInv

\* The form reads the row and checks what it will write.
LEMMA FormChecked ==
    ASSUME BizInv, FormInv, NEW a \in Shops, NEW h \in Hands, NEW patch \in Patches, UpdateBusiness(h, a, patch)
    PROVE  FormInv'
<1>1. HandsOK /\ UNCHANGED <<biz, taken, crossed>>
  BY DEF BizInv, UpdateBusiness
<1>2. PICK w : w = [pc |-> "save", rows |-> {a}, patch |-> patch]
  OBVIOUS
<1>3. w.pc = "save" /\ w.rows = {a} /\ w.patch = patch
  BY <1>2
<1>4. form'[h] = w /\ \A g \in Hands \ {h} : form'[g] = form[g]
  BY <1>1, <1>2 DEF UpdateBusiness, Does, HandsOK
<1>5. \A g \in Shops : MoneyStill(g)
  BY <1>1 DEF MoneyStill
<1>6. \A g \in Shops \ {a} : CurrencyOf(g)' /\ ChargesOf(g)'
  BY <1>3, <1>4, <1>5, FormStays DEF FormInv, SaveGoesOn
<1>7. CurrencyOf(a)'
  <2>1. "currency" \in DOMAIN patch => patch.currency = biz[a].currency \/ taken[a] = {}
    BY DEF UpdateBusiness, MayChange
  <2> QED BY <1>1, <1>3, <1>4, <2>1 DEF FormInv, CurrencyOf, Saves
<1>8. ChargesOf(a)'
  <2>1. "collects" \in DOMAIN patch /\ patch.collects = "ONLINE_CARD" =>
           biz[a].collects = "ONLINE_CARD" \/ biz[a].charges
    BY DEF UpdateBusiness, MayCollect
  <2> QED BY <1>1, <1>3, <1>4, <2>1 DEF FormInv, ChargesOf, Saves
<1> QED BY <1>6, <1>7, <1>8 DEF FormInv

LEMMA FormSaved ==
    ASSUME BizInv, FormInv, NEW h \in Hands, Save(h)
    PROVE  FormInv'
<1>1. /\ HandsOK /\ biz \in [Shops -> Biz] /\ HandOK(form[h]) /\ form[h].pc = "save"
      /\ UNCHANGED <<taken, crossed>> /\ Rests(h)
  BY DEF BizInv, BizTables, HandsOK, Save, Is
<1>2. PICK f \in Shops : form[h].rows = {f}
  BY <1>1, HandKinds
<1>3. PICK body : body = form[h].patch
  OBVIOUS
<1>4. body \in Patches
  BY <1>1, <1>3, HandKinds
<1>5. PICK new : new = [x \in DOMAIN biz[f] |-> IF x \in DOMAIN body THEN body[x] ELSE biz[f][x]]
  OBVIOUS
<1>6. biz' = [biz EXCEPT ![f] = new]
  BY <1>1, <1>2, <1>3, <1>5 DEF Save
<1>7. /\ new.charges = biz[f].charges
      /\ new.currency = IF "currency" \in DOMAIN body THEN body.currency ELSE biz[f].currency
      /\ new.collects = IF "collects" \in DOMAIN body THEN body.collects ELSE biz[f].collects
  BY <1>1, <1>4, <1>5, Patched
<1>8. biz'[f] = new /\ \A g \in Shops \ {f} : biz'[g] = biz[g]
  BY <1>1, <1>6
<1>9. form'[h] = Calm /\ \A g \in Hands \ {h} : form'[g] = form[g]
  BY <1>1, HandRests
<1>10. \A g \in Shops, k \in Hands : SaveGoesOn(k, g)
  BY <1>9 DEF SaveGoesOn, Calm
<1>11. \A g \in Shops \ {f} : CurrencyOf(g)' /\ ChargesOf(g)'
  <2>1. \A g \in Shops \ {f} : MoneyStill(g)
    BY <1>1, <1>8 DEF MoneyStill
  <2> QED BY <1>10, <2>1, FormStays DEF FormInv
<1>12. \A k \in Hands : \A x \in {"currency", "collects"} :
        Saves(k, f, x)' => Saves(k, f, x) /\ form'[k].patch = form[k].patch
  BY <1>10 DEF Saves, SaveGoesOn
<1>13. \A x \in {"currency", "collects"} : x \in DOMAIN body => Saves(h, f, x)
  BY <1>1, <1>2, <1>3 DEF Saves
<1>14. CurrencyOf(f)'
  BY <1>1, <1>3, <1>7, <1>8, <1>12, <1>13 DEF FormInv, CurrencyOf
<1>15. ChargesOf(f)'
  BY <1>1, <1>3, <1>7, <1>8, <1>12, <1>13 DEF FormInv, ChargesOf
<1> QED BY <1>11, <1>14, <1>15 DEF FormInv

LEMMA FormStep ==
    ASSUME BizInv, [BizNext]_bizVars, FormInv
    PROVE  FormInv'
<1>0. /\ BizTables /\ HandsOK /\ biz \in [Shops -> Biz] /\ crossed \in [Shops -> SUBSET Aspects]
      /\ {"domain", "currency", "charges"} \subseteq Aspects
  BY DEF BizInv, BizTables, Aspects
<1>2. ASSUME UNCHANGED <<biz, taken, crossed>> PROVE \A f \in Shops : MoneyStill(f)
  BY <1>2 DEF MoneyStill
<1>3. CASE Tick
  <2>1. PICK w : w = [pc |-> "look", rows |-> {f \in Shops : biz[f].status = "PENDING"}, read |-> Seen]
    OBVIOUS
  <2>2. Worker \in Hands /\ w.pc # "save" /\ Does(Worker, w)
    BY <1>3, <2>1 DEF Tick, Hands
  <2> QED BY <1>0, <1>2, <1>3, <2>2, FormOther DEF Tick
<1>4. ASSUME NEW a \in 1..drawn.account, AccountChanges(a) PROVE FormInv'
  BY <1>2, <1>4, FormIdle DEF AccountChanges
<1>5. ASSUME NEW e \in notices, AccountUpdated(e) PROVE FormInv'
  <2>1. CASE UNCHANGED <<biz, crossed>>
    BY <1>2, <1>5, <2>1, FormIdle DEF AccountUpdated
  <2>2. ASSUME NEW f \in Shops, Charging(f, e.charges) PROVE FormInv'
    <3>1. e.charges \in BOOLEAN
      BY <1>0 DEF BizTables
    <3>2. UNCHANGED <<taken, form>> /\ \A g \in Shops, h \in Hands : SaveGoesOn(h, g)
      BY <1>5 DEF AccountUpdated, SaveGoesOn
    <3> QED BY <2>2, <3>1, <3>2, FormCharging
  <2> QED BY <1>5, <2>1, <2>2 DEF AccountUpdated
<1>6. ASSUME NEW h \in Hands, Found(h) PROVE FormInv'
  <2>1. PICK w : w = [pc |-> "look", rows |-> form[h].rows \ {form[h].at}, read |-> form[h].read]
    OBVIOUS
  <2>2. w.pc # "save" /\ Calm.pc # "save" /\ (Does(h, w) \/ Does(h, Calm))
    BY <1>6, <2>1 DEF Found, Rests, Calm
  <2>3. \A f \in Shops : MoneyStill(f)
    BY <1>0, <1>6 DEF MoneyStill, Found, Biz
  <2> QED BY <1>0, <2>2, <2>3, FormOther
<1>7. ASSUME NEW h \in Hands, NEW f \in Shops, Look(h, f) PROVE FormInv'
  <2>1. HandOK(form[h]) /\ form[h].pc = "look"
    BY <1>0, <1>7 DEF HandsOK, Look, Is
  <2>2. form[h] \in [pc : {"look"}, rows : SUBSET Shops, read : Readings]
    BY <2>1 DEF HandOK, Calm
  <2>3. PICK w : w = [pc |-> "found", rows |-> form[h].rows, read |-> form[h].read, at |-> f, ok |-> Owns(form[h].read[f])]
    OBVIOUS
  <2>4. PICK v : v = [form[h] EXCEPT !.rows = form[h].rows \ {f}]
    OBVIOUS
  <2>5. w.pc # "save" /\ v.pc # "save" /\ Calm.pc # "save"
    BY <2>2, <2>3, <2>4 DEF Calm
  <2>6. Does(h, w) \/ Does(h, v) \/ Does(h, Calm)
    BY <1>7, <2>3, <2>4 DEF Look, Rests
  <2>7. \A g \in Shops : MoneyStill(g)
    BY <1>2, <1>7 DEF Look
  <2> QED BY <1>0, <2>5, <2>6, <2>7, FormOther
<1>8. ASSUME NEW h \in Hands, Save(h) PROVE FormInv'
  BY <1>8, FormSaved
<1>9. ASSUME NEW h \in Hands, StoreAccount(h) PROVE FormInv'
  <2>1. PICK f \in form[h].rows : biz' = [biz EXCEPT ![f].account = form[h].account]
    BY <1>9 DEF StoreAccount
  <2>2. \A g \in Shops : MoneyStill(g)
    BY <1>0, <1>9, <2>1 DEF MoneyStill, StoreAccount, Biz
  <2> QED BY <1>0, <1>9, <2>2, FormOther DEF StoreAccount, Rests, Calm
<1>10. ASSUME NEW h \in Hands, StoreStatus(h) PROVE FormInv'
  <2>1. HandOK(form[h]) /\ form[h].pc = "status"
    BY <1>0, <1>10 DEF HandsOK, StoreStatus, Is
  <2>2. PICK f \in Shops : form[h].rows = {f}
    BY <2>1, HandKinds
  <2>3. form[h].charges \in BOOLEAN /\ Charging(f, form[h].charges) /\ UNCHANGED taken
    BY <1>10, <2>1, <2>2, HandKinds DEF StoreStatus
  <2>4. \A g \in Shops, k \in Hands : SaveGoesOn(k, g)
    BY <1>0, <1>10, NoNewSave DEF StoreStatus, Rests, Calm
  <2> QED BY <2>3, <2>4, FormCharging
<1>11. ASSUME NEW f \in Shops, RemoveDomain(f) PROVE FormInv'
  <2>1. \A g \in Shops : MoneyStill(g)
    BY <1>0, <1>11, CrossedTypes DEF MoneyStill, RemoveDomain, Biz
  <2> QED BY <1>11, <2>1, FormIdle DEF RemoveDomain
<1>12. ASSUME NEW f \in Shops, Publish(f) PROVE FormInv'
  BY <1>2, <1>12, FormIdle DEF Publish
<1>13. ASSUME NEW f \in Shops, Paid(f) PROVE FormInv'
  BY <1>13, FormPaid
<1>14. ASSUME NEW f \in Shops, NEW g \in Shops, CreateLocation(g, f) PROVE FormInv'
  <2>1. \A x \in Shops : MoneyStill(x)
    BY <1>0, <1>14 DEF MoneyStill, CreateLocation, Biz
  <2> QED BY <1>14, <2>1, FormIdle DEF CreateLocation
<1>15. ASSUME NEW f \in Shops, NEW on \in BOOLEAN, SetBusinessActive(f, on) PROVE FormInv'
  <2>1. \A x \in Shops : MoneyStill(x)
    BY <1>0, <1>15 DEF MoneyStill, SetBusinessActive, Biz
  <2> QED BY <1>15, <2>1, FormIdle DEF SetBusinessActive
<1>16. ASSUME NEW f \in Shops, NEW n \in Names, SetDomain(f, n) PROVE FormInv'
  <2>1. \A g \in Shops : MoneyStill(g)
    BY <1>0, <1>16, CrossedTypes DEF MoneyStill, SetDomain, Named, Biz
  <2> QED BY <1>16, <2>1, FormIdle DEF SetDomain
<1>17. ASSUME NEW f \in Shops, NEW n \in Place, PatchDomain(f, n) PROVE FormInv'
  <2>1. \A g \in Shops : MoneyStill(g)
    BY <1>0, <1>17, CrossedTypes DEF MoneyStill, PatchDomain, Biz
  <2> QED BY <1>17, <2>1, FormIdle DEF PatchDomain
<1>18. ASSUME NEW f \in Shops, NEW h \in Hands, VerifyNow(h, f) PROVE FormInv'
  <2>1. PICK w : w = [pc |-> "look", rows |-> {f}, read |-> Seen]
    OBVIOUS
  <2> QED BY <1>0, <1>2, <1>18, <2>1, FormOther DEF VerifyNow
<1>19. ASSUME NEW f \in Shops, NEW h \in Hands, StartOnboarding(h, f) PROVE FormInv'
  <2>1. PICK w : w = [pc |-> "link", rows |-> {f}, account |-> drawn.account + 1]
    OBVIOUS
  <2> QED BY <1>0, <1>2, <1>19, <2>1, FormOther DEF StartOnboarding
<1>20. ASSUME NEW f \in Shops, NEW h \in Hands, RefreshStatus(h, f) PROVE FormInv'
  <2>1. PICK w : w = [pc |-> "status", rows |-> {f}, charges |-> biz[f].account \in enabled]
    OBVIOUS
  <2>2. w.pc # "save"
    BY <2>1
  <2> QED BY <1>0, <1>2, <1>20, <2>1, <2>2, FormOther DEF RefreshStatus
<1>21. ASSUME NEW f \in Shops, NEW h \in Hands, NEW patch \in Patches, UpdateBusiness(h, f, patch) PROVE FormInv'
  BY <1>21, FormChecked
<1>22. CASE UNCHANGED bizVars
  BY <1>2, <1>22, FormIdle DEF bizVars
<1>23. CASE BizNext
  BY <1>23, <1>3, <1>4, <1>5, <1>6, <1>7, <1>8, <1>9, <1>10, <1>11, <1>12, <1>13, <1>14, <1>15, <1>16,
     <1>17, <1>18, <1>19, <1>20, <1>21, BizSteps
<1> QED BY <1>22, <1>23

LEMMA FormHolds == BizSpec => []FormInv
<1>1. BizInit => FormInv
  BY DEF BizInit, FormInv, CurrencyOf, ChargesOf, Saves, Calm
<1> QED BY <1>1, FormStep, BizTyped, PTL DEF BizSpec

LEMMA PlatformBusinesses == Spec => BizSpec
<1>1. Init => BizInit
  BY DEF Init
<1>2. [Next]_vars => [BizNext]_bizVars
  BY DEF Next, AccountsStep, CodesStep, BusinessesStep, SubscriptionsStep, vars, bizVars
<1> QED BY <1>1, <1>2, PTL DEF Spec, BizSpec

\* A custom domain leads only to a business whose token was found there, but
\* for the changes behind a check that the property names
\* (domains.service.js:99-140, 149-162), whatever checks run at once.
THEOREM BusinessesRoutedIsProved == Spec => []RoutedIsProved
<1>1. DomainInv => RoutedIsProved
  BY DEF DomainInv, DomainOf, Proven, RoutedIsProved, ResolvesTo
<1> QED BY <1>1, PlatformBusinesses, DomainHolds, PTL

\* The settings form keeps a business in one currency and able to charge, but
\* for what overtakes it (businesses.service.js:141-152, 209-233).
THEOREM BusinessesSettingsHold == Spec => []SettingsHold
<1>1. ASSUME FormInv, BizInv PROVE SettingsHold
  <2>1. ASSUME NEW f \in Shops PROVE Cardinality(taken[f]) <= 1 \/ "currency" \in crossed[f]
    <3>1. PICK paid : paid = taken[f]
      OBVIOUS
    <3>2. CASE paid = {}
      BY <3>1, <3>2, FS_EmptySet
    <3>3. ASSUME NEW c \in paid, "currency" \notin crossed[f] PROVE Cardinality(paid) <= 1
      <4>1. paid \subseteq {biz[f].currency}
        BY <1>1, <3>1, <3>3 DEF FormInv, CurrencyOf
      <4>2. paid = {c}
        BY <4>1
      <4> QED BY <4>2, FS_Singleton
    <3> QED BY <3>1, <3>2, <3>3
  <2>2. CustomersCanPay
    BY <1>1 DEF FormInv, ChargesOf, CustomersCanPay
  <2> QED BY <2>1, <2>2 DEF SettingsHold, OneCurrency
<1> QED BY <1>1, PlatformBusinesses, FormHolds, BizTyped, PTL

-----------------------------------------------------------------------------
(* Subscriptions: the types *)

SubsSpec == SubsInit /\ [][SubsNext]_subVars

\* What Stripe shows of a subscription; one on trial is good for the trial.
Shot == [status : {"trialing", "active", "past_due", "canceled"}, plan : Plans,
         periodEnd : Nat, trialEnd : Nat, ending : BOOLEAN]
ShotOK(s) == s \in Shot /\ (s.status = "trialing" => s.trialEnd = s.periodEnd /\ s.trialEnd # 0)

\* An event tells of a period that the subscription has reached.
EventOK(e) ==
    /\ e.sub \in DOMAIN subs
    /\ e.type \in {"updated", "succeeded", "failed", "deleted", "completed"}
    /\ e.type = "updated" => ShotOK(e.now) /\ e.now.periodEnd <= subs[e.sub].periodEnd
    /\ e.type = "succeeded" => e.periodEnd \in Nat /\ e.periodEnd <= subs[e.sub].periodEnd
    /\ e.type = "completed" => e.plan \in Plans

Calling == [pc : {"call", "write"}, op : {"change"}, sub : DOMAIN subs, plan : Plans]
              \cup [pc : {"call", "write"}, op : {"cancel"}, sub : DOMAIN subs]

DeskOK(w) ==
    \/ w = Resting
    \/ w \in Calling /\ HasRow
    \/ w.pc = "upsert" /\ w.sub \in DOMAIN subs /\ ShotOK(w.now)
    \/ w.pc = "put" /\ EventOK(w.e) /\ w.e.type \in {"succeeded", "failed"} /\ HasRow

Rows == [status : Statuses, plan : Plans, sub : DOMAIN subs, periodEnd : Nat, trialEnd : Nat, canceled : BOOLEAN]
RowOK == row = NoRow \/ (row \in Rows /\ (row.status = "TRIALING" => row.trialEnd = row.periodEnd /\ row.trialEnd # 0))

StripeOK ==
    /\ subs \in Seq(Shot) /\ \A i \in DOMAIN subs : ShotOK(subs[i])
    /\ checkouts \subseteq [plan : Plans, trial : BOOLEAN]
    /\ \A m \in mail : EventOK(m.e)

DesksOK == desk = [d \in Desks |-> desk[d]] /\ \A d \in Desks : DeskOK(desk[d])

SubsInv == today \in Nat /\ left \in Nat /\ StripeOK /\ RowOK /\ DesksOK

\* Subscriptions are made, and their periods move on; a row stays a row.
Grown ==
    /\ DOMAIN subs \subseteq DOMAIN subs' /\ \A i \in DOMAIN subs : subs[i].periodEnd <= subs'[i].periodEnd
    /\ \A i \in DOMAIN subs' : subs'[i].periodEnd \in Nat
    /\ HasRow => HasRow'

LEMMA NoRowIsNot == NoRow \notin Rows /\ NoRow.status = "NONE"
BY DEF NoRow, Rows

LEMMA EventGrown == ASSUME StripeOK, Grown, NEW e, EventOK(e) PROVE EventOK(e)'
<1>1. e.sub \in DOMAIN subs' /\ subs[e.sub].periodEnd <= subs'[e.sub].periodEnd
  BY DEF EventOK, Grown
<1>2. subs[e.sub].periodEnd \in Nat /\ subs'[e.sub].periodEnd \in Nat
  BY <1>1 DEF EventOK, StripeOK, ShotOK, Shot, Grown
<1>3. e.type = "updated" => ShotOK(e.now) /\ e.now.periodEnd <= subs'[e.sub].periodEnd
  BY <1>1, <1>2 DEF EventOK, ShotOK, Shot
<1>4. e.type = "succeeded" => e.periodEnd \in Nat /\ e.periodEnd <= subs'[e.sub].periodEnd
  BY <1>1, <1>2 DEF EventOK
<1> QED BY <1>1, <1>3, <1>4 DEF EventOK, ShotOK

LEMMA DeskGrown == ASSUME StripeOK, Grown, NEW w, DeskOK(w) PROVE DeskOK(w)'
<1>1. CASE w \in Calling /\ HasRow
  BY <1>1 DEF DeskOK, Calling, Grown
<1>2. CASE w.pc = "put" /\ EventOK(w.e) /\ w.e.type \in {"succeeded", "failed"} /\ HasRow
  BY <1>2, EventGrown DEF DeskOK, Grown
<1>3. CASE w.pc = "upsert" /\ w.sub \in DOMAIN subs /\ ShotOK(w.now)
  BY <1>3 DEF DeskOK, Grown, ShotOK
<1> QED BY <1>1, <1>2, <1>3 DEF DeskOK

LEMMA StripeSame == ASSUME StripeOK, UNCHANGED subs, HasRow => HasRow' PROVE Grown
<1>1. \A n \in Nat : n <= n
  OBVIOUS
<1>2. \A i \in DOMAIN subs : subs[i].periodEnd \in Nat
  BY DEF StripeOK, ShotOK, Shot
<1> QED BY <1>1, <1>2 DEF Grown

\* A request that goes on to something else, the others staying.
LEMMA DeskTakes ==
    ASSUME DesksOK, StripeOK, Grown, NEW d \in Desks, NEW w, Takes(d, w), DeskOK(w)'
    PROVE  DesksOK' /\ desk'[d] = w /\ \A o \in Desks \ {d} : desk'[o] = desk[o]
<1>1. \A o \in Desks : desk'[o] = IF o = d THEN w ELSE desk[o]
  BY DEF Takes, DesksOK
<1>2. desk' = [o \in Desks |-> desk'[o]]
  BY DEF Takes, DesksOK
<1>3. ASSUME NEW o \in Desks PROVE DeskOK(desk[o])'
  <2>1. CASE o = d
    BY <1>1, <2>1 DEF DeskOK, EventOK, Calling
  <2>2. CASE o # d
    <3>1. PICK v : v = desk[o]
      OBVIOUS
    <3>2. DeskOK(v)
      BY <3>1 DEF DesksOK
    <3>3. DeskOK(v)'
      BY <3>2, DeskGrown
    <3> QED BY <1>1, <2>2, <3>1, <3>3 DEF DeskOK, EventOK, Calling
  <2> QED BY <2>1, <2>2
<1> QED BY <1>1, <1>2, <1>3 DEF DesksOK

LEMMA DeskDone ==
    ASSUME DesksOK, StripeOK, Grown, NEW d \in Desks, Done(d)
    PROVE  DesksOK' /\ desk'[d] = Resting /\ \A o \in Desks \ {d} : desk'[o] = desk[o]
<1>1. PICK w : w = Resting
  OBVIOUS
<1>2. DeskOK(w)'
  BY <1>1 DEF DeskOK
<1> QED BY <1>1, <1>2, DeskTakes DEF Done

LEMMA DeskStill == ASSUME DesksOK, StripeOK, Grown, UNCHANGED desk PROVE DesksOK'
<1>1. ASSUME NEW o \in Desks PROVE DeskOK(desk[o])'
  <2>1. PICK v : v = desk[o]
    OBVIOUS
  <2>2. DeskOK(v)
    BY <2>1 DEF DesksOK
  <2>3. DeskOK(v)'
    BY <2>2, DeskGrown
  <2> QED BY <2>1, <2>3 DEF DeskOK, EventOK, Calling
<1> QED BY <1>1 DEF DesksOK

LEMMA RowStill == ASSUME RowOK, Grown, UNCHANGED row PROVE RowOK'
BY DEF RowOK, Rows, Grown

\* The events of a step on subscription i, which is s afterwards.
EventFor(e, i, s) == e \in {Updated(i, s), Succeeded(i, s), Failed(i), Ended(i)}

LEMMA EventFields ==
    ASSUME NEW i, NEW s, NEW e, EventFor(e, i, s)
    PROVE  /\ e.sub = i /\ e.type \in {"updated", "succeeded", "failed", "deleted"}
           /\ e.type = "updated" => e.now = s
           /\ e.type = "succeeded" => e.periodEnd = s.periodEnd
BY DEF EventFor, Updated, Succeeded, Failed, Ended

LEMMA BecomesOK ==
    ASSUME StripeOK, NEW i \in DOMAIN subs, NEW s, ShotOK(s), subs[i].periodEnd <= s.periodEnd,
           NEW events, Becomes(i, s, events), \A k \in DOMAIN events : EventFor(events[k], i, s),
           UNCHANGED <<row, checkouts>>
    PROVE  /\ Grown /\ StripeOK'
           /\ DOMAIN subs' = DOMAIN subs /\ subs'[i] = s /\ \A j \in DOMAIN subs \ {i} : subs'[j] = subs[j]
           /\ \A m \in mail' : m \in mail \/ EventFor(m.e, i, s)
<1>1. subs \in Seq(Shot) /\ s \in Shot /\ subs' = [subs EXCEPT ![i] = s]
  BY DEF StripeOK, ShotOK, Becomes
<1>2. subs' \in Seq(Shot) /\ DOMAIN subs' = DOMAIN subs
  BY <1>1
<1>3. subs'[i] = s /\ \A j \in DOMAIN subs \ {i} : subs'[j] = subs[j]
  BY <1>1
<1>4. \A j \in DOMAIN subs : subs'[j] \in Shot /\ ShotOK(subs'[j])
  BY <1>1, <1>3 DEF StripeOK, ShotOK
<1>5. \A j \in DOMAIN subs : subs[j].periodEnd \in Nat /\ subs'[j].periodEnd \in Nat
  BY <1>4 DEF StripeOK, ShotOK, Shot
<1>6. \A n \in Nat : n <= n
  OBVIOUS
<1>7. Grown
  BY <1>2, <1>3, <1>5, <1>6 DEF Grown, HasRow
<1>8. \A m \in mail' : m \in mail \/ EventFor(m.e, i, s)
  BY DEF Becomes, Sends
<1>9. ASSUME NEW m \in mail' PROVE EventOK(m.e)'
  <2>1. PICK e : e = m.e
    OBVIOUS
  <2>2. CASE m \in mail
    <3>1. EventOK(e)
      BY <2>1, <2>2 DEF StripeOK
    <3>2. EventOK(e)'
      BY <1>7, <3>1, EventGrown
    <3> QED BY <2>1, <3>2
  <2>3. CASE EventFor(e, i, s)
    <3>1. /\ e.sub = i /\ e.type \in {"updated", "succeeded", "failed", "deleted"}
          /\ e.type = "updated" => e.now = s
          /\ e.type = "succeeded" => e.periodEnd = s.periodEnd
      BY <2>3, EventFields
    <3>2. s.periodEnd <= s.periodEnd /\ s.periodEnd \in Nat
      BY <1>6 DEF ShotOK, Shot
    <3> QED BY <1>2, <1>3, <2>1, <3>1, <3>2 DEF EventOK, ShotOK
  <2> QED BY <1>8, <2>1, <2>2, <2>3
<1>10. checkouts' \subseteq [plan : Plans, trial : BOOLEAN]
  BY DEF StripeOK
<1>11. StripeOK'
  BY <1>2, <1>4, <1>9, <1>10 DEF StripeOK, ShotOK
<1> QED BY <1>2, <1>3, <1>7, <1>8, <1>11

\* What a step makes of a subscription: the same period, or a later one.
LEMMA ShotTurns ==
    ASSUME NEW s, ShotOK(s), NEW status \in {"active", "past_due", "canceled"}, NEW t,
           t = [s EXCEPT !.status = status]
    PROVE  ShotOK(t) /\ t.ending = s.ending /\ t.periodEnd = s.periodEnd /\ s.periodEnd <= t.periodEnd /\ t.status = status
<1>1. s \in Shot
  BY DEF ShotOK
<1>2. t \in Shot /\ t.status = status /\ t.ending = s.ending /\ t.periodEnd = s.periodEnd
  BY <1>1 DEF Shot
<1>3. s.periodEnd \in Nat /\ \A n \in Nat : n <= n
  BY <1>1 DEF Shot
<1> QED BY <1>2, <1>3 DEF ShotOK

LEMMA ShotRenews ==
    ASSUME NEW s, ShotOK(s), NEW status \in {"active", "past_due"}, NEW next, NEW t,
           next = [s EXCEPT !.periodEnd = @ + Period], t = [next EXCEPT !.status = status]
    PROVE  ShotOK(t) /\ s.periodEnd <= t.periodEnd
<1>1. s \in Shot /\ s.periodEnd \in Nat
  BY DEF ShotOK, Shot
<1>2. PICK n : n = s.periodEnd + Period
  OBVIOUS
<1>3. n \in Nat /\ s.periodEnd <= n
  BY <1>1, <1>2, SubscriptionsAssumption
<1>4. next \in Shot /\ next.periodEnd = n
  BY <1>1, <1>2, <1>3 DEF Shot
<1>5. t \in Shot /\ t.periodEnd = n /\ t.status = status
  BY <1>4 DEF Shot
<1> QED BY <1>3, <1>5 DEF ShotOK

Changed(s, plan, ending, t) ==
    \/ t = [s EXCEPT !.plan = plan, !.ending = ending]
    \/ t = [s EXCEPT !.ending = ending, !.plan = plan]
    \/ t = [s EXCEPT !.ending = ending]

LEMMA ShotChanges ==
    ASSUME NEW s, ShotOK(s), NEW plan \in Plans, NEW ending \in BOOLEAN, NEW t, Changed(s, plan, ending, t)
    PROVE  ShotOK(t) /\ (t.ending <=> ending) /\ t.periodEnd = s.periodEnd /\ s.periodEnd <= t.periodEnd /\ t.status = s.status
<1>1. s \in Shot
  BY DEF ShotOK
<1>2. /\ t \in Shot /\ t.status = s.status /\ t.periodEnd = s.periodEnd /\ t.trialEnd = s.trialEnd
      /\ t.ending <=> ending
  BY <1>1 DEF Shot, Changed
<1>3. s.periodEnd \in Nat /\ \A n \in Nat : n <= n
  BY <1>1 DEF Shot
<1> QED BY <1>2, <1>3 DEF ShotOK

\* Pairs of events.
LEMMA Pair ==
    ASSUME NEW a, NEW b
    PROVE  /\ \A k \in DOMAIN <<a, b>> : <<a, b>>[k] \in {a, b}
           /\ DOMAIN <<a, b>> = 1..2 /\ Len(<<a, b>>) = 2 /\ <<a, b>>[1] = a
OBVIOUS

LEMMA Single ==
    ASSUME NEW a
    PROVE  (\A k \in DOMAIN <<a>> : <<a>>[k] = a) /\ DOMAIN <<a>> = 1..1 /\ Len(<<a>>) = 1
OBVIOUS

\* Stripe's own steps on a subscription, and what they leave of it.
Turned(i, s) ==
    \E events :
        /\ Becomes(i, s, events) /\ \A k \in DOMAIN events : EventFor(events[k], i, s)
        /\ DOMAIN events = 1..Len(events) /\ Len(events) \in Nat
        /\ ShotOK(s) /\ subs[i].periodEnd <= s.periodEnd

\* A new period is told of by the first event of the step.
LEMMA PeriodEndsTurns ==
    ASSUME StripeOK, NEW i \in DOMAIN subs, PeriodEnds(i)
    PROVE  \E s : /\ Turned(i, s)
                  /\ subs[i].ending => s.ending = subs[i].ending /\ s.periodEnd = subs[i].periodEnd
                  /\ \/ s.periodEnd = subs[i].periodEnd
                     \/ [n |-> posted + 1, e |-> Updated(i, s)] \in mail'
<1>1. PICK was : was = subs[i]
  OBVIOUS
<1>2. ShotOK(was)
  BY <1>1 DEF StripeOK
<1>3. CASE was.ending
  <2>1. PICK s : s = [was EXCEPT !.status = "canceled"]
    OBVIOUS
  <2>2. Becomes(i, s, <<Ended(i)>>)
    BY <1>1, <1>3, <2>1 DEF PeriodEnds
  <2>3. ShotOK(s) /\ s.ending = was.ending /\ s.periodEnd = was.periodEnd /\ was.periodEnd <= s.periodEnd
    BY <1>2, <2>1, ShotTurns
  <2>4. \A k \in DOMAIN <<Ended(i)>> : EventFor(<<Ended(i)>>[k], i, s)
    BY Single DEF EventFor
  <2>5. DOMAIN <<Ended(i)>> = 1..Len(<<Ended(i)>>) /\ Len(<<Ended(i)>>) \in Nat
    BY Single
  <2> QED BY <1>1, <2>2, <2>3, <2>4, <2>5 DEF Turned
<1>4. CASE ~was.ending
  <2>1. PICK next, paid, owed : /\ next = [was EXCEPT !.periodEnd = @ + Period]
                                /\ paid = [next EXCEPT !.status = "active"]
                                /\ owed = [next EXCEPT !.status = "past_due"]
    OBVIOUS
  <2>2. \/ Becomes(i, paid, <<Updated(i, paid), Succeeded(i, paid)>>)
        \/ Becomes(i, owed, <<Updated(i, owed), Failed(i)>>)
    BY <1>1, <1>4, <2>1 DEF PeriodEnds
  <2>3. ShotOK(paid) /\ was.periodEnd <= paid.periodEnd /\ ShotOK(owed) /\ was.periodEnd <= owed.periodEnd
    BY <1>2, <2>1, ShotRenews
  <2>4. /\ \A k \in DOMAIN <<Updated(i, paid), Succeeded(i, paid)>> : EventFor(<<Updated(i, paid), Succeeded(i, paid)>>[k], i, paid)
        /\ \A k \in DOMAIN <<Updated(i, owed), Failed(i)>> : EventFor(<<Updated(i, owed), Failed(i)>>[k], i, owed)
    BY Pair DEF EventFor
  <2>5. PICK first, second : /\ first = <<Updated(i, paid), Succeeded(i, paid)>>
                             /\ second = <<Updated(i, owed), Failed(i)>>
    OBVIOUS
  <2>6. /\ DOMAIN first = 1..Len(first) /\ Len(first) \in Nat /\ 1 \in DOMAIN first /\ first[1] = Updated(i, paid)
        /\ DOMAIN second = 1..Len(second) /\ Len(second) \in Nat /\ 1 \in DOMAIN second /\ second[1] = Updated(i, owed)
    BY <2>5, Pair
  <2>7. CASE Becomes(i, paid, first)
    <3>1. Turned(i, paid)
      BY <1>1, <2>3, <2>4, <2>5, <2>6, <2>7 DEF Turned
    <3>2. [n |-> posted + 1, e |-> first[1]] \in mail'
      BY <2>6, <2>7 DEF Becomes, Sends
    <3> QED BY <1>1, <1>4, <2>6, <3>1, <3>2
  <2>8. CASE Becomes(i, owed, second)
    <3>1. Turned(i, owed)
      BY <1>1, <2>3, <2>4, <2>5, <2>6, <2>8 DEF Turned
    <3>2. [n |-> posted + 1, e |-> second[1]] \in mail'
      BY <2>6, <2>8 DEF Becomes, Sends
    <3> QED BY <1>1, <1>4, <2>6, <3>1, <3>2
  <2> QED BY <2>2, <2>5, <2>7, <2>8
<1> QED BY <1>3, <1>4

LEMMA DebtSettledTurns ==
    ASSUME StripeOK, NEW i \in DOMAIN subs, DebtSettled(i)
    PROVE  \E s : Turned(i, s) /\ s.ending = subs[i].ending /\ s.periodEnd = subs[i].periodEnd
<1>1. PICK was : was = subs[i]
  OBVIOUS
<1>2. ShotOK(was)
  BY <1>1 DEF StripeOK
<1>3. PICK paid, gone : paid = [was EXCEPT !.status = "active"] /\ gone = [was EXCEPT !.status = "canceled"]
  OBVIOUS
<1>4. \/ Becomes(i, paid, <<Updated(i, paid), Succeeded(i, paid)>>)
      \/ Becomes(i, gone, <<Ended(i)>>)
  BY <1>1, <1>3 DEF DebtSettled
<1>5. /\ ShotOK(paid) /\ paid.ending = was.ending /\ paid.periodEnd = was.periodEnd /\ was.periodEnd <= paid.periodEnd
      /\ ShotOK(gone) /\ gone.ending = was.ending /\ gone.periodEnd = was.periodEnd /\ was.periodEnd <= gone.periodEnd
  BY <1>2, <1>3, ShotTurns
<1>6. /\ \A k \in DOMAIN <<Updated(i, paid), Succeeded(i, paid)>> : EventFor(<<Updated(i, paid), Succeeded(i, paid)>>[k], i, paid)
      /\ \A k \in DOMAIN <<Ended(i)>> : EventFor(<<Ended(i)>>[k], i, gone)
  BY Pair, Single DEF EventFor
<1>7. /\ DOMAIN <<Updated(i, paid), Succeeded(i, paid)>> = 1..Len(<<Updated(i, paid), Succeeded(i, paid)>>)
      /\ Len(<<Updated(i, paid), Succeeded(i, paid)>>) \in Nat
      /\ DOMAIN <<Ended(i)>> = 1..Len(<<Ended(i)>>) /\ Len(<<Ended(i)>>) \in Nat
  BY Pair, Single
<1>8. Turned(i, paid) \/ Turned(i, gone)
  BY <1>1, <1>4, <1>5, <1>6, <1>7 DEF Turned
<1> QED BY <1>1, <1>5, <1>8

LEMMA BillingPortalTurns ==
    ASSUME StripeOK, NEW i \in DOMAIN subs, NEW plan \in Plans, NEW ending \in BOOLEAN, BillingPortal(i, plan, ending)
    PROVE  \E s : Turned(i, s) /\ (s.ending <=> ending) /\ s.periodEnd = subs[i].periodEnd
<1>1. PICK was, s : was = subs[i] /\ s = [was EXCEPT !.plan = plan, !.ending = ending]
  OBVIOUS
<1>2. ShotOK(was)
  BY <1>1 DEF StripeOK
<1>3. Becomes(i, s, <<Updated(i, s)>>)
  BY <1>1 DEF BillingPortal
<1>4. ShotOK(s) /\ (s.ending <=> ending) /\ s.periodEnd = was.periodEnd /\ was.periodEnd <= s.periodEnd
  <2>1. Changed(was, plan, ending, s)
    BY <1>1 DEF Changed
  <2> QED BY <1>1, <1>2, <2>1, ShotChanges
<1>5. \A k \in DOMAIN <<Updated(i, s)>> : EventFor(<<Updated(i, s)>>[k], i, s)
  BY Single DEF EventFor
<1>6. DOMAIN <<Updated(i, s)>> = 1..Len(<<Updated(i, s)>>) /\ Len(<<Updated(i, s)>>) \in Nat
  BY Single
<1> QED BY <1>1, <1>3, <1>4, <1>5, <1>6 DEF Turned

LEMMA CallStripeTurns ==
    ASSUME StripeOK, DesksOK, NEW d \in Desks, NEW i, i = desk[d].sub, CallStripe(d)
    PROVE  /\ i \in DOMAIN subs
           /\ \E w : /\ Takes(d, w) /\ (w = Resting \/ (w \in Calling /\ HasRow))
                     /\ w.pc \in {"idle", "write"}
           /\ \/ UNCHANGED <<subs, mail, left>>
              \/ \E s : Turned(i, s) /\ s.periodEnd = subs[i].periodEnd /\ (s.ending \/ left' = 0) /\ left' \in {left, 0}
<1>1. desk[d] \in Calling /\ HasRow
  BY DEF CallStripe, Serves, DesksOK, DeskOK, Resting
<1>2. PICK work : work = desk[d]
  OBVIOUS
<1>3. work \in Calling /\ i = work.sub /\ i \in DOMAIN subs
  BY <1>1, <1>2 DEF Calling
<1>4. PICK w : w = [work EXCEPT !.pc = "write"]
  OBVIOUS
<1>5. w \in Calling /\ w.pc = "write"
  BY <1>3, <1>4 DEF Calling
<1>6. Takes(d, w) \/ Takes(d, Resting)
  BY <1>2, <1>4 DEF CallStripe, Done
<1>7. Resting.pc = "idle"
  BY DEF Resting
<1>8. \E x : Takes(d, x) /\ (x = Resting \/ (x \in Calling /\ HasRow)) /\ x.pc \in {"idle", "write"}
  BY <1>1, <1>5, <1>6, <1>7
<1>9. ASSUME Living(i)
      PROVE  \E s : Turned(i, s) /\ s.periodEnd = subs[i].periodEnd /\ (s.ending \/ left' = 0) /\ left' \in {left, 0}
  <2>1. PICK was, s : /\ was = subs[i]
                      /\ s = IF work.op = "cancel" THEN [was EXCEPT !.ending = TRUE]
                             ELSE [was EXCEPT !.ending = FALSE, !.plan = work.plan]
    OBVIOUS
  <2>2. ShotOK(was) /\ was \in Shot
    BY <1>3, <2>1 DEF StripeOK, ShotOK
  <2>3. Becomes(i, s, <<Updated(i, s)>>) /\ left' = IF s.ending THEN left ELSE 0
    BY <1>2, <1>3, <1>9, <2>1 DEF CallStripe
  <2>4. ShotOK(s) /\ s.periodEnd = was.periodEnd /\ was.periodEnd <= s.periodEnd
    <3>1. CASE work.op = "cancel"
      <4>1. was.plan \in Plans /\ Changed(was, was.plan, TRUE, s)
        BY <2>1, <2>2, <3>1 DEF Changed, Shot
      <4> QED BY <2>2, <4>1, ShotChanges
    <3>2. CASE work.op # "cancel"
      <4>1. work.plan \in Plans /\ Changed(was, work.plan, FALSE, s)
        BY <1>3, <2>1, <3>2 DEF Changed, Calling
      <4> QED BY <2>2, <4>1, ShotChanges
    <3> QED BY <3>1, <3>2
  <2>5. \A k \in DOMAIN <<Updated(i, s)>> : EventFor(<<Updated(i, s)>>[k], i, s)
    BY Single DEF EventFor
  <2>6. DOMAIN <<Updated(i, s)>> = 1..Len(<<Updated(i, s)>>) /\ Len(<<Updated(i, s)>>) \in Nat
    BY Single
  <2> QED BY <2>1, <2>3, <2>4, <2>5, <2>6 DEF Turned
<1>10. ~Living(i) => UNCHANGED <<subs, mail, left>>
  BY <1>2, <1>3 DEF CallStripe
<1> QED BY <1>3, <1>8, <1>9, <1>10

\* A completed checkout makes another subscription.
LEMMA CheckoutMakes ==
    ASSUME StripeOK, today \in Nat, NEW c \in checkouts, CompleteCheckout(c)
    PROVE  Grown /\ StripeOK' /\ left' = 0
<1>1. c \in [plan : Plans, trial : BOOLEAN]
  BY DEF StripeOK
<1>2. PICK i, s : /\ i = Len(subs) + 1
                  /\ s = [status |-> IF c.trial THEN "trialing" ELSE "active", plan |-> c.plan, ending |-> FALSE,
                          periodEnd |-> today + (IF c.trial THEN Trial ELSE Period),
                          trialEnd |-> IF c.trial THEN today + Trial ELSE 0]
  OBVIOUS
<1>3. today + Trial \in Nat /\ today + Trial # 0 /\ today + Period \in Nat /\ 0 \in Nat
  BY SubscriptionsAssumption
<1>4. s \in Shot /\ ShotOK(s)
  BY <1>1, <1>2, <1>3 DEF Shot, ShotOK
<1>5. subs \in Seq(Shot) /\ subs' = Append(subs, s)
  BY <1>2 DEF StripeOK, CompleteCheckout
<1>6. /\ subs' \in Seq(Shot) /\ i \in DOMAIN subs' /\ DOMAIN subs \subseteq DOMAIN subs'
      /\ subs'[i] = s /\ \A j \in DOMAIN subs : subs'[j] = subs[j]
      /\ DOMAIN subs' = DOMAIN subs \cup {i}
  BY <1>2, <1>4, <1>5, AppendProperties, LenProperties
<1>7. \A j \in DOMAIN subs : subs[j].periodEnd \in Nat /\ subs[j].periodEnd <= subs'[j].periodEnd
  <2>1. \A n \in Nat : n <= n
    OBVIOUS
  <2> QED BY <1>6, <2>1 DEF StripeOK, ShotOK, Shot
<1>8. s.periodEnd \in Nat
  BY <1>4 DEF Shot
<1>9. Grown
  BY <1>6, <1>7, <1>8 DEF Grown, CompleteCheckout, HasRow
<1>10. \A m \in mail' : m \in mail \/ m.e \in {Completed(i, c.plan), Succeeded(i, s)}
  <2>1. PICK one, two : one = <<Completed(i, c.plan)>> /\ two = <<Completed(i, c.plan), Succeeded(i, s)>>
    OBVIOUS
  <2>2. /\ \A k \in DOMAIN one : one[k] \in {Completed(i, c.plan), Succeeded(i, s)}
        /\ \A k \in DOMAIN two : two[k] \in {Completed(i, c.plan), Succeeded(i, s)}
    BY <2>1
  <2>3. Sends(one) \/ Sends(two)
    BY <1>2, <2>1 DEF CompleteCheckout
  <2> QED BY <2>2, <2>3 DEF Sends
<1>11. ASSUME NEW m \in mail' PROVE EventOK(m.e)'
  <2>1. PICK e : e = m.e
    OBVIOUS
  <2>2. CASE m \in mail
    <3>1. EventOK(e)
      BY <2>1, <2>2 DEF StripeOK
    <3>2. EventOK(e)'
      BY <1>9, <3>1, EventGrown
    <3> QED BY <2>1, <3>2
  <2>3. CASE e = Completed(i, c.plan)
    BY <1>1, <1>6, <2>1, <2>3 DEF Completed, EventOK
  <2>4. CASE e = Succeeded(i, s)
    <3>1. s.periodEnd <= s.periodEnd
      BY <1>8
    <3> QED BY <1>6, <1>8, <2>1, <2>4, <3>1 DEF Succeeded, EventOK
  <2> QED BY <1>10, <2>1, <2>2, <2>3, <2>4
<1>12. checkouts' \subseteq [plan : Plans, trial : BOOLEAN]
  BY DEF CompleteCheckout, StripeOK
<1>13. \A j \in DOMAIN subs' : ShotOK(subs'[j])
  BY <1>4, <1>6 DEF StripeOK, ShotOK
<1>14. StripeOK'
  BY <1>6, <1>11, <1>12, <1>13 DEF StripeOK, ShotOK
<1> QED BY <1>9, <1>14 DEF CompleteCheckout

\* Events are taken away, or left to be delivered again.
LEMMA StripeTaken ==
    ASSUME StripeOK, UNCHANGED subs, mail' \subseteq mail, HasRow => HasRow',
           checkouts' \subseteq [plan : Plans, trial : BOOLEAN]
    PROVE  StripeOK' /\ Grown
<1>1. Grown
  BY StripeSame
<1>2. \A m \in mail' : EventOK(m.e)'
  BY DEF StripeOK, EventOK, ShotOK
<1>3. \A j \in DOMAIN subs' : ShotOK(subs'[j])
  BY DEF StripeOK, ShotOK
<1> QED BY <1>1, <1>2, <1>3 DEF StripeOK, ShotOK

\* What is written to the row.
LEMMA UpsertRow ==
    ASSUME NEW i \in DOMAIN subs, NEW s, ShotOK(s), row' = RowOf(i, s), UNCHANGED subs
    PROVE  RowOK' /\ HasRow'
<1>1. s \in Shot
  BY DEF ShotOK
<1>2. PICK status : status = MapStripeStatus(s.status)
  OBVIOUS
<1>3. status \in Statuses /\ (status = "TRIALING" => s.status = "trialing")
  BY <1>1, <1>2 DEF MapStripeStatus, Shot, Statuses
<1>4. row' = [status |-> status, plan |-> s.plan, sub |-> i, periodEnd |-> s.periodEnd,
              trialEnd |-> s.trialEnd, canceled |-> FALSE]
  BY <1>2 DEF RowOf
<1>5. row' \in Rows' /\ row'.status = status /\ row'.periodEnd = s.periodEnd /\ row'.trialEnd = s.trialEnd
  BY <1>1, <1>3, <1>4 DEF Rows, Shot
<1>6. NoRow \notin Rows'
  BY DEF NoRow, Rows
<1> QED BY <1>3, <1>5, <1>6 DEF RowOK, HasRow, ShotOK

LEMMA PutRow ==
    ASSUME RowOK, HasRow, NEW e, EventOK(e), e.type \in {"succeeded", "failed"}, UNCHANGED subs,
           row' = IF e.type = "succeeded" THEN [row EXCEPT !.status = "ACTIVE", !.periodEnd = e.periodEnd]
                  ELSE [row EXCEPT !.status = "PAST_DUE"]
    PROVE  /\ RowOK' /\ HasRow' /\ row'.sub = row.sub /\ row'.canceled = row.canceled
           /\ row'.periodEnd = IF e.type = "succeeded" THEN e.periodEnd ELSE row.periodEnd
<1>1. row \in Rows
  BY DEF RowOK, HasRow
<1>2. e.type = "succeeded" => e.periodEnd \in Nat
  BY DEF EventOK
<1>3. row' \in Rows /\ row'.sub = row.sub /\ row'.canceled = row.canceled
      /\ row'.status \in {"ACTIVE", "PAST_DUE"}
      /\ row'.periodEnd = IF e.type = "succeeded" THEN e.periodEnd ELSE row.periodEnd
  BY <1>1, <1>2 DEF Rows, Statuses
<1>4. Rows' = Rows /\ NoRow \notin Rows
  BY DEF Rows, NoRow
<1> QED BY <1>3, <1>4 DEF RowOK, HasRow

LEMMA SyncRow ==
    ASSUME RowOK, HasRow, NEW s, ShotOK(s), row' = Synced(s), UNCHANGED subs
    PROVE  /\ RowOK' /\ HasRow' /\ row'.sub = row.sub /\ row'.periodEnd = s.periodEnd
           /\ s.ending => row'.canceled
<1>1. row \in Rows /\ s \in Shot
  BY DEF RowOK, HasRow, ShotOK
<1>2. PICK status, gone : status = MapStripeStatus(s.status) /\ gone = (s.ending \/ s.status = "canceled")
  OBVIOUS
<1>3. status \in Statuses /\ (status = "TRIALING" => s.status = "trialing")
  BY <1>1, <1>2 DEF MapStripeStatus, Shot, Statuses
<1>4. gone \in BOOLEAN /\ (s.ending => gone)
  BY <1>2
<1>5. row' = [row EXCEPT !.status = status, !.plan = s.plan, !.periodEnd = s.periodEnd,
                         !.trialEnd = s.trialEnd, !.canceled = gone]
  BY <1>2 DEF Synced
<1>6. /\ row' \in Rows /\ row'.sub = row.sub /\ row'.periodEnd = s.periodEnd /\ row'.trialEnd = s.trialEnd
      /\ row'.status = status /\ row'.canceled = gone
  BY <1>1, <1>3, <1>4, <1>5 DEF Rows, Shot
<1>7. Rows' = Rows /\ NoRow \notin Rows
  BY DEF Rows, NoRow
<1> QED BY <1>3, <1>4, <1>6, <1>7 DEF RowOK, HasRow, ShotOK

\* The row is marked as cancelled, as ended, or given another plan.
LEMMA MarkRow ==
    ASSUME RowOK, HasRow, UNCHANGED subs, NEW plan \in Plans,
           \/ row' = [row EXCEPT !.canceled = TRUE]
           \/ row' = [row EXCEPT !.status = "CANCELED", !.canceled = TRUE]
           \/ row' = [row EXCEPT !.plan = plan]
    PROVE  /\ RowOK' /\ HasRow' /\ row'.sub = row.sub /\ row'.periodEnd = row.periodEnd
           /\ row.canceled => row'.canceled
<1>1. row \in Rows
  BY DEF RowOK, HasRow
<1>2. /\ row' \in Rows /\ row'.sub = row.sub /\ row'.periodEnd = row.periodEnd /\ row'.trialEnd = row.trialEnd
      /\ row'.status \in {row.status, "CANCELED"} /\ (row.canceled => row'.canceled)
  BY <1>1 DEF Rows, Statuses
<1>3. Rows' = Rows /\ NoRow \notin Rows
  BY DEF Rows, NoRow
<1> QED BY <1>2, <1>3 DEF RowOK, HasRow

\* The row that an event of a subscription finds.
LEMMA EventRow ==
    ASSUME RowOK, StripeOK, NEW m \in mail, SubscriptionEvent(m)
    PROVE  /\ RowOK' /\ (HasRow => HasRow' /\ row'.sub = row.sub)
           /\ \/ UNCHANGED row
              \/ HasRow /\ row.sub = m.e.sub /\ m.e.type = "updated" /\ row' = Synced(m.e.now)
              \/ HasRow /\ row'.canceled /\ row'.periodEnd = row.periodEnd
<1>1. PICK e : e = m.e
  OBVIOUS
<1>2. EventOK(e) /\ UNCHANGED subs /\ e.type \in {"updated", "deleted"}
  BY <1>1 DEF StripeOK, SubscriptionEvent, Taken
<1>3. CASE UNCHANGED row
  BY <1>2, <1>3 DEF RowOK, Rows, HasRow
<1>4. CASE HasRow /\ row.sub = e.sub /\ e.type = "updated" /\ row' = Synced(e.now)
  <2>1. ShotOK(e.now)
    BY <1>2, <1>4 DEF EventOK
  <2>2. RowOK' /\ HasRow' /\ row'.sub = row.sub
    BY <1>2, <1>4, <2>1, SyncRow
  <2> QED BY <1>1, <1>4, <2>2
<1>5. CASE HasRow /\ row.sub = e.sub /\ row' = [row EXCEPT !.status = "CANCELED", !.canceled = TRUE]
  <2>1. row \in Rows
    BY <1>5 DEF RowOK, HasRow
  <2>2. row.plan \in Plans /\ row'.canceled
    BY <1>5, <2>1 DEF Rows
  <2>3. RowOK' /\ HasRow' /\ row'.sub = row.sub /\ row'.periodEnd = row.periodEnd
    BY <1>2, <1>5, <2>2, MarkRow
  <2> QED BY <1>5, <2>2, <2>3
<1> QED BY <1>1, <1>2, <1>3, <1>4, <1>5 DEF SubscriptionEvent

-----------------------------------------------------------------------------
(* Subscriptions: who has cancelled is locked *)

\* The row of a business that has cancelled, its subscription, and what is on
\* its way to them show no later period, and nothing that takes it back.
LeftInv == left # 0 =>
    /\ HasRow /\ row.canceled /\ row.periodEnd <= left
    /\ subs[row.sub].ending \/ subs[row.sub].status = "canceled"
    /\ subs[row.sub].periodEnd <= left
    /\ \A m \in mail : m.e.type # "completed" /\ (m.e.type = "updated" /\ m.e.sub = row.sub => m.e.now.ending)
    /\ \A d \in Desks : desk[d].pc # "upsert" /\ (desk[d].pc = "put" => desk[d].e.sub = row.sub)

RowLeft  == HasRow' /\ row'.sub = row.sub /\ row'.canceled /\ row'.periodEnd <= left
SubLeft  == (subs'[row.sub].ending \/ subs'[row.sub].status = "canceled") /\ subs'[row.sub].periodEnd <= left
MailLeft == \A m \in mail' : m \in mail \/ (m.e.type # "completed" /\ (m.e.type = "updated" /\ m.e.sub = row.sub => m.e.now.ending))
DeskLeft == \A d \in Desks : desk'[d] = desk[d]
               \/ (desk'[d].pc # "upsert" /\ (desk'[d].pc = "put" => desk'[d].e.sub = row.sub))

LEMMA LeftStays ==
    ASSUME LeftInv, left' = left, left # 0 => RowLeft /\ SubLeft /\ MailLeft /\ DeskLeft
    PROVE  LeftInv'
BY DEF LeftInv, RowLeft, SubLeft, MailLeft, DeskLeft

LEMMA LeftSame ==
    ASSUME LeftInv
    PROVE  /\ UNCHANGED row /\ left # 0 => RowLeft
           /\ UNCHANGED subs /\ left # 0 => SubLeft
           /\ mail' \subseteq mail => MailLeft
           /\ UNCHANGED desk => DeskLeft
BY DEF LeftInv, RowLeft, SubLeft, MailLeft, DeskLeft, HasRow

LEMMA TurnedStep ==
    ASSUME SubsInv, LeftInv, NEW i \in DOMAIN subs, NEW s, Turned(i, s), Living(i), UNCHANGED <<row, checkouts>>,
           left' \in {left, 0}, DeskLeft,
           subs[i].ending => (s.ending \/ left' = 0) /\ s.periodEnd = subs[i].periodEnd
    PROVE  StripeOK' /\ Grown /\ RowOK' /\ LeftInv'
<1>1. PICK events : /\ Becomes(i, s, events) /\ \A k \in DOMAIN events : EventFor(events[k], i, s)
                    /\ ShotOK(s) /\ subs[i].periodEnd <= s.periodEnd
  BY DEF Turned
<1>2. StripeOK /\ RowOK
  BY DEF SubsInv
<1>3. /\ Grown /\ StripeOK'
      /\ DOMAIN subs' = DOMAIN subs /\ subs'[i] = s /\ \A j \in DOMAIN subs \ {i} : subs'[j] = subs[j]
      /\ \A m \in mail' : m \in mail \/ EventFor(m.e, i, s)
  BY <1>1, <1>2, BecomesOK
<1>4. RowOK'
  BY <1>2, <1>3, RowStill
<1>5. ASSUME left # 0, left' = left PROVE LeftInv'
  <2>1. HasRow /\ row \in Rows /\ row.sub \in DOMAIN subs
    BY <1>2, <1>5 DEF LeftInv, RowOK, HasRow, Rows
  <2>2. i = row.sub => s.ending /\ s.periodEnd = subs[i].periodEnd
    BY <1>5 DEF LeftInv, Living
  <2>3. SubLeft
    BY <1>3, <1>5, <2>1, <2>2 DEF SubLeft, LeftInv
  <2>4. MailLeft
    <3>1. ASSUME NEW m \in mail', EventFor(m.e, i, s)
          PROVE  m.e.type # "completed" /\ (m.e.type = "updated" /\ m.e.sub = row.sub => m.e.now.ending)
      BY <2>2, <3>1, EventFields
    <3> QED BY <1>3, <3>1 DEF MailLeft
  <2>5. RowLeft
    BY <1>5, LeftSame
  <2> QED BY <1>5, <2>3, <2>4, <2>5, LeftStays
<1>6. left = 0 \/ left' = 0 => LeftInv'
  BY DEF LeftInv
<1> QED BY <1>3, <1>4, <1>5, <1>6

LEMMA WriteRowStep ==
    ASSUME SubsInv, LeftInv, NEW d \in Desks, WriteRow(d)
    PROVE  SubsInv' /\ LeftInv'
<1>1. StripeOK /\ RowOK /\ DesksOK /\ DeskOK(desk[d]) /\ today \in Nat /\ left \in Nat
  BY DEF SubsInv, DesksOK
<1>2. PICK work : work = desk[d]
  OBVIOUS
<1>3. work.pc = "write" /\ work \in Calling /\ HasRow
  BY <1>1, <1>2 DEF WriteRow, Serves, DeskOK, Resting
<1>4. row \in Rows /\ row.plan \in Plans /\ row.sub \in DOMAIN subs
  BY <1>1, <1>3 DEF RowOK, HasRow, Rows
<1>5. UNCHANGED <<today, subs, checkouts, mail>> /\ Done(d)
  BY DEF WriteRow, stripeVars
<1>6. \/ work.op = "cancel" /\ row' = [row EXCEPT !.canceled = TRUE]
         /\ left' = IF Final(work.sub) THEN subs[work.sub].periodEnd ELSE left
      \/ work.op # "cancel" /\ row' = [row EXCEPT !.plan = work.plan] /\ UNCHANGED left
  BY <1>2 DEF WriteRow
<1>7. work.op # "cancel" => work.plan \in Plans
  BY <1>3 DEF Calling
<1>8. /\ RowOK' /\ HasRow' /\ row'.sub = row.sub /\ row'.periodEnd = row.periodEnd
      /\ row.canceled => row'.canceled
  BY <1>1, <1>3, <1>4, <1>5, <1>6, <1>7, MarkRow
<1>9. StripeOK' /\ Grown
  BY <1>1, <1>5, <1>8, StripeTaken DEF StripeOK
<1>10. DesksOK' /\ desk'[d] = Resting /\ \A o \in Desks \ {d} : desk'[o] = desk[o]
  BY <1>1, <1>5, <1>9, DeskDone
<1>11. DeskLeft
  BY <1>10 DEF DeskLeft, Resting
<1>12. CASE UNCHANGED left
  <2>1. left # 0 => RowLeft
    BY <1>8 DEF LeftInv, RowLeft
  <2>2. LeftInv'
    BY <1>5, <1>11, <1>12, <2>1, LeftStays, LeftSame
  <2> QED BY <1>1, <1>5, <1>8, <1>9, <1>10, <1>12, <2>2 DEF SubsInv
<1>13. CASE /\ work.op = "cancel" /\ row' = [row EXCEPT !.canceled = TRUE]
            /\ Final(work.sub) /\ left' = subs[work.sub].periodEnd
  <2>1. row.sub = work.sub /\ subs[row.sub] \in Shot /\ subs[row.sub].periodEnd \in Nat
    BY <1>1, <1>4, <1>13 DEF Final, StripeOK, ShotOK, Shot
  <2>2. row'.canceled
    BY <1>4, <1>13 DEF Rows
  <2>3. left' \in Nat /\ row'.periodEnd <= left' /\ subs'[row'.sub].periodEnd <= left'
    BY <1>5, <1>8, <1>13, <2>1 DEF Final
  <2>4. subs'[row'.sub].ending \/ subs'[row'.sub].status = "canceled"
    BY <1>4, <1>5, <1>8, <1>13, <2>1 DEF Final, Living
  <2>5. \A m \in mail' : m.e.type # "completed" /\ (m.e.type = "updated" => m.e.now.ending)
    BY <1>5, <1>13 DEF Final
  <2>6. \A o \in Desks : desk'[o].pc # "upsert" /\ (desk'[o].pc = "put" => desk'[o].e.sub = row'.sub)
    BY <1>8, <1>10, <1>13, <2>1 DEF Final, Resting
  <2>7. LeftInv'
    BY <1>8, <2>2, <2>3, <2>4, <2>5, <2>6 DEF LeftInv
  <2> QED BY <1>1, <1>5, <1>8, <1>9, <1>10, <2>3, <2>7 DEF SubsInv
<1> QED BY <1>6, <1>12, <1>13

LEMMA PutStep ==
    ASSUME SubsInv, LeftInv, NEW d \in Desks, Put(d)
    PROVE  SubsInv' /\ LeftInv'
<1>1. StripeOK /\ RowOK /\ DesksOK /\ DeskOK(desk[d]) /\ today \in Nat /\ left \in Nat
  BY DEF SubsInv, DesksOK
<1>2. PICK e : e = desk[d].e
  OBVIOUS
<1>3. desk[d].pc = "put" /\ EventOK(e) /\ e.type \in {"succeeded", "failed"} /\ HasRow
  BY <1>1, <1>2 DEF Put, Serves, DeskOK, Resting, Calling
<1>4. /\ UNCHANGED <<today, subs, checkouts, mail, left>> /\ Done(d)
      /\ row' = IF e.type = "succeeded" THEN [row EXCEPT !.status = "ACTIVE", !.periodEnd = e.periodEnd]
                ELSE [row EXCEPT !.status = "PAST_DUE"]
  BY <1>2 DEF Put, stripeVars, Applies
<1>5. /\ RowOK' /\ HasRow' /\ row'.sub = row.sub /\ row'.canceled = row.canceled
      /\ row'.periodEnd = IF e.type = "succeeded" THEN e.periodEnd ELSE row.periodEnd
  BY <1>1, <1>3, <1>4, PutRow
<1>6. StripeOK' /\ Grown
  BY <1>1, <1>4, <1>5, StripeTaken DEF StripeOK
<1>7. DesksOK' /\ desk'[d] = Resting /\ \A o \in Desks \ {d} : desk'[o] = desk[o]
  BY <1>1, <1>4, <1>6, DeskDone
<1>8. DeskLeft
  BY <1>7 DEF DeskLeft, Resting
<1>9. ASSUME left # 0 PROVE RowLeft
  <2>1. e.sub = row.sub /\ row.canceled /\ row.periodEnd <= left /\ subs[row.sub].periodEnd <= left
    BY <1>2, <1>3, <1>9 DEF LeftInv
  <2>2. e.type = "succeeded" => e.periodEnd <= left
    <3>1. e.type = "succeeded" => e.periodEnd \in Nat /\ e.periodEnd <= subs[e.sub].periodEnd
      BY <1>3 DEF EventOK
    <3>2. subs[e.sub].periodEnd \in Nat
      BY <1>1, <1>3 DEF EventOK, StripeOK, ShotOK, Shot
    <3> QED BY <1>1, <2>1, <3>1, <3>2
  <2> QED BY <1>5, <2>1, <2>2 DEF RowLeft
<1>10. LeftInv'
  BY <1>4, <1>8, <1>9, LeftStays, LeftSame
<1> QED BY <1>1, <1>4, <1>5, <1>6, <1>7, <1>10 DEF SubsInv

LEMMA SubscriptionEventStep ==
    ASSUME SubsInv, LeftInv, NEW m \in mail, SubscriptionEvent(m)
    PROVE  SubsInv' /\ LeftInv'
<1>1. StripeOK /\ RowOK /\ DesksOK /\ today \in Nat /\ left \in Nat
  BY DEF SubsInv
<1>2. UNCHANGED <<today, subs, checkouts, left, desk>> /\ mail' \subseteq mail
  BY DEF SubscriptionEvent, Taken, Applies
<1>3. /\ RowOK' /\ (HasRow => HasRow' /\ row'.sub = row.sub)
      /\ \/ UNCHANGED row
         \/ HasRow /\ row.sub = m.e.sub /\ m.e.type = "updated" /\ row' = Synced(m.e.now)
         \/ HasRow /\ row'.canceled /\ row'.periodEnd = row.periodEnd
  BY <1>1, EventRow
<1>4. StripeOK' /\ Grown
  BY <1>1, <1>2, <1>3, StripeTaken DEF StripeOK
<1>5. DesksOK'
  BY <1>1, <1>2, <1>4, DeskStill
<1>6. ASSUME left # 0, HasRow, row.sub = m.e.sub, m.e.type = "updated", row' = Synced(m.e.now) PROVE RowLeft
  <2>1. PICK e : e = m.e
    OBVIOUS
  <2>2. EventOK(e) /\ e.now.ending /\ subs[e.sub].periodEnd <= left /\ e.type = "updated" /\ row' = Synced(e.now)
    BY <1>1, <1>6, <2>1 DEF StripeOK, LeftInv
  <2>3. ShotOK(e.now) /\ e.now.periodEnd <= subs[e.sub].periodEnd /\ e.sub \in DOMAIN subs
    BY <2>2 DEF EventOK
  <2>4. HasRow' /\ row'.sub = row.sub /\ row'.periodEnd = e.now.periodEnd /\ row'.canceled
    BY <1>1, <1>2, <1>6, <2>2, <2>3, SyncRow
  <2>5. e.now.periodEnd \in Nat /\ subs[e.sub].periodEnd \in Nat
    BY <1>1, <2>3 DEF StripeOK, ShotOK, Shot
  <2>6. e.now.periodEnd <= left
    BY <1>1, <2>2, <2>3, <2>5
  <2> QED BY <2>4, <2>6 DEF RowLeft
<1>7. left # 0 => RowLeft
  BY <1>3, <1>6, LeftSame DEF LeftInv, RowLeft
<1>8. LeftInv'
  BY <1>2, <1>7, LeftStays, LeftSame
<1> QED BY <1>1, <1>2, <1>3, <1>4, <1>5, <1>8 DEF SubsInv

LEMMA CheckoutCompletedStep ==
    ASSUME SubsInv, LeftInv, NEW d \in Desks, NEW m \in mail, CheckoutCompleted(d, m)
    PROVE  SubsInv' /\ LeftInv'
<1>1. StripeOK /\ RowOK /\ DesksOK /\ today \in Nat /\ left \in Nat
  BY DEF SubsInv
<1>2. UNCHANGED <<today, row, subs, checkouts, left>> /\ mail' \subseteq mail
  BY DEF CheckoutCompleted, Taken, historyVars
<1>3. StripeOK' /\ Grown
  BY <1>1, <1>2, StripeTaken DEF StripeOK, HasRow
<1>4. PICK e : e = m.e
  OBVIOUS
<1>5. EventOK(e) /\ e.type = "completed"
  BY <1>1, <1>4 DEF StripeOK, CheckoutCompleted
<1>6. PICK s : s = [subs[e.sub] EXCEPT !.plan = e.plan]
  OBVIOUS
<1>7. ShotOK(s)
  <2>1. ShotOK(subs[e.sub]) /\ e.plan \in Plans
    BY <1>1, <1>5 DEF EventOK, StripeOK
  <2> QED BY <1>6, <2>1 DEF ShotOK, Shot
<1>8. PICK w : w = [pc |-> "upsert", sub |-> e.sub, now |-> s, n |-> m.n]
  OBVIOUS
<1>9. DeskOK(w)'
  BY <1>2, <1>5, <1>7, <1>8 DEF DeskOK, EventOK, ShotOK
<1>10. Takes(d, w)
  BY <1>4, <1>6, <1>8 DEF CheckoutCompleted
<1>11. DesksOK'
  BY <1>1, <1>3, <1>9, <1>10, DeskTakes
<1>12. left = 0
  BY <1>4, <1>5 DEF LeftInv
<1> QED BY <1>1, <1>2, <1>3, <1>11, <1>12, RowStill DEF SubsInv, LeftInv

LEMMA InvoiceEventStep ==
    ASSUME SubsInv, LeftInv, NEW d \in Desks, NEW m \in mail, InvoiceEvent(d, m)
    PROVE  SubsInv' /\ LeftInv'
<1>1. StripeOK /\ RowOK /\ DesksOK /\ today \in Nat /\ left \in Nat
  BY DEF SubsInv
<1>2. UNCHANGED <<today, row, subs, checkouts, left>> /\ mail' \subseteq mail
  BY DEF InvoiceEvent, Taken, historyVars, Applies
<1>3. StripeOK' /\ Grown
  BY <1>1, <1>2, StripeTaken DEF StripeOK, HasRow
<1>4. PICK e : e = m.e
  OBVIOUS
<1>5. EventOK(e) /\ e.type \in {"succeeded", "failed"}
  BY <1>1, <1>4 DEF StripeOK, InvoiceEvent
<1>6. PICK w : w = [pc |-> "put", e |-> e, n |-> m.n]
  OBVIOUS
<1>7. w.pc = "put" /\ w.e = e
  BY <1>6
<1>8. UNCHANGED desk \/ (HasRow /\ row.sub = e.sub /\ Takes(d, w))
  BY <1>4, <1>6 DEF InvoiceEvent
<1>9. CASE UNCHANGED desk
  <2>1. DesksOK'
    BY <1>1, <1>3, <1>9, DeskStill
  <2> QED BY <1>1, <1>2, <1>3, <1>9, <2>1, RowStill, LeftStays, LeftSame DEF SubsInv
<1>10. CASE HasRow /\ row.sub = e.sub /\ Takes(d, w)
  <2>1. EventOK(e)'
    BY <1>1, <1>3, <1>5, EventGrown
  <2>2. DeskOK(w)'
    BY <1>2, <1>5, <1>7, <1>10, <2>1 DEF DeskOK, HasRow
  <2>3. DesksOK' /\ desk'[d] = w /\ \A o \in Desks \ {d} : desk'[o] = desk[o]
    BY <1>1, <1>3, <1>10, <2>2, DeskTakes
  <2>4. DeskLeft
    BY <1>7, <1>10, <2>3 DEF DeskLeft
  <2> QED BY <1>1, <1>2, <1>3, <2>3, <2>4, RowStill, LeftStays, LeftSame DEF SubsInv
<1> QED BY <1>8, <1>9, <1>10

\* A request that has read the row goes to Stripe.
LEMMA RequestStep ==
    ASSUME SubsInv, LeftInv, NEW d \in Desks,
           CancelSubscription(d) \/ \E plan \in Plans : UpdateSubscription(d, plan)
    PROVE  SubsInv' /\ LeftInv'
<1>1. StripeOK /\ RowOK /\ DesksOK /\ today \in Nat /\ left \in Nat
  BY DEF SubsInv
<1>2. UNCHANGED <<today, row, subs, checkouts, mail, left>> /\ HasRow
  BY DEF CancelSubscription, UpdateSubscription, stripeVars, historyVars
<1>3. StripeOK' /\ Grown
  BY <1>1, <1>2, StripeTaken DEF StripeOK, HasRow
<1>4. row.sub \in DOMAIN subs
  BY <1>1, <1>2 DEF RowOK, HasRow, Rows
<1>5. \E w \in Calling : Takes(d, w) /\ w.pc = "call"
  <2>1. ASSUME CancelSubscription(d) PROVE \E w \in Calling : Takes(d, w) /\ w.pc = "call"
    <3>1. PICK w : w = [pc |-> "call", op |-> "cancel", sub |-> row.sub]
      OBVIOUS
    <3>2. w \in Calling /\ w.pc = "call" /\ Takes(d, w)
      BY <1>4, <2>1, <3>1 DEF Calling, CancelSubscription
    <3> QED BY <3>2
  <2>2. ASSUME NEW plan \in Plans, UpdateSubscription(d, plan) PROVE \E w \in Calling : Takes(d, w) /\ w.pc = "call"
    <3>1. PICK w : w = [pc |-> "call", op |-> "change", sub |-> row.sub, plan |-> plan]
      OBVIOUS
    <3>2. w \in Calling /\ w.pc = "call" /\ Takes(d, w)
      BY <1>4, <2>2, <3>1 DEF Calling, UpdateSubscription
    <3> QED BY <3>2
  <2> QED BY <2>1, <2>2
<1>6. PICK w \in Calling : Takes(d, w) /\ w.pc = "call"
  BY <1>5
<1>7. DeskOK(w)'
  BY <1>2 DEF DeskOK, Calling, HasRow
<1>8. DesksOK' /\ desk'[d] = w /\ \A o \in Desks \ {d} : desk'[o] = desk[o]
  BY <1>1, <1>3, <1>6, <1>7, DeskTakes
<1>9. DeskLeft
  BY <1>6, <1>8 DEF DeskLeft
<1> QED BY <1>1, <1>2, <1>3, <1>8, <1>9, RowStill, LeftStays, LeftSame DEF SubsInv

LEMMA CallStripeStep ==
    ASSUME SubsInv, LeftInv, NEW d \in Desks, CallStripe(d)
    PROVE  SubsInv' /\ LeftInv'
<1>1. StripeOK /\ RowOK /\ DesksOK /\ today \in Nat /\ left \in Nat
  BY DEF SubsInv
<1>2. UNCHANGED <<today, row, checkouts>>
  BY DEF CallStripe
<1>3. PICK i : i = desk[d].sub
  OBVIOUS
<1>4. /\ i \in DOMAIN subs
      /\ \E w : /\ Takes(d, w) /\ (w = Resting \/ (w \in Calling /\ HasRow))
                /\ w.pc \in {"idle", "write"}
      /\ \/ UNCHANGED <<subs, mail, left>>
         \/ \E s : Turned(i, s) /\ s.periodEnd = subs[i].periodEnd /\ (s.ending \/ left' = 0) /\ left' \in {left, 0}
  BY <1>1, <1>3, CallStripeTurns
<1>5. PICK w : Takes(d, w) /\ (w = Resting \/ (w \in Calling /\ HasRow)) /\ w.pc \in {"idle", "write"}
  BY <1>4
<1>6. desk'[d] = w /\ \A o \in Desks \ {d} : desk'[o] = desk[o]
  BY <1>1, <1>5 DEF Takes, DesksOK
<1>7. DeskLeft
  BY <1>5, <1>6 DEF DeskLeft
<1>8. StripeOK' /\ Grown /\ RowOK' /\ LeftInv' /\ left' \in Nat
  <2>1. CASE UNCHANGED <<subs, mail, left>>
    <3>1. StripeOK' /\ Grown
      BY <1>1, <1>2, <2>1, StripeTaken DEF StripeOK, HasRow
    <3> QED BY <1>1, <1>2, <1>7, <2>1, <3>1, RowStill, LeftStays, LeftSame
  <2>2. ASSUME NEW s, Turned(i, s), s.periodEnd = subs[i].periodEnd, s.ending \/ left' = 0, left' \in {left, 0}, Living(i)
        PROVE  StripeOK' /\ Grown /\ RowOK' /\ LeftInv' /\ left' \in Nat
    BY <1>1, <1>2, <1>4, <1>7, <2>2, TurnedStep
  <2>3. Living(i) \/ UNCHANGED <<subs, mail, left>>
    BY <1>3 DEF CallStripe
  <2> QED BY <1>4, <2>1, <2>2, <2>3
<1>9. DeskOK(w)
  BY <1>5 DEF DeskOK
<1>10. DeskOK(w)'
  BY <1>1, <1>8, <1>9, DeskGrown
<1>11. DesksOK'
  BY <1>1, <1>5, <1>8, <1>10, DeskTakes
<1> QED BY <1>1, <1>2, <1>8, <1>11 DEF SubsInv

LEMMA UpsertStep ==
    ASSUME SubsInv, LeftInv, NEW d \in Desks, Upsert(d)
    PROVE  SubsInv' /\ LeftInv'
<1>1. StripeOK /\ RowOK /\ DesksOK /\ DeskOK(desk[d]) /\ today \in Nat /\ left \in Nat
  BY DEF SubsInv, DesksOK
<1>2. desk[d].pc = "upsert" /\ desk[d].sub \in DOMAIN subs /\ ShotOK(desk[d].now)
  BY <1>1 DEF Upsert, Serves, DeskOK, Resting, Calling
<1>3. UNCHANGED <<today, subs, checkouts, mail, left>> /\ Done(d) /\ row' = RowOf(desk[d].sub, desk[d].now)
  BY DEF Upsert, stripeVars, Applies, Upserted
<1>4. PICK i, s : i = desk[d].sub /\ s = desk[d].now
  OBVIOUS
<1>5. RowOK' /\ HasRow'
  BY <1>2, <1>3, <1>4, UpsertRow
<1>6. StripeOK' /\ Grown
  BY <1>1, <1>3, <1>5, StripeTaken DEF StripeOK
<1>7. DesksOK'
  BY <1>1, <1>3, <1>6, DeskDone
<1>8. left = 0
  BY <1>2 DEF LeftInv
<1> QED BY <1>1, <1>3, <1>5, <1>6, <1>7, <1>8 DEF SubsInv, LeftInv

\* Stripe's own steps, which leave the requests and the row alone.
LEMMA StripeStep ==
    ASSUME SubsInv, LeftInv, NEW i \in DOMAIN subs,
           \/ PeriodEnds(i) \/ DebtSettled(i)
           \/ \E plan \in Plans, ending \in BOOLEAN : BillingPortal(i, plan, ending)
    PROVE  SubsInv' /\ LeftInv'
<1>1. StripeOK /\ RowOK /\ DesksOK /\ today \in Nat /\ left \in Nat
  BY DEF SubsInv
<1>2. UNCHANGED <<today, row, checkouts, desk>> /\ Living(i) /\ left' \in {left, 0}
  BY DEF PeriodEnds, DebtSettled, BillingPortal, historyVars
<1>3. \E s : Turned(i, s) /\ (subs[i].ending => (s.ending \/ left' = 0) /\ s.periodEnd = subs[i].periodEnd)
  <2>1. CASE PeriodEnds(i)
    BY <1>1, <2>1, PeriodEndsTurns
  <2>2. CASE DebtSettled(i)
    BY <1>1, <2>2, DebtSettledTurns
  <2>3. ASSUME NEW plan \in Plans, NEW ending \in BOOLEAN, BillingPortal(i, plan, ending)
        PROVE  \E s : Turned(i, s) /\ (subs[i].ending => (s.ending \/ left' = 0) /\ s.periodEnd = subs[i].periodEnd)
    <3>1. ending \/ left' = 0
      BY <2>3 DEF BillingPortal
    <3> QED BY <1>1, <2>3, <3>1, BillingPortalTurns
  <2> QED BY <2>1, <2>2, <2>3
<1>4. PICK s : Turned(i, s) /\ (subs[i].ending => (s.ending \/ left' = 0) /\ s.periodEnd = subs[i].periodEnd)
  BY <1>3
<1>5. StripeOK' /\ Grown /\ RowOK' /\ LeftInv'
  BY <1>2, <1>4, LeftSame, TurnedStep
<1>6. DesksOK'
  BY <1>1, <1>2, <1>5, DeskStill
<1> QED BY <1>1, <1>2, <1>5, <1>6 DEF SubsInv

LEMMA SubsStep ==
    ASSUME SubsInv, LeftInv, [SubsNext]_subVars
    PROVE  SubsInv' /\ LeftInv'
<1>1. StripeOK /\ RowOK /\ DesksOK /\ today \in Nat /\ left \in Nat
  BY DEF SubsInv
<1>2. ASSUME UNCHANGED <<row, subs, desk, left>>, today' \in Nat, mail' \subseteq mail,
             checkouts' \subseteq [plan : Plans, trial : BOOLEAN]
      PROVE  SubsInv' /\ LeftInv'
  <2>1. StripeOK' /\ Grown
    BY <1>1, <1>2, StripeTaken DEF HasRow
  <2>2. RowOK' /\ DesksOK'
    BY <1>1, <1>2, <2>1, RowStill, DeskStill
  <2> QED BY <1>1, <1>2, <2>1, <2>2, LeftStays, LeftSame DEF SubsInv
<1>3. CASE DayPasses
  BY <1>1, <1>2, <1>3 DEF DayPasses, stripeVars, historyVars, StripeOK
<1>4. ASSUME NEW c \in checkouts, CompleteCheckout(c) PROVE SubsInv' /\ LeftInv'
  <2>1. Grown /\ StripeOK' /\ left' = 0 /\ UNCHANGED <<today, row, desk>>
    BY <1>1, <1>4, CheckoutMakes DEF CompleteCheckout
  <2>2. RowOK' /\ DesksOK'
    BY <1>1, <2>1, RowStill, DeskStill
  <2> QED BY <1>1, <2>1, <2>2 DEF SubsInv, LeftInv
<1>5. ASSUME NEW plan \in Plans, StartCheckout(plan) PROVE SubsInv' /\ LeftInv'
  <2>1. checkouts' \subseteq [plan : Plans, trial : BOOLEAN]
    <3>1. PICK c : c = [plan |-> plan, trial |-> ~HasRow]
      OBVIOUS
    <3>2. c \in [plan : Plans, trial : BOOLEAN]
      BY <3>1 DEF HasRow
    <3> QED BY <1>1, <1>5, <3>1, <3>2 DEF StartCheckout, StripeOK
  <2> QED BY <1>1, <1>2, <1>5, <2>1 DEF StartCheckout, historyVars
<1>6. ASSUME NEW m \in mail, LoseEvent(m) PROVE SubsInv' /\ LeftInv'
  BY <1>1, <1>2, <1>6 DEF LoseEvent, historyVars, StripeOK
<1>7. CASE UNCHANGED subVars
  BY <1>1, <1>2, <1>7 DEF subVars, stripeVars, historyVars, StripeOK
<1>8. CASE SubsNext
  BY <1>3, <1>4, <1>5, <1>6, <1>8, StripeStep, RequestStep, CallStripeStep, WriteRowStep, UpsertStep, PutStep,
     SubscriptionEventStep, CheckoutCompletedStep, InvoiceEventStep
     DEF SubsNext
<1> QED BY <1>7, <1>8

LEMMA SubsTyped == SubsSpec => [](SubsInv /\ LeftInv)
<1>1. SubsInit => SubsInv /\ LeftInv
  <2> SUFFICES ASSUME SubsInit PROVE SubsInv
    BY DEF SubsInit, LeftInv
  <2>1. today \in Nat /\ left \in Nat /\ DesksOK
    BY DEF SubsInit, DesksOK, DeskOK
  <2>2. CASE row = NoRow /\ subs = <<>>
    BY <2>1, <2>2 DEF SubsInit, SubsInv, StripeOK, RowOK
  <2>3. ASSUME NEW p \in Plans,
               row = [status |-> "ACTIVE", plan |-> p, sub |-> 1, periodEnd |-> Period, trialEnd |-> 0, canceled |-> FALSE],
               subs = <<[status |-> "active", plan |-> p, periodEnd |-> Period, trialEnd |-> 0, ending |-> FALSE]>>
        PROVE  SubsInv
    <3>1. PICK s : s = [status |-> "active", plan |-> p, periodEnd |-> Period, trialEnd |-> 0, ending |-> FALSE]
      OBVIOUS
    <3>2. Period \in Nat /\ ShotOK(s)
      BY <3>1, SubscriptionsAssumption DEF ShotOK, Shot
    <3>3. subs = <<s>> /\ DOMAIN subs = {1} /\ subs[1] = s
      BY <2>3, <3>1
    <3>4. subs \in Seq(Shot) /\ \A i \in DOMAIN subs : ShotOK(subs[i])
      BY <3>2, <3>3 DEF ShotOK
    <3>5. RowOK
      BY <2>3, <3>2, <3>3 DEF RowOK, Rows, Statuses
    <3> QED BY <2>1, <3>4, <3>5 DEF SubsInit, SubsInv, StripeOK
  <2> QED BY <2>2, <2>3 DEF SubsInit
<1>2. SubsInv /\ LeftInv /\ [SubsNext]_subVars => (SubsInv /\ LeftInv)'
  BY SubsStep
<1> QED BY <1>1, <1>2, PTL DEF SubsSpec

LEMMA LeftIsLocked == ASSUME SubsInv, LeftInv PROVE CancelledEnds
<1> SUFFICES ASSUME left # 0, today > left + Grace PROVE ~Allowed
  BY DEF CancelledEnds
<1>1. HasRow /\ row.canceled /\ row.periodEnd <= left /\ left \in Nat /\ today \in Nat /\ Grace \in Nat
  BY SubscriptionsAssumption DEF SubsInv, LeftInv
<1>2. row \in Rows /\ (row.status = "TRIALING" => row.trialEnd = row.periodEnd /\ row.trialEnd # 0)
  BY <1>1 DEF SubsInv, RowOK, HasRow
<1>3. row.periodEnd \in Nat /\ row.status \in {"TRIALING", "ACTIVE", "PAST_DUE", "CANCELED"}
  BY <1>2 DEF Rows, Statuses
<1>4. today > row.periodEnd /\ ~(today < row.periodEnd + 1) /\ ~(today < row.periodEnd + Grace) /\ ~(today < row.periodEnd)
  BY <1>1, <1>3
<1>5. CASE row.status = "TRIALING"
  BY <1>2, <1>4, <1>5 DEF Allowed
<1>6. CASE row.status = "ACTIVE"
  BY <1>1, <1>4, <1>6 DEF Allowed, ActiveRow
<1>7. CASE row.status = "PAST_DUE"
  BY <1>4, <1>7 DEF Allowed
<1>8. CASE row.status = "CANCELED"
  BY <1>4, <1>8 DEF Allowed
<1> QED BY <1>3, <1>5, <1>6, <1>7, <1>8

LEMMA PlatformSubscriptions == Spec => SubsSpec
<1>1. Init => SubsInit
  BY DEF Init
<1>2. [Next]_vars => [SubsNext]_subVars
  BY DEF Next, AccountsStep, CodesStep, BusinessesStep, SubscriptionsStep, vars, subVars, stripeVars, historyVars
<1> QED BY <1>1, <1>2, PTL DEF Spec, SubsSpec

\* A business that has cancelled is locked in the end, whatever events are late,
\* lost or repeated, and whatever requests run at once, but for a payment of
\* another subscription (subscriptionAccess.js:61-64,
\* subscriptions.service.js:100-110, stripe.controller.js:127-188).
THEOREM SubscriptionsCancelledEnds == Spec => []CancelledEnds
<1>1. SubsInv /\ LeftInv => CancelledEnds
  BY LeftIsLocked
<1> QED BY <1>1, PlatformSubscriptions, SubsTyped, PTL

-----------------------------------------------------------------------------
(* Subscriptions: who pays is served *)

Newest == Len(subs)
Until  == subs[Newest].periodEnd

\* Events are numbered to the last, top.  Event c is the checkout of the newest
\* subscription, i, and f the first that shows its period, to p: what shows
\* another period of it is older.
MailOlder(m, c, f, i, p, top) ==
    /\ m.n \in 1..top
    /\ m.e.type = "completed" => (m.e.sub = i => m.n = c) /\ (m.e.sub # i => m.n < c)
    /\ m.e.type = "updated" /\ m.e.sub = i /\ m.e.now.periodEnd # p => m.n < f
    /\ m.e.type = "succeeded" /\ m.e.sub = i /\ m.e.periodEnd # p => m.n < f

DeskOlder(w, c, f, i, p, top) ==
    /\ w.pc \in {"upsert", "put"} => w.n \in 1..top
    /\ w.pc = "upsert" => /\ w.sub = i => w.n = c /\ (w.now.periodEnd # p => w.n < f)
                          /\ w.sub # i => w.n < c
    /\ w.pc = "put" /\ w.e.type = "succeeded" /\ w.e.sub = i /\ w.e.periodEnd # p => w.n < f

\* The checkout of i is still to be written.
Pends(i) ==
    \/ \E m \in mail : m.e.type = "completed" /\ m.e.sub = i
    \/ \E d \in Desks : desk[d].pc = "upsert" /\ desk[d].sub = i

Tells(m, i, p, f) == m.e.type = "updated" /\ m.e.sub = i /\ m.e.now.periodEnd = p /\ m.n = f
Told(i, p, f)     == \E m \in mail : Tells(m, i, p, f)

\* The row shows i, and its period; or what will show it is on its way, or
\* comes too late to be in order.
Has(i, c)       == HasRow /\ row.sub = i /\ applied >= c
Caught(i, p, f) == HasRow /\ row.sub = i /\ row.periodEnd = p /\ applied >= f
Followed(c, f, i, p) ==
    \/ Caught(i, p, f)
    \/ Pends(i) /\ (f = c \/ c < applied)
    \/ (Pends(i) \/ Has(i, c)) /\ c < f /\ Told(i, p, f)

InOrder == losses = 0 /\ ~disordered

Following(c, f) ==
    /\ c \in 0..posted /\ f \in 0..posted /\ c <= f
    /\ \A m \in mail : MailOlder(m, c, f, Newest, Until, posted)
    /\ \A d \in Desks : DeskOlder(desk[d], c, f, Newest, Until, posted)
    /\ InOrder /\ Newest > 0 => Followed(c, f, Newest, Until)

CountsOK == posted \in Nat /\ applied \in Nat /\ losses \in Nat

FollowingInv == CountsOK /\ \E c, f \in Nat : Following(c, f)

LEMMA MailTop ==
    ASSUME NEW m, NEW c, NEW f, NEW i, NEW p, NEW top \in Nat, NEW up \in Nat, top <= up,
           MailOlder(m, c, f, i, p, top)
    PROVE  MailOlder(m, c, f, i, p, up)
<1>1. m.n \in 1..top => m.n \in 1..up
  OBVIOUS
<1> QED BY <1>1 DEF MailOlder

LEMMA DeskTop ==
    ASSUME NEW w, NEW c, NEW f, NEW i, NEW p, NEW top \in Nat, NEW up \in Nat, top <= up,
           DeskOlder(w, c, f, i, p, top)
    PROVE  DeskOlder(w, c, f, i, p, up)
<1>1. w.n \in 1..top => w.n \in 1..up
  OBVIOUS
<1> QED BY <1>1 DEF DeskOlder

LEMMA FollowedStays ==
    ASSUME NEW c \in Nat, NEW f \in Nat, NEW i, NEW p, applied \in Nat, applied' \in Nat, applied <= applied',
           Followed(c, f, i, p), Pends(i) => Pends(i)', Told(i, p, f) => Told(i, p, f)',
           HasRow /\ row.sub = i =>
               HasRow' /\ row'.sub = i /\ (applied >= f /\ row.periodEnd = p => row'.periodEnd = p)
    PROVE  Followed(c, f, i, p)'
<1>1. /\ applied >= f => applied' >= f
      /\ applied >= c => applied' >= c
      /\ c < applied => c < applied'
  OBVIOUS
<1>2. Has(i, c) => Has(i, c)'
  BY <1>1 DEF Has
<1>3. Caught(i, p, f) => Caught(i, p, f)'
  BY <1>1 DEF Caught
<1> QED BY <1>1, <1>2, <1>3 DEF Followed

\* A step that leaves the newest subscription and its period alone.
LEMMA FollowingStays ==
    ASSUME NEW c \in Nat, NEW f \in Nat, Following(c, f), CountsOK, posted' \in Nat, posted <= posted',
           Newest' = Newest, Until' = Until,
           \A m \in mail' : m \in mail \/ MailOlder(m, c, f, Newest, Until, posted'),
           \A d \in Desks : desk'[d] = desk[d] \/ DeskOlder(desk'[d], c, f, Newest, Until, posted'),
           InOrder' /\ Newest > 0 => Followed(c, f, Newest, Until)'
    PROVE  Following(c, f)'
<1>1. PICK i, p : i = Newest /\ p = Until
  OBVIOUS
<1>2. \A m \in mail' : MailOlder(m, c, f, i, p, posted')
  BY <1>1, MailTop DEF Following, CountsOK
<1>3. \A d \in Desks : DeskOlder(desk'[d], c, f, i, p, posted')
  <2>1. \A d \in Desks : DeskOlder(desk[d], c, f, i, p, posted')
    BY <1>1, DeskTop DEF Following, CountsOK
  <2> QED BY <1>1, <2>1
<1>4. c \in 0..posted' /\ f \in 0..posted' /\ c <= f
  BY DEF Following, CountsOK
<1> QED BY <1>1, <1>2, <1>3, <1>4 DEF Following

\* Requests that go on, but for what the webhook is about to write.
DeskCalm == \A d \in Desks : desk'[d] = desk[d]
               \/ (desk[d].pc # "upsert" /\ desk'[d].pc \notin {"upsert", "put"})

LEMMA CalmDesks ==
    ASSUME DeskCalm, NEW c, NEW f, NEW i, NEW p, NEW top
    PROVE  /\ \A d \in Desks : desk'[d] = desk[d] \/ DeskOlder(desk'[d], c, f, i, p, top)
           /\ mail \subseteq mail' => (Pends(i) => Pends(i)') /\ (Told(i, p, f) => Told(i, p, f)')
<1>1. \A d \in Desks : desk'[d] = desk[d] \/ DeskOlder(desk'[d], c, f, i, p, top)
  BY DEF DeskCalm, DeskOlder
<1>2. ASSUME mail \subseteq mail', Pends(i) PROVE Pends(i)'
  BY <1>2 DEF Pends, DeskCalm
<1>3. ASSUME mail \subseteq mail', Told(i, p, f) PROVE Told(i, p, f)'
  BY <1>3 DEF Told
<1> QED BY <1>1, <1>2, <1>3

RowKept == HasRow => HasRow' /\ row'.sub = row.sub /\ row'.periodEnd = row.periodEnd

LEMMA FollowingQuiet ==
    ASSUME CountsOK, NEW c \in Nat, NEW f \in Nat, Following(c, f), DeskCalm, RowKept,
           UNCHANGED <<subs, posted, mail, losses, applied, disordered>>
    PROVE  CountsOK' /\ Following(c, f)'
<1>1. CountsOK' /\ Newest' = Newest /\ Until' = Until /\ InOrder' = InOrder
  BY DEF CountsOK, Newest, Until, InOrder
<1>2. PICK i, p : i = Newest /\ p = Until
  OBVIOUS
<1>3. posted <= posted' /\ applied <= applied'
  BY DEF CountsOK
<1>4. ASSUME Followed(c, f, i, p) PROVE Followed(c, f, i, p)'
  <2>1. (Pends(i) => Pends(i)') /\ (Told(i, p, f) => Told(i, p, f)')
    BY CalmDesks
  <2> QED BY <1>1, <1>3, <1>4, <2>1, FollowedStays DEF RowKept, CountsOK
<1>5. InOrder' /\ Newest > 0 => Followed(c, f, i, p)'
  BY <1>1, <1>2, <1>4 DEF Following
<1>6. \A d \in Desks : desk'[d] = desk[d] \/ DeskOlder(desk'[d], c, f, Newest, Until, posted')
  BY CalmDesks
<1>7. InOrder' /\ Newest > 0 => Followed(c, f, Newest, Until)'
  BY <1>1, <1>2, <1>5
<1> QED BY <1>1, <1>3, <1>6, <1>7, FollowingStays DEF CountsOK

LEMMA Numbered ==
    ASSUME CountsOK, NEW i, NEW s, NEW events, Becomes(i, s, events),
           \A k \in DOMAIN events : EventFor(events[k], i, s),
           DOMAIN events = 1..Len(events), Len(events) \in Nat
    PROVE  /\ posted' \in Nat /\ posted <= posted' /\ mail \subseteq mail'
           /\ \A m \in mail' : m \in mail \/ (m.n \in 1..posted' /\ m.n > posted /\ EventFor(m.e, i, s))
<1>1. /\ posted' = posted + Len(events)
      /\ mail' = mail \cup {[n |-> posted + k, e |-> events[k]] : k \in DOMAIN events}
  BY DEF Becomes, Sends
<1>2. ASSUME NEW k \in DOMAIN events PROVE posted + k \in 1..posted' /\ posted + k > posted
  <2>1. k \in 1..Len(events) /\ posted \in Nat
    BY <1>2 DEF CountsOK
  <2> QED BY <1>1, <2>1
<1>3. ASSUME NEW m \in mail', m \notin mail
      PROVE  m.n \in 1..posted' /\ m.n > posted /\ EventFor(m.e, i, s)
  <2>1. PICK k \in DOMAIN events : m = [n |-> posted + k, e |-> events[k]]
    BY <1>1, <1>3
  <2>2. m.n = posted + k /\ m.e = events[k]
    BY <2>1
  <2> QED BY <1>2, <2>2
<1>4. posted' \in Nat /\ posted <= posted'
  BY <1>1 DEF CountsOK
<1> QED BY <1>1, <1>3, <1>4

\* What Stripe tells of a subscription shows it as it is, and is new.
LEMMA NewMail ==
    ASSUME NEW m, NEW c, NEW f, NEW i, NEW p, NEW j, NEW s, NEW top,
           EventFor(m.e, j, s), m.n \in 1..top, j = i => s.periodEnd = p
    PROVE  MailOlder(m, c, f, i, p, top)
<1>1. /\ m.e.sub = j /\ m.e.type \in {"updated", "succeeded", "failed", "deleted"}
      /\ m.e.type = "updated" => m.e.now = s
      /\ m.e.type = "succeeded" => m.e.periodEnd = s.periodEnd
  BY EventFields
<1> QED BY <1>1 DEF MailOlder

LEMMA TurnedFields ==
    ASSUME StripeOK, CountsOK, NEW i \in DOMAIN subs, NEW s, Turned(i, s), UNCHANGED <<row, checkouts>>
    PROVE  /\ Newest' = Newest /\ Newest \in Nat
           /\ subs'[i] = s /\ \A j \in DOMAIN subs \ {i} : subs'[j] = subs[j]
           /\ i # Newest => Until' = Until
           /\ i = Newest => Until' = s.periodEnd
           /\ posted' \in Nat /\ posted <= posted' /\ mail \subseteq mail'
           /\ \A m \in mail' : m \in mail \/ (m.n \in 1..posted' /\ m.n > posted /\ EventFor(m.e, i, s))
<1>1. PICK events : /\ Becomes(i, s, events) /\ \A k \in DOMAIN events : EventFor(events[k], i, s)
                    /\ DOMAIN events = 1..Len(events) /\ Len(events) \in Nat
                    /\ ShotOK(s) /\ subs[i].periodEnd <= s.periodEnd
  BY DEF Turned
<1>2. /\ StripeOK' /\ DOMAIN subs' = DOMAIN subs /\ subs'[i] = s
      /\ \A j \in DOMAIN subs \ {i} : subs'[j] = subs[j]
  BY <1>1, BecomesOK
<1>3. subs \in Seq(Shot) /\ subs' \in Seq(Shot)
  BY <1>2 DEF StripeOK
<1>4. Len(subs) \in Nat /\ DOMAIN subs = 1..Len(subs) /\ Len(subs') \in Nat /\ DOMAIN subs' = 1..Len(subs')
  BY <1>3, LenProperties
<1>5. Len(subs') = Len(subs)
  BY <1>2, <1>4
<1>6. Len(subs) \in DOMAIN subs
  BY <1>4
<1>7. /\ posted' \in Nat /\ posted <= posted' /\ mail \subseteq mail'
      /\ \A m \in mail' : m \in mail \/ (m.n \in 1..posted' /\ m.n > posted /\ EventFor(m.e, i, s))
  BY <1>1, Numbered
<1>8. i # Newest => Until' = Until
  BY <1>2, <1>5, <1>6 DEF Newest, Until
<1>9. i = Newest => Until' = s.periodEnd
  BY <1>2, <1>5 DEF Newest, Until
<1> QED BY <1>2, <1>4, <1>5, <1>7, <1>8, <1>9 DEF Newest

\* A subscription changes, but not to another period if it is the newest.
LEMMA FollowingTurn ==
    ASSUME StripeOK, CountsOK, NEW c \in Nat, NEW f \in Nat, Following(c, f), DeskCalm,
           UNCHANGED <<row, checkouts, losses, applied, disordered>>,
           NEW i \in DOMAIN subs, NEW s, Turned(i, s), s.periodEnd = subs[i].periodEnd \/ i # Newest
    PROVE  CountsOK' /\ Following(c, f)'
<1>1. PICK k, p : k = Newest /\ p = Until
  OBVIOUS
<1>2. /\ Newest' = Newest
      /\ posted' \in Nat /\ posted <= posted' /\ mail \subseteq mail'
      /\ \A m \in mail' : m \in mail \/ (m.n \in 1..posted' /\ m.n > posted /\ EventFor(m.e, i, s))
  BY TurnedFields
<1>3. i # Newest => Until' = Until
  BY TurnedFields
<1>4. i = Newest => Until' = s.periodEnd
  BY TurnedFields
<1>5. Until' = Until /\ (i = k => s.periodEnd = p)
  BY <1>1, <1>3, <1>4 DEF Until
<1>6. \A m \in mail' : m \in mail \/ MailOlder(m, c, f, k, p, posted')
  <2>1. PICK top : top = posted'
    OBVIOUS
  <2>2. ASSUME NEW m, EventFor(m.e, i, s), m.n \in 1..top PROVE MailOlder(m, c, f, k, p, top)
    BY <1>5, <2>2, NewMail
  <2> QED BY <1>2, <2>1, <2>2
<1>7. \A d \in Desks : desk'[d] = desk[d] \/ DeskOlder(desk'[d], c, f, k, p, posted')
  BY CalmDesks
<1>8. CountsOK' /\ InOrder' = InOrder /\ applied <= applied'
  BY <1>2 DEF CountsOK, InOrder
<1>9. ASSUME Followed(c, f, k, p) PROVE Followed(c, f, k, p)'
  <2>1. (Pends(k) => Pends(k)') /\ (Told(k, p, f) => Told(k, p, f)')
    BY <1>2, CalmDesks
  <2> QED BY <1>8, <1>9, <2>1, FollowedStays DEF CountsOK, HasRow
<1>10. InOrder' /\ Newest > 0 => Followed(c, f, k, p)'
  BY <1>1, <1>8, <1>9 DEF Following
<1>11. /\ \A m \in mail' : m \in mail \/ MailOlder(m, c, f, Newest, Until, posted')
       /\ \A d \in Desks : desk'[d] = desk[d] \/ DeskOlder(desk'[d], c, f, Newest, Until, posted')
       /\ InOrder' /\ Newest > 0 => Followed(c, f, Newest, Until)'
  BY <1>1, <1>2, <1>5, <1>6, <1>7, <1>10
<1> QED BY <1>2, <1>5, <1>8, <1>11, FollowingStays

\* Another period of the newest begins.
LEMMA FollowingRenew ==
    ASSUME StripeOK, CountsOK, NEW c \in Nat, NEW f \in Nat, Following(c, f), DeskCalm,
           UNCHANGED <<row, checkouts, losses, applied, disordered>>,
           NEW i \in DOMAIN subs, NEW s, Turned(i, s), i = Newest,
           [n |-> posted + 1, e |-> Updated(i, s)] \in mail'
    PROVE  CountsOK' /\ \E g \in Nat : Following(c, g)'
<1>1. PICK p, q, g, top : p = Until /\ q = s.periodEnd /\ g = posted + 1 /\ top = posted'
  OBVIOUS
<1>2. /\ Newest' = i /\ Until' = q
      /\ top \in Nat /\ posted <= top /\ mail \subseteq mail'
      /\ \A m \in mail' : m \in mail \/ (m.n \in 1..top /\ m.n > posted /\ EventFor(m.e, i, s))
  BY <1>1, TurnedFields
<1>3. PICK m \in mail' : m = [n |-> g, e |-> Updated(i, s)]
  BY <1>1
<1>4. m.n = g /\ m.e = Updated(i, s) /\ m.e.type = "updated" /\ m.e.sub = i /\ m.e.now = s
  BY <1>3 DEF Updated
<1>5. posted \in Nat /\ c \in 0..posted /\ f \in 0..posted /\ c <= f /\ g \in Nat
  BY <1>1 DEF CountsOK, Following
<1>6. m \notin mail
  <2>1. m \in mail => m.n \in 1..posted
    BY DEF Following, MailOlder
  <2> QED BY <1>1, <1>4, <1>5, <2>1
<1>7. g \in 0..top /\ c \in 0..top /\ c < g /\ g > posted
  <2>1. m.n \in 1..top
    BY <1>2, <1>6
  <2> QED BY <1>1, <1>2, <1>4, <1>5, <2>1
<1>8. \A o \in mail' : MailOlder(o, c, g, i, q, top)
  <2>1. ASSUME NEW o \in mail PROVE MailOlder(o, c, g, i, q, top)
    <3>1. MailOlder(o, c, f, i, p, posted)
      BY <1>1, <2>1 DEF Following
    <3>2. o.n \in 1..posted
      BY <3>1 DEF MailOlder
    <3>3. o.n \in 1..top /\ o.n < g
      BY <1>2, <1>5, <1>7, <3>2
    <3> QED BY <3>1, <3>3 DEF MailOlder
  <2>2. ASSUME NEW o, EventFor(o.e, i, s), o.n \in 1..top PROVE MailOlder(o, c, g, i, q, top)
    BY <1>1, <2>2, NewMail
  <2> QED BY <1>2, <2>1, <2>2
<1>9. \A d \in Desks : DeskOlder(desk'[d], c, g, i, q, top)
  <2>1. ASSUME NEW d \in Desks PROVE DeskOlder(desk[d], c, g, i, q, top)
    <3>1. PICK w : w = desk[d]
      OBVIOUS
    <3>2. DeskOlder(w, c, f, i, p, posted)
      BY <1>1, <3>1 DEF Following
    <3>3. w.pc \in {"upsert", "put"} => w.n \in 1..posted
      BY <3>2 DEF DeskOlder
    <3>4. w.n \in 1..posted => w.n \in 1..top /\ w.n < g
      BY <1>2, <1>5, <1>7
    <3>5. DeskOlder(w, c, g, i, q, top)
      BY <3>2, <3>3, <3>4 DEF DeskOlder
    <3> QED BY <3>1, <3>5
  <2>2. \A d \in Desks : desk'[d] = desk[d] \/ DeskOlder(desk'[d], c, g, i, q, top)
    BY CalmDesks
  <2> QED BY <2>1, <2>2
<1>10. CountsOK' /\ InOrder' = InOrder
  BY <1>1, <1>2 DEF CountsOK, InOrder
<1>11. ASSUME InOrder' PROVE Followed(c, g, i, q)'
  <2>1. i > 0
    <3>1. Len(subs) \in Nat /\ DOMAIN subs = 1..Len(subs)
      BY LenProperties DEF StripeOK
    <3> QED BY <3>1
  <2>2. Followed(c, f, i, p)
    BY <1>1, <1>10, <1>11, <2>1 DEF Following
  <2>3. Pends(i) \/ Has(i, c)
    <3>1. applied >= f => applied >= c
      BY <1>5 DEF CountsOK
    <3>2. Caught(i, p, f) => Has(i, c)
      BY <3>1 DEF Caught, Has
    <3> QED BY <2>2, <3>2 DEF Followed
  <2>4. Pends(i)' \/ Has(i, c)'
    <3>1. Pends(i) => Pends(i)'
      BY <1>2, CalmDesks
    <3>2. Has(i, c) => Has(i, c)'
      BY DEF Has, HasRow
    <3> QED BY <2>3, <3>1, <3>2
  <2>5. Told(i, q, g)'
    BY <1>1, <1>4 DEF Told, Tells
  <2> QED BY <1>7, <2>4, <2>5 DEF Followed
<1>12. Following(c, g)'
  BY <1>1, <1>2, <1>7, <1>8, <1>9, <1>11 DEF Following
<1> QED BY <1>5, <1>10, <1>12

\* A checkout makes a subscription that nothing before it speaks of.
LEMMA FollowingNew ==
    ASSUME SubsInv, CountsOK, NEW c \in Nat, NEW f \in Nat, Following(c, f), NEW o \in checkouts, CompleteCheckout(o)
    PROVE  CountsOK' /\ \E g \in Nat : Following(g, g)'
<1>1. StripeOK /\ DesksOK /\ today \in Nat
  BY DEF SubsInv
<1>2. PICK i, s, g, top :
        /\ i = Len(subs) + 1 /\ g = posted + 1 /\ top = posted'
        /\ s = [status |-> IF o.trial THEN "trialing" ELSE "active", plan |-> o.plan, ending |-> FALSE,
                periodEnd |-> today + (IF o.trial THEN Trial ELSE Period),
                trialEnd |-> IF o.trial THEN today + Trial ELSE 0]
  OBVIOUS
<1>3. /\ subs' = Append(subs, s) /\ UNCHANGED <<row, desk, losses, applied, disordered>>
      /\ Sends(IF o.trial THEN <<Completed(i, o.plan)>> ELSE <<Completed(i, o.plan), Succeeded(i, s)>>)
  BY <1>2 DEF CompleteCheckout
<1>4. /\ Len(subs) \in Nat /\ DOMAIN subs = 1..Len(subs) /\ i \notin DOMAIN subs /\ i > 0
      /\ Len(subs') = i /\ subs'[i] = s
  <2>1. Len(subs) \in Nat /\ DOMAIN subs = 1..Len(subs)
    BY <1>1, LenProperties DEF StripeOK
  <2>2. i \notin 1..Len(subs) /\ i > 0
    BY <1>2, <2>1
  <2>3. PICK S : subs \in Seq(S) /\ s \in S
    <3>1. \A j \in DOMAIN subs : subs[j] \in Shot \cup {s}
      BY <1>1, ElementOfSeq DEF StripeOK
    <3>2. subs \in Seq(Shot \cup {s})
      BY <1>1, <3>1 DEF StripeOK
    <3> QED BY <3>2
  <2>4. Len(subs') = i /\ subs'[i] = s
    BY <1>2, <1>3, <2>3, AppendProperties
  <2> QED BY <2>1, <2>2, <2>4
<1>5. Newest' = i /\ Until' = s.periodEnd
  BY <1>4 DEF Newest, Until
<1>6. /\ posted \in Nat /\ top \in Nat /\ g \in Nat /\ g > posted /\ g \in 1..top /\ posted <= top
      /\ [n |-> g, e |-> Completed(i, o.plan)] \in mail'
      /\ \A m \in mail' : m \in mail \/ (m.n = g /\ m.e = Completed(i, o.plan)) \/ (m.n \in 1..top /\ m.e = Succeeded(i, s))
  <2>1. PICK one, two : one = <<Completed(i, o.plan)>> /\ two = <<Completed(i, o.plan), Succeeded(i, s)>>
    OBVIOUS
  <2>2. /\ DOMAIN one = {1} /\ Len(one) = 1 /\ one[1] = Completed(i, o.plan)
        /\ DOMAIN two = {1, 2} /\ Len(two) = 2 /\ two[1] = Completed(i, o.plan) /\ two[2] = Succeeded(i, s)
    BY <2>1
  <2>3. Sends(one) \/ Sends(two)
    BY <1>3, <2>1
  <2>4. posted \in Nat
    BY DEF CountsOK
  <2>5. CASE Sends(one)
    <3>1. top = posted + 1 /\ mail' = mail \cup {[n |-> posted + k, e |-> one[k]] : k \in {1}}
      BY <1>2, <2>2, <2>5 DEF Sends
    <3>2. mail' = mail \cup {[n |-> g, e |-> Completed(i, o.plan)]}
      BY <1>2, <2>2, <3>1
    <3> QED BY <1>2, <2>4, <3>1, <3>2
  <2>6. CASE Sends(two)
    <3>1. top = posted + 2 /\ mail' = mail \cup {[n |-> posted + k, e |-> two[k]] : k \in {1, 2}}
      BY <1>2, <2>2, <2>6 DEF Sends
    <3>2. PICK late : late = posted + 2
      OBVIOUS
    <3>3. mail' = mail \cup {[n |-> g, e |-> Completed(i, o.plan)], [n |-> late, e |-> Succeeded(i, s)]}
      BY <1>2, <2>2, <3>1, <3>2
    <3>4. g \in 1..top /\ late \in 1..top /\ g > posted /\ top \in Nat /\ g \in Nat /\ posted <= top
      BY <1>2, <2>4, <3>1, <3>2
    <3> QED BY <2>4, <3>3, <3>4
  <2> QED BY <2>3, <2>5, <2>6
<1>7. \A m \in mail' : MailOlder(m, g, g, i, s.periodEnd, top)
  <2>1. ASSUME NEW m \in mail PROVE MailOlder(m, g, g, i, s.periodEnd, top)
    <3>1. m.n \in 1..posted
      BY <2>1 DEF Following, MailOlder
    <3>2. m.n \in 1..top /\ m.n < g
      BY <1>6, <3>1
    <3>3. m.e.sub # i
      BY <1>1, <1>4, <2>1 DEF StripeOK, EventOK
    <3> QED BY <3>2, <3>3 DEF MailOlder
  <2>2. ASSUME NEW m, m.n = g, m.e = Completed(i, o.plan) PROVE MailOlder(m, g, g, i, s.periodEnd, top)
    <3>1. m.e.type = "completed" /\ m.e.sub = i
      BY <2>2 DEF Completed
    <3> QED BY <1>6, <2>2, <3>1 DEF MailOlder
  <2>3. ASSUME NEW m, m.n \in 1..top, m.e = Succeeded(i, s) PROVE MailOlder(m, g, g, i, s.periodEnd, top)
    <3>1. m.e.type = "succeeded" /\ m.e.sub = i /\ m.e.periodEnd = s.periodEnd
      BY <2>3 DEF Succeeded
    <3> QED BY <2>3, <3>1 DEF MailOlder
  <2> QED BY <1>6, <2>1, <2>2, <2>3
<1>8. \A d \in Desks : DeskOlder(desk[d], g, g, i, s.periodEnd, top)
  <2> TAKE d \in Desks
  <2>1. PICK w : w = desk[d]
    OBVIOUS
  <2>2. DeskOK(w)
    BY <1>1, <2>1 DEF DesksOK
  <2>3. w.pc = "upsert" => w.sub # i
    BY <1>4, <2>2 DEF DeskOK, Resting, Calling
  <2>4. w.pc = "put" => w.e.sub # i
    BY <1>4, <2>2 DEF DeskOK, Resting, Calling, EventOK
  <2>5. w.pc \in {"upsert", "put"} => w.n \in 1..posted
    BY <2>1 DEF Following, DeskOlder
  <2>6. w.n \in 1..posted => w.n \in 1..top /\ w.n < g
    BY <1>6
  <2>7. DeskOlder(w, g, g, i, s.periodEnd, top)
    BY <2>3, <2>4, <2>5, <2>6 DEF DeskOlder
  <2> QED BY <2>1, <2>7
<1>9. CountsOK'
  BY <1>2, <1>3, <1>6 DEF CountsOK
<1>10. Followed(g, g, i, s.periodEnd)'
  <2>1. PICK m \in mail' : m = [n |-> g, e |-> Completed(i, o.plan)]
    BY <1>6
  <2>2. m.e.type = "completed" /\ m.e.sub = i
    BY <2>1 DEF Completed
  <2>3. Pends(i)'
    BY <2>2 DEF Pends
  <2> QED BY <2>3 DEF Followed
<1>11. PICK p : p = s.periodEnd
  OBVIOUS
<1>12. Following(g, g)'
  <2>1. g \in 0..top /\ g <= g
    BY <1>6
  <2>2. Followed(g, g, i, p)'
    BY <1>10, <1>11
  <2> QED BY <1>2, <1>3, <1>5, <1>7, <1>8, <1>11, <2>1, <2>2 DEF Following
<1> QED BY <1>6, <1>9, <1>12

\* A delivery, or a loss: Stripe itself stays as it is.
LEMMA FollowingWrites ==
    ASSUME CountsOK, NEW c \in Nat, NEW f \in Nat, Following(c, f), UNCHANGED <<subs, posted>>,
           NEW i, NEW p, i = Newest, p = Until, mail' \subseteq mail,
           \A d \in Desks : desk'[d] = desk[d] \/ DeskOlder(desk'[d], c, f, i, p, posted),
           InOrder' /\ i > 0 => Followed(c, f, i, p)'
    PROVE  Following(c, f)'
<1>1. Newest' = Newest /\ Until' = Until /\ posted' \in Nat /\ posted <= posted'
  BY DEF Newest, Until, CountsOK
<1>2. /\ \A m \in mail' : m \in mail \/ MailOlder(m, c, f, Newest, Until, posted')
      /\ \A d \in Desks : desk'[d] = desk[d] \/ DeskOlder(desk'[d], c, f, Newest, Until, posted')
      /\ InOrder' /\ Newest > 0 => Followed(c, f, Newest, Until)'
  BY <1>1
<1> QED BY <1>1, <1>2, FollowingStays

\* What takes effect in order.
LEMMA AppliesInOrder ==
    ASSUME CountsOK, NEW n \in Nat, NEW whole \in BOOLEAN, NEW foreign \in BOOLEAN,
           Applies(n, whole, foreign), UNCHANGED <<losses, posted>>
    PROVE  /\ CountsOK' /\ applied <= applied' /\ n <= applied'
           /\ InOrder' => /\ ~foreign /\ n >= applied /\ applied' = n
                          /\ InOrder \/ (whole /\ n = posted)
<1>1. applied' = IF n > applied THEN n ELSE applied
  BY DEF Applies
<1>2. applied' \in Nat /\ applied <= applied' /\ n <= applied'
  BY <1>1 DEF CountsOK
<1>3. CountsOK'
  BY <1>2 DEF CountsOK
<1>4. ASSUME InOrder' PROVE ~foreign /\ ~(n < applied) /\ (InOrder \/ (whole /\ n = posted))
  BY <1>4 DEF Applies, InOrder
<1>5. ~(n < applied) => n >= applied /\ applied' = n
  BY <1>1 DEF CountsOK
<1> QED BY <1>2, <1>3, <1>4, <1>5

LEMMA FollowingLost ==
    ASSUME CountsOK, NEW c \in Nat, NEW f \in Nat, Following(c, f), NEW m \in mail, LoseEvent(m)
    PROVE  CountsOK' /\ Following(c, f)'
<1>1. /\ UNCHANGED <<row, subs, checkouts, posted, desk, applied>> /\ mail' \subseteq mail
      /\ losses' = losses + 1
  BY DEF LoseEvent, historyVars
<1>2. losses' \in Nat /\ losses' # 0
  BY <1>1 DEF CountsOK
<1>3. PICK i, p : i = Newest /\ p = Until
  OBVIOUS
<1>4. ~InOrder'
  BY <1>2 DEF InOrder
<1>5. CountsOK'
  BY <1>1, <1>2 DEF CountsOK
<1> QED BY <1>1, <1>3, <1>4, <1>5, FollowingWrites

LEMMA FollowingLook ==
    ASSUME SubsInv, CountsOK, NEW c \in Nat, NEW f \in Nat, Following(c, f),
           NEW d \in Desks, NEW m \in mail, CheckoutCompleted(d, m)
    PROVE  CountsOK' /\ Following(c, f)'
<1>1. PICK i, p, e, s, w :
        /\ i = Newest /\ p = Until /\ e = m.e
        /\ s = [subs[e.sub] EXCEPT !.plan = e.plan]
        /\ w = [pc |-> "upsert", sub |-> e.sub, now |-> s, n |-> m.n]
  OBVIOUS
<1>2. /\ UNCHANGED <<today, row, subs, posted, losses, applied, disordered>>
      /\ mail' \in {mail, mail \ {m}} /\ mail' \subseteq mail
      /\ e.type = "completed" /\ desk[d].pc = "idle" /\ Takes(d, w)
  BY <1>1 DEF CheckoutCompleted, Taken, historyVars, Serves
<1>3. StripeOK /\ DesksOK /\ EventOK(e)
  BY <1>1 DEF SubsInv, StripeOK
<1>4. desk'[d] = w /\ \A o \in Desks \ {d} : desk'[o] = desk[o]
  BY <1>2, <1>3 DEF Takes, DesksOK
<1>5. w.pc = "upsert" /\ w.sub = e.sub /\ w.now = s /\ w.n = m.n
  BY <1>1
<1>6. s.periodEnd = subs[e.sub].periodEnd
  <2>1. subs[e.sub] \in Shot
    BY <1>3 DEF EventOK, StripeOK, ShotOK
  <2> QED BY <1>1, <2>1 DEF Shot
<1>7. MailOlder(m, c, f, i, p, posted)
  BY <1>1 DEF Following
<1>8. e.sub = i => s.periodEnd = p
  BY <1>1, <1>6 DEF Until
<1>9. DeskOlder(w, c, f, i, p, posted)
  BY <1>1, <1>2, <1>5, <1>7, <1>8 DEF MailOlder, DeskOlder
<1>10. CountsOK' /\ InOrder' = InOrder /\ applied <= applied'
  BY <1>2 DEF CountsOK, InOrder
<1>11. ASSUME Followed(c, f, i, p) PROVE Followed(c, f, i, p)'
  <2>1. ASSUME Pends(i) PROVE Pends(i)'
    <3>1. CASE \E o \in mail : o.e.type = "completed" /\ o.e.sub = i
      <4>1. PICK o \in mail : o.e.type = "completed" /\ o.e.sub = i
        BY <3>1
      <4>2. CASE o = m
        BY <1>1, <1>4, <1>5, <4>1, <4>2 DEF Pends
      <4>3. CASE o # m
        BY <1>2, <4>1, <4>3 DEF Pends
      <4> QED BY <4>2, <4>3
    <3>2. ASSUME NEW o \in Desks, desk[o].pc = "upsert", desk[o].sub = i PROVE Pends(i)'
      BY <1>2, <1>4, <3>2 DEF Pends
    <3> QED BY <2>1, <3>1, <3>2 DEF Pends
  <2>2. Told(i, p, f) => Told(i, p, f)'
    BY <1>1, <1>2 DEF Told, Tells
  <2> QED BY <1>2, <1>10, <1>11, <2>1, <2>2, FollowedStays DEF CountsOK, HasRow
<1>12. InOrder' /\ i > 0 => Followed(c, f, i, p)'
  BY <1>1, <1>10, <1>11 DEF Following
<1>13. \A o \in Desks : desk'[o] = desk[o] \/ DeskOlder(desk'[o], c, f, i, p, posted)
  BY <1>4, <1>9
<1> QED BY <1>1, <1>2, <1>10, <1>12, <1>13, FollowingWrites

LEMMA FollowingInvoice ==
    ASSUME SubsInv, CountsOK, NEW c \in Nat, NEW f \in Nat, Following(c, f),
           NEW d \in Desks, NEW m \in mail, InvoiceEvent(d, m)
    PROVE  CountsOK' /\ Following(c, f)'
<1>1. PICK i, p, e, n, w : /\ i = Newest /\ p = Until /\ e = m.e /\ n = m.n
                           /\ w = [pc |-> "put", e |-> e, n |-> n]
  OBVIOUS
<1>2. /\ UNCHANGED <<today, row, subs, posted, losses>>
      /\ mail' \in {mail, mail \ {m}} /\ mail' \subseteq mail
      /\ e.type \in {"succeeded", "failed"} /\ desk[d].pc = "idle"
      /\ \/ Takes(d, w) /\ UNCHANGED <<applied, disordered>>
         \/ UNCHANGED desk /\ Applies(n, FALSE, FALSE)
  BY <1>1 DEF InvoiceEvent, Taken, historyVars, Serves
<1>3. DesksOK
  BY DEF SubsInv
<1>4. w.pc = "put" /\ w.e = e /\ w.n = n
  BY <1>1
<1>5. MailOlder(m, c, f, i, p, posted)
  BY <1>1 DEF Following
<1>6. n \in 1..posted /\ n \in Nat
  <2>1. n \in 1..posted
    BY <1>1, <1>5 DEF MailOlder
  <2> QED BY <2>1 DEF CountsOK
<1>7. DeskOlder(w, c, f, i, p, posted)
  BY <1>1, <1>2, <1>4, <1>5 DEF MailOlder, DeskOlder
<1>8. \A o \in Desks : desk'[o] = desk[o] \/ (o = d /\ desk'[o] = w)
  BY <1>2, <1>3 DEF Takes, DesksOK
<1>9. CountsOK' /\ applied <= applied' /\ (InOrder' => InOrder)
  <2>1. CASE UNCHANGED <<applied, disordered>>
    BY <1>2, <2>1 DEF CountsOK, InOrder
  <2>2. CASE Applies(n, FALSE, FALSE)
    BY <1>2, <1>6, <2>2, AppliesInOrder
  <2> QED BY <1>2, <2>1, <2>2
<1>10. ASSUME Followed(c, f, i, p) PROVE Followed(c, f, i, p)'
  <2>1. Pends(i) => Pends(i)'
    <3>1. \A o \in mail : o.e.type = "completed" => o \in mail'
      BY <1>1, <1>2
    <3>2. \A o \in Desks : desk[o].pc = "upsert" => desk'[o] = desk[o]
      BY <1>2, <1>8
    <3> QED BY <3>1, <3>2 DEF Pends
  <2>2. Told(i, p, f) => Told(i, p, f)'
    BY <1>1, <1>2 DEF Told, Tells
  <2> QED BY <1>2, <1>9, <1>10, <2>1, <2>2, FollowedStays DEF CountsOK, HasRow
<1>11. InOrder' /\ i > 0 => Followed(c, f, i, p)'
  BY <1>1, <1>9, <1>10 DEF Following
<1>12. \A o \in Desks : desk'[o] = desk[o] \/ DeskOlder(desk'[o], c, f, i, p, posted)
  BY <1>7, <1>8
<1> QED BY <1>1, <1>2, <1>9, <1>11, <1>12, FollowingWrites

\* A payment, written to the row by its id.
LEMMA FollowingPut ==
    ASSUME SubsInv, CountsOK, NEW c \in Nat, NEW f \in Nat, Following(c, f), NEW d \in Desks, Put(d)
    PROVE  CountsOK' /\ Following(c, f)'
<1>1. PICK i, p, w, e, n : i = Newest /\ p = Until /\ w = desk[d] /\ e = w.e /\ n = w.n
  OBVIOUS
<1>2. RowOK /\ DesksOK /\ DeskOK(w)
  BY <1>1 DEF SubsInv, DesksOK
<1>3. w.pc = "put" /\ EventOK(e) /\ e.type \in {"succeeded", "failed"} /\ HasRow
  BY <1>1, <1>2 DEF Put, Serves, DeskOK, Resting, Calling
<1>4. PICK foreign : foreign = (e.type = "succeeded" /\ e.sub # row.sub)
  OBVIOUS
<1>5. /\ UNCHANGED <<today, subs, checkouts, mail, posted, losses>> /\ Done(d)
      /\ row' = IF e.type = "succeeded" THEN [row EXCEPT !.status = "ACTIVE", !.periodEnd = e.periodEnd]
                ELSE [row EXCEPT !.status = "PAST_DUE"]
      /\ Applies(n, FALSE, foreign)
  BY <1>1, <1>4 DEF Put, stripeVars
<1>6. /\ HasRow' /\ row'.sub = row.sub
      /\ row'.periodEnd = IF e.type = "succeeded" THEN e.periodEnd ELSE row.periodEnd
  BY <1>2, <1>3, <1>5, PutRow
<1>7. DeskOlder(w, c, f, i, p, posted)
  BY <1>1 DEF Following
<1>8. n \in Nat /\ f \in Nat /\ foreign \in BOOLEAN
  <2>1. n \in 1..posted
    BY <1>1, <1>3, <1>7 DEF DeskOlder
  <2> QED BY <1>4, <2>1 DEF CountsOK
<1>9. /\ CountsOK' /\ applied <= applied'
      /\ InOrder' => ~foreign /\ n >= applied /\ InOrder
  BY <1>5, <1>8, AppliesInOrder
<1>10. \A o \in Desks : desk'[o] = IF o = d THEN Resting ELSE desk[o]
  BY <1>2, <1>5 DEF Done, Takes, DesksOK
<1>11. DeskCalm
  BY <1>1, <1>3, <1>10 DEF DeskCalm, Resting
<1>12. ASSUME InOrder', Followed(c, f, i, p) PROVE Followed(c, f, i, p)'
  <2>1. (Pends(i) => Pends(i)') /\ (Told(i, p, f) => Told(i, p, f)')
    BY <1>5, <1>11, CalmDesks
  <2>2. ASSUME row.sub = i, applied >= f, row.periodEnd = p PROVE row'.periodEnd = p
    <3>1. CASE e.type = "failed"
      BY <1>6, <2>2, <3>1
    <3>2. CASE e.type = "succeeded"
      <4>1. e.sub = i
        BY <1>4, <1>9, <1>12, <2>2, <3>2
      <4>2. e.periodEnd # p => n < f
        BY <1>1, <1>3, <1>7, <3>2, <4>1 DEF DeskOlder
      <4>3. ~(n < f)
        BY <1>8, <1>9, <1>12, <2>2 DEF CountsOK
      <4> QED BY <1>6, <3>2, <4>2, <4>3
    <3> QED BY <1>3, <3>1, <3>2
  <2> QED BY <1>6, <1>9, <1>12, <2>1, <2>2, FollowedStays DEF CountsOK
<1>13. InOrder' /\ i > 0 => Followed(c, f, i, p)'
  BY <1>1, <1>9, <1>12 DEF Following
<1>14. \A o \in Desks : desk'[o] = desk[o] \/ DeskOlder(desk'[o], c, f, i, p, posted)
  BY <1>11, CalmDesks
<1> QED BY <1>1, <1>5, <1>9, <1>13, <1>14, FollowingWrites

\* A checkout, written over whatever row there was.
LEMMA FollowingUpsert ==
    ASSUME SubsInv, CountsOK, NEW c \in Nat, NEW f \in Nat, Following(c, f), NEW d \in Desks, Upsert(d)
    PROVE  CountsOK' /\ Following(c, f)'
<1>1. PICK i, p, w, k, s, n : /\ i = Newest /\ p = Until /\ w = desk[d]
                              /\ k = w.sub /\ s = w.now /\ n = w.n
  OBVIOUS
<1>2. DesksOK /\ DeskOK(w)
  BY <1>1 DEF SubsInv, DesksOK
<1>3. w.pc = "upsert" /\ k \in DOMAIN subs /\ ShotOK(s)
  BY <1>1, <1>2 DEF Upsert, Serves, DeskOK, Resting, Calling
<1>4. /\ UNCHANGED <<today, subs, checkouts, mail, posted, losses>> /\ Done(d)
      /\ row' = RowOf(k, s) /\ Applies(n, FALSE, FALSE)
  BY <1>1 DEF Upsert, stripeVars, Upserted
<1>5. HasRow' /\ row'.sub = k /\ row'.periodEnd = s.periodEnd
  <2>1. HasRow'
    BY <1>3, <1>4, UpsertRow
  <2> QED BY <1>4, <2>1 DEF RowOf
<1>6. DeskOlder(w, c, f, i, p, posted)
  BY <1>1 DEF Following
<1>7. n \in Nat /\ posted \in Nat /\ applied \in Nat /\ c <= f
  <2>1. n \in 1..posted
    BY <1>1, <1>3, <1>6 DEF DeskOlder
  <2> QED BY <2>1 DEF CountsOK, Following
<1>8. /\ CountsOK' /\ applied <= applied'
      /\ InOrder' => n >= applied /\ applied' = n /\ InOrder
  BY <1>4, <1>7, AppliesInOrder
<1>9. \A o \in Desks : desk'[o] = IF o = d THEN Resting ELSE desk[o]
  BY <1>2, <1>4 DEF Done, Takes, DesksOK
<1>10. Told(i, p, f) => Told(i, p, f)'
  BY <1>4 DEF Told
<1>11. ASSUME InOrder', Followed(c, f, i, p), k # i PROVE Followed(c, f, i, p)'
  <2>1. n < c
    BY <1>1, <1>3, <1>6, <1>11 DEF DeskOlder
  <2>2. ~(applied >= c) /\ ~(applied >= f) /\ ~(c < applied)
    BY <1>7, <1>8, <1>11, <2>1
  <2>3. Pends(i) /\ (f = c \/ (c < f /\ Told(i, p, f)))
    BY <1>11, <2>2 DEF Followed, Caught, Has
  <2>4. Pends(i)'
    <3>1. \A o \in Desks : desk[o].pc = "upsert" /\ desk[o].sub = i => desk'[o] = desk[o]
      BY <1>1, <1>9, <1>11
    <3> QED BY <1>4, <2>3, <3>1 DEF Pends
  <2> QED BY <1>10, <2>3, <2>4 DEF Followed
<1>12. ASSUME InOrder', Followed(c, f, i, p), k = i PROVE Followed(c, f, i, p)'
  <2>1. n = c /\ (s.periodEnd # p => n < f)
    BY <1>1, <1>3, <1>6, <1>12 DEF DeskOlder
  <2>2. ~(c < applied) /\ applied' >= c
    BY <1>7, <1>8, <1>12, <2>1
  <2>3. CASE f = c
    <3>1. ~(n < f) /\ applied' >= f
      BY <2>1, <2>2, <2>3
    <3> QED BY <1>5, <1>12, <2>1, <3>1 DEF Followed, Caught
  <2>4. CASE f # c
    <3>1. c < f /\ ~(applied >= f)
      BY <1>7, <2>2, <2>4
    <3>2. Told(i, p, f)
      BY <1>12, <2>2, <2>4, <3>1 DEF Followed, Caught
    <3> QED BY <1>5, <1>10, <1>12, <2>2, <3>1, <3>2 DEF Followed, Has
  <2> QED BY <2>3, <2>4
<1>13. InOrder' /\ i > 0 => Followed(c, f, i, p)'
  BY <1>1, <1>8, <1>11, <1>12 DEF Following
<1>14. \A o \in Desks : desk'[o] = desk[o] \/ DeskOlder(desk'[o], c, f, i, p, posted)
  BY <1>9 DEF DeskOlder, Resting
<1> QED BY <1>1, <1>4, <1>8, <1>13, <1>14, FollowingWrites

\* What Stripe tells of a subscription, written to its row in one statement.
LEMMA FollowingEvent ==
    ASSUME SubsInv, CountsOK, NEW c \in Nat, NEW f \in Nat, Following(c, f), NEW m \in mail, SubscriptionEvent(m)
    PROVE  CountsOK' /\ Following(c, f)'
<1>1. PICK i, p, e, n, whole :
        /\ i = Newest /\ p = Until /\ e = m.e /\ n = m.n
        /\ whole = (e.type = "updated" /\ HasRow /\ row.sub = e.sub /\ e.sub = Len(subs))
  OBVIOUS
<1>2. /\ UNCHANGED <<today, subs, checkouts, posted, losses, desk>>
      /\ mail' \in {mail, mail \ {m}} /\ mail' \subseteq mail
      /\ e.type \in {"updated", "deleted"}
      /\ row' = IF ~(HasRow /\ row.sub = e.sub) THEN row
                ELSE IF e.type = "updated" THEN Synced(e.now)
                ELSE [row EXCEPT !.status = "CANCELED", !.canceled = TRUE]
      /\ Applies(n, whole, FALSE)
  BY <1>1 DEF SubscriptionEvent, Taken
<1>3. RowOK /\ EventOK(e)
  BY <1>1 DEF SubsInv, StripeOK
<1>4. MailOlder(m, c, f, i, p, posted)
  BY <1>1 DEF Following
<1>5. n \in 1..posted /\ n \in Nat /\ posted \in Nat /\ applied \in Nat /\ whole \in BOOLEAN /\ c <= f /\ f <= posted
  <2>1. n \in 1..posted /\ whole \in BOOLEAN
    BY <1>1, <1>4 DEF MailOlder
  <2> QED BY <2>1 DEF CountsOK, Following
<1>6. /\ CountsOK' /\ applied <= applied' /\ n <= applied'
      /\ InOrder' => n >= applied /\ applied' = n /\ (InOrder \/ (whole /\ n = posted))
  BY <1>2, <1>5, AppliesInOrder
<1>7. ASSUME HasRow
      PROVE  /\ HasRow' /\ row'.sub = row.sub
             /\ ~(row.sub = e.sub /\ e.type = "updated") => row'.periodEnd = row.periodEnd
             /\ row.sub = e.sub /\ e.type = "updated" => row'.periodEnd = e.now.periodEnd
  <2>1. CASE row' = row
    <3>1. CASE row.sub = e.sub /\ e.type = "updated"
      <4>1. row' = Synced(e.now) /\ ShotOK(e.now)
        BY <1>2, <1>3, <1>7, <3>1 DEF EventOK
      <4> QED BY <1>2, <1>3, <1>7, <3>1, <4>1, SyncRow
    <3> QED BY <1>7, <2>1, <3>1 DEF HasRow
  <2>2. CASE row.sub = e.sub /\ e.type = "updated"
    <3>1. row' = Synced(e.now) /\ ShotOK(e.now)
      BY <1>2, <1>3, <1>7, <2>2 DEF EventOK
    <3> QED BY <1>2, <1>3, <1>7, <2>2, <3>1, SyncRow
  <2>3. CASE row.sub = e.sub /\ e.type = "deleted"
    <3>1. row' = [row EXCEPT !.status = "CANCELED", !.canceled = TRUE] /\ e.type # "updated"
      BY <1>2, <1>7, <2>3
    <3>2. row.plan \in Plans
      BY <1>3, <1>7 DEF RowOK, HasRow, Rows
    <3> QED BY <1>2, <1>3, <1>7, <3>1, <3>2, MarkRow
  <2>4. row' = row \/ row.sub = e.sub
    BY <1>2
  <2> QED BY <1>2, <2>1, <2>2, <2>3, <2>4
<1>8. Pends(i) => Pends(i)'
  BY <1>1, <1>2 DEF Pends
<1>9. CASE whole /\ n >= f
  <2>1. e.sub = i /\ ~(n < f) /\ applied' >= f
    <3>1. e.sub = i
      BY <1>1, <1>9 DEF Newest
    <3>2. n >= f
      BY <1>9
    <3>3. ~(n < f) /\ applied' >= f
      BY <1>5, <1>6, <3>2 DEF CountsOK
    <3> QED BY <3>1, <3>3
  <2>2. e.now.periodEnd = p
    BY <1>1, <1>4, <1>9, <2>1 DEF MailOlder
  <2>3. Followed(c, f, i, p)'
    BY <1>1, <1>7, <1>9, <2>1, <2>2 DEF Followed, Caught
  <2> QED BY <1>1, <1>2, <1>6, <2>3, FollowingWrites
<1>10. CASE ~(whole /\ n >= f)
  <2>1. ~(whole /\ n = posted)
    BY <1>5, <1>10
  <2>2. InOrder' => InOrder
    BY <1>6, <2>1
  <2>3. ASSUME InOrder', Followed(c, f, i, p), Tells(m, i, p, f) PROVE Followed(c, f, i, p)'
    <3>1. n = f /\ e.sub = i /\ e.type = "updated" /\ n >= f
      BY <1>1, <1>5, <2>3 DEF Tells
    <3>2. ~(HasRow /\ row.sub = i)
      BY <1>1, <1>10, <3>1 DEF Newest
    <3>3. Pends(i)
      BY <2>3, <3>2 DEF Followed, Caught, Has
    <3>4. f = c \/ c < applied'
      BY <1>5, <1>6, <2>3, <3>1
    <3> QED BY <1>8, <3>3, <3>4 DEF Followed
  <2>4. ASSUME InOrder', Followed(c, f, i, p), ~Tells(m, i, p, f) PROVE Followed(c, f, i, p)'
    <3>1. Told(i, p, f) => Told(i, p, f)'
      BY <1>2, <2>4 DEF Told
    <3>2. ASSUME HasRow, row.sub = i, applied >= f, row.periodEnd = p PROVE row'.periodEnd = p
      <4>1. n >= f
        BY <1>5, <1>6, <2>4, <3>2
      <4>2. ~whole
        BY <1>10, <4>1
      <4>3. ~(row.sub = e.sub /\ e.type = "updated")
        BY <1>1, <3>2, <4>2 DEF Newest
      <4> QED BY <1>7, <3>2, <4>3
    <3> QED BY <1>6, <1>7, <1>8, <2>4, <3>1, <3>2, FollowedStays DEF CountsOK
  <2>5. InOrder' /\ i > 0 => Followed(c, f, i, p)'
    BY <1>1, <2>2, <2>3, <2>4 DEF Following
  <2> QED BY <1>1, <1>2, <1>6, <2>5, FollowingWrites
<1> QED BY <1>9, <1>10

\* Stripe's own steps on a subscription, and its answer to a request.
LEMMA FollowingStripe ==
    ASSUME SubsInv, CountsOK, NEW c \in Nat, NEW f \in Nat, Following(c, f), NEW i \in DOMAIN subs,
           \/ PeriodEnds(i) \/ DebtSettled(i)
           \/ \E plan \in Plans, ending \in BOOLEAN : BillingPortal(i, plan, ending)
    PROVE  CountsOK' /\ \E g \in Nat : Following(c, g)'
<1>1. StripeOK
  BY DEF SubsInv
<1>2. UNCHANGED <<row, checkouts, losses, applied, disordered>> /\ DeskCalm
  BY DEF PeriodEnds, DebtSettled, BillingPortal, historyVars, DeskCalm
<1>3. ASSUME NEW s, Turned(i, s), s.periodEnd = subs[i].periodEnd
      PROVE  CountsOK' /\ Following(c, f)'
  BY <1>1, <1>2, <1>3, FollowingTurn
<1>4. CASE PeriodEnds(i)
  <2>1. PICK s : /\ Turned(i, s)
                 /\ \/ s.periodEnd = subs[i].periodEnd
                    \/ [n |-> posted + 1, e |-> Updated(i, s)] \in mail'
    BY <1>1, <1>4, PeriodEndsTurns
  <2>2. CASE i = Newest /\ s.periodEnd # subs[i].periodEnd
    BY <1>1, <1>2, <2>1, <2>2, FollowingRenew
  <2>3. CASE i # Newest
    BY <1>1, <1>2, <2>1, <2>3, FollowingTurn
  <2> QED BY <1>3, <2>1, <2>2, <2>3
<1>5. CASE DebtSettled(i)
  BY <1>1, <1>3, <1>5, DebtSettledTurns
<1>6. ASSUME NEW plan \in Plans, NEW ending \in BOOLEAN, BillingPortal(i, plan, ending)
      PROVE  CountsOK' /\ Following(c, f)'
  BY <1>1, <1>3, <1>6, BillingPortalTurns
<1> QED BY <1>4, <1>5, <1>6

LEMMA FollowingCall ==
    ASSUME SubsInv, CountsOK, NEW c \in Nat, NEW f \in Nat, Following(c, f), NEW d \in Desks, CallStripe(d)
    PROVE  CountsOK' /\ Following(c, f)'
<1>1. StripeOK /\ DesksOK
  BY DEF SubsInv
<1>2. PICK i : i = desk[d].sub
  OBVIOUS
<1>3. /\ i \in DOMAIN subs
      /\ \E w : /\ Takes(d, w) /\ (w = Resting \/ (w \in Calling /\ HasRow))
                /\ w.pc \in {"idle", "write"}
  BY <1>1, <1>2, CallStripeTurns
<1>4. /\ UNCHANGED <<row, checkouts, losses, applied, disordered>>
      /\ UNCHANGED <<subs, mail, posted>> \/ Living(i)
      /\ desk[d].pc = "call"
  BY <1>2 DEF CallStripe, Serves
<1>5. DeskCalm
  BY <1>1, <1>3, <1>4 DEF Takes, DesksOK, DeskCalm
<1>6. \/ UNCHANGED <<subs, mail, posted>>
      \/ \E s : Turned(i, s) /\ s.periodEnd = subs[i].periodEnd
  <2>1. ASSUME Living(i), UNCHANGED subs, UNCHANGED mail PROVE UNCHANGED posted
    <3>1. PICK s : Becomes(i, s, <<Updated(i, s)>>)
      BY <1>2, <2>1 DEF CallStripe
    <3>2. [n |-> posted + 1, e |-> Updated(i, s)] \in mail'
      BY <3>1, Single DEF Becomes, Sends
    <3>3. [n |-> posted + 1, e |-> Updated(i, s)] \in mail
      BY <2>1, <3>2
    <3>4. posted + 1 \in 1..posted
      BY <3>3 DEF Following, MailOlder
    <3> QED BY <3>4 DEF CountsOK
  <2>2. \/ UNCHANGED <<subs, mail, left>>
        \/ \E s : Turned(i, s) /\ s.periodEnd = subs[i].periodEnd /\ (s.ending \/ left' = 0) /\ left' \in {left, 0}
    BY <1>1, <1>2, CallStripeTurns
  <2> QED BY <1>4, <2>1, <2>2
<1>7. CASE UNCHANGED <<subs, mail, posted>>
  BY <1>4, <1>5, <1>7, FollowingQuiet DEF RowKept, HasRow
<1>8. ASSUME NEW s, Turned(i, s), s.periodEnd = subs[i].periodEnd
      PROVE  CountsOK' /\ Following(c, f)'
  BY <1>1, <1>3, <1>4, <1>5, <1>8, FollowingTurn
<1> QED BY <1>6, <1>7, <1>8

LEMMA FollowingStep ==
    ASSUME SubsInv, FollowingInv, [SubsNext]_subVars
    PROVE  FollowingInv'
<1>1. PICK c \in Nat, f \in Nat : CountsOK /\ Following(c, f)
  BY DEF FollowingInv
<1>2. ASSUME UNCHANGED <<subs, posted, mail, losses, applied, disordered>>, DeskCalm, RowKept PROVE FollowingInv'
  BY <1>1, <1>2, FollowingQuiet DEF FollowingInv
<1>3. CASE DayPasses \/ UNCHANGED subVars
  BY <1>2, <1>3 DEF DayPasses, subVars, stripeVars, historyVars, DeskCalm, RowKept, HasRow
<1>4. ASSUME NEW plan \in Plans, StartCheckout(plan) PROVE FollowingInv'
  BY <1>2, <1>4 DEF StartCheckout, historyVars, DeskCalm, RowKept, HasRow
<1>5. ASSUME NEW d \in Desks, CancelSubscription(d) \/ \E plan \in Plans : UpdateSubscription(d, plan) PROVE FollowingInv'
  <2>1. /\ UNCHANGED <<row, subs, posted, mail, losses, applied, disordered>> /\ desk[d].pc = "idle"
        /\ \E w : Takes(d, w) /\ w.pc = "call"
    <3>1. ASSUME NEW w, w.pc = "call", Takes(d, w) PROVE \E x : Takes(d, x) /\ x.pc = "call"
      BY <3>1
    <3>2. ASSUME CancelSubscription(d) PROVE \E x : Takes(d, x) /\ x.pc = "call"
      <4>1. PICK w : w = [pc |-> "call", op |-> "cancel", sub |-> row.sub]
        OBVIOUS
      <4> QED BY <3>1, <3>2, <4>1 DEF CancelSubscription
    <3>3. ASSUME NEW plan \in Plans, UpdateSubscription(d, plan) PROVE \E x : Takes(d, x) /\ x.pc = "call"
      <4>1. PICK w : w = [pc |-> "call", op |-> "change", sub |-> row.sub, plan |-> plan]
        OBVIOUS
      <4> QED BY <3>1, <3>3, <4>1 DEF UpdateSubscription
    <3>4. UNCHANGED <<row, subs, posted, mail, losses, applied, disordered>> /\ desk[d].pc = "idle"
      BY <1>5 DEF CancelSubscription, UpdateSubscription, Serves, stripeVars, historyVars
    <3> QED BY <1>5, <3>2, <3>3, <3>4
  <2>2. DeskCalm
    BY <2>1 DEF Takes, DesksOK, DeskCalm, SubsInv
  <2> QED BY <1>2, <2>1, <2>2 DEF RowKept, HasRow
<1>6. ASSUME NEW d \in Desks, WriteRow(d) PROVE FollowingInv'
  <2>1. /\ UNCHANGED <<subs, posted, mail, losses, applied, disordered>> /\ desk[d].pc = "write" /\ Done(d)
        /\ row' = [row EXCEPT !.canceled = TRUE] \/ row' = [row EXCEPT !.plan = desk[d].plan]
    BY <1>6 DEF WriteRow, Serves, stripeVars
  <2>2. DeskCalm
    BY <2>1 DEF Done, Takes, DesksOK, DeskCalm, SubsInv, Resting
  <2>3. RowKept
    <3>1. ASSUME HasRow PROVE HasRow' /\ row'.sub = row.sub /\ row'.periodEnd = row.periodEnd
      <4>1. row \in Rows
        BY <3>1 DEF SubsInv, RowOK, HasRow
      <4>2. row'.sub = row.sub /\ row'.periodEnd = row.periodEnd /\ DOMAIN row' = DOMAIN row
        BY <2>1, <4>1 DEF Rows
      <4>3. row' # NoRow
        BY <4>1, <4>2 DEF Rows, NoRow
      <4> QED BY <4>2, <4>3 DEF HasRow
    <3> QED BY <3>1 DEF RowKept
  <2> QED BY <1>2, <2>1, <2>2, <2>3
<1>7. ASSUME NEW o \in checkouts, CompleteCheckout(o) PROVE FollowingInv'
  BY <1>1, <1>7, FollowingNew DEF FollowingInv
<1>8. ASSUME NEW i \in DOMAIN subs,
             \/ PeriodEnds(i) \/ DebtSettled(i)
             \/ \E plan \in Plans, ending \in BOOLEAN : BillingPortal(i, plan, ending)
      PROVE  FollowingInv'
  BY <1>1, <1>8, FollowingStripe DEF FollowingInv
<1>9. ASSUME NEW d \in Desks, CallStripe(d) \/ Upsert(d) \/ Put(d) PROVE FollowingInv'
  BY <1>1, <1>9, FollowingCall, FollowingUpsert, FollowingPut DEF FollowingInv
<1>10. ASSUME NEW m \in mail,
              \/ SubscriptionEvent(m) \/ LoseEvent(m)
              \/ \E d \in Desks : CheckoutCompleted(d, m) \/ InvoiceEvent(d, m)
       PROVE  FollowingInv'
  BY <1>1, <1>10, FollowingEvent, FollowingLost, FollowingLook, FollowingInvoice DEF FollowingInv
<1> QED BY <1>3, <1>4, <1>5, <1>6, <1>7, <1>8, <1>9, <1>10 DEF SubsNext

LEMMA FollowingHolds == SubsSpec => []FollowingInv
<1>1. SubsInit => FollowingInv
  <2> SUFFICES ASSUME SubsInit PROVE FollowingInv
    OBVIOUS
  <2>1. /\ posted = 0 /\ applied = 0 /\ losses = 0 /\ mail = {}
        /\ \A d \in Desks : desk[d].pc = "idle"
    BY DEF SubsInit, Resting
  <2>2. Newest > 0 => Followed(0, 0, Newest, Until)
    <3>1. CASE subs = <<>>
      BY <3>1 DEF Newest
    <3>2. ASSUME NEW p \in Plans,
                 row = [status |-> "ACTIVE", plan |-> p, sub |-> 1, periodEnd |-> Period, trialEnd |-> 0, canceled |-> FALSE],
                 subs = <<[status |-> "active", plan |-> p, periodEnd |-> Period, trialEnd |-> 0, ending |-> FALSE]>>
          PROVE  Followed(0, 0, Newest, Until)
      <4>1. PICK s : s = [status |-> "active", plan |-> p, periodEnd |-> Period, trialEnd |-> 0, ending |-> FALSE]
        OBVIOUS
      <4>2. subs = <<s>> /\ s.periodEnd = Period
        BY <3>2, <4>1
      <4>3. Newest = 1 /\ Until = Period
        BY <4>2 DEF Newest, Until
      <4>4. HasRow /\ row.sub = 1 /\ row.periodEnd = Period
        <5>1. DOMAIN row # DOMAIN NoRow
          BY <3>2 DEF NoRow
        <5> QED BY <3>2, <5>1 DEF HasRow
      <4>5. applied >= 0
        BY <2>1
      <4> QED BY <4>3, <4>4, <4>5 DEF Followed, Caught
    <3> QED BY <3>1, <3>2 DEF SubsInit
  <2>3. \A d \in Desks : DeskOlder(desk[d], 0, 0, Newest, Until, posted)
    BY <2>1 DEF DeskOlder
  <2>4. CountsOK /\ Following(0, 0)
    BY <2>1, <2>2, <2>3 DEF CountsOK, Following
  <2> QED BY <2>4 DEF FollowingInv
<1>2. SubsInv /\ FollowingInv /\ [SubsNext]_subVars => FollowingInv'
  BY FollowingStep
<1> QED BY <1>1, <1>2, SubsTyped, PTL DEF SubsSpec

LEMMA FollowedIsServed == ASSUME SubsInv, FollowingInv PROVE ServedWhilePaid
<1>1. PICK i : i = Len(subs)
  OBVIOUS
<1> SUFFICES ASSUME mail = {}, losses = 0, ~disordered, \A d \in Desks : Serves(d, "idle"),
                    i > 0, today < subs[i].periodEnd
             PROVE  Allowed
  BY <1>1 DEF ServedWhilePaid
<1>2. PICK c \in Nat, f \in Nat : Following(c, f)
  BY DEF FollowingInv
<1>3. Followed(c, f, Newest, Until) /\ ~Pends(Newest) /\ ~Told(Newest, Until, f)
  BY <1>1, <1>2 DEF Following, InOrder, Newest, Pends, Told, Serves
<1>4. HasRow /\ row.periodEnd = subs[i].periodEnd
  BY <1>1, <1>3 DEF Followed, Caught, Newest, Until
<1>5. row \in Rows /\ (row.status = "TRIALING" => row.trialEnd = row.periodEnd)
  BY <1>4 DEF SubsInv, RowOK, HasRow
<1>6. /\ row.periodEnd \in Nat /\ row.status \in {"TRIALING", "ACTIVE", "PAST_DUE", "CANCELED"}
      /\ today \in Nat /\ Grace \in Nat
  BY <1>5, SubscriptionsAssumption DEF Rows, Statuses, SubsInv
<1>7. /\ today < row.periodEnd /\ today < row.periodEnd + 1 /\ today < row.periodEnd + Grace
      /\ ~(today > row.periodEnd)
  BY <1>4, <1>6
<1>8. CASE row.status = "TRIALING"
  BY <1>5, <1>7, <1>8 DEF Allowed
<1>9. CASE row.status = "ACTIVE"
  BY <1>7, <1>9 DEF Allowed, ActiveRow
<1>10. CASE row.status = "PAST_DUE"
  BY <1>7, <1>10 DEF Allowed
<1>11. CASE row.status = "CANCELED"
  BY <1>7, <1>11 DEF Allowed
<1> QED BY <1>6, <1>8, <1>9, <1>10, <1>11

\* A business whose subscription is paid for or on trial is served once all
\* events have taken effect in order, however they and its requests overlapped
\* (stripe.controller.js:75-105, 127-188, subscriptionAccess.js:51-75).
THEOREM SubscriptionsServedWhilePaid == Spec => []ServedWhilePaid
<1>1. SubsInv /\ FollowingInv => ServedWhilePaid
  BY FollowedIsServed
<1> QED BY <1>1, PlatformSubscriptions, SubsTyped, FollowingHolds, PTL
=============================================================================
