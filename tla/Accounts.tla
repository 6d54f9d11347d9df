------------------------------ MODULE Accounts ------------------------------
(***************************************************************************)
(* auth.service with staff.service and the part of cleaners.service and    *)
(* superAdmin.service that touches it: the people, the firms they belong   *)
(* to, and the sessions they work in.  A request is a process that stops   *)
(* at every await which another request could use.                        *)
(***************************************************************************)
EXTENDS Integers, FiniteSets, Sequences

CONSTANTS People, Firms,
          NoFirm,         \* a session that is pinned to no workspace
          Parents,        \* firms that have locations
          Links,          \* password links that may be mailed
          Requests,       \* requests that may run at once
          MaxSessions,    \* bound: sessions ever issued
          MaxVersion,     \* bound: changes of a person's credentials
          MaxDeaths       \* bound: requests that die half-way

ASSUME AccountsAssumption ==
    /\ NoFirm \notin Firms /\ Parents \subseteq Firms
    /\ {MaxSessions, MaxDeaths} \subseteq Nat /\ MaxVersion \in Nat \ {0}

VARIABLES
    person,      \* the User table
    member,      \* the BusinessMember table, by firm and person
    cleaner,     \* the CleanerProfile table, by firm and person
    sessions,    \* the Session table, with the rows deleted since
    link,        \* the PasswordReset table
    req,         \* what each request is doing
    deaths,      \* requests that have died half-way
    undone       \* history: people whose sessions a dead request left in place

accountVars == <<person, member, cleaner, sessions, link, req, deaths, undone>>

NoAccount == -1
Unusable  == 0      \* the random password of an invited person

\* version counts what has been done to the password or to the second factor
\* that ends the sessions; missed names the deletions of sessions a request
\* slept through.
Person  == [active : BOOLEAN, version : NoAccount..MaxVersion, secret : BOOLEAN, enabled : BOOLEAN]
Roles   == {"BUSINESS_OWNER", "BUSINESS_MANAGER", "ORG_ADMIN"}
Member  == [role : Roles \cup {"NONE"}, active : BOOLEAN]
Missed  == SUBSET {"credentials", "workspace"}
Session == [who : People, at : Firms \cup {NoFirm}, of : 0..MaxSessions,
            version : 0..MaxVersion, missed : Missed, live : BOOLEAN]
Link    == [who : People, used : BOOLEAN]
Unsent  == [used |-> TRUE]
Quiet   == [pc |-> "idle"]

AccountsInit ==
    /\ person = [p \in People |-> [active |-> TRUE, version |-> NoAccount, secret |-> FALSE, enabled |-> FALSE]]
    /\ member = [f \in Firms |-> [p \in People |-> [role |-> "NONE", active |-> FALSE]]]
    /\ cleaner = [f \in Firms |-> [p \in People |-> "NONE"]]
    /\ sessions = <<>>
    /\ link = [l \in Links |-> Unsent]
    /\ req = [r \in Requests |-> Quiet]
    /\ deaths = 0
    /\ undone = {}

At(r, pc)     == req[r].pc = pc
Enter(r, work) == req' = [req EXCEPT ![r] = work]
Leave(r)      == Enter(r, Quiet)
Staffs(p)     == {f \in Firms : member[f][p].active}
Cleans(p)     == {f \in Firms : cleaner[f][p] = "ACTIVE"}
Workspaces(p) == Staffs(p) \cup Cleans(p)       \* listAffiliations
Holds(p)      == {i \in DOMAIN sessions : sessions[i].who = p}   \* access tokens outlive a session
Active(p)     == person[p].version # NoAccount /\ person[p].active

\* requireRole of the staff routes.
MayManage(f, q) == member[f][q].active /\ member[f][q].role \in {"BUSINESS_OWNER", "ORG_ADMIN"}

-----------------------------------------------------------------------------
(* Sessions *)

\* What a request that is about to issue a session brings along.
Issuing(p, f, i, v, missed) ==
    [pc |-> "issue", who |-> p, at |-> f, of |-> i, version |-> v, missed |-> missed]

\* The transaction of registerBusiness; issueSession follows.
Register(r, f, p) ==
    /\ At(r, "idle") /\ person[p].version = NoAccount
    /\ \A q \in People : member[f][q].role = "NONE"
    /\ person' = [person EXCEPT ![p].version = 1]
    /\ member' = [member EXCEPT ![f][p] = [role |-> "BUSINESS_OWNER", active |-> TRUE]]
    /\ Enter(r, Issuing(p, f, 0, 1, {}))
    /\ UNCHANGED <<cleaner, sessions, link, deaths, undone>>

\* login as far as the password and the code; with a wrong one nothing changes.
Login(r, p) ==
    /\ At(r, "idle") /\ Active(p) /\ person[p].version # Unusable
    /\ person[p].enabled => person[p].secret
    /\ Enter(r, [pc |-> "choose", who |-> p, version |-> person[p].version, missed |-> {}])
    /\ UNCHANGED <<person, member, cleaner, sessions, link, deaths, undone>>

\* login once the affiliations are listed.
Choose(r) ==
    /\ At(r, "choose")
    /\ LET p    == req[r].who
           many == Cardinality(Staffs(p)) + Cardinality(Cleans(p)) > 1
           into(f) == Enter(r, Issuing(p, f, 0, req[r].version, req[r].missed))
       IN \/ many /\ Leave(r)
          \/ ~many /\ Workspaces(p) = {} /\ into(NoFirm)
          \/ \E f \in Workspaces(p) : into(f)
          \/ Firms \ Workspaces(p) # {} /\ Leave(r)
    /\ UNCHANGED <<person, member, cleaner, sessions, link, deaths, undone>>

\* selectBusiness, by an access token that came with session i.
SelectBusiness(r, i, f) ==
    /\ At(r, "idle") /\ i \in DOMAIN sessions
    /\ LET p == sessions[i].who
           v == sessions[i].version
       IN /\ Active(p) /\ f \in Workspaces(p)
          /\ Enter(r, Issuing(p, f, 0, v, IF v = person[p].version THEN {} ELSE {"credentials"}))
    /\ UNCHANGED <<person, member, cleaner, sessions, link, deaths, undone>>

\* issueSession.
IssueSession(r) ==
    /\ At(r, "issue") /\ Len(sessions) < MaxSessions
    /\ sessions' = Append(sessions,
         [who |-> req[r].who, at |-> req[r].at, of |-> req[r].of, version |-> req[r].version,
          missed |-> req[r].missed, live |-> TRUE])
    /\ Leave(r)
    /\ UNCHANGED <<person, member, cleaner, link, deaths, undone>>

\* refresh finds the session ...
Refresh(r, i) ==
    /\ At(r, "idle") /\ i \in DOMAIN sessions /\ sessions[i].live
    /\ Enter(r, [pc |-> "rotate", of |-> i])
    /\ UNCHANGED <<person, member, cleaner, sessions, link, deaths, undone>>

Renewing(i) == [pc |-> "renew", who |-> sessions[i].who, of |-> i, missed |-> sessions[i].missed]

\* Mutant: it is found once more, and deleted by nobody.
Rotate_Kept(r) ==
    /\ At(r, "rotate")
    /\ IF sessions[req[r].of].live THEN Enter(r, Renewing(req[r].of)) ELSE Leave(r)
    /\ UNCHANGED <<person, member, cleaner, sessions, link, deaths, undone>>

\* ... deletes it, and goes on only if it was the one to do so ...
Rotate(r) ==
    /\ At(r, "rotate")
    /\ LET i == req[r].of
       IN IF sessions[i].live
          THEN /\ sessions' = [sessions EXCEPT ![i].live = FALSE]
               /\ Enter(r, Renewing(i))
          ELSE Leave(r) /\ UNCHANGED sessions
    /\ UNCHANGED <<person, member, cleaner, link, deaths, undone>>

\* Mutant: the workspace of the old session is not looked at again.
Renew_SamePlace(r) ==
    /\ At(r, "renew")
    /\ LET old == sessions[req[r].of]
       IN Enter(r, Issuing(old.who, old.at, req[r].of, old.version, req[r].missed))
    /\ UNCHANGED <<person, member, cleaner, sessions, link, deaths, undone>>

\* ... and stays in the same workspace if that is still one of the person's,
\* else takes the first of the others, staff before cleaner.
Renew(r) ==
    /\ At(r, "renew")
    /\ LET i == req[r].of
           p == req[r].who
           places == CASE sessions[i].at \in Workspaces(p) -> {sessions[i].at}
                       [] Staffs(p) # {} -> Staffs(p)
                       [] Cleans(p) # {} -> Cleans(p)
                       [] OTHER -> {NoFirm}
       IN \/ ~Active(p) /\ Leave(r)
          \/ Active(p) /\ \E f \in places : Enter(r, Issuing(p, f, i, sessions[i].version, req[r].missed))
    /\ UNCHANGED <<person, member, cleaner, sessions, link, deaths, undone>>

\* logout, and the end of the thirty days.
Logout(i) ==
    /\ i \in DOMAIN sessions /\ sessions[i].live
    /\ sessions' = [sessions EXCEPT ![i].live = FALSE]
    /\ UNCHANGED <<person, member, cleaner, link, req, deaths, undone>>

\* session.deleteMany for a person, of one firm or of all of them.  The
\* requests that have read already and will issue a session later miss it.
Deleted(p, places) ==
    [i \in DOMAIN sessions |->
       [sessions[i] EXCEPT !.live = @ /\ ~(sessions[i].who = p /\ sessions[i].at \in places)]]

Asleep(p, what, places) ==
    {r \in Requests : /\ req[r].pc \in {"choose", "renew", "issue"} /\ req[r].who = p
                      /\ what = "workspace" => At(r, "issue") /\ req[r].at \in places}

Noted(p, what, places) ==
    [r \in Requests |-> IF r \in Asleep(p, what, places)
                        THEN [req[r] EXCEPT !.missed = @ \cup {what}] ELSE req[r]]

-----------------------------------------------------------------------------
(* Credentials: each change is a read, a write, and the end of the sessions *)

\* requestPasswordReset, and the invitations of staff and cleaners.
Mailed(l, p) == link[l] = Unsent /\ link' = [link EXCEPT ![l] = [who |-> p, used |-> FALSE]]

RequestPasswordReset(l, p) ==
    /\ person[p].version # NoAccount /\ Mailed(l, p)
    /\ UNCHANGED <<person, member, cleaner, sessions, req, deaths, undone>>

\* confirmPasswordReset has found the link unused and in time.
ConfirmPasswordReset(r, l) ==
    /\ At(r, "idle") /\ ~link[l].used
    /\ Enter(r, [pc |-> "setPassword", who |-> link[l].who, by |-> {l}])
    /\ UNCHANGED <<person, member, cleaner, sessions, link, deaths, undone>>

\* changePassword has compared the current password.
ChangePassword(r, p) ==
    /\ At(r, "idle") /\ Active(p) /\ person[p].version # Unusable /\ Holds(p) # {}
    /\ Enter(r, [pc |-> "setPassword", who |-> p, by |-> {}])
    /\ UNCHANGED <<person, member, cleaner, sessions, link, deaths, undone>>

SetPassword(r) ==
    /\ At(r, "setPassword") /\ person[req[r].who].version < MaxVersion
    /\ person' = [person EXCEPT ![req[r].who].version = @ + 1]
    /\ Enter(r, [req[r] EXCEPT !.pc = IF req[r].by = {} THEN "endSessions" ELSE "markUsed"])
    /\ UNCHANGED <<member, cleaner, sessions, link, deaths, undone>>

\* Mutant: a new password by link leaves the sessions alone.
MarkUsed_Last(r) ==
    /\ At(r, "markUsed")
    /\ link' = [l \in Links |-> IF l \in req[r].by THEN [link[l] EXCEPT !.used = TRUE] ELSE link[l]]
    /\ Leave(r)
    /\ UNCHANGED <<person, member, cleaner, sessions, deaths, undone>>

MarkUsed(r) ==
    /\ At(r, "markUsed")
    /\ link' = [l \in Links |-> IF l \in req[r].by THEN [link[l] EXCEPT !.used = TRUE] ELSE link[l]]
    /\ Enter(r, [req[r] EXCEPT !.pc = "endSessions"])
    /\ UNCHANGED <<person, member, cleaner, sessions, deaths, undone>>

\* generate2FASecret; verifyAndEnable2FA reads, then writes one of the two columns.
Generate2FASecret(p) ==
    /\ Active(p) /\ Holds(p) # {} /\ ~person[p].enabled
    /\ person' = [person EXCEPT ![p].secret = TRUE]
    /\ UNCHANGED <<member, cleaner, sessions, link, req, deaths, undone>>

Verify2FA(r, p) ==
    /\ At(r, "idle") /\ Active(p) /\ Holds(p) # {} /\ person[p].secret
    /\ Enter(r, [pc |-> "enable", who |-> p])
    /\ UNCHANGED <<person, member, cleaner, sessions, link, deaths, undone>>

Enable2FA(r) ==
    /\ At(r, "enable")
    /\ person' = [person EXCEPT ![req[r].who].enabled = TRUE]
    /\ Leave(r)
    /\ UNCHANGED <<member, cleaner, sessions, link, deaths, undone>>

\* disable2FA, the password and the code being right.
Disable2FA(r, p) ==
    /\ At(r, "idle") /\ Active(p) /\ Holds(p) # {} /\ person[p].enabled /\ person[p].secret
    /\ person[p].version \in 1..MaxVersion - 1
    /\ Enter(r, [pc |-> "disable", who |-> p, by |-> {}])
    /\ UNCHANGED <<person, member, cleaner, sessions, link, deaths, undone>>

Disabled(r) ==
    /\ At(r, "disable") /\ person[req[r].who].version < MaxVersion
    /\ LET p == req[r].who
       IN person' = [person EXCEPT ![p].enabled = FALSE, ![p].secret = FALSE, ![p].version = @ + 1]
    /\ Enter(r, [req[r] EXCEPT !.pc = "endSessions"])
    /\ UNCHANGED <<member, cleaner, sessions, link, deaths, undone>>

EndSessions(r) ==
    /\ At(r, "endSessions")
    /\ sessions' = Deleted(req[r].who, Firms \cup {NoFirm})
    /\ req' = [Noted(req[r].who, "credentials", Firms) EXCEPT ![r] = Quiet]
    /\ UNCHANGED <<person, member, cleaner, link, deaths, undone>>

-----------------------------------------------------------------------------
(* Who belongs to a firm *)

\* A person nobody knows yet gets an account and a link to set a password with.
Known(p) ==
    IF person[p].version # NoAccount THEN UNCHANGED <<person, link>>
    ELSE /\ person' = [person EXCEPT ![p].version = Unusable]
         /\ (\E l \in Links : Mailed(l, p)) \/ UNCHANGED link

\* inviteMember: a row of its own, or the row of a member that was removed.
InviteMember(f, p, role) ==
    /\ \E q \in People : MayManage(f, q)
    /\ role \in {"BUSINESS_MANAGER", "ORG_ADMIN"} /\ (role = "ORG_ADMIN" => f \in Parents)
    /\ ~member[f][p].active
    /\ Known(p)
    /\ member' = [member EXCEPT ![f][p] = [role |-> role, active |-> TRUE]]
    /\ UNCHANGED <<cleaner, sessions, req, deaths, undone>>

UpdateMemberRole(f, p, role) ==
    /\ \E q \in People : MayManage(f, q)
    /\ role \in {"BUSINESS_MANAGER", "ORG_ADMIN"} /\ member[f][p].role \notin {"NONE", "BUSINESS_OWNER"}
    /\ member' = [member EXCEPT ![f][p].role = role]
    /\ UNCHANGED <<person, cleaner, sessions, link, req, deaths, undone>>

Removable(f, p) ==
    /\ \E q \in People \ {p} : MayManage(f, q)
    /\ member[f][p].role \notin {"NONE", "BUSINESS_OWNER"}

\* removeMember ends the membership ...
RemoveMember(r, f, p) ==
    /\ At(r, "idle") /\ Removable(f, p)
    /\ member' = [member EXCEPT ![f][p].active = FALSE]
    /\ Enter(r, [pc |-> "endWorkspace", who |-> p, at |-> f])
    /\ UNCHANGED <<person, cleaner, sessions, link, deaths, undone>>

\* ... and then the sessions in that firm.
EndWorkspace(r) ==
    /\ At(r, "endWorkspace")
    /\ sessions' = Deleted(req[r].who, {req[r].at})
    /\ req' = [Noted(req[r].who, "workspace", {req[r].at}) EXCEPT ![r] = Quiet]
    /\ UNCHANGED <<person, member, cleaner, link, deaths, undone>>

\* onboardCleaner and reactivateCleaner; the plan's limit is that of Bookings.
OnboardCleaner(f, p) ==
    /\ \E q \in People : member[f][q].active /\ cleaner[f][p] \in {"NONE", "OFFBOARDED"}
    /\ Known(p)
    /\ cleaner' = [cleaner EXCEPT ![f][p] = "ACTIVE"]
    /\ UNCHANGED <<member, sessions, req, deaths, undone>>

ReactivateCleaner(f, p) ==
    /\ cleaner[f][p] = "SUSPENDED"
    /\ cleaner' = [cleaner EXCEPT ![f][p] = "ACTIVE"]
    /\ UNCHANGED <<person, member, sessions, link, req, deaths, undone>>

\* releaseCleaner is a transaction: the status and the sessions at once.
ReleaseCleaner(f, p, status) ==
    /\ cleaner[f][p] \notin {"NONE", status} /\ (status = "SUSPENDED" => cleaner[f][p] = "ACTIVE")
    /\ cleaner' = [cleaner EXCEPT ![f][p] = status]
    /\ sessions' = Deleted(p, {f})
    /\ req' = Noted(p, "workspace", {f})
    /\ UNCHANGED <<person, member, link, deaths, undone>>

\* superAdmin.setUserActive.
SetUserActive(p, on) ==
    /\ person[p].version # NoAccount /\ person[p].active # on
    /\ person' = [person EXCEPT ![p].active = on]
    /\ UNCHANGED <<member, cleaner, sessions, link, req, deaths, undone>>

\* The process dies: the statements behind this one are never run.
Die(r) ==
    /\ deaths < MaxDeaths /\ ~At(r, "idle")
    /\ deaths' = deaths + 1
    /\ undone' = IF req[r].pc \in {"markUsed", "endSessions", "endWorkspace"}
                 THEN undone \cup {req[r].who} ELSE undone
    /\ Leave(r)
    /\ UNCHANGED <<person, member, cleaner, sessions, link>>

-----------------------------------------------------------------------------

Begin(r) ==
    \/ \E f \in Firms, p \in People : Register(r, f, p) \/ RemoveMember(r, f, p)
    \/ \E p \in People : Login(r, p) \/ ChangePassword(r, p) \/ Verify2FA(r, p) \/ Disable2FA(r, p)
    \/ \E i \in DOMAIN sessions : Refresh(r, i) \/ (\E f \in Firms : SelectBusiness(r, i, f))
    \/ \E l \in Links : ConfirmPasswordReset(r, l)

Continue(r) ==
    \/ Choose(r) \/ Rotate(r) \/ Renew(r) \/ IssueSession(r)
    \/ SetPassword(r) \/ MarkUsed(r) \/ Enable2FA(r) \/ Disabled(r)
    \/ EndSessions(r) \/ EndWorkspace(r) \/ Die(r)

AtOnce ==
    \/ \E i \in DOMAIN sessions : Logout(i)
    \/ \E l \in Links, p \in People : RequestPasswordReset(l, p)
    \/ \E p \in People : Generate2FASecret(p) \/ (\E on \in BOOLEAN : SetUserActive(p, on))
    \/ \E f \in Firms, p \in People :
         \/ \E role \in Roles : InviteMember(f, p, role) \/ UpdateMemberRole(f, p, role)
         \/ OnboardCleaner(f, p) \/ ReactivateCleaner(f, p)
         \/ \E status \in {"SUSPENDED", "OFFBOARDED"} : ReleaseCleaner(f, p, status)

AccountsNext == AtOnce \/ \E r \in Requests : Begin(r) \/ Continue(r)

-----------------------------------------------------------------------------
(* Properties *)

AccountsTypeOK ==
    /\ person \in [People -> Person]
    /\ member \in [Firms -> [People -> Member]]
    /\ cleaner \in [Firms -> [People -> {"NONE", "ACTIVE", "SUSPENDED", "OFFBOARDED"}]]
    /\ sessions \in Seq(Session) /\ Len(sessions) <= MaxSessions
    /\ link \in [Links -> Link \cup {Unsent}]
    /\ deaths \in 0..MaxDeaths /\ undone \subseteq People

\* A session is renewed once: however many refreshes run with one token, at
\* most one session takes its place (refresh, auth.service.js:280-284).
OneSuccessor ==
    \A i, j \in DOMAIN sessions : sessions[i].of # 0 /\ sessions[i].of = sessions[j].of => i = j

\* A changed password, and a second factor that is turned off, end the
\* sessions there were.  A session of before is there only while the change
\* has not come to its last statement or died before it, or if the request
\* that issued it had read the account before (changePassword, disable2FA,
\* confirmPasswordReset: auth.service.js:322-344, 416-432, 492-522).
SignedInSince ==
    \A i \in DOMAIN sessions : LET s == sessions[i] IN
        s.live /\ s.version # person[s.who].version =>
          \/ "credentials" \in s.missed \/ s.who \in undone
          \/ \E r \in Requests : req[r].pc \in {"markUsed", "endSessions"} /\ req[r].who = s.who

\* A session works in a firm its person belongs to.  It outlives the
\* membership only between the two statements of removeMember, or if a request
\* had chosen the workspace before and issued the session after them
\* (staff.service.js:160-169, cleaners.service.js:160-168).
InOwnWorkspace ==
    \A i \in DOMAIN sessions : LET s == sessions[i] IN
        s.live /\ s.at \in Firms \ Workspaces(s.who) =>
          \/ "workspace" \in s.missed \/ s.who \in undone
          \/ \E r \in Requests : At(r, "endWorkspace") /\ req[r].who = s.who /\ req[r].at = s.at
=============================================================================
