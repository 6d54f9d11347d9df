------------------------------ MODULE Threads ------------------------------
(***************************************************************************)
(* messaging.service: conversations between a business and its cleaners or *)
(* customers.  A cleaner only gets at his own.  A conversation is looked   *)
(* up and made in two statements, and no index keeps a second one out.     *)
(***************************************************************************)
EXTENDS Jobs

CONSTANTS Subjects,     \* who a conversation can be about: cleaners and customers
          Office,       \* a user of the staff; a cleaner is a user too
          MaxThreads,   \* bound: rows of Conversation
          MaxMessages   \* bound: rows of Message

ASSUME ThreadsAssumption == MaxThreads \in Nat /\ MaxMessages \in Nat /\ Office \notin Cleaners

VARIABLES
    threads,    \* the Conversation table, in the order of creation: the subjects
    message,    \* the Message table
    talker,     \* what each request is doing
    sideways    \* history: subjects whose conversation was opened by two requests at once

threadVars == <<threads, message, talker, sideways>>

Users == Cleaners \cup {Office}

ThreadsInit ==
    /\ threads = <<>> /\ message = <<>>
    /\ talker = [r \in Clerks |-> Idle]
    /\ sideways = {}

TalkerTo(r, work) == talker' = [talker EXCEPT ![r] = work]

\* conversationBelongsToRequester: not a cleaner, or the cleaner's own.
Belongs(t, who) == who = Office \/ threads[t] = who

\* Whatever a cleaner asks for, it is his own conversation he opens.
About(who, s) == IF who = Office THEN s ELSE who

Known(s) == {t \in DOMAIN threads : threads[t] = s}

\* getOrCreateConversation, of a cleaner or a customer of the business: the
\* look for it ...
OpenThread(r, who, s) ==
    /\ talker[r] = Idle /\ About(who, s) \in Subjects /\ Known(About(who, s)) = {}
    /\ TalkerTo(r, [pc |-> "create", on |-> About(who, s)])
    /\ sideways' = sideways \cup
         {About(who, s) : x \in {q \in Clerks : talker[q].pc = "create" /\ talker[q].on = About(who, s)}}
    /\ UNCHANGED <<jobVars, threads, message>>

\* ... and, if there was none, the row.
CreateThread(r) ==
    /\ talker[r].pc = "create" /\ Len(threads) < MaxThreads
    /\ threads' = Append(threads, talker[r].on)
    /\ TalkerTo(r, Idle)
    /\ UNCHANGED <<jobVars, message, sideways>>

\* Mutant: a message goes to whichever conversation the request names.
MayPost_Anywhere(t, who) == TRUE

\* Somebody else's conversation is not found.
MayPost(t, who) == Belongs(t, who)

PostMessage(r, who, t) ==
    /\ talker[r] = Idle /\ Len(message) < MaxMessages
    /\ MayPost(t, who)
    /\ message' = Append(message, [in |-> t, by |-> who, read |-> FALSE])
    /\ UNCHANGED <<jobVars, threads, talker, sideways>>

\* markMessageRead: one's own messages stay unread.
MarkRead(r, who, m) ==
    /\ talker[r] = Idle
    /\ Belongs(message[m].in, who) /\ message[m].by # who
    /\ message' = [message EXCEPT ![m].read = TRUE]
    /\ UNCHANGED <<jobVars, threads, talker, sideways>>

TalkerDies(r) ==
    /\ talker[r] # Idle /\ Fault
    /\ TalkerTo(r, Idle)
    /\ UNCHANGED <<job, threads, message, sideways>>

ThreadsNext ==
    \E r \in Clerks :
       \/ \E who \in Users : \/ \E s \in Subjects : OpenThread(r, who, s)
                             \/ \E t \in DOMAIN threads : PostMessage(r, who, t)
                             \/ \E m \in DOMAIN message : MarkRead(r, who, m)
       \/ CreateThread(r) \/ TalkerDies(r)

-----------------------------------------------------------------------------
(* Properties *)

ThreadsTypeOK ==
    /\ threads \in Seq(Subjects)
    /\ message \in Seq([in : DOMAIN threads, by : Users, read : BOOLEAN])
    /\ sideways \subseteq Subjects

\* What a cleaner and the office say to each other is in one conversation, in
\* which nobody else has written, unless it was opened from both sides at once.
OneConversation ==
    /\ \A t, u \in DOMAIN threads : t # u /\ threads[t] = threads[u] => threads[t] \in sideways
    /\ \A m \in DOMAIN message : message[m].by \in {Office, threads[message[m].in]}
=============================================================================
