-------------------------------- MODULE Codes --------------------------------
(***************************************************************************)
(* The short codes of one person: e-mail verification (auth.service), the  *)
(* customer portal (customerPortal.service) and the second factor of a     *)
(* login, which has attempts but no code of ours.  Codes and failed        *)
(* attempts are rows of OtpCode, counted in a window (lib/otp.js).         *)
(***************************************************************************)
EXTENDS Integers, FiniteSets

CONSTANTS Callers,       \* requests that may run at once
          MaxFailures,   \* OTP_MAX_FAILURES, OTP_MAX_FAILED_ATTEMPTS
          MaxPerWindow,  \* OTP_MAX_REQUESTS_PER_WINDOW
          MaxCodes       \* bound: codes ever sent

ASSUME CodesAssumption == {MaxFailures, MaxPerWindow} \subseteq Nat \ {0} /\ MaxCodes \in Nat

VARIABLES
    codes,      \* codes that are neither consumed nor expired, by purpose
    sent,       \* portal codes created in the window
    failed,     \* failed attempts created in the window, by purpose
    lastCode,   \* codes ever sent
    caller      \* what each request is doing

codeVars == <<codes, sent, failed, lastCode, caller>>

Sendable == {"EMAIL_VERIFY", "CUSTOMER_PORTAL"}
Purposes == Sendable \cup {"LOGIN_2FA"}
NoCode   == 0
\* beside: another request had retired the old codes and not sent its own yet.
Code     == [id : 1..MaxCodes, beside : BOOLEAN]
Away     == [pc |-> "idle"]

CodesInit ==
    /\ codes = [k \in Purposes |-> {}]
    /\ sent = 0
    /\ failed = [k \in Purposes |-> 0]
    /\ lastCode = 0
    /\ caller = [c \in Callers |-> Away]

Calls(c, pc, k) == caller[c].pc = pc /\ caller[c].for = k
Goes(c, work)   == caller' = [caller EXCEPT ![c] = work]

-----------------------------------------------------------------------------
(* requestEmailVerify and requestAccess *)

Ask(c, k) ==
    /\ caller[c] = Away
    /\ k = "CUSTOMER_PORTAL" => sent < MaxPerWindow
    /\ Goes(c, [pc |-> "retire", for |-> k])
    /\ UNCHANGED <<codes, sent, failed, lastCode>>

\* Mutant: the codes of before stay valid.
Retire_None(c, k) ==
    /\ Calls(c, "retire", k)
    /\ Goes(c, [pc |-> "send", for |-> k])
    /\ UNCHANGED <<codes, sent, failed, lastCode>>

Retire(c, k) ==
    /\ Calls(c, "retire", k)
    /\ codes' = [codes EXCEPT ![k] = {}]
    /\ Goes(c, [pc |-> "send", for |-> k])
    /\ UNCHANGED <<sent, failed, lastCode>>

Send(c, k) ==
    /\ Calls(c, "send", k) /\ lastCode < MaxCodes
    /\ lastCode' = lastCode + 1
    /\ codes' = [codes EXCEPT ![k] = @ \cup
                   {[id |-> lastCode + 1, beside |-> \E d \in Callers \ {c} : Calls(d, "send", k)]}]
    /\ sent' = IF k = "CUSTOMER_PORTAL" THEN sent + 1 ELSE sent
    /\ Goes(c, Away)
    /\ UNCHANGED failed

-----------------------------------------------------------------------------
(* confirmEmailVerify, verifyAccess and verifyTotp *)

Locked(k) == failed[k] >= MaxFailures

\* x is the code that was typed.
Try(c, k, x) ==
    /\ caller[c] = Away /\ ~Locked(k)
    /\ Goes(c, [pc |-> "find", for |-> k, typed |-> x])
    /\ UNCHANGED <<codes, sent, failed, lastCode>>

\* Only the portal burns what is outstanding.
TryLocked(c, k) ==
    /\ caller[c] = Away /\ Locked(k) /\ k = "CUSTOMER_PORTAL"
    /\ codes' = [codes EXCEPT ![k] = {}]
    /\ UNCHANGED <<sent, failed, lastCode, caller>>

Right(k, x) == \E code \in codes[k] : code.id = x

Judge(c, k) ==
    /\ Calls(c, "find", k)
    /\ LET x == caller[c].typed
       IN IF k \in Sendable /\ Right(k, x)
          THEN Goes(c, [pc |-> "redeem", for |-> k, typed |-> x]) /\ UNCHANGED failed
          ELSE /\ Goes(c, Away)
               /\ \/ k \in Sendable /\ failed' = [failed EXCEPT ![k] = @ + 1]
                  \* an authenticator's code is right or wrong
                  \/ k \notin Sendable /\ failed' \in {failed, [failed EXCEPT ![k] = @ + 1]}
    /\ UNCHANGED <<codes, sent, lastCode>>

\* The e-mail code is consumed alone; the portal consumes them all.  Failures
\* that are consumed are still counted.
Redeem(c, k) ==
    /\ Calls(c, "redeem", k)
    /\ codes' = [codes EXCEPT ![k] = IF k = "CUSTOMER_PORTAL" THEN {}
                                     ELSE {code \in @ : code.id # caller[c].typed}]
    /\ Goes(c, Away)
    /\ UNCHANGED <<sent, failed, lastCode>>

\* What is oldest falls out of the window.
CodeExpires(k) ==
    /\ \E code \in codes[k] : codes' = [codes EXCEPT ![k] = @ \ {code}]
    /\ UNCHANGED <<sent, failed, lastCode, caller>>

SendIsForgotten ==
    /\ sent > 0 /\ sent' = sent - 1
    /\ UNCHANGED <<codes, failed, lastCode, caller>>

FailureIsForgotten(k) ==
    /\ failed[k] > 0 /\ failed' = [failed EXCEPT ![k] = @ - 1]
    /\ UNCHANGED <<codes, sent, lastCode, caller>>

CodesNext ==
    \/ SendIsForgotten
    \/ \E k \in Purposes : CodeExpires(k) \/ FailureIsForgotten(k)
    \/ \E c \in Callers, k \in Sendable : Ask(c, k) \/ Retire(c, k) \/ Send(c, k) \/ Redeem(c, k)
    \/ \E c \in Callers, k \in Purposes :
         TryLocked(c, k) \/ Judge(c, k) \/ (\E x \in NoCode..lastCode : Try(c, k, x))

-----------------------------------------------------------------------------
(* Properties *)

CodesTypeOK ==
    /\ codes \in [Purposes -> SUBSET Code] /\ codes["LOGIN_2FA"] = {}
    /\ sent \in Nat /\ failed \in [Purposes -> Nat] /\ lastCode \in 0..MaxCodes

\* Only the newest code is valid: a code lives beside another only if it was
\* sent while another request stood between retiring the old codes and sending
\* its own (auth.service.js:350-363, customerPortal.service.js:77-95).
OnlyNewest ==
    \A k \in Purposes : Cardinality({code \in codes[k] : ~code.beside}) <= 1

\* The limits are read before they are used up, so requests that run at once
\* overshoot them, each by one and no more: failed attempts and portal codes
\* in a window (lib/otp.js:4-9, customerPortal.service.js:70-75, 122-133).
LimitsOvershootByCallers ==
    /\ \A k \in Purposes : failed[k] < MaxFailures + Cardinality(Callers)
    /\ sent < MaxPerWindow + Cardinality(Callers)

\* What the codes promise holds but for requests that run at once.
CodesHold == OnlyNewest /\ LimitsOvershootByCallers
=============================================================================
