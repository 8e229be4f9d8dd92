---------------------------- MODULE MailAccounts ----------------------------
(***************************************************************************)
(* One mail credential (app/src/mail-credentials.ts, smtp-credential-      *)
(* test.ts, shared/graph-mail.ts) and everyone who uses it at the same     *)
(* time: the owner who adds, tests, changes, caps and removes it, and      *)
(* consumers that send with it; and the mails the system sends in its own  *)
(* name (sendSystemMail).  A step is one D1 statement, one call of a       *)
(* provider's HTTP API or one command of an SMTP conversation.             *)
(***************************************************************************)
EXTENDS SmtpSession, Integers

CONSTANTS
  Limit,        \* providerDailyLimit of each provider, 0 for null
  GraphLimit,   \* MICROSOFT_GRAPH_DAILY_LIMIT
  Percents,     \* what users ask for as userCapPct
  MaxRequests   \* bound: operations of one behaviour

ASSUME MailAssumption ==
  /\ \A v \in DOMAIN Limit : Limit[v] \in Nat \ {1} \* a quota of 1 would have no 90 %
  /\ GraphLimit \in Nat \ {1} /\ Percents \subseteq Int /\ MaxRequests \in Nat

VARIABLES
  cred,    \* D1: the row of mail_credentials
  req,     \* local state of each operation
  started  \* operations so far

vars == <<cred, req, started, smtp>>

Graph == "microsoft_graph"
NoCred == [state |-> "none", provider |-> "none", direct |-> FALSE, secret |-> NoSecret, verified |-> FALSE, pct |-> 0, cap |-> 0]
Idle == [pc |-> "idle", op |-> "none", provider |-> "none", direct |-> FALSE, pw |-> NoSecret, pct |-> 0]

-----------------------------------------------------------------------------
(* getCeiling and computeDailyCap; 0 stands for null, no cap.              *)

Clamp(pct) == IF pct < 1 THEN 1 ELSE IF pct > 100 THEN 100 ELSE pct

ProviderLimit(v) == IF v = Graph THEN GraphLimit ELSE Limit[v]
Ceiling(v) == (ProviderLimit(v) * 9) \div 10

\* Variant of DailyCap: the user's share of the whole quota.
DailyCapOfLimit(v, pct) ==
  LET share == (ProviderLimit(v) * Clamp(pct)) \div 100 IN
  IF ProviderLimit(v) = 0 THEN 0 ELSE IF share < 1 THEN 1 ELSE share

DailyCap(v, pct) ==
  LET share == (Ceiling(v) * Clamp(pct)) \div 100 IN
  IF ProviderLimit(v) = 0 THEN 0 ELSE IF share < 1 THEN 1 ELSE share

\* No credential yet, or one that was added before.
Init ==
  /\ real \in Secrets /\ proven = {real}
  /\ conn = [p \in Talkers |-> NoConn] /\ req = [p \in Talkers |-> Idle] /\ started = 0
  /\ \/ cred = NoCred
     \/ \E v \in DOMAIN Limit \union {Graph} :
          cred = [NoCred EXCEPT !.state = "live", !.provider = v, !.secret = real, !.verified = TRUE,
                                !.pct = 100, !.cap = DailyCap(v, 100)]

-----------------------------------------------------------------------------
At(p, s) == req[p].pc = s
Goto(p, s) == req' = [req EXCEPT ![p].pc = s]

\* The operation is over; its conversation, if there was one, too.
Done(p) == req' = [req EXCEPT ![p] = Idle] /\ conn' = [conn EXCEPT ![p] = NoConn]

\* What an operation keeps of the row it has read.
Loaded == [Idle EXCEPT !.provider = cred.provider, !.direct = cred.direct]

Live == cred.state = "live"
SmtpLive == Live /\ cred.provider # Graph

Begin(p, op, s, fields) ==
  /\ At(p, "idle") /\ started < MaxRequests
  /\ req' = [req EXCEPT ![p] = [fields EXCEPT !.pc = s, !.op = op]]
  /\ started' = started + 1

\* addMailCredential: port 465 is for a generic server only.
StartAdd(p) ==
  \E v \in DOMAIN Limit, direct \in BOOLEAN, pw \in Secrets, pct \in Percents :
    /\ cred.state = "none" /\ (direct => v = "generic")
    /\ Begin(p, "add", "talk", [Idle EXCEPT !.provider = v, !.direct = direct, !.pw = pw, !.pct = pct])
    /\ Open(p, direct, pw, FALSE)
    /\ UNCHANGED <<cred, real, proven>>

\* addMicrosoftGraphMailCredential: the code is exchanged for tokens.
StartAddGraph(p) ==
  \E token \in Secrets :
    /\ cred.state = "none"
    /\ Begin(p, "add", "insert", [Idle EXCEPT !.provider = Graph, !.pw = token, !.pct = 100])
    /\ UNCHANGED <<cred, smtp>>

\* loadStoredSmtpCredential, for a test (of the stored password) or a change.
StartTest(p) ==
  /\ SmtpLive /\ Begin(p, "test", "slot", [Loaded EXCEPT !.pw = cred.secret])
  /\ UNCHANGED <<cred, smtp>>

StartChange(p) ==
  /\ SmtpLive /\ \E pw \in Secrets : Begin(p, "change", "slot", [Loaded EXCEPT !.pw = pw])
  /\ UNCHANGED <<cred, smtp>>

\* acquireStoredSmtpTestSlot says no, or the secret cannot be decrypted.
TakeSlot(p) ==
  /\ At(p, "slot")
  /\ \/ Goto(p, "talk") /\ Open(p, req[p].direct, req[p].pw, FALSE)
     \/ Done(p)
  /\ UNCHANGED <<cred, started, real, proven>>

Talk(p) == (GoesOn(p) \/ Refused(p) \/ Lost(p)) /\ UNCHANGED <<cred, req, started>>

AfterTest == [add |-> "insert", test |-> "verified", change |-> "replace"]

\* Variant of Tested: only a refused login counts against the password.
StoreUntested(p) ==
  /\ At(p, "talk") /\ conn[p].at = "end" /\ ~conn[p].mail
  /\ IF conn[p].result # "credential" THEN Goto(p, AfterTest[req[p].op]) /\ UNCHANGED conn ELSE Done(p)
  /\ UNCHANGED <<cred, started, real, proven>>

Tested(p) ==
  /\ At(p, "talk") /\ conn[p].at = "end" /\ ~conn[p].mail
  /\ IF conn[p].result = "ok" THEN Goto(p, AfterTest[req[p].op]) /\ UNCHANGED conn ELSE Done(p)
  /\ UNCHANGED <<cred, started, real, proven>>

Insert(p) ==
  /\ At(p, "insert") /\ cred.state = "none"
  /\ cred' = [state |-> "live", provider |-> req[p].provider, direct |-> req[p].direct, secret |-> req[p].pw,
              verified |-> TRUE, pct |-> req[p].pct, cap |-> DailyCap(req[p].provider, req[p].pct)]
  /\ Done(p)
  /\ UNCHANGED <<started, real, proven>>

MarkVerified(p) ==
  /\ At(p, "verified")
  /\ cred' = IF Live THEN [cred EXCEPT !.verified = TRUE] ELSE cred
  /\ Done(p)
  /\ UNCHANGED <<started, real, proven>>

\* Variant of ReplacePassword: without "AND revoked_at IS NULL".
ReplaceAnyway(p) ==
  /\ At(p, "replace")
  /\ cred' = [cred EXCEPT !.secret = req[p].pw, !.verified = TRUE]
  /\ Done(p)
  /\ UNCHANGED <<started, real, proven>>

ReplacePassword(p) ==
  /\ At(p, "replace")
  /\ cred' = IF Live THEN [cred EXCEPT !.secret = req[p].pw, !.verified = TRUE] ELSE cred
  /\ Done(p)
  /\ UNCHANGED <<started, real, proven>>

\* updateMailCredentialCapPct: the provider first, then the row.
StartCap(p) ==
  /\ Live /\ \E pct \in Percents : Begin(p, "cap", "cap", [Loaded EXCEPT !.pct = pct])
  /\ UNCHANGED <<cred, smtp>>

WriteCap(p) ==
  /\ At(p, "cap")
  /\ cred' = IF Live THEN [cred EXCEPT !.pct = Clamp(req[p].pct), !.cap = DailyCap(req[p].provider, req[p].pct)]
             ELSE cred
  /\ Done(p)
  /\ UNCHANGED <<started, real, proven>>

StartDelete(p) == Live /\ Begin(p, "delete", "revoke", Idle) /\ UNCHANGED <<cred, smtp>>

Revoke(p) ==
  /\ At(p, "revoke")
  /\ cred' = IF Live THEN [cred EXCEPT !.state = "revoked", !.secret = NoSecret] ELSE cred
  /\ Done(p)
  /\ UNCHANGED <<started, real, proven>>

-----------------------------------------------------------------------------
(* The consumer's side: processJobMessages reads the row, refreshes a      *)
(* token that is about to expire, and sends with what it read.             *)

StartSend(p) ==
  /\ Live
  /\ \E s \in (IF cred.provider = Graph THEN {"refresh", "graph"} ELSE {"decrypt"}) :
       Begin(p, "send", s, [Loaded EXCEPT !.pw = cred.secret])
  /\ UNCHANGED <<cred, smtp>>

\* Variant of Refresh: without the old token in place of one that is missing.
RefreshMissing(p) ==
  /\ At(p, "refresh")
  /\ req' = [req EXCEPT ![p].pc = "tokens", ![p].pw = NoSecret]
  /\ UNCHANGED <<cred, started, smtp>>

\* refreshMicrosoftToken fails, or returns tokens, rotated or not.
Refresh(p) ==
  /\ At(p, "refresh")
  /\ \/ \E token \in Secrets : req' = [req EXCEPT ![p].pc = "tokens", ![p].pw = token] /\ UNCHANGED conn
     \/ Done(p)
  /\ UNCHANGED <<cred, started, real, proven>>

PersistTokens(p) ==
  /\ At(p, "tokens")
  /\ cred' = IF Live THEN [cred EXCEPT !.secret = req[p].pw] ELSE cred
  /\ Goto(p, "graph")
  /\ UNCHANGED <<started, smtp>>

\* sendGraphMail: every 4xx, an expired token's 401 too, counts as transient.
SendGraph(p) ==
  /\ At(p, "graph")
  /\ Goto(p, "sent")
  /\ \/ End(p, "ok", TRUE) \/ End(p, "transient", FALSE) \/ End(p, "bounce", FALSE) \/ End(p, "bounce", TRUE)
  /\ UNCHANGED <<cred, started, real, proven>>

\* sendOneMail: a password that cannot be decrypted is the credential's fault.
Decrypt(p) ==
  /\ At(p, "decrypt")
  /\ \/ Goto(p, "sent") /\ Open(p, req[p].direct, req[p].pw, TRUE)
     \/ Goto(p, "sent") /\ End(p, "credential", FALSE)
  /\ UNCHANGED <<cred, started, real, proven>>

\* Variant of Resend: the answer's status is not looked at.
ResendUnchecked(p) ==
  /\ At(p, "resend")
  /\ \/ Goto(p, "sent") /\ \E took \in BOOLEAN : End(p, "ok", took)
     \/ Goto(p, "sent") /\ \E pw \in Secrets : Open(p, FALSE, pw, TRUE)
  /\ UNCHANGED <<cred, started, real, proven>>

\* sendSystemMail tries Resend, which may have taken the mail it seems to have
\* refused, and then the system's own SMTP account.
StartSystemMail(p) == Begin(p, "system", "resend", Idle) /\ UNCHANGED <<cred, smtp>>

Resend(p) ==
  /\ At(p, "resend")
  /\ \/ Goto(p, "sent") /\ End(p, "ok", TRUE)
     \/ Goto(p, "sent") /\ \E pw \in Secrets : Open(p, FALSE, pw, TRUE)
  /\ UNCHANGED <<cred, started, real, proven>>

Sent(p) ==
  /\ At(p, "sent") /\ conn[p].at = "end"
  /\ Done(p)
  /\ UNCHANGED <<cred, started, real, proven>>

\* The invocation ends between two steps.
Die(p) == ~At(p, "idle") /\ Done(p) /\ UNCHANGED <<cred, started, real, proven>>

Starts(p) ==
  \/ StartAdd(p) \/ StartAddGraph(p) \/ StartTest(p) \/ StartChange(p) \/ StartCap(p) \/ StartDelete(p)
  \/ StartSend(p) \/ StartSystemMail(p)

Steps(p) ==
  \/ TakeSlot(p) \/ Talk(p) \/ Tested(p) \/ Insert(p) \/ MarkVerified(p) \/ ReplacePassword(p) \/ WriteCap(p)
  \/ Revoke(p) \/ Refresh(p) \/ PersistTokens(p) \/ SendGraph(p) \/ Decrypt(p) \/ Resend(p) \/ Sent(p)

Next == (\E p \in Talkers : Starts(p) \/ Steps(p) \/ Die(p)) \/ (ChangePassword /\ UNCHANGED <<cred, req, started>>)

Spec == Init /\ [][Next]_vars

-----------------------------------------------------------------------------
Providers == DOMAIN Limit \union {Graph}
SecretOrNone == Secrets \union {NoSecret}

CredRow == [state : {"none", "live", "revoked"}, provider : Providers \union {"none"}, direct : BOOLEAN,
            secret : SecretOrNone, verified : BOOLEAN, pct : Int, cap : Nat]

ReqPc == {"idle", "slot", "talk", "insert", "verified", "replace", "cap", "revoke", "refresh", "tokens", "graph",
          "decrypt", "resend", "sent"}
ReqOps == {"none", "add", "test", "change", "cap", "delete", "send", "system"}
ReqRec == [pc : ReqPc, op : ReqOps, provider : Providers \union {"none"}, direct : BOOLEAN, pw : SecretOrNone, pct : Int]

Stages == {"none", "greet", "starttls", "from", "rcpt", "data", "body", "end"} \union Hello \union Login
Results == {"none", "ok", "credential", "transient", "bounce", "dead"}
ConnRec == [at : Stages, direct : BOOLEAN, tls : BOOLEAN, pw : SecretOrNone, mail : BOOLEAN, accepted : BOOLEAN,
            result : Results]

\* The row of mail_credentials, which has its secret as long as it is live, and
\* the locals of those who work with it.
TypeOK ==
  /\ Live => cred.secret # NoSecret
  /\ cred \in CredRow /\ real \in Secrets /\ proven \subseteq Secrets /\ started \in 0..MaxRequests
  /\ req \in [Talkers -> ReqRec] /\ conn \in [Talkers -> ConnRec]

\* User names, passwords and mails cross the wire encrypted only, whatever the
\* server answers to STARTTLS (smtp.ts:25-64).
EncryptedOnly == \A p \in Talkers : conn[p].at \in Login \union {"from", "rcpt", "data", "body"} => conn[p].tls

\* A mail that will be tried again was not taken the first time
\* (smtp-failure.ts:22-26, send-queue.ts:50).
RetryNeverDuplicates == \A p \in Talkers : conn[p].result = "transient" => ~conn[p].accepted

\* A mail that is reported as sent was taken by some server.
OkMeansTaken == \A p \in Talkers : At(p, "sent") /\ conn[p].result = "ok" => conn[p].accepted

\* A revoked credential never holds a secret again, even when a change of
\* password or a token refresh was under way (mail-credentials.ts:172-182).
RevokedHoldsNothing == cred.state = "revoked" => cred.secret = NoSecret

\* Every SMTP password that is stored was accepted by the server once, whoever
\* else was testing or changing it (mail-credentials.ts:70-79,
\* smtp-credential-test.ts:96-102).
ProvenBeforeStored == SmtpLive => cred.secret \in proven

\* No cap goes over the share of the provider's quota that the application
\* allows itself, whatever the user asked for (mail-credentials.ts:39-50).
CapWithinCeiling == Live /\ ProviderLimit(cred.provider) # 0 => cred.cap \in 1..Ceiling(cred.provider)
=============================================================================
