------------------------------ MODULE Accounts ------------------------------
(***************************************************************************)
(* Accounts, sessions, second factor, external logins, API keys and        *)
(* attempt counters: app/src/auth.ts, oauth.ts, rate-limit.ts, api-keys.ts *)
(* and deleteAccount of db.ts, behind the session gates of secure-index.ts *)
(* and index.ts.  Everything about one person: one e-mail address, one     *)
(* identity at each provider.  An action is one D1 statement (or batch) or *)
(* one KV call of one request; req[p].pc names what comes next, and an     *)
(* invocation may die between any two.                                     *)
(*                                                                         *)
(* Credentials are version numbers: the fingerprint of a session is the    *)
(* pair of the password's and the TOTP secret's.  A code, link, session or *)
(* secret that has run out is one that nobody uses any more.               *)
(***************************************************************************)
EXTENDS Integers, FiniteSets

CONSTANTS
  Procs,        \* requests that may run at the same time
  Providers,    \* google, microsoft
  Ids,          \* bound: 1..n, account ids, each used once
  Tokens,       \* bound: 1..n, session tokens, each used once
  MaxAttempts,  \* LOGIN_MAX_ATTEMPTS, CODE_MAX_ATTEMPTS
  MaxRequests,  \* bound: requests of one behaviour
  Ops           \* which operations a run starts

ASSUME AccountsAssumption ==
  /\ IsFiniteSet(Procs) /\ Procs # {}
  /\ 1 \in Ids /\ Ids \subseteq Nat \ {0} /\ \A a \in Ids : 1..a \subseteq Ids
  /\ Tokens \subseteq Nat \ {0} /\ \A t \in Tokens : 1..t \subseteq Tokens
  /\ MaxAttempts \in Nat \ {0} /\ MaxRequests \in Nat

VARIABLES
  acct,      \* D1: accounts
  ident,     \* D1: oauth_identities, the account of each provider's identity
  keys,      \* D1: api_keys, the accounts that hold one
  session,   \* KV: session:<token>
  pending,   \* KV: totp-pending:<account>
  attempts,  \* KV: ratelimit:<bucket>:<identifier>
  req,       \* local state of each request
  started,   \* requests so far
  secrets,   \* TOTP secrets generated so far
  proven,    \* history: secrets a code was shown for
  dead       \* history: tokens a password change left behind

vars == <<acct, ident, keys, session, pending, attempts, req, started, secrets, proven, dead>>
store == <<acct, ident, keys, session, pending, attempts, secrets, proven, dead>>

NoAcct == [state |-> "none", disabled |-> FALSE, verified |-> FALSE, pw |-> 0,
           byUser |-> FALSE, totp |-> 0, reset |-> FALSE]
NoSession == [id |-> 0, pw |-> 0, totp |-> 0, fresh |-> FALSE]
Dropped == [NoSession EXCEPT !.pw = -1]  \* had an envelope once
Idle == [pc |-> "idle", op |-> "none", id |-> 0, tok |-> 0, val |-> 0, prov |-> "none",
         ver |-> [pw |-> 0, totp |-> 0]]

Live(a) == a # 0 /\ acct[a].state = "live"
TheAccount == {a \in Ids : Live(a)}   \* WHERE email = ?

\* Limited buckets: login counts per address, the others per account.
Buckets == {<<"login", 0>>} \union ({"verify", "reauth", "totp_confirm"} \X Ids)

\* Nobody, or a registered person with or without each kind of credential, a
\* reset link on its way or a second factor being set up, and logged in.
Registered(row, link, secret) ==
  /\ acct = [a \in Ids |-> IF a = 1 THEN row ELSE NoAcct]
  /\ ident = [v \in Providers |-> IF v \in link THEN 1 ELSE 0]
  /\ session = [t \in Tokens |-> IF t = 1 /\ row.verified
                                 THEN [id |-> 1, pw |-> 1, totp |-> row.totp, fresh |-> TRUE] ELSE NoSession]
  /\ pending = [a \in Ids |-> IF a = 1 THEN secret ELSE 0]

Init ==
  /\ \/ \E row \in [state : {"live"}, disabled : {FALSE}, verified : BOOLEAN, pw : {1}, byUser : BOOLEAN,
                    totp : {0, 1}, reset : BOOLEAN], link \in SUBSET Providers, secret \in {0, 2} :
          /\ row.byUser \/ link # {}
          /\ ~row.verified => link = {} /\ row.totp = 0 /\ secret = 0
          /\ Registered(row, link, secret)
     \/ Registered(NoAcct, {}, 0)
  /\ keys = {} /\ attempts = [b \in Buckets |-> 0]
  /\ req = [p \in Procs |-> Idle]
  /\ started = 0 /\ secrets = 2 /\ proven = {1} /\ dead = {}

-----------------------------------------------------------------------------
At(p, s) == req[p].pc = s
Goto(p, s) == req' = [req EXCEPT ![p].pc = s]
Done(p) == req' = [req EXCEPT ![p] = Idle]
A(p) == req[p].id

Begin(p, op, s, fields) ==
  /\ At(p, "idle") /\ op \in Ops /\ started < MaxRequests
  /\ req' = [req EXCEPT ![p] = [fields EXCEPT !.pc = s, !.op = op]]
  /\ started' = started + 1

\* Variant of Version: the fingerprint leaves the password out.
VersionOfTotp(a) == [pw |-> 1, totp |-> acct[a].totp]

Version(a) == [pw |-> acct[a].pw, totp |-> acct[a].totp]

\* getSessionContext: the envelope must name the credentials of today.  A
\* session of an OAuth callback that is not upgraded yet has none (pw = 0).
Valid(t) ==
  LET s == session[t] IN
  /\ Live(s.id) /\ ~acct[s.id].disabled
  /\ s.pw # 0 /\ Version(s.id) = [pw |-> s.pw, totp |-> s.totp]

FreshOps == {"totp_setup", "totp_confirm", "totp_disable", "set_password", "key_create", "key_revoke", "unlink"}
SessionOps == FreshOps \union {"reauth", "delete"}

\* secureFetch lets a security change through only with a fresh session.
StartWithSession(p) ==
  \E op \in SessionOps, t \in Tokens, v \in Providers :
    /\ session[t].id # 0 /\ (op \in FreshOps => Valid(t) /\ session[t].fresh)
    /\ Begin(p, op, "auth", [Idle EXCEPT !.tok = t, !.prov = v])
    /\ UNCHANGED store

\* handleRequest asks for the session again and routes the request.
Authenticate(p) ==
  /\ At(p, "auth")
  /\ IF Valid(req[p].tok) THEN req' = [req EXCEPT ![p].pc = req[p].op, ![p].id = session[req[p].tok].id]
     ELSE Done(p)
  /\ UNCHANGED <<store, started>>

\* Fifteen minutes pass (FRESH_AUTH_MS).
Age(t) ==
  /\ session[t].fresh
  /\ session' = [session EXCEPT ![t].fresh = FALSE]
  /\ UNCHANGED <<acct, ident, keys, pending, attempts, req, started, secrets, proven, dead>>

-----------------------------------------------------------------------------
(* rate-limit.ts                                                           *)

Bucket(p) == IF req[p].op \in {"login", "reset"} THEN <<"login", 0>> ELSE <<req[p].op, A(p)>>

Allowed(b) == attempts[b] < MaxAttempts

\* recordFailedAttempt reads the count, then puts it back.
ReadCount(p) ==
  /\ At(p, "record")
  /\ req' = [req EXCEPT ![p].pc = "record_put", ![p].val = attempts[Bucket(p)]]
  /\ UNCHANGED <<store, started>>

\* Variant of PutCount: the failure is counted twice.
PutCountTwice(p) ==
  /\ At(p, "record_put")
  /\ attempts' = [attempts EXCEPT ![Bucket(p)] = req[p].val + 2]
  /\ Done(p)
  /\ UNCHANGED <<acct, ident, keys, session, pending, started, secrets, proven, dead>>

PutCount(p) ==
  /\ At(p, "record_put")
  /\ attempts' = [attempts EXCEPT ![Bucket(p)] = req[p].val + 1]
  /\ Done(p)
  /\ UNCHANGED <<acct, ident, keys, session, pending, started, secrets, proven, dead>>

\* What follows clearAttempts.
AfterClear == [login |-> "envelope", reauth |-> "envelope", totp_confirm |-> "enable",
               reset |-> "replace"]

ClearAttempts(p) ==
  /\ At(p, "clear")
  /\ attempts' = [attempts EXCEPT ![Bucket(p)] = 0]
  /\ IF req[p].op = "verify" THEN Done(p) ELSE Goto(p, AfterClear[req[p].op])
  /\ UNCHANGED <<acct, ident, keys, session, pending, started, secrets, proven, dead>>

\* The window of a bucket runs out.
Forget(b) ==
  /\ attempts[b] # 0
  /\ attempts' = [attempts EXCEPT ![b] = 0]
  /\ UNCHANGED <<acct, ident, keys, session, pending, req, started, secrets, proven, dead>>

-----------------------------------------------------------------------------
(* Registration and verification of the address.                           *)

\* The exact look-up may miss another spelling of the address.
StartSignup(p) == Begin(p, "signup", "insert", Idle) /\ UNCHANGED store

\* Variant of InsertAccount: without the trigger that compares addresses.
InsertAnyway(p, a, byUser) ==
  /\ acct[a].state = "none" /\ \A b \in 1..(a - 1) : acct[b].state # "none"
  /\ acct' = [acct EXCEPT ![a] = [NoAcct EXCEPT !.state = "live", !.verified = ~byUser, !.pw = 1, !.byUser = byUser]]

\* INSERT INTO accounts: the trigger refuses an address that is taken.
InsertAccount(p, a, byUser) ==
  /\ TheAccount = {}
  /\ acct[a].state = "none" /\ \A b \in 1..(a - 1) : acct[b].state # "none"
  /\ acct' = [acct EXCEPT ![a] = [NoAcct EXCEPT !.state = "live", !.verified = ~byUser, !.pw = 1, !.byUser = byUser]]

Signup(p) ==
  /\ At(p, "insert")
  /\ (\E a \in Ids : InsertAccount(p, a, TRUE)) \/ (TheAccount # {} /\ UNCHANGED acct)
  /\ Done(p)
  /\ UNCHANGED <<ident, keys, session, pending, attempts, started, secrets, proven, dead>>

StartVerify(p) ==
  \E a \in Ids :
    /\ acct[a].state # "none" /\ Allowed(<<"verify", a>>)
    /\ Begin(p, "verify", "check", [Idle EXCEPT !.id = a])
    /\ UNCHANGED store

CheckCode(p) ==
  /\ At(p, "check")
  /\ (Live(A(p)) /\ Goto(p, "mark")) \/ Goto(p, "record")
  /\ UNCHANGED <<store, started>>

-----------------------------------------------------------------------------
(* UPDATE accounts ... WHERE id = ?: nothing, of an account that is gone.  *)

Update(p, row) == acct' = IF Live(A(p)) THEN [acct EXCEPT ![A(p)] = row] ELSE acct

MarkVerified(p) ==
  /\ At(p, "mark")
  /\ Update(p, [acct[A(p)] EXCEPT !.verified = TRUE])
  /\ Goto(p, IF req[p].op = "verify" THEN "clear" ELSE "raw")
  /\ UNCHANGED <<ident, keys, session, pending, attempts, started, secrets, proven, dead>>

\* Tokens of the account that no request is about to renew.
LeftBehind(a) ==
  {t \in Tokens : session[t].id = a /\ ~ \E q \in Procs : req[q].tok = t /\ req[q].op \in {"reauth", "oauth"}}

NewPassword(p, row) ==
  /\ Update(p, [row EXCEPT !.pw = @ + 1, !.byUser = TRUE])
  /\ dead' = dead \union (IF Live(A(p)) THEN LeftBehind(A(p)) ELSE {})

SetPassword(p) ==
  /\ At(p, "set_password")
  /\ NewPassword(p, acct[A(p)])
  /\ Done(p)
  /\ UNCHANGED <<ident, keys, session, pending, attempts, started, secrets, proven>>

\* requestPasswordReset and adminResetPassword look the account up first.
StartResetRequest(p) ==
  \E a \in TheAccount : Begin(p, "reset_request", "issue", [Idle EXCEPT !.id = a]) /\ UNCHANGED store

IssueReset(p) ==
  /\ At(p, "issue")
  /\ Update(p, [acct[A(p)] EXCEPT !.reset = TRUE])
  /\ Done(p)
  /\ UNCHANGED <<ident, keys, session, pending, attempts, started, secrets, proven, dead>>

StartReset(p) ==
  \E a \in TheAccount :
    acct[a].reset /\ Begin(p, "reset", "clear", [Idle EXCEPT !.id = a]) /\ UNCHANGED store

\* The trigger on reset_token takes the second factor away with the token.
ReplacePassword(p) ==
  LET row == acct[A(p)] IN
  /\ At(p, "replace")
  /\ NewPassword(p, [row EXCEPT !.reset = FALSE, !.totp = IF row.reset THEN 0 ELSE row.totp])
  /\ Done(p)
  /\ UNCHANGED <<ident, keys, session, pending, attempts, started, secrets, proven>>

ToggleDisabled(p) ==
  \E a \in Ids :
    /\ Live(a) /\ At(p, "idle") /\ "toggle" \in Ops /\ started < MaxRequests
    /\ acct' = [acct EXCEPT ![a].disabled = ~@]
    /\ started' = started + 1
    /\ UNCHANGED <<req, ident, keys, session, pending, attempts, secrets, proven, dead>>

-----------------------------------------------------------------------------
(* Login, reauthentication and logout.                                     *)

StartLogin(p) ==
  Allowed(<<"login", 0>>) /\ Begin(p, "login", "find", Idle) /\ UNCHANGED store

\* The password, then whether the account may log in, then the second factor.
Find(p) ==
  /\ At(p, "find")
  /\ \/ \E a \in TheAccount :
          /\ acct[a].verified /\ ~acct[a].disabled
          /\ req' = [req EXCEPT ![p].pc = "clear", ![p].id = a]
     \/ Goto(p, "record")
     \/ Done(p)
  /\ UNCHANGED <<store, started>>

Reauth(p) ==
  LET row == acct[A(p)] IN
  /\ At(p, "reauth")
  /\ IF Live(A(p)) /\ ~row.disabled /\ Allowed(Bucket(p))
     THEN \/ (row.byUser \/ row.totp # 0) /\ (Goto(p, "clear") \/ Goto(p, "record"))
          \/ Done(p)
     ELSE Done(p)
  /\ UNCHANGED <<store, started>>

\* writeSession reads the account again, then puts the envelope.
ReadEnvelope(p) ==
  /\ At(p, "envelope")
  /\ IF Live(A(p)) /\ ~acct[A(p)].disabled
     THEN req' = [req EXCEPT ![p].pc = "put", ![p].ver = Version(A(p))]
     ELSE IF req[p].op = "oauth" THEN Goto(p, "drop_session") ELSE Done(p)
  /\ UNCHANGED <<store, started>>

\* The token a request puts: the one it came with, or the next new one.
TokenOf(p, t) ==
  IF req[p].tok # 0 THEN t = req[p].tok
  ELSE session[t] = NoSession /\ \A u \in 1..(t - 1) : session[u] # NoSession

PutSession(p) ==
  /\ At(p, "put")
  /\ \E t \in Tokens :
       /\ TokenOf(p, t)
       /\ session' = [session EXCEPT ![t] = [id |-> A(p), pw |-> req[p].ver.pw, totp |-> req[p].ver.totp, fresh |-> TRUE]]
  /\ Done(p)
  /\ UNCHANGED <<acct, ident, keys, pending, attempts, started, secrets, proven, dead>>

StartLogout(p) ==
  \E t \in Tokens :
    session[t].id # 0 /\ Begin(p, "logout", "drop_session", [Idle EXCEPT !.tok = t]) /\ UNCHANGED store

DropSession(p) ==
  /\ At(p, "drop_session")
  /\ session' = [session EXCEPT ![req[p].tok] = Dropped]
  /\ Done(p)
  /\ UNCHANGED <<acct, ident, keys, pending, attempts, started, secrets, proven, dead>>

-----------------------------------------------------------------------------
(* The second factor: a secret waits in KV until a code proves it.         *)

SetupTotp(p) ==
  /\ At(p, "totp_setup")
  /\ secrets' = secrets + 1
  /\ pending' = [pending EXCEPT ![A(p)] = secrets + 1]
  /\ Done(p)
  /\ UNCHANGED <<acct, ident, keys, session, attempts, started, proven, dead>>

ConfirmTotp(p) ==
  /\ At(p, "totp_confirm")
  /\ IF Allowed(Bucket(p)) THEN Goto(p, "read_pending") ELSE Done(p)
  /\ UNCHANGED <<store, started>>

ReadPending(p) ==
  LET secret == pending[A(p)] IN
  /\ At(p, "read_pending")
  /\ \/ secret = 0 /\ Done(p) /\ UNCHANGED proven
     \/ secret # 0 /\ Goto(p, "record") /\ UNCHANGED proven
     \/ /\ secret # 0 /\ req' = [req EXCEPT ![p].pc = "clear", ![p].val = secret]
        /\ proven' = proven \union {secret}
  /\ UNCHANGED <<acct, ident, keys, session, pending, attempts, started, secrets, dead>>

\* Variant of EnableTotp: the secret is fetched again when it is stored.
EnablePending(p) ==
  /\ At(p, "enable")
  /\ Update(p, [acct[A(p)] EXCEPT !.totp = pending[A(p)]])
  /\ Goto(p, "drop_pending")
  /\ UNCHANGED <<ident, keys, session, pending, attempts, started, secrets, proven, dead>>

EnableTotp(p) ==
  /\ At(p, "enable")
  /\ Update(p, [acct[A(p)] EXCEPT !.totp = req[p].val])
  /\ Goto(p, "drop_pending")
  /\ UNCHANGED <<ident, keys, session, pending, attempts, started, secrets, proven, dead>>

DisableTotp(p) ==
  /\ At(p, "totp_disable")
  /\ Update(p, [acct[A(p)] EXCEPT !.totp = 0])
  /\ Goto(p, "drop_pending")
  /\ UNCHANGED <<ident, keys, session, pending, attempts, started, secrets, proven, dead>>

DropPending(p) ==
  /\ At(p, "drop_pending")
  /\ pending' = [pending EXCEPT ![A(p)] = 0]
  /\ Done(p)
  /\ UNCHANGED <<acct, ident, keys, session, attempts, started, secrets, proven, dead>>

-----------------------------------------------------------------------------
(* API keys.  The foreign key refuses a row of an account that is gone.    *)

\* Variant of CreateKey: without the foreign key.
CreateKeyAnyway(p) ==
  /\ At(p, "key_create")
  /\ keys' = keys \union {A(p)}
  /\ Done(p)
  /\ UNCHANGED <<acct, ident, session, pending, attempts, started, secrets, proven, dead>>

CreateKey(p) ==
  /\ At(p, "key_create")
  /\ keys' = keys \union (IF Live(A(p)) THEN {A(p)} ELSE {})
  /\ Done(p)
  /\ UNCHANGED <<acct, ident, session, pending, attempts, started, secrets, proven, dead>>

RevokeKey(p) ==
  /\ At(p, "key_revoke")
  /\ keys' = keys \ {A(p)}
  /\ Done(p)
  /\ UNCHANGED <<acct, ident, session, pending, attempts, started, secrets, proven, dead>>

-----------------------------------------------------------------------------
(* oauth.ts: the identity, else the account of that address, else a new    *)
(* account; then a session that secureFetch upgrades.                      *)

StartOauth(p) ==
  \E v \in Providers : Begin(p, "oauth", "oauth_find", [Idle EXCEPT !.prov = v]) /\ UNCHANGED store

FindIdentity(p) ==
  LET a == ident[req[p].prov] IN
  /\ At(p, "oauth_find")
  /\ IF a # 0 THEN req' = [req EXCEPT ![p].pc = "raw", ![p].id = a] ELSE Goto(p, "oauth_email")
  /\ UNCHANGED <<store, started>>

FindByEmail(p) ==
  /\ At(p, "oauth_email")
  /\ IF TheAccount = {} THEN Goto(p, "oauth_create")
     ELSE \E a \in TheAccount :
            req' = [req EXCEPT ![p].pc = "oauth_linked", ![p].id = a, ![p].val = IF acct[a].verified THEN 1 ELSE 0]
  /\ UNCHANGED <<store, started>>

AfterLink(p) == IF req[p].val = 1 THEN "raw" ELSE "mark"

IsLinked(p) ==
  /\ At(p, "oauth_linked")
  /\ Goto(p, IF ident[req[p].prov] = A(p) THEN AfterLink(p) ELSE "oauth_link")
  /\ UNCHANGED <<store, started>>

OauthCreate(p) ==
  /\ At(p, "oauth_create")
  /\ \/ \E a \in Ids : InsertAccount(p, a, FALSE) /\ req' = [req EXCEPT ![p].pc = "oauth_link", ![p].id = a, ![p].val = 1]
     \/ TheAccount # {} /\ UNCHANGED acct /\ Done(p)
  /\ UNCHANGED <<ident, keys, session, pending, attempts, started, secrets, proven, dead>>

LinkIdentity(p) ==
  /\ At(p, "oauth_link")
  /\ IF ident[req[p].prov] = 0 /\ Live(A(p))
     THEN ident' = [ident EXCEPT ![req[p].prov] = A(p)] /\ Goto(p, AfterLink(p))
     ELSE UNCHANGED ident /\ Done(p)
  /\ UNCHANGED <<acct, keys, session, pending, attempts, started, secrets, proven, dead>>

\* The callback puts the bare account id.
PutRaw(p) ==
  /\ At(p, "raw")
  /\ \E t \in Tokens :
       /\ TokenOf(p, t)
       /\ session' = [session EXCEPT ![t] = [NoSession EXCEPT !.id = A(p)]]
       /\ req' = [req EXCEPT ![p].pc = "envelope", ![p].tok = t]
  /\ UNCHANGED <<acct, ident, keys, pending, attempts, started, secrets, proven, dead>>

\* unlinkOAuthIdentity: is there a password, which identities are there.
ReadUserPassword(p) ==
  /\ At(p, "unlink")
  /\ req' = [req EXCEPT ![p].pc = "unlink_list", ![p].val = IF Live(A(p)) /\ acct[A(p)].byUser THEN 1 ELSE 0]
  /\ UNCHANGED <<store, started>>

ReadIdentities(p) ==
  LET mine == {v \in Providers : ident[v] = A(p)} IN
  /\ At(p, "unlink_list")
  /\ IF req[p].prov \in mine /\ (req[p].val = 1 \/ Cardinality(mine) > 1) THEN Goto(p, "unlink_delete") ELSE Done(p)
  /\ UNCHANGED <<store, started>>

DeleteIdentity(p) ==
  /\ At(p, "unlink_delete")
  /\ ident' = [ident EXCEPT ![req[p].prov] = IF @ = A(p) THEN 0 ELSE @]
  /\ Done(p)
  /\ UNCHANGED <<acct, keys, session, pending, attempts, started, secrets, proven, dead>>

-----------------------------------------------------------------------------
(* Deletion, by the owner after proof of what the account has, or by an    *)
(* administrator.                                                          *)

StartAdminDelete(p) ==
  \E a \in Ids : acct[a].state # "none" /\ Begin(p, "admin_delete", "batch", [Idle EXCEPT !.id = a]) /\ UNCHANGED store

ProveOwner(p) ==
  /\ At(p, "delete")
  /\ (Live(A(p)) /\ Goto(p, "batch")) \/ Done(p)
  /\ UNCHANGED <<store, started>>

DeleteAccount(p) ==
  /\ At(p, "batch")
  /\ acct' = [acct EXCEPT ![A(p)] = [NoAcct EXCEPT !.state = "deleted"]]
  /\ ident' = [v \in Providers |-> IF ident[v] = A(p) THEN 0 ELSE ident[v]]
  /\ keys' = keys \ {A(p)}
  /\ IF req[p].op = "delete" THEN Goto(p, "drop_session") ELSE Done(p)
  /\ UNCHANGED <<session, pending, attempts, started, secrets, proven, dead>>

-----------------------------------------------------------------------------
\* The invocation is evicted between two calls, or one of them fails.
Die(p) == ~At(p, "idle") /\ Done(p) /\ UNCHANGED <<store, started>>

Starts(p) ==
  \/ StartWithSession(p) \/ StartSignup(p) \/ StartVerify(p) \/ StartResetRequest(p) \/ StartReset(p)
  \/ ToggleDisabled(p) \/ StartLogin(p) \/ StartLogout(p) \/ StartOauth(p) \/ StartAdminDelete(p)

Writes(p) ==
  \/ ClearAttempts(p) \/ PutCount(p) \/ Signup(p) \/ MarkVerified(p) \/ SetPassword(p) \/ IssueReset(p)
  \/ ReplacePassword(p) \/ PutSession(p) \/ DropSession(p) \/ SetupTotp(p) \/ EnableTotp(p) \/ DisableTotp(p)
  \/ DropPending(p) \/ CreateKey(p) \/ RevokeKey(p) \/ OauthCreate(p) \/ LinkIdentity(p) \/ PutRaw(p)
  \/ DeleteIdentity(p) \/ DeleteAccount(p)

Reads(p) ==
  \/ Authenticate(p) \/ ReadCount(p) \/ CheckCode(p) \/ Find(p) \/ Reauth(p) \/ ReadEnvelope(p) \/ ConfirmTotp(p)
  \/ ReadPending(p) \/ FindIdentity(p) \/ FindByEmail(p) \/ IsLinked(p) \/ ReadUserPassword(p)
  \/ ReadIdentities(p) \/ ProveOwner(p)

Next ==
  \/ \E p \in Procs : Starts(p) \/ Reads(p) \/ Writes(p) \/ Die(p)
  \/ \E t \in Tokens : Age(t)
  \/ \E b \in Buckets : Forget(b)

Spec == Init /\ [][Next]_vars

-----------------------------------------------------------------------------
Row == [state : {"none", "live", "deleted"}, disabled : BOOLEAN, verified : BOOLEAN, pw : Nat,
        byUser : BOOLEAN, totp : Nat, reset : BOOLEAN]
Envelope == [id : Ids \union {0}, pw : Int, totp : Nat, fresh : BOOLEAN]
Operations == SessionOps \union {"none", "signup", "verify", "reset_request", "reset", "login", "logout", "oauth", "admin_delete"}
Places == SessionOps \union
  {"idle", "auth", "record", "record_put", "clear", "insert", "check", "mark", "issue", "replace", "find", "envelope",
   "put", "raw", "drop_session", "read_pending", "enable", "drop_pending", "oauth_find", "oauth_email", "oauth_linked",
   "oauth_create", "oauth_link", "unlink_list", "unlink_delete", "batch"}
Request == [pc : Places, op : Operations, id : Ids \union {0}, tok : Tokens \union {0}, val : Nat,
            prov : Providers \union {"none"}, ver : [pw : Nat, totp : Nat]]

\* The tables, the KV entries and the locals of the handlers; a request counts
\* for one failed attempt at most, however the reads and puts overlap.
TypeOK ==
  /\ acct \in [Ids -> Row]
  /\ ident \in [Providers -> Ids \union {0}]
  /\ keys \subseteq Ids
  /\ session \in [Tokens -> Envelope]
  /\ pending \in [Ids -> Nat]
  /\ attempts \in [Buckets -> 0..started]
  /\ req \in [Procs -> Request]
  /\ started \in 0..MaxRequests
  /\ secrets \in Nat /\ proven \subseteq Nat /\ dead \subseteq Tokens

\* A second factor is only ever a secret that a code was shown for, however
\* setups, confirmations and retries of one person overlap
\* (auth.ts:254-277).
SecretProven == \A a \in Ids : Live(a) /\ acct[a].totp # 0 => acct[a].totp \in proven

\* A token that a change or a reset of the password left behind never
\* authenticates again, whatever other credentials change later
\* (auth.ts:44-55, 230-252, 279-283).
PasswordChangeRevokes == \A t \in dead : ~Valid(t)

\* One person has one account, however registrations and first OAuth logins
\* overlap (oauth.ts:117-119, the accounts_email_nocase triggers).
OneAccount == Cardinality(TheAccount) <= 1

\* Nothing that lets somebody in outlives its account, even when it is written
\* while the account is being deleted (db.ts:21-41).
NoOrphans ==
  /\ \A v \in Providers : ident[v] # 0 => Live(ident[v])
  /\ \A a \in keys : Live(a)
=============================================================================
