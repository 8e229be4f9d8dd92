--------------------------- MODULE AccountsProofs ---------------------------
(***************************************************************************)
(* The safety of accounts, sessions and the second factor, for any number  *)
(* of requests that run at the same time, of providers, account ids and    *)
(* session tokens.  The inductive invariant has four parts: what the       *)
(* tables promise each other (TablesOK), what a session owes its account   *)
(* (SessionOK), what a request has in hand at each of its steps (ReqOK),   *)
(* and that failed attempts are paid for by requests (CountOK).            *)
(***************************************************************************)
EXTENDS Accounts, FiniteSetTheorems, TLAPS

Kinds ==
  /\ acct \in [Ids -> Row] /\ ident \in [Providers -> Ids \union {0}] /\ keys \subseteq Ids
  /\ session \in [Tokens -> Envelope] /\ pending \in [Ids -> Nat] /\ attempts \in [Buckets -> Nat]
  /\ req \in [Procs -> Request] /\ started \in 0..MaxRequests
  /\ secrets \in Nat /\ proven \subseteq Nat /\ dead \subseteq Tokens

OnlyOne == \A a, b \in Ids : Live(a) /\ Live(b) => a = b

TablesOK == SecretProven /\ OnlyOne /\ NoOrphans

\* A session was made for an account that exists, with a password no newer than
\* the account's; one that a change of password left behind, with an older one.
SessionOK(t) ==
  LET s == session[t] IN
  /\ s.id # 0 => acct[s.id].state # "none" /\ (Live(s.id) => s.pw <= acct[s.id].pw)
  /\ t \in dead => IF s.id = 0 THEN s.pw = -1 ELSE Live(s.id) => s.pw < acct[s.id].pw

\* The operations that come to a step, where it matters.
OpFits(r) ==
  /\ r.pc \in SessionOps => r.op = r.pc
  /\ r.pc = "auth" => r.op \in SessionOps
  /\ r.pc \in {"record", "record_put", "clear"} => r.op \in {"verify", "login", "reauth", "totp_confirm", "reset"}
  /\ r.pc = "check" => r.op = "verify"
  /\ r.pc = "find" => r.op = "login"
  /\ r.pc \in {"read_pending", "enable"} => r.op = "totp_confirm"
  /\ r.pc = "mark" => r.op \in {"verify", "oauth"}
  /\ r.pc \in {"raw", "oauth_find", "oauth_email", "oauth_create", "oauth_linked", "oauth_link"} => r.op = "oauth"
  /\ r.pc \in {"envelope", "put"} => r.op \in {"login", "reauth", "oauth"}

\* Where an account has been found.
Found == SessionOps \union
  {"clear", "check", "mark", "issue", "replace", "envelope", "put", "raw", "read_pending", "enable", "drop_pending",
   "oauth_linked", "oauth_link", "unlink_list", "unlink_delete", "batch"}

ReqOK(r) ==
  /\ OpFits(r)
  /\ r.pc = "auth" => r.tok # 0
  /\ r.pc = "oauth_find" => r.prov \in Providers
  /\ r.pc \in Found => r.id # 0
  /\ r.pc \in {"record", "record_put"} /\ r.op \notin {"login", "reset"} => r.id # 0
  /\ r.id # 0 => acct[r.id].state # "none"
  /\ r.pc = "put" /\ Live(r.id) => r.ver.pw <= acct[r.id].pw
  /\ r.op = "login" => r.tok = 0
  /\ r.op = "oauth" \/ (r.op = "reauth" /\ r.pc # "auth") => r.tok \notin dead
  /\ r.pc = "enable" \/ (r.pc = "clear" /\ r.op = "totp_confirm") => r.val \in proven

\* Every request under way has an attempt to its credit.
Active == {p \in Procs : req[p].pc # "idle"}
CountOK ==
  /\ \A b \in Buckets : attempts[b] + Cardinality(Active) <= started
  /\ \A p \in Procs : At(p, "record_put") => req[p].val + Cardinality(Active) <= started

IInv ==
  /\ Kinds /\ TablesOK /\ CountOK
  /\ \A t \in Tokens : SessionOK(t)
  /\ \A p \in Procs : ReqOK(req[p])

-----------------------------------------------------------------------------
(* What a step may do to the rest.                                         *)

\* Accounts never come back, and their passwords only get newer.
RowsGrow ==
  \A a \in Ids : acct[a].state # "none" =>
    acct'[a].state # "none" /\ (acct'[a].state = "live" => acct[a].state = "live" /\ acct[a].pw <= acct'[a].pw)

\* The tables of accounts, identities and keys stay right.
TablesStep ==
  /\ acct' \in [Ids -> Row] /\ ident' \in [Providers -> Ids \union {0}] /\ keys' \subseteq Ids
  /\ TablesOK' /\ RowsGrow

\* So do the session entries; nobody who is about to renew one finds it dead.
SessionsStep ==
  /\ session' \in [Tokens -> Envelope] /\ dead' \subseteq Tokens
  /\ \A t \in Tokens : SessionOK(t)'
  /\ \A q \in Procs : req[q].op \in {"oauth", "reauth"} => req[q].tok \notin dead' \ dead

\* The other entries, which only requests themselves look at.
OthersStep ==
  /\ pending' \in [Ids -> Nat] /\ secrets' \in Nat /\ proven' \subseteq Nat /\ proven \subseteq proven'

\* A request has nothing in hand that another's step spoils.
LEMMA ReqKept ==
  ASSUME NEW r \in Request, ReqOK(r), acct \in [Ids -> Row], acct' \in [Ids -> Row], RowsGrow, proven \subseteq proven',
         r.op \in {"oauth", "reauth"} => r.tok \notin dead' \ dead
  PROVE  ReqOK(r)'
<1>1. r.id \in Ids \union {0} /\ r.ver.pw \in Nat /\ \A a \in Ids : acct[a].pw \in Nat /\ acct'[a].pw \in Nat
  BY DEF Request, Row
<1>2. OpFits(r)'
  BY DEF ReqOK, OpFits
<1>3. r.id # 0 => /\ acct'[r.id].state # "none"
                  /\ acct'[r.id].state = "live" => acct[r.id].state = "live" /\ acct[r.id].pw <= acct'[r.id].pw
  BY <1>1 DEF ReqOK, RowsGrow
<1>4. r.pc = "put" /\ Live(r.id)' => r.ver.pw <= acct'[r.id].pw
  BY <1>1, <1>3 DEF ReqOK, Live
<1>5. r.op = "oauth" \/ (r.op = "reauth" /\ r.pc # "auth") => r.tok \notin dead'
  BY DEF ReqOK
<1> QED BY <1>2, <1>3, <1>4, <1>5 DEF ReqOK

\* What the handler of a request knows of its own locals.
LEMMA MineHere ==
  ASSUME IInv, NEW p \in Procs
  PROVE  /\ req[p] \in Request /\ ReqOK(req[p])
         /\ req[p].id \in Ids \union {0} /\ req[p].tok \in Tokens \union {0} /\ req[p].val \in Nat
         /\ req[p].prov \in Providers \union {"none"} /\ req[p].op \in Operations
         /\ 0 \notin Ids /\ 0 \notin Tokens /\ Ids \subseteq Nat
BY AccountsAssumption DEF IInv, Kinds, Request, AccountsAssumption

\* Requests are finitely many.
LEMMA ActiveFinite ==
  ASSUME NEW rq PROVE LET S == {p \in Procs : rq[p].pc # "idle"} IN IsFiniteSet(S) /\ Cardinality(S) \in Nat
<1>1. {p \in Procs : rq[p].pc # "idle"} \subseteq Procs /\ IsFiniteSet(Procs)
  BY AccountsAssumption DEF AccountsAssumption
<1> QED BY <1>1, FS_Subset, FS_CardinalityType

\* A request that goes on or ends, while no count grows.
LEMMA CountKept ==
  ASSUME IInv, NEW p \in Procs, NEW r \in Request, req' = [req EXCEPT ![p] = r], req[p].pc # "idle",
         r.pc # "record_put", started' = started, attempts' \in [Buckets -> Nat],
         \A b \in Buckets : attempts'[b] <= attempts[b]
  PROVE  CountOK'
<1>1. req \in [Procs -> Request] /\ attempts \in [Buckets -> Nat] /\ started \in Nat /\ CountOK
  BY AccountsAssumption DEF IInv, Kinds, AccountsAssumption
<1>2. Active' \subseteq Active
  BY <1>1 DEF Active
<1>3. PICK n \in Nat, m \in Nat : n = Cardinality(Active) /\ m = Cardinality(Active') /\ m <= n
  <2>1. IsFiniteSet(Active) /\ Cardinality(Active) \in Nat
    BY ActiveFinite DEF Active
  <2>2. IsFiniteSet(Active') /\ Cardinality(Active') \in Nat /\ Cardinality(Active') <= Cardinality(Active)
    BY <1>2, <2>1, FS_Subset, FS_CardinalityType
  <2> QED BY <2>1, <2>2
<1>4. ASSUME NEW b \in Buckets PROVE attempts'[b] + m <= started
  <2>1. attempts'[b] \in Nat /\ attempts[b] \in Nat /\ attempts'[b] <= attempts[b] /\ attempts[b] + n <= started
    BY <1>1, <1>3 DEF CountOK
  <2> QED BY <1>1, <1>3, <2>1
<1>5. ASSUME NEW q \in Procs, At(q, "record_put")' PROVE req'[q].val + m <= started
  <2>1. q # p
    BY <1>1, <1>5 DEF At
  <2>2. req'[q] = req[q] /\ req[q].val \in Nat
    BY <1>1, <2>1 DEF Request
  <2>3. req[q].val + n <= started
    BY <1>1, <1>3, <1>5, <2>2 DEF CountOK, At
  <2> QED BY <1>1, <1>3, <2>2, <2>3
<1> QED BY <1>3, <1>4, <1>5 DEF CountOK

\* A step of a request that goes on, or ends.
LEMMA StepOf ==
  ASSUME IInv, NEW p \in Procs, NEW r \in Request, req' = [req EXCEPT ![p] = r], started' \in 0..MaxRequests,
         CountOK', attempts' \in [Buckets -> Nat], ReqOK(r)', TablesStep, SessionsStep, OthersStep
  PROVE  IInv'
<1>1. req \in [Procs -> Request]
  BY DEF IInv, Kinds
<1>2. Kinds'
  BY <1>1 DEF Kinds, TablesStep, SessionsStep, OthersStep
<1>3. ASSUME NEW q \in Procs PROVE ReqOK(req[q])'
  <2>1. CASE q = p
    BY <1>1, <2>1
  <2>2. CASE q # p
    <3>1. PICK s : s = req[q]
      OBVIOUS
    <3>2. s \in Request /\ ReqOK(s) /\ req'[q] = s /\ (s.op \in {"oauth", "reauth"} => s.tok \notin dead' \ dead)
      BY <1>1, <2>2, <3>1 DEF IInv, SessionsStep
    <3>3. ReqOK(s)'
      BY <3>2, ReqKept DEF TablesStep, OthersStep, IInv, Kinds
    <3> QED BY <3>2, <3>3
  <2> QED BY <2>1, <2>2
<1> QED BY <1>2, <1>3 DEF IInv, TablesStep, SessionsStep

\* What a step leaves alone stays right.
LEMMA TablesKept ==
  ASSUME IInv, UNCHANGED <<acct, ident, keys>>, proven \subseteq proven'
  PROVE  TablesStep
<1>1. acct' \in [Ids -> Row] /\ ident' \in [Providers -> Ids \union {0}] /\ keys' \subseteq Ids
  BY DEF IInv, Kinds
<1>2. TablesOK'
  BY DEF IInv, TablesOK, SecretProven, OnlyOne, NoOrphans, Live
<1>3. RowsGrow
  BY <1>1 DEF RowsGrow, Row
<1> QED BY <1>1, <1>2, <1>3 DEF TablesStep

\* Rows that only grow spoil no session.
LEMMA SessionsKept ==
  ASSUME IInv, UNCHANGED <<session, dead>>, RowsGrow, acct' \in [Ids -> Row]
  PROVE  SessionsStep
<1>1. ASSUME NEW t \in Tokens PROVE SessionOK(t)'
  <2>1. SessionOK(t) /\ session[t].id \in Ids \union {0} /\ session[t].pw \in Int /\ acct \in [Ids -> Row]
    BY DEF IInv, Kinds, Envelope
  <2>2. \A a \in Ids : acct[a].pw \in Nat /\ acct'[a].pw \in Nat
    BY <2>1 DEF Row
  <2> QED BY <2>1, <2>2 DEF SessionOK, RowsGrow, Live
<1> QED BY <1>1 DEF SessionsStep, IInv, Kinds

\* A request that only reads.
LEMMA ReadStep ==
  ASSUME IInv, NEW p \in Procs, NEW r \in Request, req' = [req EXCEPT ![p] = r], UNCHANGED <<store, started>>,
         req[p].pc # "idle", r.pc # "record_put", ReqOK(r)
  PROVE  IInv'
<1>0. UNCHANGED <<acct, ident, keys, session, pending, attempts, secrets, proven, dead, started>>
  BY DEF store
<1>1. TablesStep
  BY <1>0, TablesKept
<1>2. SessionsStep
  BY <1>0, <1>1, SessionsKept DEF TablesStep
<1>3. OthersStep /\ attempts' \in [Buckets -> Nat] /\ started' \in 0..MaxRequests
  BY <1>0 DEF IInv, Kinds, OthersStep
<1>4. \A b \in Buckets : attempts'[b] <= attempts[b]
  BY <1>0 DEF IInv, Kinds
<1>5. CountOK'
  BY <1>0, <1>3, <1>4, CountKept
<1>6. ReqOK(r)'
  BY <1>0 DEF ReqOK, Live
<1> QED BY <1>1, <1>2, <1>3, <1>5, <1>6, StepOf

\* A request that goes on, and one that is over.
LEMMA GotoReq ==
  ASSUME IInv, NEW p \in Procs, NEW s \in Places, Goto(p, s)
  PROVE  \E r \in Request : /\ req' = [req EXCEPT ![p] = r] /\ r.pc = s /\ r.op = req[p].op /\ r.id = req[p].id
                            /\ r.tok = req[p].tok /\ r.val = req[p].val /\ r.prov = req[p].prov /\ r.ver = req[p].ver
<1>1. req[p] \in Request
  BY MineHere
<1>2. PICK r : r = [req[p] EXCEPT !.pc = s]
  OBVIOUS
<1>3. /\ r \in Request /\ r.pc = s /\ r.op = req[p].op /\ r.id = req[p].id /\ r.tok = req[p].tok
      /\ r.val = req[p].val /\ r.prov = req[p].prov /\ r.ver = req[p].ver
  BY <1>1, <1>2 DEF Request
<1> QED BY <1>2, <1>3 DEF Goto

\* Idle asks for nothing.
LEMMA IdleIs ==
  /\ Idle \in Request /\ Idle.pc = "idle" /\ Idle.op = "none" /\ Idle.id = 0 /\ Idle.tok = 0 /\ Idle.val = 0
  /\ ReqOK(Idle)
<1>1. Idle \in Request /\ Idle.pc = "idle" /\ Idle.op = "none" /\ Idle.id = 0 /\ Idle.tok = 0 /\ Idle.val = 0
  BY DEF Idle, Request, Places, Operations
<1>2. Idle.pc \notin Found /\ Idle.pc \notin SessionOps
  BY <1>1 DEF Found, SessionOps, FreshOps
<1> QED BY <1>1, <1>2 DEF ReqOK, OpFits

\* The end of a request that has only read.
LEMMA DoneStep ==
  ASSUME IInv, NEW p \in Procs, Done(p), UNCHANGED <<store, started>>, req[p].pc # "idle"
  PROVE  IInv'
BY IdleIs, ReadStep DEF Done

-----------------------------------------------------------------------------
(* Requests begin.                                                         *)

\* A request begins: it has an attempt more to its credit.
LEMMA Begun ==
  ASSUME IInv, NEW p \in Procs, NEW op \in Operations, NEW s \in Places \ {"idle", "record_put"}, NEW f \in Request,
         Begin(p, op, s, f), UNCHANGED store,
         \A r \in Request : r.pc = s /\ r.op = op /\ r.id = f.id /\ r.tok = f.tok /\ r.prov = f.prov => ReqOK(r)
  PROVE  IInv'
<1>0. UNCHANGED <<acct, ident, keys, session, pending, attempts, secrets, proven, dead>>
  BY DEF store
<1>1. PICK r : r = [f EXCEPT !.pc = s, !.op = op]
  OBVIOUS
<1>2. r \in Request /\ r.pc = s /\ r.op = op /\ r.id = f.id /\ r.tok = f.tok /\ r.prov = f.prov
      /\ req' = [req EXCEPT ![p] = r]
  BY <1>1 DEF Request, Begin
<1>3. req \in [Procs -> Request] /\ attempts \in [Buckets -> Nat] /\ started \in Nat /\ MaxRequests \in Nat /\ CountOK
  BY AccountsAssumption DEF IInv, Kinds, AccountsAssumption
<1>4. started' = started + 1 /\ started' \in 0..MaxRequests
  BY <1>3 DEF Begin
<1>5. CountOK'
  <2>1. p \notin Active /\ Active' = Active \union {p}
    BY <1>2, <1>3 DEF Active, Begin, At
  <2>2. IsFiniteSet(Active) /\ Cardinality(Active) \in Nat
    BY ActiveFinite DEF Active
  <2>3. Cardinality(Active') = Cardinality(Active) + 1
    BY <2>1, <2>2, FS_AddElement
  <2>4. PICK n \in Nat : n = Cardinality(Active) /\ Cardinality(Active') = n + 1
    BY <2>2, <2>3
  <2>5. ASSUME NEW b \in Buckets PROVE attempts'[b] + (n + 1) <= started'
    <3>1. attempts'[b] \in Nat /\ attempts'[b] + n <= started
      BY <1>0, <1>3, <2>4 DEF CountOK
    <3> QED BY <1>3, <1>4, <3>1
  <2>6. ASSUME NEW q \in Procs, At(q, "record_put")' PROVE req'[q].val + (n + 1) <= started'
    <3>1. q # p
      BY <1>2, <1>3, <2>6 DEF At
    <3>2. req'[q] = req[q] /\ req[q].val \in Nat
      BY <1>2, <1>3, <3>1 DEF Request
    <3>3. req[q].val + n <= started
      BY <1>3, <2>4, <2>6, <3>2 DEF CountOK, At
    <3> QED BY <1>3, <1>4, <3>2, <3>3
  <2> QED BY <2>4, <2>5, <2>6 DEF CountOK
<1>6. TablesStep
  BY <1>0, TablesKept
<1>7. SessionsStep
  BY <1>0, <1>6, SessionsKept DEF TablesStep
<1>8. OthersStep /\ attempts' \in [Buckets -> Nat]
  BY <1>0 DEF IInv, Kinds, OthersStep
<1>9. ReqOK(r)'
  <2>1. ReqOK(r)
    BY <1>2
  <2> QED BY <1>0, <2>1 DEF ReqOK, Live
<1> QED BY <1>2, <1>4, <1>5, <1>6, <1>7, <1>8, <1>9, StepOf

\* With a session: nothing is known of it yet.
LEMMA StartWithSessionStep ==
  ASSUME IInv, NEW p \in Procs, StartWithSession(p)
  PROVE  IInv'
<1>1. PICK op \in SessionOps, t \in Tokens, v \in Providers :
        Begin(p, op, "auth", [Idle EXCEPT !.tok = t, !.prov = v]) /\ UNCHANGED store
  BY DEF StartWithSession
<1>2. PICK f : f = [Idle EXCEPT !.tok = t, !.prov = v]
  OBVIOUS
<1>3. f \in Request /\ f.id = 0 /\ f.tok = t /\ t # 0
  <2>1. t # 0
    BY MineHere
  <2> QED BY <1>2, <2>1, IdleIs DEF Request
<1>4. ASSUME NEW r \in Request, r.pc = "auth", r.op = op, r.id = f.id, r.tok = f.tok PROVE ReqOK(r)
  <2>1. op \notin {"login", "oauth"} /\ "auth" \notin Found /\ "auth" \notin SessionOps
    BY DEF SessionOps, FreshOps, Found
  <2> QED BY <1>3, <1>4, <2>1 DEF ReqOK, OpFits
<1>5. op \in Operations /\ "auth" \in Places \ {"idle", "record_put"}
  BY DEF Operations, Places, SessionOps, FreshOps
<1>6. Begin(p, op, "auth", f)
  BY <1>1, <1>2
<1> QED BY <1>1, <1>3, <1>4, <1>5, <1>6, Begun

\* For an account that was found, or without one.
LEMMA StartStep ==
  ASSUME IInv, NEW p \in Procs,
         \/ StartSignup(p) \/ StartVerify(p) \/ StartResetRequest(p) \/ StartReset(p)
         \/ StartLogin(p) \/ StartLogout(p) \/ StartOauth(p) \/ StartAdminDelete(p)
  PROVE  IInv'
<1>0. UNCHANGED store
  BY DEF StartSignup, StartVerify, StartResetRequest, StartReset, StartLogin, StartLogout, StartOauth, StartAdminDelete
<1>1. 0 \notin dead /\ 0 \notin Ids
  BY MineHere DEF IInv, Kinds
<1>2. ASSUME NEW op \in Operations, NEW s \in Places \ {"idle", "record_put"}, Begin(p, op, s, Idle),
             <<op, s>> \in {<<"signup", "insert">>, <<"login", "find">>}
      PROVE  IInv'
  <2>1. ASSUME NEW r \in Request, r.pc = s, r.op = op, r.id = Idle.id, r.tok = Idle.tok PROVE ReqOK(r)
    <3>1. s \notin Found /\ s \notin SessionOps /\ r.id = 0 /\ r.tok = 0
      BY <1>2, <2>1, IdleIs DEF Found, SessionOps, FreshOps
    <3> QED BY <1>2, <2>1, <3>1 DEF ReqOK, OpFits
  <2> QED BY <1>0, <1>2, <2>1, IdleIs, Begun
<1>3. ASSUME NEW op \in Operations, NEW s \in Places \ {"idle", "record_put"}, NEW a \in Ids, acct[a].state # "none",
             Begin(p, op, s, [Idle EXCEPT !.id = a]),
             <<op, s>> \in {<<"verify", "check">>, <<"reset_request", "issue">>, <<"reset", "clear">>, <<"admin_delete", "batch">>}
      PROVE  IInv'
  <2>1. PICK f : f = [Idle EXCEPT !.id = a]
    OBVIOUS
  <2>2. f \in Request /\ f.id = a
    BY <2>1, IdleIs DEF Request
  <2>3. ASSUME NEW r \in Request, r.pc = s, r.op = op, r.id = f.id PROVE ReqOK(r)
    <3>1. s \notin SessionOps /\ s \notin {"put", "enable"} /\ op \notin {"login", "oauth", "reauth", "totp_confirm"}
      BY <1>3 DEF SessionOps, FreshOps
    <3> QED BY <1>1, <1>3, <2>2, <2>3, <3>1 DEF ReqOK, OpFits
  <2>4. Begin(p, op, s, f)
    BY <1>3, <2>1
  <2> QED BY <1>0, <2>2, <2>3, <2>4, Begun
<1>4. {"insert", "find", "check", "issue", "clear", "batch", "drop_session", "oauth_find"} \subseteq Places \ {"idle", "record_put"}
  BY DEF Places
<1>5. {"signup", "login", "verify", "reset_request", "reset", "admin_delete", "logout", "oauth"} \subseteq Operations
  BY DEF Operations
<1>6. CASE StartSignup(p) \/ StartLogin(p)
  BY <1>2, <1>4, <1>5, <1>6 DEF StartSignup, StartLogin
<1>7. CASE StartVerify(p) \/ StartAdminDelete(p)
  BY <1>3, <1>4, <1>5, <1>7 DEF StartVerify, StartAdminDelete
<1>8. CASE StartResetRequest(p) \/ StartReset(p)
  <2>1. \A a \in TheAccount : a \in Ids /\ acct[a].state # "none"
    BY DEF TheAccount, Live
  <2> QED BY <1>3, <1>4, <1>5, <1>8, <2>1 DEF StartResetRequest, StartReset
<1>9. CASE StartLogout(p)
  <2>1. PICK t \in Tokens : Begin(p, "logout", "drop_session", [Idle EXCEPT !.tok = t])
    BY <1>9 DEF StartLogout
  <2>2. PICK f : f = [Idle EXCEPT !.tok = t]
    OBVIOUS
  <2>3. f \in Request /\ f.id = 0
    BY <2>2, IdleIs DEF Request
  <2>4. ASSUME NEW r \in Request, r.pc = "drop_session", r.op = "logout", r.id = f.id PROVE ReqOK(r)
    <3>1. "drop_session" \notin Found /\ "drop_session" \notin SessionOps
      BY DEF Found, SessionOps, FreshOps
    <3> QED BY <2>3, <2>4, <3>1 DEF ReqOK, OpFits
  <2>5. Begin(p, "logout", "drop_session", f) /\ "logout" \in Operations /\ "drop_session" \in Places \ {"idle", "record_put"}
    BY <1>4, <1>5, <2>1, <2>2
  <2> QED BY <1>0, <2>3, <2>4, <2>5, Begun
<1>10. CASE StartOauth(p)
  <2>1. PICK v \in Providers : Begin(p, "oauth", "oauth_find", [Idle EXCEPT !.prov = v])
    BY <1>10 DEF StartOauth
  <2>2. PICK f : f = [Idle EXCEPT !.prov = v]
    OBVIOUS
  <2>3. f \in Request /\ f.id = 0 /\ f.tok = 0 /\ f.prov = v
    BY <2>2, IdleIs DEF Request
  <2>4. ASSUME NEW r \in Request, r.pc = "oauth_find", r.op = "oauth", r.id = f.id, r.tok = f.tok, r.prov = f.prov PROVE ReqOK(r)
    <3>1. "oauth_find" \notin Found /\ "oauth_find" \notin SessionOps
      BY DEF Found, SessionOps, FreshOps
    <3> QED BY <1>1, <2>3, <2>4, <3>1 DEF ReqOK, OpFits
  <2>5. Begin(p, "oauth", "oauth_find", f) /\ "oauth" \in Operations /\ "oauth_find" \in Places \ {"idle", "record_put"}
    BY <1>4, <1>5, <2>1, <2>2
  <2> QED BY <1>0, <2>3, <2>4, <2>5, Begun
<1> QED BY <1>6, <1>7, <1>8, <1>9, <1>10

-----------------------------------------------------------------------------
(* Requests read.                                                          *)

\* The same request, one step on.
Same(r, q) == r.op = q.op /\ r.id = q.id /\ r.tok = q.tok /\ r.val = q.val /\ r.prov = q.prov /\ r.ver = q.ver

\* A request goes on and keeps all it has in hand.
LEMMA GotoStep ==
  ASSUME IInv, NEW p \in Procs, NEW s \in Places \ {"idle", "record_put"}, Goto(p, s), UNCHANGED <<store, started>>,
         req[p].pc # "idle", \A r \in Request : r.pc = s /\ Same(r, req[p]) => ReqOK(r)
  PROVE  IInv'
<1>1. PICK r \in Request : /\ req' = [req EXCEPT ![p] = r] /\ r.pc = s /\ Same(r, req[p])
  BY GotoReq DEF Same
<1> QED BY <1>1, ReadStep

\* A valid session was not left behind by a change of password.
LEMMA ValidIs ==
  ASSUME IInv, NEW t \in Tokens, Valid(t)
  PROVE  session[t].id \in Ids /\ Live(session[t].id) /\ t \notin dead
<1>1. SessionOK(t) /\ session[t] \in Envelope /\ acct \in [Ids -> Row]
  BY DEF IInv, Kinds
<1>2. session[t].id \in Ids /\ Live(session[t].id)
  BY <1>1 DEF Valid, Live, Envelope
<1>3. Version(session[t].id) = [pw |-> session[t].pw, totp |-> session[t].totp]
  BY DEF Valid
<1>4. session[t].pw = acct[session[t].id].pw
  <2>1. Version(session[t].id).pw = acct[session[t].id].pw
    BY DEF Version
  <2>2. Version(session[t].id).pw = session[t].pw
    BY <1>3
  <2> QED BY <2>1, <2>2
<1>5. acct[session[t].id].pw \in Nat /\ session[t].id # 0
  BY <1>1, <1>2 DEF Row, Live
<1> QED BY <1>1, <1>2, <1>4, <1>5 DEF SessionOK

\* A session that is valid names a live account; a dead one leads nowhere.
LEMMA AuthenticateStep ==
  ASSUME IInv, NEW p \in Procs, Authenticate(p)
  PROVE  IInv'
<1>0. req[p].pc = "auth" /\ UNCHANGED <<store, started>>
  BY DEF Authenticate, At
<1>1. CASE ~Valid(req[p].tok)
  BY <1>0, <1>1, DoneStep DEF Authenticate
<1>2. CASE Valid(req[p].tok)
  <2>1. req[p] \in Request /\ ReqOK(req[p]) /\ req[p].op \in SessionOps
    BY <1>0, MineHere DEF ReqOK, OpFits
  <2>2. req[p].tok \in Tokens
    BY <1>0, <2>1, MineHere DEF ReqOK
  <2>3. PICK a \in Ids : a = session[req[p].tok].id /\ Live(a) /\ req[p].tok \notin dead
    BY <1>2, <2>2, ValidIs
  <2>4. PICK r : r = [req[p] EXCEPT !.pc = req[p].op, !.id = a]
    OBVIOUS
  <2>5. r \in Request /\ r.pc = req[p].op /\ r.op = req[p].op /\ r.id = a /\ r.tok = req[p].tok
    BY <2>1, <2>4 DEF Request, Places
  <2>6. req' = [req EXCEPT ![p] = r]
    BY <1>2, <2>3, <2>4 DEF Authenticate
  <2>7. r.op \in SessionOps /\ r.op \notin {"login", "oauth", "idle", "record_put"}
    BY <2>1, <2>5 DEF SessionOps, FreshOps
  <2>8. ReqOK(r)
    <3>1. a # 0 /\ acct[a].state # "none"
      BY <2>3 DEF Live
    <3> QED BY <2>3, <2>5, <2>7, <3>1 DEF ReqOK, OpFits, SessionOps, FreshOps
  <2> QED BY <1>0, <2>5, <2>6, <2>7, <2>8, ReadStep
<1> QED BY <1>1, <1>2

\* A request that counts its failure counts it in one of the limited buckets.
LEMMA BucketIs ==
  ASSUME IInv, NEW p \in Procs, req[p].pc \in {"record", "record_put", "clear"}
  PROVE  Bucket(p) \in Buckets
<1>1. /\ req[p].op \in {"verify", "login", "reauth", "totp_confirm", "reset"}
      /\ req[p].op \notin {"login", "reset"} => req[p].id # 0
      /\ req[p].id \in Ids \union {0}
  BY MineHere DEF ReqOK, OpFits, Found
<1>2. CASE req[p].op \in {"login", "reset"}
  BY <1>2 DEF Bucket, Buckets
<1>3. CASE req[p].op \in {"verify", "reauth", "totp_confirm"}
  <2>1. req[p].id \in Ids /\ req[p].op \notin {"login", "reset"}
    BY <1>1, <1>3
  <2>2. Bucket(p) = <<req[p].op, req[p].id>>
    BY <2>1 DEF Bucket, A
  <2> QED BY <1>3, <2>1, <2>2 DEF Buckets
<1> QED BY <1>1, <1>2, <1>3

\* The count a request reads leaves room for the failure it will add.
LEMMA ReadCountStep ==
  ASSUME IInv, NEW p \in Procs, ReadCount(p)
  PROVE  IInv'
<1>0. req[p].pc = "record" /\ UNCHANGED <<acct, ident, keys, session, pending, attempts, secrets, proven, dead, started>>
  BY DEF ReadCount, At, store
<1>1. /\ req \in [Procs -> Request] /\ attempts \in [Buckets -> Nat] /\ CountOK /\ Bucket(p) \in Buckets
      /\ req[p] \in Request /\ ReqOK(req[p]) /\ started \in Nat
  BY <1>0, BucketIs, MineHere, AccountsAssumption DEF IInv, Kinds, AccountsAssumption
<1>2. PICK n \in Nat : n = attempts[Bucket(p)]
  BY <1>1
<1>3. PICK r : r = [req[p] EXCEPT !.pc = "record_put", !.val = n]
  OBVIOUS
<1>4. /\ r \in Request /\ r.pc = "record_put" /\ r.op = req[p].op /\ r.id = req[p].id /\ r.tok = req[p].tok /\ r.val = n
      /\ req' = [req EXCEPT ![p] = r]
  BY <1>1, <1>2, <1>3 DEF Request, Places, ReadCount
<1>5. Active' = Active
  BY <1>0, <1>1, <1>4 DEF Active
<1>6. PICK m \in Nat : m = Cardinality(Active)
  BY ActiveFinite DEF Active
<1>7. ASSUME NEW q \in Procs, At(q, "record_put")' PROVE req'[q].val + m <= started
  <2>1. CASE q = p
    BY <1>1, <1>2, <1>4, <1>6, <2>1 DEF CountOK
  <2>2. CASE q # p
    BY <1>1, <1>4, <1>6, <1>7, <2>2 DEF CountOK, At
  <2> QED BY <2>1, <2>2
<1>8. CountOK'
  BY <1>0, <1>1, <1>5, <1>6, <1>7 DEF CountOK
<1>9. ReqOK(r)
  <2>1. "record_put" \notin Found /\ "record_put" \notin SessionOps
    BY DEF Found, SessionOps, FreshOps
  <2> QED BY <1>0, <1>1, <1>4, <2>1 DEF ReqOK, OpFits
<1>10. ReqOK(r)'
  BY <1>0, <1>9 DEF ReqOK, Live
<1>11. TablesStep
  BY <1>0, TablesKept
<1>12. SessionsStep
  BY <1>0, <1>11, SessionsKept DEF TablesStep
<1>13. OthersStep /\ attempts' \in [Buckets -> Nat] /\ started' \in 0..MaxRequests
  BY <1>0 DEF IInv, Kinds, OthersStep
<1> QED BY <1>4, <1>8, <1>10, <1>11, <1>12, <1>13, StepOf

\* Steps of one account: what its request had found is still there.
LEMMA ChecksStep ==
  ASSUME IInv, NEW p \in Procs, CheckCode(p) \/ Reauth(p) \/ ConfirmTotp(p) \/ ProveOwner(p) \/ ReadIdentities(p)
  PROVE  IInv'
<1>0. UNCHANGED <<store, started>> /\ req[p].pc \in {"check", "reauth", "totp_confirm", "delete", "unlink_list"}
  BY DEF CheckCode, Reauth, ConfirmTotp, ProveOwner, ReadIdentities, At
<1>1. CASE Done(p)
  BY <1>0, <1>1, DoneStep
<1>2. /\ ReqOK(req[p]) /\ req[p].id # 0
      /\ req[p].pc = "check" => req[p].op = "verify"
      /\ req[p].pc \in {"reauth", "totp_confirm", "delete"} => req[p].op = req[p].pc
  BY <1>0, MineHere DEF ReqOK, OpFits, Found, SessionOps, FreshOps
<1>3. ASSUME NEW s \in {"mark", "record", "clear", "read_pending", "batch", "unlink_delete"}, Goto(p, s),
             s = "mark" => req[p].pc = "check", s = "clear" => req[p].pc = "reauth",
             s = "record" => req[p].pc \in {"check", "reauth"}, s = "read_pending" => req[p].pc = "totp_confirm"
      PROVE  IInv'
  <2>1. s \in Places \ {"idle", "record_put"} /\ s \notin SessionOps
    BY DEF Places, SessionOps, FreshOps
  <2>2. ASSUME NEW r \in Request, r.pc = s, Same(r, req[p]) PROVE ReqOK(r)
    <3>1. OpFits(r)
      BY <1>2, <1>3, <2>1, <2>2 DEF OpFits, Same
    <3>2. r.op = "reauth" => req[p].pc \in {"reauth", "unlink_list"}
      BY <1>0, <1>2, <2>2 DEF Same
    <3>3. r.pc = "clear" => r.op # "totp_confirm"
      BY <1>2, <1>3, <2>2 DEF Same
    <3> QED BY <1>0, <1>2, <1>3, <2>2, <3>1, <3>2, <3>3 DEF ReqOK, Same
  <2> QED BY <1>0, <1>3, <2>1, <2>2, GotoStep
<1>4. CASE CheckCode(p)
  BY <1>3, <1>4 DEF CheckCode, At
<1>5. CASE Reauth(p)
  BY <1>1, <1>3, <1>5 DEF Reauth, At
<1>6. CASE ConfirmTotp(p)
  BY <1>1, <1>3, <1>6 DEF ConfirmTotp, At
<1>7. CASE ProveOwner(p)
  BY <1>1, <1>3, <1>7 DEF ProveOwner, At
<1>8. CASE ReadIdentities(p)
  BY <1>1, <1>3, <1>8 DEF ReadIdentities, At
<1> QED BY <1>4, <1>5, <1>6, <1>7, <1>8

\* The password was right: the account is live.
LEMMA FindStep ==
  ASSUME IInv, NEW p \in Procs, Find(p)
  PROVE  IInv'
<1>0. UNCHANGED <<store, started>> /\ req[p].pc = "find" /\ req[p] \in Request /\ ReqOK(req[p]) /\ req[p].op = "login"
  BY MineHere DEF Find, At, ReqOK, OpFits
<1>1. ASSUME NEW a \in TheAccount, req' = [req EXCEPT ![p].pc = "clear", ![p].id = a] PROVE IInv'
  <2>1. PICK r : r = [req[p] EXCEPT !.pc = "clear", !.id = a]
    OBVIOUS
  <2>2. a \in Ids /\ a # 0 /\ acct[a].state # "none"
    BY DEF TheAccount, Live
  <2>3. r \in Request /\ r.pc = "clear" /\ r.op = "login" /\ r.id = a /\ r.tok = req[p].tok /\ req' = [req EXCEPT ![p] = r]
    BY <1>0, <1>1, <2>1, <2>2 DEF Request, Places
  <2>4. ReqOK(r)
    <3>1. "clear" \notin SessionOps
      BY DEF SessionOps, FreshOps
    <3> QED BY <1>0, <2>2, <2>3, <3>1 DEF ReqOK, OpFits
  <2> QED BY <1>0, <2>3, <2>4, ReadStep
<1>2. CASE Goto(p, "record")
  <2>1. "record" \in Places \ {"idle", "record_put"} /\ "record" \notin SessionOps /\ "record" \notin Found
    BY DEF Places, SessionOps, FreshOps, Found
  <2>2. ASSUME NEW r \in Request, r.pc = "record", Same(r, req[p]) PROVE ReqOK(r)
    BY <1>0, <2>1, <2>2 DEF ReqOK, OpFits, Same
  <2> QED BY <1>0, <1>2, <2>1, <2>2, GotoStep
<1>3. CASE Done(p)
  BY <1>0, <1>3, DoneStep
<1> QED BY <1>1, <1>2, <1>3 DEF Find

\* The envelope is one of the account's credentials of this moment.
LEMMA ReadEnvelopeStep ==
  ASSUME IInv, NEW p \in Procs, ReadEnvelope(p)
  PROVE  IInv'
<1>0. /\ UNCHANGED <<store, started>> /\ req[p].pc = "envelope" /\ req[p] \in Request /\ ReqOK(req[p])
      /\ req[p].op \in {"login", "reauth", "oauth"} /\ req[p].id \in Ids /\ acct \in [Ids -> Row]
  BY MineHere DEF ReadEnvelope, At, ReqOK, OpFits, Found, IInv, Kinds
<1>1. CASE Live(A(p)) /\ ~acct[A(p)].disabled
  <2>1. PICK v : v = Version(req[p].id)
    OBVIOUS
  <2>2. v \in [pw : Nat, totp : Nat] /\ v.pw = acct[req[p].id].pw
    BY <1>0, <2>1 DEF Version, Row
  <2>3. PICK r : r = [req[p] EXCEPT !.pc = "put", !.ver = v]
    OBVIOUS
  <2>4. /\ r \in Request /\ r.pc = "put" /\ r.op = req[p].op /\ r.id = req[p].id /\ r.tok = req[p].tok /\ r.ver = v
        /\ req' = [req EXCEPT ![p] = r]
    BY <1>0, <1>1, <2>1, <2>2, <2>3 DEF Request, Places, ReadEnvelope, A
  <2>5. acct[req[p].id].pw \in Nat
    BY <1>0 DEF Row
  <2>6. ReqOK(r)
    <3>1. "put" \notin SessionOps
      BY DEF SessionOps, FreshOps
    <3> QED BY <1>0, <2>2, <2>4, <2>5, <3>1 DEF ReqOK, OpFits, Found
  <2> QED BY <1>0, <2>4, <2>6, ReadStep
<1>2. CASE Done(p)
  BY <1>0, <1>2, DoneStep
<1>3. CASE Goto(p, "drop_session")
  <2>1. "drop_session" \in Places \ {"idle", "record_put"} /\ "drop_session" \notin SessionOps /\ "drop_session" \notin Found
    BY DEF Places, SessionOps, FreshOps, Found
  <2>2. ASSUME NEW r \in Request, r.pc = "drop_session", Same(r, req[p]) PROVE ReqOK(r)
    BY <1>0, <2>1, <2>2 DEF ReqOK, OpFits, Same
  <2> QED BY <1>0, <1>3, <2>1, <2>2, GotoStep
<1> QED BY <1>1, <1>2, <1>3 DEF ReadEnvelope

\* The code proves the secret the request has in hand.
LEMMA ReadPendingStep ==
  ASSUME IInv, NEW p \in Procs, ReadPending(p)
  PROVE  IInv'
<1>0. /\ UNCHANGED <<acct, ident, keys, session, pending, attempts, secrets, dead, started>>
      /\ req[p].pc = "read_pending" /\ req[p] \in Request /\ ReqOK(req[p])
      /\ req[p].op = "totp_confirm" /\ req[p].id \in Ids /\ req[p].id # 0 /\ pending \in [Ids -> Nat] /\ proven \subseteq Nat
  BY MineHere DEF ReadPending, At, ReqOK, OpFits, Found, IInv, Kinds
<1>1. CASE Done(p) /\ UNCHANGED proven
  BY <1>0, <1>1, DoneStep DEF store
<1>2. CASE Goto(p, "record") /\ UNCHANGED proven
  <2>1. "record" \in Places \ {"idle", "record_put"} /\ "record" \notin SessionOps /\ "record" \notin Found
    BY DEF Places, SessionOps, FreshOps, Found
  <2>2. ASSUME NEW r \in Request, r.pc = "record", Same(r, req[p]) PROVE ReqOK(r)
    BY <1>0, <2>1, <2>2 DEF ReqOK, OpFits, Same
  <2> QED BY <1>0, <1>2, <2>1, <2>2, GotoStep DEF store
<1>3. ASSUME req' = [req EXCEPT ![p].pc = "clear", ![p].val = pending[A(p)]], proven' = proven \union {pending[A(p)]}
      PROVE  IInv'
  <2>1. PICK secret \in Nat : secret = pending[A(p)]
    BY <1>0 DEF A
  <2>2. PICK r : r = [req[p] EXCEPT !.pc = "clear", !.val = secret]
    OBVIOUS
  <2>3. /\ r \in Request /\ r.pc = "clear" /\ r.op = "totp_confirm" /\ r.id = req[p].id /\ r.tok = req[p].tok /\ r.val = secret
        /\ req' = [req EXCEPT ![p] = r]
    BY <1>0, <1>3, <2>1, <2>2 DEF Request, Places
  <2>4. proven' \subseteq Nat /\ proven \subseteq proven' /\ secret \in proven'
    BY <1>0, <1>3, <2>1
  <2>5. ReqOK(r)'
    <3>1. "clear" \notin SessionOps
      BY DEF SessionOps, FreshOps
    <3> QED BY <1>0, <2>3, <2>4, <3>1 DEF ReqOK, OpFits, Found
  <2>6. TablesStep
    BY <1>0, <2>4, TablesKept
  <2>7. SessionsStep
    BY <1>0, <2>6, SessionsKept DEF TablesStep
  <2>8. OthersStep /\ attempts' \in [Buckets -> Nat] /\ started' \in 0..MaxRequests
    BY <1>0, <2>4 DEF IInv, Kinds, OthersStep
  <2>9. \A b \in Buckets : attempts'[b] <= attempts[b]
    BY <1>0 DEF IInv, Kinds
  <2>10. CountOK'
    BY <1>0, <2>3, <2>8, <2>9, CountKept
  <2> QED BY <2>3, <2>5, <2>6, <2>7, <2>8, <2>10, StepOf
<1> QED BY <1>1, <1>2, <1>3 DEF ReadPending

\* The account behind an identity, or of the address.
LEMMA OauthReads ==
  ASSUME IInv, NEW p \in Procs, FindIdentity(p) \/ FindByEmail(p) \/ IsLinked(p)
  PROVE  IInv'
<1>0. /\ UNCHANGED <<store, started>> /\ req[p].pc \in {"oauth_find", "oauth_email", "oauth_linked"}
      /\ req[p] \in Request /\ ReqOK(req[p]) /\ req[p].op = "oauth" /\ req[p].tok \notin dead
      /\ ident \in [Providers -> Ids \union {0}] /\ NoOrphans
  BY MineHere DEF FindIdentity, FindByEmail, IsLinked, At, ReqOK, OpFits, IInv, Kinds, TablesOK
<1>1. {"raw", "mark", "oauth_email", "oauth_create", "oauth_linked", "oauth_link"} \subseteq Places \ {"idle", "record_put"}
  BY DEF Places
<1>2. ASSUME NEW r \in Request, r.op = "oauth", r.tok = req[p].tok, r.id \in Ids \union {0}, r.id # 0 => acct[r.id].state # "none",
             (r.pc \in {"raw", "mark", "oauth_linked", "oauth_link"} /\ r.id # 0) \/ r.pc \in {"oauth_email", "oauth_create"}
      PROVE  ReqOK(r)
  <2>1. r.pc \notin SessionOps /\ "oauth_email" \notin Found /\ "oauth_create" \notin Found
    BY <1>2 DEF SessionOps, FreshOps, Found
  <2> QED BY <1>0, <1>2, <2>1 DEF ReqOK, OpFits
<1>3. CASE FindIdentity(p)
  <2>1. PICK a \in Ids \union {0} \union {ident[req[p].prov]} : a = ident[req[p].prov]
    OBVIOUS
  <2>2. CASE req[p].prov \in Providers /\ a # 0
    <3>1. a \in Ids /\ acct[a].state # "none"
      BY <1>0, <2>1, <2>2 DEF NoOrphans, Live
    <3>2. PICK r : r = [req[p] EXCEPT !.pc = "raw", !.id = a]
      OBVIOUS
    <3>3. r \in Request /\ r.pc = "raw" /\ r.op = "oauth" /\ r.id = a /\ r.tok = req[p].tok /\ req' = [req EXCEPT ![p] = r]
      BY <1>0, <1>1, <1>3, <2>1, <2>2, <3>1, <3>2 DEF Request, FindIdentity
    <3>4. ReqOK(r)
      BY <1>2, <2>2, <3>1, <3>3
    <3> QED BY <1>0, <3>3, <3>4, ReadStep
  <2>3. CASE a = 0
    <3>1. Goto(p, "oauth_email")
      BY <1>3, <2>1, <2>3 DEF FindIdentity
    <3>2. ASSUME NEW r \in Request, r.pc = "oauth_email", Same(r, req[p]) PROVE ReqOK(r)
      BY <1>0, <1>2, <3>2 DEF Same, ReqOK, Request
    <3> QED BY <1>0, <1>1, <3>1, <3>2, GotoStep
  <2>4. req[p].prov \in Providers
    BY <1>0, <1>3 DEF ReqOK, FindIdentity, At
  <2> QED BY <2>1, <2>2, <2>3, <2>4
<1>4. CASE FindByEmail(p)
  <2>1. CASE TheAccount = {}
    <3>1. Goto(p, "oauth_create")
      BY <1>4, <2>1 DEF FindByEmail
    <3>2. ASSUME NEW r \in Request, r.pc = "oauth_create", Same(r, req[p]) PROVE ReqOK(r)
      BY <1>0, <1>2, <3>2 DEF Same, ReqOK, Request
    <3> QED BY <1>0, <1>1, <3>1, <3>2, GotoStep
  <2>2. CASE TheAccount # {}
    <3>1. PICK a \in TheAccount :
            req' = [req EXCEPT ![p].pc = "oauth_linked", ![p].id = a, ![p].val = IF acct[a].verified THEN 1 ELSE 0]
      BY <1>4, <2>2 DEF FindByEmail
    <3>2. a \in Ids /\ acct[a].state # "none" /\ a # 0
      BY DEF TheAccount, Live
    <3>3. PICK n \in Nat : n = IF acct[a].verified THEN 1 ELSE 0
      OBVIOUS
    <3>4. PICK r : r = [req[p] EXCEPT !.pc = "oauth_linked", !.id = a, !.val = n]
      OBVIOUS
    <3>5. r \in Request /\ r.pc = "oauth_linked" /\ r.op = "oauth" /\ r.id = a /\ r.tok = req[p].tok /\ req' = [req EXCEPT ![p] = r]
      BY <1>0, <1>1, <3>1, <3>2, <3>3, <3>4 DEF Request
    <3>6. ReqOK(r)
      BY <1>2, <3>2, <3>5
    <3> QED BY <1>0, <3>5, <3>6, ReadStep
  <2> QED BY <2>1, <2>2
<1>5. CASE IsLinked(p)
  <2>1. PICK s : s = IF ident[req[p].prov] = A(p) THEN AfterLink(p) ELSE "oauth_link"
    OBVIOUS
  <2>2. s \in {"raw", "mark", "oauth_link"} /\ Goto(p, s)
    BY <1>5, <2>1 DEF IsLinked, AfterLink
  <2>3. req[p].id \in Ids /\ req[p].id # 0 /\ acct[req[p].id].state # "none"
    BY <1>5, MineHere DEF ReqOK, IsLinked, At, Found
  <2>4. ASSUME NEW r \in Request, r.pc = s, Same(r, req[p]) PROVE ReqOK(r)
    BY <1>0, <1>2, <2>2, <2>3, <2>4 DEF Same
  <2> QED BY <1>0, <1>1, <2>2, <2>4, GotoStep
<1> QED BY <1>3, <1>4, <1>5

\* Is there a password of the user's own.
LEMMA ReadUserPasswordStep ==
  ASSUME IInv, NEW p \in Procs, ReadUserPassword(p)
  PROVE  IInv'
<1>0. UNCHANGED <<store, started>> /\ req[p].pc = "unlink" /\ req[p] \in Request /\ ReqOK(req[p])
  BY MineHere DEF ReadUserPassword, At
<1>1. req[p].op = "unlink" /\ req[p].id # 0
  BY <1>0 DEF ReqOK, OpFits, SessionOps, FreshOps, Found
<1>2. PICK n \in Nat : n = IF Live(A(p)) /\ acct[A(p)].byUser THEN 1 ELSE 0
  OBVIOUS
<1>3. PICK r : r = [req[p] EXCEPT !.pc = "unlink_list", !.val = n]
  OBVIOUS
<1>4. r \in Request /\ r.pc = "unlink_list" /\ r.op = "unlink" /\ r.id = req[p].id /\ req' = [req EXCEPT ![p] = r]
  BY <1>0, <1>1, <1>2, <1>3 DEF Request, Places, ReadUserPassword
<1>5. ReqOK(r)
  <2>1. "unlink_list" \notin SessionOps
    BY DEF SessionOps, FreshOps
  <2> QED BY <1>0, <1>1, <1>4, <2>1 DEF ReqOK, OpFits, Found
<1> QED BY <1>0, <1>4, <1>5, ReadStep

-----------------------------------------------------------------------------
(* Requests write.                                                         *)

\* A write with which the request goes on.
LEMMA WriteStep ==
  ASSUME IInv, NEW p \in Procs, NEW r \in Request, req' = [req EXCEPT ![p] = r], req[p].pc # "idle", r.pc # "record_put",
         UNCHANGED <<started, attempts>>, ReqOK(r)', TablesStep, SessionsStep, OthersStep
  PROVE  IInv'
<1>1. attempts' \in [Buckets -> Nat] /\ started' \in 0..MaxRequests /\ \A b \in Buckets : attempts'[b] <= attempts[b]
  BY DEF IInv, Kinds
<1>2. CountOK'
  BY <1>1, CountKept
<1> QED BY <1>1, <1>2, StepOf

\* A write that ends its request.
LEMMA DoneWrite ==
  ASSUME IInv, NEW p \in Procs, Done(p), req[p].pc # "idle", UNCHANGED <<started, attempts>>,
         TablesStep, SessionsStep, OthersStep
  PROVE  IInv'
<1>1. ReqOK(Idle)'
  <2>1. Idle.pc \notin Found /\ Idle.pc \notin SessionOps
    BY IdleIs DEF Found, SessionOps, FreshOps
  <2> QED BY <2>1, IdleIs DEF ReqOK, OpFits
<1> QED BY <1>1, IdleIs, WriteStep DEF Done

\* An UPDATE of a row that still is there, or of nothing.
LEMMA Updated ==
  ASSUME IInv, NEW a \in Ids, NEW row \in Row, row.state = acct[a].state, acct[a].pw <= row.pw,
         row.totp # 0 => row.totp \in proven, acct' = IF Live(a) THEN [acct EXCEPT ![a] = row] ELSE acct,
         UNCHANGED <<ident, keys, proven>>
  PROVE  TablesStep
<1>1. acct \in [Ids -> Row] /\ TablesOK /\ ident \in [Providers -> Ids \union {0}] /\ keys \subseteq Ids /\ 0 \notin Ids
  BY AccountsAssumption DEF IInv, Kinds, AccountsAssumption
<1>2. acct' \in [Ids -> Row] /\ ident' \in [Providers -> Ids \union {0}] /\ keys' \subseteq Ids
  BY <1>1
<1>3. \A b \in Ids : acct'[b] = (IF b = a /\ Live(a) THEN row ELSE acct[b])
  BY <1>1
<1>4. \A b \in Ids : acct'[b].state = acct[b].state /\ (Live(b)' <=> Live(b))
  BY <1>1, <1>3 DEF Live
<1>5. SecretProven'
  <2>1. ASSUME NEW b \in Ids, Live(b)', acct'[b].totp # 0 PROVE acct'[b].totp \in proven'
    BY <1>1, <1>3, <1>4, <2>1 DEF TablesOK, SecretProven
  <2> QED BY <2>1 DEF SecretProven
<1>6. OnlyOne'
  BY <1>1, <1>4 DEF TablesOK, OnlyOne
<1>7. NoOrphans'
  <2>1. \A v \in Providers : ident[v] # 0 => ident[v] \in Ids /\ acct'[ident[v]].state = "live"
    BY <1>1, <1>4 DEF TablesOK, NoOrphans, Live
  <2>2. \A b \in keys : b # 0 /\ acct'[b].state = "live"
    BY <1>1, <1>4 DEF TablesOK, NoOrphans, Live
  <2> QED BY <1>1, <2>1, <2>2 DEF NoOrphans, Live
<1>8. RowsGrow
  <2>1. \A b \in Ids : acct[b].pw \in Nat /\ acct'[b].pw \in Nat
    BY <1>1, <1>2 DEF Row
  <2>2. \A b \in Ids : acct[b].pw <= acct'[b].pw
    BY <1>3, <2>1
  <2> QED BY <1>4, <2>2 DEF RowsGrow
<1> QED BY <1>2, <1>5, <1>6, <1>7, <1>8 DEF TablesStep, TablesOK

\* What nobody looks at but the request itself.
LEMMA OthersKept ==
  ASSUME IInv, UNCHANGED <<pending, secrets, proven>>
  PROVE  OthersStep
BY DEF IInv, Kinds, OthersStep

\* The UPDATE statements that leave password and sessions alone.
LEMMA UpdateStep ==
  ASSUME IInv, NEW p \in Procs, MarkVerified(p) \/ IssueReset(p) \/ EnableTotp(p) \/ DisableTotp(p)
  PROVE  IInv'
<1>0. /\ UNCHANGED <<ident, keys, session, pending, attempts, started, secrets, proven, dead>>
      /\ req[p].pc \in {"mark", "issue", "enable", "totp_disable"}
  BY DEF MarkVerified, IssueReset, EnableTotp, DisableTotp, At
<1>1. /\ req[p] \in Request /\ ReqOK(req[p]) /\ req[p].id \in Ids /\ req[p].val \in Nat /\ acct \in [Ids -> Row]
      /\ req[p].id # 0 /\ SecretProven /\ proven \subseteq Nat
  BY <1>0, MineHere DEF ReqOK, Found, SessionOps, FreshOps, IInv, Kinds, TablesOK
<1>2. PICK a \in Ids : a = req[p].id
  BY <1>1
<1>3. PICK row \in Row : /\ row.state = acct[a].state /\ row.pw = acct[a].pw
                         /\ row.totp \in {acct[a].totp, 0} \/ row.totp \in proven
                         /\ acct' = IF Live(a) THEN [acct EXCEPT ![a] = row] ELSE acct
  <2>1. CASE MarkVerified(p)
    <3>1. PICK row : row = [acct[a] EXCEPT !.verified = TRUE]
      OBVIOUS
    <3>2. row \in Row /\ row.state = acct[a].state /\ row.pw = acct[a].pw /\ row.totp = acct[a].totp
      BY <1>1, <3>1 DEF Row
    <3> QED BY <1>2, <2>1, <3>1, <3>2 DEF MarkVerified, Update, A
  <2>2. CASE IssueReset(p)
    <3>1. PICK row : row = [acct[a] EXCEPT !.reset = TRUE]
      OBVIOUS
    <3>2. row \in Row /\ row.state = acct[a].state /\ row.pw = acct[a].pw /\ row.totp = acct[a].totp
      BY <1>1, <3>1 DEF Row
    <3> QED BY <1>2, <2>2, <3>1, <3>2 DEF IssueReset, Update, A
  <2>3. CASE EnableTotp(p)
    <3>1. PICK secret \in Nat : secret = req[p].val /\ secret \in proven
      BY <1>1, <2>3 DEF EnableTotp, At, ReqOK
    <3>2. PICK row : row = [acct[a] EXCEPT !.totp = secret]
      OBVIOUS
    <3>3. row \in Row /\ row.state = acct[a].state /\ row.pw = acct[a].pw /\ row.totp = secret
      BY <1>1, <3>2 DEF Row
    <3> QED BY <1>2, <2>3, <3>1, <3>2, <3>3 DEF EnableTotp, Update, A
  <2>4. CASE DisableTotp(p)
    <3>1. PICK none \in Nat : none = 0
      OBVIOUS
    <3>2. PICK row : row = [acct[a] EXCEPT !.totp = none]
      OBVIOUS
    <3>3. row \in Row /\ row.state = acct[a].state /\ row.pw = acct[a].pw /\ row.totp = 0
      BY <1>1, <3>1, <3>2 DEF Row
    <3> QED BY <1>2, <2>4, <3>1, <3>2, <3>3 DEF DisableTotp, Update, A
  <2> QED BY <2>1, <2>2, <2>3, <2>4
<1>4. TablesStep
  <2>1. CASE Live(a)
    <3>1. row.totp # 0 => row.totp \in proven
      BY <1>1, <1>2, <1>3, <2>1 DEF SecretProven
    <3>2. acct[a].pw <= row.pw
      BY <1>1, <1>3 DEF Row
    <3> QED BY <1>0, <1>3, <3>1, <3>2, Updated
  <2>2. CASE ~Live(a)
    BY <1>0, <1>3, <2>2, TablesKept
  <2> QED BY <2>1, <2>2
<1>5. SessionsStep /\ OthersStep
  BY <1>0, <1>4, SessionsKept, OthersKept DEF TablesStep
<1>6. CASE IssueReset(p)
  BY <1>0, <1>4, <1>5, <1>6, DoneWrite DEF IssueReset
<1>7. ASSUME NEW s \in {"clear", "raw", "drop_pending"}, Goto(p, s), s = "clear" => req[p].op = "verify",
             s = "raw" => req[p].op = "oauth", req[p].op \in {"verify", "oauth", "totp_confirm", "totp_disable"}
      PROVE  IInv'
  <2>1. s \in Places \ {"idle", "record_put"} /\ s \notin SessionOps
    BY DEF Places, SessionOps, FreshOps
  <2>2. PICK r \in Request : /\ req' = [req EXCEPT ![p] = r] /\ r.pc = s /\ r.op = req[p].op /\ r.id = req[p].id
                             /\ r.tok = req[p].tok
    BY <1>7, <2>1, GotoReq
  <2>3. ReqOK(r)
    BY <1>1, <1>7, <2>1, <2>2 DEF ReqOK, OpFits
  <2>4. ReqOK(r)'
    BY <1>0, <1>4, <2>3, ReqKept DEF TablesStep, IInv, Kinds
  <2> QED BY <1>0, <1>4, <1>5, <2>1, <2>2, <2>4, WriteStep
<1>8. CASE MarkVerified(p)
  BY <1>1, <1>7, <1>8 DEF MarkVerified, At, ReqOK, OpFits
<1>9. CASE EnableTotp(p)
  BY <1>1, <1>7, <1>9 DEF EnableTotp, At, ReqOK, OpFits
<1>10. CASE DisableTotp(p)
  BY <1>1, <1>7, <1>10 DEF DisableTotp, At, ReqOK, OpFits, SessionOps, FreshOps
<1> QED BY <1>6, <1>8, <1>9, <1>10

\* A new password leaves the sessions of the old one behind.
LEMMA NewPasswordWrites ==
  ASSUME IInv, NEW p \in Procs, NEW row \in Row, NewPassword(p, row), req[p].id \in Ids,
         row.state = acct[req[p].id].state, row.pw = acct[req[p].id].pw, row.totp # 0 => row.totp \in proven \/ ~Live(req[p].id),
         UNCHANGED <<ident, keys, session, proven>>
  PROVE  TablesStep /\ SessionsStep
<1>0. acct \in [Ids -> Row] /\ session \in [Tokens -> Envelope] /\ dead \subseteq Tokens /\ 0 \notin Ids
  BY MineHere DEF IInv, Kinds
<1>1. PICK a \in Ids : a = req[p].id
  OBVIOUS
<1>2. CASE ~Live(a)
  <2>1. acct' = acct /\ dead' = dead
    BY <1>1, <1>2 DEF NewPassword, Update, A
  <2>2. TablesStep
    BY <2>1, TablesKept
  <2> QED BY <2>1, <2>2, SessionsKept DEF TablesStep
<1>3. CASE Live(a)
  <2>1. PICK new : new = [row EXCEPT !.pw = @ + 1, !.byUser = TRUE]
    OBVIOUS
  <2>2. new \in Row /\ new.state = acct[a].state /\ new.pw = acct[a].pw + 1 /\ new.totp = row.totp /\ acct[a].pw \in Nat
    <3>1. acct[a].pw \in Nat /\ row.pw = acct[a].pw /\ row.state = acct[a].state
      BY <1>0, <1>1 DEF Row
    <3>2. PICK n \in Nat : n = acct[a].pw + 1
      BY <3>1
    <3>3. new = [row EXCEPT !.pw = n, !.byUser = TRUE]
      BY <2>1, <3>1, <3>2
    <3>4. new \in Row /\ new.state = row.state /\ new.pw = n /\ new.totp = row.totp
      BY <3>3 DEF Row
    <3> QED BY <3>1, <3>2, <3>4
  <2>3. acct' = [acct EXCEPT ![a] = new] /\ dead' = dead \union LeftBehind(a)
    BY <1>1, <1>3, <2>1 DEF NewPassword, Update, A
  <2>4. TablesStep
    <3>1. acct' = IF Live(a) THEN [acct EXCEPT ![a] = new] ELSE acct
      BY <1>3, <2>3
    <3>2. acct[a].pw <= new.pw /\ (new.totp # 0 => new.totp \in proven)
      BY <1>1, <1>3, <2>2
    <3> QED BY <2>2, <3>1, <3>2, Updated
  <2>5. ASSUME NEW t \in Tokens PROVE SessionOK(t)'
    <3>1. SessionOK(t) /\ session[t].id \in Ids \union {0} /\ session[t].pw \in Int
      BY <1>0 DEF IInv, Envelope
    <3>2. PICK i \in Ids \union {0}, n \in Int : i = session[t].id /\ n = session[t].pw
      BY <3>1
    <3>3. i # 0 => /\ acct[i].state # "none" /\ acct'[i].state # "none" /\ acct[i].pw \in Nat /\ acct'[i].pw \in Nat
                   /\ acct'[i].state = "live" => acct[i].state = "live" /\ acct[i].pw <= acct'[i].pw /\ n <= acct[i].pw
      <4>1. i # 0 => acct[i].state # "none" /\ (acct[i].state = "live" => n <= acct[i].pw)
        BY <3>1, <3>2 DEF SessionOK, Live
      <4>2. \A b \in Ids : acct[b].pw \in Nat /\ acct'[b].pw \in Nat
        BY <1>0, <2>4 DEF TablesStep, Row
      <4> QED BY <2>4, <4>1, <4>2 DEF TablesStep, RowsGrow
    <3>4. CASE t \in dead
      <4>1. IF i = 0 THEN n = -1 ELSE acct[i].state = "live" => n < acct[i].pw
        BY <3>1, <3>2, <3>4 DEF SessionOK, Live
      <4> QED BY <3>2, <3>3, <4>1 DEF SessionOK, Live
    <3>5. CASE t \in LeftBehind(a)
      <4>1. i = a /\ i # 0
        BY <1>0, <3>2, <3>5 DEF LeftBehind
      <4>2. n < acct'[i].pw
        BY <1>0, <1>3, <2>2, <2>3, <3>3, <4>1 DEF Live
      <4> QED BY <3>2, <3>3, <4>1, <4>2 DEF SessionOK, Live
    <3>6. CASE t \notin dead'
      BY <3>2, <3>3, <3>6 DEF SessionOK, Live
    <3> QED BY <2>3, <3>4, <3>5, <3>6
  <2>6. \A q \in Procs : req[q].op \in {"oauth", "reauth"} => req[q].tok \notin dead' \ dead
    BY <2>3 DEF LeftBehind
  <2>7. session' \in [Tokens -> Envelope] /\ dead' \subseteq Tokens
    BY <1>0, <2>3 DEF LeftBehind
  <2> QED BY <2>4, <2>5, <2>6, <2>7 DEF SessionsStep
<1> QED BY <1>2, <1>3

\* A password is set, or replaced by a reset.
LEMMA PasswordStep ==
  ASSUME IInv, NEW p \in Procs, SetPassword(p) \/ ReplacePassword(p)
  PROVE  IInv'
<1>0. UNCHANGED <<ident, keys, session, pending, attempts, started, secrets, proven>> /\ Done(p)
      /\ req[p].pc \in {"set_password", "replace"}
  BY DEF SetPassword, ReplacePassword, At
<1>1. /\ req[p] \in Request /\ ReqOK(req[p]) /\ req[p].id \in Ids /\ acct \in [Ids -> Row] /\ SecretProven
  BY <1>0, MineHere DEF ReqOK, Found, SessionOps, FreshOps, IInv, Kinds, TablesOK
<1>2. PICK a \in Ids : a = req[p].id
  BY <1>1
<1>3. acct[a] \in Row /\ (acct[a].totp # 0 => acct[a].totp \in proven \/ ~Live(a))
  BY <1>1 DEF SecretProven
<1>4. TablesStep /\ SessionsStep
  <2>1. CASE SetPassword(p)
    <3>1. NewPassword(p, acct[a])
      BY <1>2, <2>1 DEF SetPassword, A
    <3> QED BY <1>0, <1>2, <1>3, <3>1, NewPasswordWrites
  <2>2. CASE ReplacePassword(p)
    <3>1. PICK row : row = [acct[a] EXCEPT !.reset = FALSE, !.totp = IF acct[a].reset THEN 0 ELSE acct[a].totp]
      OBVIOUS
    <3>2. PICK n \in Nat : n = (IF acct[a].reset THEN 0 ELSE acct[a].totp)
      BY <1>3 DEF Row
    <3>3. /\ row \in Row /\ row.state = acct[a].state /\ row.pw = acct[a].pw /\ row.totp \in {0, acct[a].totp}
      <4>1. row = [acct[a] EXCEPT !.reset = FALSE, !.totp = n]
        BY <3>1, <3>2
      <4> QED BY <1>3, <3>2, <4>1 DEF Row
    <3>4. NewPassword(p, row)
      BY <1>2, <2>2, <3>1 DEF ReplacePassword, A
    <3> QED BY <1>0, <1>2, <1>3, <3>3, <3>4, NewPasswordWrites
  <2> QED BY <2>1, <2>2, <1>0 DEF SetPassword, ReplacePassword
<1> QED BY <1>0, <1>4, OthersKept, DoneWrite

\* A first account for the address: the trigger lets no second one in.
LEMMA Inserted ==
  ASSUME IInv, NEW p \in Procs, NEW a \in Ids, NEW byUser \in BOOLEAN, InsertAccount(p, a, byUser),
         UNCHANGED <<ident, keys, session, proven, dead>>
  PROVE  TablesStep /\ SessionsStep /\ acct'[a].state = "live"
<1>1. /\ acct \in [Ids -> Row] /\ TablesOK /\ 0 \notin Ids /\ ident \in [Providers -> Ids \union {0}] /\ keys \subseteq Ids
      /\ \A b \in Ids : ~Live(b)
  BY MineHere DEF IInv, Kinds, InsertAccount, TheAccount
<1>2. PICK new : new = [NoAcct EXCEPT !.state = "live", !.verified = ~byUser, !.pw = 1, !.byUser = byUser]
  OBVIOUS
<1>3. new \in Row /\ new.state = "live" /\ new.totp = 0
  BY <1>2 DEF NoAcct, Row
<1>4. acct' = [acct EXCEPT ![a] = new] /\ acct[a].state = "none" /\ acct' \in [Ids -> Row] /\ acct'[a].state = "live"
  BY <1>1, <1>2, <1>3 DEF InsertAccount
<1>5. \A b \in Ids : (Live(b)' <=> b = a) /\ (b # a => acct'[b] = acct[b])
  BY <1>1, <1>3, <1>4 DEF Live
<1>6. SecretProven' /\ OnlyOne'
  BY <1>1, <1>3, <1>4, <1>5 DEF SecretProven, OnlyOne
<1>7. NoOrphans'
  <2>1. \A v \in Providers : ident[v] = 0
    BY <1>1 DEF TablesOK, NoOrphans
  <2>2. keys = {}
    BY <1>1 DEF TablesOK, NoOrphans
  <2> QED BY <2>1, <2>2 DEF NoOrphans
<1>8. RowsGrow
  <2>1. \A b \in Ids : acct[b].pw \in Nat
    BY <1>1 DEF Row
  <2> QED BY <1>4, <1>5, <2>1 DEF RowsGrow
<1>9. TablesStep
  BY <1>1, <1>4, <1>6, <1>7, <1>8 DEF TablesStep, TablesOK
<1> QED BY <1>4, <1>9, SessionsKept DEF TablesStep

\* A registration.
LEMMA SignupStep ==
  ASSUME IInv, NEW p \in Procs, Signup(p)
  PROVE  IInv'
<1>0. UNCHANGED <<ident, keys, session, pending, attempts, started, secrets, proven, dead>> /\ Done(p) /\ req[p].pc # "idle"
  BY DEF Signup, At
<1>1. TablesStep /\ SessionsStep
  <2>1. ASSUME NEW a \in Ids, InsertAccount(p, a, TRUE) PROVE TablesStep /\ SessionsStep
    <3>1. PICK byUser \in BOOLEAN : byUser = TRUE
      OBVIOUS
    <3>2. InsertAccount(p, a, byUser)
      BY <2>1, <3>1 DEF InsertAccount
    <3> QED BY <1>0, <3>2, Inserted
  <2>2. CASE acct' = acct
    BY <1>0, <2>2, TablesKept, SessionsKept DEF TablesStep
  <2> QED BY <2>1, <2>2 DEF Signup
<1> QED BY <1>0, <1>1, OthersKept, DoneWrite

\* The first login with a provider.
LEMMA OauthCreateStep ==
  ASSUME IInv, NEW p \in Procs, OauthCreate(p)
  PROVE  IInv'
<1>0. /\ UNCHANGED <<ident, keys, session, pending, attempts, started, secrets, proven, dead>> /\ req[p].pc = "oauth_create"
      /\ req[p] \in Request /\ ReqOK(req[p]) /\ req[p].op = "oauth" /\ req[p].tok \notin dead /\ 0 \notin Ids
  BY MineHere DEF OauthCreate, At, ReqOK, OpFits
<1>1. ASSUME NEW a \in Ids, InsertAccount(p, a, FALSE), req' = [req EXCEPT ![p].pc = "oauth_link", ![p].id = a, ![p].val = 1]
      PROVE  IInv'
  <2>1. PICK byUser \in BOOLEAN : byUser = FALSE
    OBVIOUS
  <2>2. InsertAccount(p, a, byUser)
    BY <1>1, <2>1 DEF InsertAccount
  <2>3. TablesStep /\ SessionsStep /\ acct'[a].state = "live"
    BY <1>0, <2>2, Inserted
  <2>4. PICK n \in Nat : n = 1
    OBVIOUS
  <2>5. PICK r : r = [req[p] EXCEPT !.pc = "oauth_link", !.id = a, !.val = n]
    OBVIOUS
  <2>6. /\ r \in Request /\ r.pc = "oauth_link" /\ r.op = "oauth" /\ r.id = a /\ r.tok = req[p].tok
        /\ req' = [req EXCEPT ![p] = r]
    BY <1>0, <1>1, <2>4, <2>5 DEF Request, Places
  <2>7. ReqOK(r)'
    <3>1. "oauth_link" \notin SessionOps
      BY DEF SessionOps, FreshOps
    <3> QED BY <1>0, <2>3, <2>6, <3>1 DEF ReqOK, OpFits
  <2> QED BY <1>0, <2>3, <2>6, <2>7, OthersKept, WriteStep
<1>2. CASE UNCHANGED acct /\ Done(p)
  BY <1>0, <1>2, DoneStep DEF store
<1> QED BY <1>1, <1>2 DEF OauthCreate

\* An identity is linked to an account that is there, and taken away again.
LEMMA IdentityStep ==
  ASSUME IInv, NEW p \in Procs, LinkIdentity(p) \/ DeleteIdentity(p)
  PROVE  IInv'
<1>0. /\ UNCHANGED <<acct, keys, session, pending, attempts, started, secrets, proven, dead>>
      /\ req[p].pc \in {"oauth_link", "unlink_delete"} /\ req[p] \in Request /\ ReqOK(req[p]) /\ req[p].id \in Ids
      /\ 0 \notin Ids /\ acct \in [Ids -> Row] /\ ident \in [Providers -> Ids \union {0}] /\ keys \subseteq Ids /\ TablesOK
  BY MineHere DEF LinkIdentity, DeleteIdentity, At, ReqOK, Found, IInv, Kinds
<1>1. ASSUME ident' \in [Providers -> Ids \union {0}], \A v \in Providers : ident'[v] # 0 => Live(ident'[v])
      PROVE  TablesStep /\ SessionsStep /\ OthersStep
  <2>1. SecretProven' /\ OnlyOne'
    BY <1>0 DEF TablesOK, SecretProven, OnlyOne, Live
  <2>2. NoOrphans'
    BY <1>0, <1>1 DEF TablesOK, NoOrphans, Live
  <2>3. RowsGrow
    BY <1>0 DEF RowsGrow, Row
  <2>4. TablesStep
    BY <1>0, <1>1, <2>1, <2>2, <2>3 DEF TablesStep, TablesOK
  <2> QED BY <1>0, <2>3, <2>4, SessionsKept, OthersKept DEF TablesStep
<1>2. \A v \in Providers : ident[v] # 0 => Live(ident[v])
  BY <1>0 DEF TablesOK, NoOrphans
<1>3. CASE LinkIdentity(p) /\ UNCHANGED ident /\ Done(p)
  BY <1>0, <1>3, DoneStep DEF LinkIdentity, store
<1>4. CASE LinkIdentity(p) /\ ident' = [ident EXCEPT ![req[p].prov] = req[p].id] /\ Goto(p, AfterLink(p)) /\ Live(req[p].id)
  <2>1. TablesStep /\ SessionsStep /\ OthersStep
    BY <1>0, <1>1, <1>2, <1>4
  <2>2. PICK s \in {"raw", "mark"} : s = AfterLink(p)
    BY DEF AfterLink
  <2>3. s \in Places \ {"idle", "record_put"} /\ s \notin SessionOps
    BY DEF Places, SessionOps, FreshOps
  <2>4. PICK r \in Request : /\ req' = [req EXCEPT ![p] = r] /\ r.pc = s /\ r.op = req[p].op /\ r.id = req[p].id
                             /\ r.tok = req[p].tok
    BY <1>4, <2>2, <2>3, GotoReq
  <2>5. req[p].op = "oauth"
    BY <1>0, <1>4 DEF ReqOK, OpFits, LinkIdentity, At
  <2>6. ReqOK(r)
    BY <1>0, <2>3, <2>4, <2>5 DEF ReqOK, OpFits
  <2>7. ReqOK(r)'
    BY <1>0, <2>1, <2>6, ReqKept DEF TablesStep
  <2> QED BY <1>0, <2>1, <2>3, <2>4, <2>7, WriteStep
<1>5. CASE DeleteIdentity(p)
  <2>1. ident' = [ident EXCEPT ![req[p].prov] = IF @ = req[p].id THEN 0 ELSE @] /\ Done(p)
    BY <1>5 DEF DeleteIdentity, A
  <2>2. ident' \in [Providers -> Ids \union {0}] /\ \A v \in Providers : ident'[v] # 0 => ident'[v] = ident[v]
    BY <1>0, <2>1
  <2>3. \A v \in Providers : ident'[v] # 0 => Live(ident'[v])
    BY <1>2, <2>2
  <2>4. TablesStep /\ SessionsStep /\ OthersStep
    BY <1>1, <2>2, <2>3
  <2> QED BY <1>0, <2>1, <2>4, DoneWrite
<1> QED BY <1>3, <1>4, <1>5 DEF LinkIdentity, A

\* Keys belong to accounts that are there.
LEMMA KeyStep ==
  ASSUME IInv, NEW p \in Procs, CreateKey(p) \/ RevokeKey(p)
  PROVE  IInv'
<1>0. /\ UNCHANGED <<acct, ident, session, pending, attempts, started, secrets, proven, dead>> /\ Done(p)
      /\ req[p].pc # "idle" /\ req[p].id \in Ids \union {0} /\ acct \in [Ids -> Row]
      /\ ident \in [Providers -> Ids \union {0}] /\ keys \subseteq Ids /\ TablesOK
  BY MineHere DEF CreateKey, RevokeKey, At, IInv, Kinds
<1>1. keys' \subseteq Ids /\ \A a \in keys' : Live(a)
  BY <1>0 DEF CreateKey, RevokeKey, A, TablesOK, NoOrphans, Live
<1>2. SecretProven' /\ OnlyOne'
  BY <1>0 DEF TablesOK, SecretProven, OnlyOne, Live
<1>3. NoOrphans'
  BY <1>0, <1>1 DEF TablesOK, NoOrphans, Live
<1>4. RowsGrow
  BY <1>0 DEF RowsGrow, Row
<1>5. TablesStep
  BY <1>0, <1>1, <1>2, <1>3, <1>4 DEF TablesStep, TablesOK
<1> QED BY <1>0, <1>5, SessionsKept, OthersKept, DoneWrite DEF TablesStep

\* The batch takes the account, its identities and its keys away together.
LEMMA DeleteStep ==
  ASSUME IInv, NEW p \in Procs, DeleteAccount(p)
  PROVE  IInv'
<1>0. /\ UNCHANGED <<session, pending, attempts, started, secrets, proven, dead>> /\ req[p].pc = "batch"
      /\ req[p] \in Request /\ ReqOK(req[p]) /\ req[p].id \in Ids
      /\ 0 \notin Ids /\ acct \in [Ids -> Row] /\ ident \in [Providers -> Ids \union {0}] /\ keys \subseteq Ids /\ TablesOK
  BY MineHere DEF DeleteAccount, At, ReqOK, Found, IInv, Kinds
<1>1. PICK a \in Ids : a = req[p].id
  BY <1>0
<1>2. PICK gone : gone = [NoAcct EXCEPT !.state = "deleted"]
  OBVIOUS
<1>3. gone \in Row /\ gone.state = "deleted"
  BY <1>2 DEF NoAcct, Row
<1>4. /\ acct' = [acct EXCEPT ![a] = gone] /\ ident' = [v \in Providers |-> IF ident[v] = a THEN 0 ELSE ident[v]]
      /\ keys' = keys \ {a}
  BY <1>1, <1>2 DEF DeleteAccount, A
<1>5. acct' \in [Ids -> Row] /\ ident' \in [Providers -> Ids \union {0}] /\ keys' \subseteq Ids
  BY <1>0, <1>3, <1>4
<1>6. \A b \in Ids : (b = a => ~Live(b)') /\ (b # a => acct'[b] = acct[b] /\ (Live(b)' <=> Live(b)))
  BY <1>0, <1>3, <1>4 DEF Live
<1>7. SecretProven' /\ OnlyOne'
  BY <1>0, <1>6 DEF TablesOK, SecretProven, OnlyOne
<1>8. NoOrphans'
  <2>1. \A v \in Providers : ident'[v] # 0 => ident[v] \in Ids /\ ident'[v] = ident[v] /\ ident[v] # a /\ Live(ident[v])
    BY <1>0, <1>4 DEF TablesOK, NoOrphans
  <2>2. \A b \in keys' : b \in Ids /\ b # a /\ Live(b)
    BY <1>0, <1>4 DEF TablesOK, NoOrphans
  <2> QED BY <1>6, <2>1, <2>2 DEF NoOrphans, Live
<1>9. RowsGrow
  <2>1. \A b \in Ids : acct[b].pw \in Nat
    BY <1>0 DEF Row
  <2>2. acct'[a].state = "deleted"
    BY <1>0, <1>3, <1>4
  <2> QED BY <1>6, <2>1, <2>2 DEF RowsGrow
<1>10. TablesStep
  BY <1>5, <1>7, <1>8, <1>9 DEF TablesStep, TablesOK
<1>11. SessionsStep /\ OthersStep
  BY <1>0, <1>5, <1>9, SessionsKept, OthersKept
<1>12. CASE Done(p)
  BY <1>0, <1>10, <1>11, <1>12, DoneWrite
<1>13. CASE Goto(p, "drop_session") /\ req[p].op = "delete"
  <2>1. "drop_session" \in Places /\ "drop_session" \notin SessionOps /\ "drop_session" \notin Found
    BY DEF Places, SessionOps, FreshOps, Found
  <2>2. PICK r \in Request : /\ req' = [req EXCEPT ![p] = r] /\ r.pc = "drop_session" /\ r.op = req[p].op /\ r.id = req[p].id
                             /\ r.tok = req[p].tok
    BY <1>13, <2>1, GotoReq
  <2>3. ReqOK(r)
    BY <1>0, <1>13, <2>1, <2>2 DEF ReqOK, OpFits
  <2>4. ReqOK(r)'
    BY <1>0, <1>10, <2>3, ReqKept DEF TablesStep
  <2> QED BY <1>0, <1>10, <1>11, <2>2, <2>4, WriteStep
<1> QED BY <1>12, <1>13 DEF DeleteAccount

-----------------------------------------------------------------------------
(* Requests write session entries.                                         *)

\* One entry changes, and is no dead token's.
LEMMA EntryPut ==
  ASSUME IInv, NEW t \in Tokens, NEW s \in Envelope, session' = [session EXCEPT ![t] = s], UNCHANGED <<acct, dead>>,
         t \notin dead, s.id # 0 => acct[s.id].state # "none" /\ (Live(s.id) => s.pw <= acct[s.id].pw)
  PROVE  SessionsStep
<1>1. session \in [Tokens -> Envelope] /\ dead \subseteq Tokens /\ \A u \in Tokens : SessionOK(u)
  BY DEF IInv, Kinds
<1>2. ASSUME NEW u \in Tokens PROVE SessionOK(u)'
  <2>1. CASE u = t
    BY <1>1, <2>1 DEF SessionOK, Live
  <2>2. CASE u # t
    BY <1>1, <2>2 DEF SessionOK, Live
  <2> QED BY <2>1, <2>2
<1> QED BY <1>1, <1>2 DEF SessionsStep

\* A new token was nobody's before, so nobody's dead one.
LEMMA TokenIs ==
  ASSUME IInv, NEW p \in Procs, NEW t \in Tokens, TokenOf(p, t), req[p].tok # 0 => req[p].tok \notin dead
  PROVE  t \notin dead
<1>1. SessionOK(t)
  BY DEF IInv
<1>2. CASE req[p].tok = 0
  BY <1>1, <1>2 DEF TokenOf, SessionOK, NoSession
<1> QED BY <1>2 DEF TokenOf

\* The envelope may be of older credentials by now, never of newer ones.
LEMMA PutSessionStep ==
  ASSUME IInv, NEW p \in Procs, PutSession(p)
  PROVE  IInv'
<1>0. /\ UNCHANGED <<acct, ident, keys, pending, attempts, started, secrets, proven, dead>> /\ Done(p) /\ req[p].pc = "put"
      /\ req[p] \in Request /\ ReqOK(req[p]) /\ req[p].id \in Ids /\ req[p].ver \in [pw : Nat, totp : Nat]
  BY MineHere DEF PutSession, At, ReqOK, Found, Request
<1>1. PICK t \in Tokens : /\ TokenOf(p, t)
                          /\ session' = [session EXCEPT ![t] = [id |-> req[p].id, pw |-> req[p].ver.pw, totp |-> req[p].ver.totp, fresh |-> TRUE]]
  BY DEF PutSession, A
<1>2. PICK s : s = [id |-> req[p].id, pw |-> req[p].ver.pw, totp |-> req[p].ver.totp, fresh |-> TRUE]
  OBVIOUS
<1>3. s \in Envelope /\ s.id = req[p].id /\ s.pw = req[p].ver.pw
  BY <1>0, <1>2 DEF Envelope
<1>4. t \notin dead
  BY <1>0, <1>1, TokenIs DEF ReqOK, OpFits
<1>5. s.id # 0 => acct[s.id].state # "none" /\ (Live(s.id) => s.pw <= acct[s.id].pw)
  BY <1>0, <1>3 DEF ReqOK
<1>6. SessionsStep
  BY <1>0, <1>1, <1>2, <1>3, <1>4, <1>5, EntryPut
<1> QED BY <1>0, <1>6, TablesKept, OthersKept, DoneWrite

\* The callback's bare account id is a session of no password at all.
LEMMA PutRawStep ==
  ASSUME IInv, NEW p \in Procs, PutRaw(p)
  PROVE  IInv'
<1>0. /\ UNCHANGED <<acct, ident, keys, pending, attempts, started, secrets, proven, dead>> /\ req[p].pc = "raw"
      /\ req[p] \in Request /\ ReqOK(req[p]) /\ req[p].id \in Ids /\ req[p].op = "oauth" /\ acct \in [Ids -> Row]
  BY MineHere DEF PutRaw, At, ReqOK, OpFits, Found, IInv, Kinds
<1>1. PICK t \in Tokens : /\ TokenOf(p, t) /\ session' = [session EXCEPT ![t] = [NoSession EXCEPT !.id = req[p].id]]
                          /\ req' = [req EXCEPT ![p].pc = "envelope", ![p].tok = t]
  BY DEF PutRaw, A
<1>2. PICK s : s = [NoSession EXCEPT !.id = req[p].id]
  OBVIOUS
<1>3. s \in Envelope /\ s.id = req[p].id /\ s.pw = 0
  <2>1. NoSession \in Envelope /\ NoSession.pw = 0
    BY DEF NoSession, Envelope
  <2> QED BY <1>0, <1>2, <2>1 DEF Envelope
<1>4. t \notin dead
  BY <1>0, <1>1, TokenIs DEF ReqOK
<1>5. s.id # 0 => acct[s.id].state # "none" /\ (Live(s.id) => s.pw <= acct[s.id].pw)
  BY <1>0, <1>3 DEF ReqOK, Row
<1>6. SessionsStep
  BY <1>0, <1>1, <1>2, <1>3, <1>4, <1>5, EntryPut
<1>7. PICK r : r = [req[p] EXCEPT !.pc = "envelope", !.tok = t]
  OBVIOUS
<1>8. /\ r \in Request /\ r.pc = "envelope" /\ r.op = "oauth" /\ r.id = req[p].id /\ r.tok = t
      /\ req' = [req EXCEPT ![p] = r]
  BY <1>0, <1>1, <1>7 DEF Request, Places
<1>9. ReqOK(r)'
  <2>1. "envelope" \notin SessionOps
    BY DEF SessionOps, FreshOps
  <2>2. ReqOK(r)
    BY <1>0, <1>4, <1>8, <2>1 DEF ReqOK, OpFits, Found
  <2> QED BY <1>0, <2>2 DEF ReqOK, OpFits, Live
<1> QED BY <1>0, <1>6, <1>8, <1>9, TablesKept, OthersKept, WriteStep

\* A session that is dropped names nobody.
LEMMA DropSessionStep ==
  ASSUME IInv, NEW p \in Procs, DropSession(p)
  PROVE  IInv'
<1>0. /\ UNCHANGED <<acct, ident, keys, pending, attempts, started, secrets, proven, dead>> /\ Done(p) /\ req[p].pc # "idle"
      /\ session' = [session EXCEPT ![req[p].tok] = Dropped]
      /\ session \in [Tokens -> Envelope] /\ dead \subseteq Tokens /\ \A t \in Tokens : SessionOK(t)
  BY DEF DropSession, At, IInv, Kinds
<1>1. Dropped \in Envelope /\ Dropped.id = 0 /\ Dropped.pw = -1
  <2>1. PICK minus \in Int : minus = -1
    OBVIOUS
  <2>2. Dropped = [NoSession EXCEPT !.pw = minus]
    BY <2>1 DEF Dropped
  <2>3. Dropped \in Envelope /\ Dropped.id = 0 /\ Dropped.pw = minus
    BY <2>2 DEF NoSession, Envelope
  <2> QED BY <2>1, <2>3
<1>2. session' \in [Tokens -> Envelope] /\ \A t \in Tokens : session'[t] \in {session[t], Dropped}
  BY <1>0, <1>1
<1>3. ASSUME NEW t \in Tokens PROVE SessionOK(t)'
  <2>1. CASE session'[t] = session[t]
    BY <1>0, <2>1 DEF SessionOK, Live
  <2>2. CASE session'[t] = Dropped
    BY <1>1, <2>2 DEF SessionOK
  <2> QED BY <1>2, <2>1, <2>2
<1>4. SessionsStep
  BY <1>0, <1>2, <1>3 DEF SessionsStep
<1> QED BY <1>0, <1>4, TablesKept, OthersKept, DoneWrite

\* The secret that waits for its first code.
LEMMA PendingStep ==
  ASSUME IInv, NEW p \in Procs, SetupTotp(p) \/ DropPending(p)
  PROVE  IInv'
<1>0. /\ UNCHANGED <<acct, ident, keys, session, attempts, started, proven, dead>> /\ Done(p) /\ req[p].pc # "idle"
      /\ pending \in [Ids -> Nat] /\ secrets \in Nat
  BY DEF SetupTotp, DropPending, At, IInv, Kinds
<1>1. pending' \in [Ids -> Nat] /\ secrets' \in Nat
  BY <1>0 DEF SetupTotp, DropPending
<1>2. OthersStep
  BY <1>0, <1>1 DEF IInv, Kinds, OthersStep
<1>3. TablesStep
  BY <1>0, TablesKept
<1> QED BY <1>0, <1>2, <1>3, SessionsKept, DoneWrite DEF TablesStep

-----------------------------------------------------------------------------
(* Attempts are counted and forgotten.                                     *)

\* A success clears the count, and leads on to what it was for.
LEMMA ClearAttemptsStep ==
  ASSUME IInv, NEW p \in Procs, ClearAttempts(p)
  PROVE  IInv'
<1>0. /\ UNCHANGED <<acct, ident, keys, session, pending, started, secrets, proven, dead>> /\ req[p].pc = "clear"
      /\ req[p] \in Request /\ ReqOK(req[p]) /\ req[p].id # 0
      /\ req[p].op \in {"verify", "login", "reauth", "totp_confirm", "reset"}
      /\ attempts \in [Buckets -> Nat] /\ attempts' = [attempts EXCEPT ![Bucket(p)] = 0]
  BY MineHere DEF ClearAttempts, At, ReqOK, OpFits, Found, IInv, Kinds
<1>1. attempts' \in [Buckets -> Nat] /\ \A b \in Buckets : attempts'[b] <= attempts[b]
  <2>1. PICK none \in Nat : none = 0
    OBVIOUS
  <2>2. attempts' = [attempts EXCEPT ![Bucket(p)] = none]
    BY <1>0, <2>1
  <2>3. attempts' \in [Buckets -> Nat] /\ \A b \in Buckets : attempts'[b] = attempts[b] \/ attempts'[b] = none
    BY <1>0, <2>2
  <2>4. \A b \in Buckets : attempts[b] \in Nat
    BY <1>0
  <2> QED BY <2>1, <2>3, <2>4
<1>2. TablesStep
  BY <1>0, TablesKept
<1>3. SessionsStep /\ OthersStep /\ started' \in 0..MaxRequests
  BY <1>0, <1>2, SessionsKept, OthersKept DEF TablesStep, IInv, Kinds
<1>4. PICK r \in Request : /\ req' = [req EXCEPT ![p] = r] /\ ReqOK(r) /\ r.pc # "record_put"
  <2>1. CASE Done(p)
    BY <2>1, IdleIs DEF Done
  <2>2. CASE req[p].op \in {"login", "reauth", "totp_confirm", "reset"} /\ Goto(p, AfterClear[req[p].op])
    <3>1. PICK s : s = AfterClear[req[p].op]
      OBVIOUS
    <3>2. /\ s \in {"envelope", "enable", "replace"} /\ (s = "envelope" => req[p].op \in {"login", "reauth"})
          /\ s = "enable" => req[p].op = "totp_confirm"
      BY <2>2, <3>1 DEF AfterClear
    <3>3. s \in Places /\ s \notin SessionOps
      BY <3>2 DEF Places, SessionOps, FreshOps
    <3>4. PICK r \in Request : /\ req' = [req EXCEPT ![p] = r] /\ r.pc = s /\ Same(r, req[p])
      BY <2>2, <3>1, <3>3, GotoReq DEF Same
    <3>5. ReqOK(r)
      BY <1>0, <3>2, <3>3, <3>4 DEF ReqOK, OpFits, Same
    <3> QED BY <3>2, <3>4, <3>5
  <2> QED BY <1>0, <2>1, <2>2 DEF ClearAttempts
<1>5. CountOK'
  BY <1>0, <1>1, <1>4, CountKept
<1>6. ReqOK(r)'
  BY <1>0, <1>4 DEF ReqOK, OpFits, Live
<1> QED BY <1>1, <1>2, <1>3, <1>4, <1>5, <1>6, StepOf

\* A failure that is counted is one that its request has to its credit.
LEMMA PutCountStep ==
  ASSUME IInv, NEW p \in Procs, PutCount(p)
  PROVE  IInv'
<1>0. /\ UNCHANGED <<acct, ident, keys, session, pending, started, secrets, proven, dead>> /\ req[p].pc = "record_put"
      /\ req' = [req EXCEPT ![p] = Idle] /\ req[p].val \in Nat /\ Bucket(p) \in Buckets /\ req \in [Procs -> Request]
      /\ attempts \in [Buckets -> Nat] /\ attempts' = [attempts EXCEPT ![Bucket(p)] = req[p].val + 1]
      /\ started \in Nat /\ CountOK
  BY MineHere, BucketIs, AccountsAssumption DEF PutCount, At, Done, IInv, Kinds, AccountsAssumption
<1>1. PICK k \in Nat, b0 \in Buckets : k = req[p].val /\ b0 = Bucket(p)
  BY <1>0
<1>2. attempts' \in [Buckets -> Nat] /\ \A b \in Buckets : attempts'[b] = IF b = b0 THEN k + 1 ELSE attempts[b]
  BY <1>0, <1>1
<1>3. PICK n \in Nat : Cardinality(Active) = n + 1 /\ Cardinality(Active') = n
  <2>1. p \in Active /\ Active' = Active \ {p}
    BY <1>0, IdleIs DEF Active
  <2>2. IsFiniteSet(Active) /\ IsFiniteSet(Active') /\ p \notin Active' /\ Active = Active' \union {p} /\ Cardinality(Active') \in Nat
    BY <2>1, ActiveFinite, FS_Subset, FS_CardinalityType DEF Active
  <2> QED BY <2>2, FS_AddElement
<1>4. ASSUME NEW b \in Buckets PROVE attempts'[b] + n <= started
  <2>1. CASE b = b0
    <3>1. k + (n + 1) <= started
      BY <1>0, <1>1, <1>3 DEF CountOK, At
    <3> QED BY <1>0, <1>2, <2>1, <3>1
  <2>2. CASE b # b0
    <3>1. attempts[b] \in Nat /\ attempts[b] + (n + 1) <= started
      BY <1>0, <1>3 DEF CountOK
    <3> QED BY <1>0, <1>2, <2>2, <3>1
  <2> QED BY <2>1, <2>2
<1>5. ASSUME NEW q \in Procs, At(q, "record_put")' PROVE req'[q].val + n <= started
  <2>1. q # p
    BY <1>0, <1>5, IdleIs DEF At
  <2>2. req'[q] = req[q] /\ req[q].val \in Nat
    BY <1>0, <2>1 DEF Request
  <2>3. req[q].val + (n + 1) <= started
    BY <1>0, <1>3, <1>5, <2>2 DEF CountOK, At
  <2> QED BY <1>0, <2>2, <2>3
<1>6. CountOK'
  BY <1>0, <1>3, <1>4, <1>5 DEF CountOK
<1>7. TablesStep
  BY <1>0, TablesKept
<1>8. SessionsStep /\ OthersStep /\ started' \in 0..MaxRequests
  BY <1>0, <1>7, SessionsKept, OthersKept DEF TablesStep, IInv, Kinds
<1>9. ReqOK(Idle)'
  <2>1. Idle.pc \notin Found /\ Idle.pc \notin SessionOps
    BY IdleIs DEF Found, SessionOps, FreshOps
  <2> QED BY <2>1, IdleIs DEF ReqOK, OpFits
<1> QED BY <1>0, <1>2, <1>6, <1>7, <1>8, <1>9, IdleIs, StepOf

\* The window of a bucket runs out, or fifteen minutes pass: no request moves.
LEMMA TimeStep ==
  ASSUME IInv, (\E t \in Tokens : Age(t)) \/ (\E b \in Buckets : Forget(b))
  PROVE  IInv'
<1>0. UNCHANGED <<acct, ident, keys, pending, req, started, secrets, proven, dead>>
  BY DEF Age, Forget
<1>1. attempts \in [Buckets -> Nat] /\ session \in [Tokens -> Envelope] /\ CountOK /\ started \in Nat
  BY AccountsAssumption DEF IInv, Kinds, AccountsAssumption
<1>2. attempts' \in [Buckets -> Nat] /\ \A b \in Buckets : attempts'[b] = attempts[b] \/ attempts'[b] = 0
  BY <1>1 DEF Age, Forget
<1>3. session' \in [Tokens -> Envelope] /\ \A t \in Tokens : session'[t].id = session[t].id /\ session'[t].pw = session[t].pw
  <2>1. CASE \E t \in Tokens : Age(t)
    <3>1. PICK t \in Tokens : session' = [session EXCEPT ![t].fresh = FALSE]
      BY <2>1 DEF Age
    <3>2. PICK s : s = [session[t] EXCEPT !.fresh = FALSE]
      OBVIOUS
    <3>3. s \in Envelope /\ s.id = session[t].id /\ s.pw = session[t].pw /\ session' = [session EXCEPT ![t] = s]
      BY <1>1, <3>1, <3>2 DEF Envelope
    <3> QED BY <1>1, <3>3
  <2>2. CASE \E b \in Buckets : Forget(b)
    BY <1>1, <2>2 DEF Forget
  <2> QED BY <2>1, <2>2
<1>4. ASSUME NEW t \in Tokens PROVE SessionOK(t)'
  BY <1>0, <1>3 DEF IInv, SessionOK, Live
<1>5. CountOK'
  <2>1. PICK n \in Nat : n = Cardinality(Active) /\ Cardinality(Active') = n
    BY <1>0, ActiveFinite DEF Active
  <2>2. ASSUME NEW b \in Buckets PROVE attempts'[b] + n <= started
    <3>1. attempts[b] \in Nat /\ attempts[b] + n <= started
      BY <1>1, <2>1 DEF CountOK
    <3> QED BY <1>1, <1>2, <3>1
  <2>3. \A q \in Procs : At(q, "record_put") => req[q].val + n <= started
    BY <1>1, <2>1 DEF CountOK
  <2> QED BY <1>0, <2>1, <2>2, <2>3 DEF CountOK, At
<1>6. Kinds'
  BY <1>0, <1>2, <1>3 DEF IInv, Kinds
<1>7. TablesOK' /\ \A p \in Procs : ReqOK(req[p])'
  BY <1>0 DEF IInv, TablesOK, SecretProven, OnlyOne, NoOrphans, ReqOK, OpFits, Live
<1> QED BY <1>4, <1>5, <1>6, <1>7 DEF IInv

\* An administrator disables or enables an account.
LEMMA ToggleDisabledStep ==
  ASSUME IInv, NEW p \in Procs, ToggleDisabled(p)
  PROVE  IInv'
<1>0. /\ UNCHANGED <<req, ident, keys, session, pending, attempts, secrets, proven, dead>> /\ started' = started + 1
      /\ started < MaxRequests /\ MaxRequests \in Nat /\ started \in Nat /\ CountOK
      /\ attempts \in [Buckets -> Nat] /\ req \in [Procs -> Request] /\ acct \in [Ids -> Row]
  BY AccountsAssumption DEF ToggleDisabled, IInv, Kinds, AccountsAssumption
<1>1. PICK a \in Ids : Live(a) /\ acct' = [acct EXCEPT ![a].disabled = ~@]
  BY DEF ToggleDisabled
<1>2. PICK row : row = [acct[a] EXCEPT !.disabled = ~acct[a].disabled]
  OBVIOUS
<1>3. row \in Row /\ row.state = acct[a].state /\ row.pw = acct[a].pw /\ row.totp = acct[a].totp
      /\ acct' = IF Live(a) THEN [acct EXCEPT ![a] = row] ELSE acct
  BY <1>0, <1>1, <1>2 DEF Row
<1>4. acct[a].pw <= row.pw /\ (row.totp # 0 => row.totp \in proven)
  BY <1>0, <1>1, <1>3 DEF IInv, TablesOK, SecretProven, Row
<1>5. TablesStep
  BY <1>0, <1>3, <1>4, Updated
<1>6. SessionsStep /\ OthersStep
  BY <1>0, <1>5, SessionsKept, OthersKept DEF TablesStep
<1>7. CountOK'
  <2>1. PICK n \in Nat : n = Cardinality(Active) /\ Cardinality(Active') = n
    BY <1>0, ActiveFinite DEF Active
  <2>2. ASSUME NEW b \in Buckets PROVE attempts'[b] + n <= started'
    <3>1. attempts[b] \in Nat /\ attempts[b] + n <= started
      BY <1>0, <2>1 DEF CountOK
    <3> QED BY <1>0, <3>1
  <2>3. ASSUME NEW q \in Procs, At(q, "record_put") PROVE req[q].val + n <= started'
    <3>1. req[q].val \in Nat /\ req[q].val + n <= started
      BY <1>0, <2>1, <2>3 DEF CountOK, Request
    <3> QED BY <1>0, <3>1
  <2> QED BY <1>0, <2>1, <2>2, <2>3 DEF CountOK, At
<1>8. started' \in 0..MaxRequests /\ attempts' \in [Buckets -> Nat]
  BY <1>0
<1>9. ReqOK(req[p])' /\ req' = [req EXCEPT ![p] = req[p]] /\ req[p] \in Request
  <2>1. PICK r \in Request : r = req[p] /\ ReqOK(r)
    BY MineHere
  <2>2. ReqOK(r)'
    BY <1>0, <1>5, <2>1, ReqKept DEF TablesStep
  <2> QED BY <1>0, <2>1, <2>2
<1>10. PICK r \in Request : r = req[p] /\ req' = [req EXCEPT ![p] = r] /\ ReqOK(r)'
  BY <1>0, <1>9
<1> QED BY <1>5, <1>6, <1>7, <1>8, <1>10, StepOf

-----------------------------------------------------------------------------
(* The invariant.                                                          *)

\* Nobody, or one registered person.
LEMMA InitInvariant ==
  ASSUME Init
  PROVE  IInv
<1>0. /\ keys = {} /\ attempts = [b \in Buckets |-> 0] /\ req = [p \in Procs |-> Idle]
      /\ started = 0 /\ secrets = 2 /\ proven = {1} /\ dead = {} /\ MaxRequests \in Nat
      /\ Ids \subseteq Nat /\ 1 \in Ids
  BY AccountsAssumption DEF Init, AccountsAssumption
<1>1. PICK row \in Row, link \in SUBSET Providers, secret \in Nat :
        /\ Registered(row, link, secret) /\ row.totp \in {0, 1} /\ (row.state = "live" => row.pw = 1)
        /\ row.state # "live" => ~row.verified /\ link = {} /\ secret = 0
        /\ ~row.verified => link = {}
  <2>1. CASE Registered(NoAcct, {}, 0)
    <3>1. NoAcct \in Row /\ NoAcct.state = "none" /\ NoAcct.totp = 0 /\ ~NoAcct.verified
      BY DEF NoAcct, Row
    <3> QED BY <2>1, <3>1
  <2>2. CASE ~Registered(NoAcct, {}, 0)
    <3>1. PICK row \in [state : {"live"}, disabled : {FALSE}, verified : BOOLEAN, pw : {1}, byUser : BOOLEAN,
                        totp : {0, 1}, reset : BOOLEAN], link \in SUBSET Providers, secret \in {0, 2} :
            (~row.verified => link = {} /\ row.totp = 0 /\ secret = 0) /\ Registered(row, link, secret)
      BY <2>2 DEF Init
    <3>2. row.pw = 1 /\ row.totp \in {0, 1} /\ row.state = "live" /\ secret \in Nat
      OBVIOUS
    <3>3. row \in Row
      <4>1. row = [state |-> row.state, disabled |-> row.disabled, verified |-> row.verified, pw |-> row.pw,
                   byUser |-> row.byUser, totp |-> row.totp, reset |-> row.reset]
        OBVIOUS
      <4>2. row.disabled \in BOOLEAN /\ row.verified \in BOOLEAN /\ row.byUser \in BOOLEAN /\ row.reset \in BOOLEAN
        OBVIOUS
      <4>3. row.pw \in Nat /\ row.totp \in Nat /\ row.state \in {"none", "live", "deleted"}
        BY <3>2
      <4> QED BY <4>1, <4>2, <4>3 DEF Row
    <3> QED BY <3>1, <3>2, <3>3
  <2> QED BY <2>1, <2>2
<1>2. /\ acct = [a \in Ids |-> IF a = 1 THEN row ELSE NoAcct] /\ ident = [v \in Providers |-> IF v \in link THEN 1 ELSE 0]
      /\ pending = [a \in Ids |-> IF a = 1 THEN secret ELSE 0]
      /\ session = [t \in Tokens |-> IF t = 1 /\ row.verified
                                     THEN [id |-> 1, pw |-> 1, totp |-> row.totp, fresh |-> TRUE] ELSE NoSession]
  BY <1>1 DEF Registered
<1>3. NoAcct \in Row /\ NoAcct.state = "none" /\ NoSession \in Envelope /\ NoSession.id = 0
  BY DEF NoAcct, Row, NoSession, Envelope
<1>4. acct \in [Ids -> Row] /\ \A a \in Ids : Live(a) => a = 1
  BY <1>2, <1>3 DEF Live
<1>5. session \in [Tokens -> Envelope]
  <2>1. ASSUME NEW t \in Tokens PROVE session[t] \in Envelope
    <3>1. PICK n, e : n \in Nat /\ n = row.totp /\ e = [id |-> 1, pw |-> 1, totp |-> n, fresh |-> TRUE]
      BY <1>1
    <3>2. e \in Envelope
      BY <1>0, <3>1 DEF Envelope
    <3> QED BY <1>2, <1>3, <3>1, <3>2
  <2> QED BY <1>2, <2>1
<1>6. ident \in [Providers -> Ids \union {0}] /\ pending \in [Ids -> Nat] /\ attempts \in [Buckets -> Nat]
  BY <1>0, <1>2
<1>7. Kinds
  BY <1>0, <1>4, <1>5, <1>6, IdleIs DEF Kinds
<1>8. TablesOK
  <2>1. SecretProven
    BY <1>0, <1>1, <1>2, <1>4 DEF SecretProven
  <2>2. NoOrphans
    BY <1>0, <1>1, <1>2 DEF NoOrphans, Live
  <2> QED BY <1>4, <2>1, <2>2 DEF TablesOK, OnlyOne
<1>9. ASSUME NEW t \in Tokens PROVE SessionOK(t)
  <2>1. CASE t = 1 /\ row.verified
    <3>1. session[t].id = 1 /\ session[t].pw = 1 /\ acct[1] = row /\ row.state = "live" /\ row.pw = 1
      BY <1>0, <1>1, <1>2, <2>1
    <3> QED BY <1>0, <3>1 DEF SessionOK
  <2>2. CASE ~(t = 1 /\ row.verified)
    BY <1>0, <1>2, <1>3, <2>2 DEF SessionOK
  <2> QED BY <2>1, <2>2
<1>10. CountOK
  <2>1. Active = {}
    BY <1>0, IdleIs DEF Active
  <2>2. Cardinality(Active) = 0
    BY <2>1, FS_EmptySet
  <2>3. \A p \in Procs : ~At(p, "record_put")
    BY <1>0, IdleIs DEF At
  <2> QED BY <1>0, <2>2, <2>3 DEF CountOK
<1> QED BY <1>0, <1>7, <1>8, <1>9, <1>10, IdleIs DEF IInv

\* Every step keeps the invariant.
LEMMA NextInvariant ==
  ASSUME IInv, [Next]_vars
  PROVE  IInv'
<1>1. ASSUME NEW p \in Procs, Starts(p) PROVE IInv'
  BY <1>1, StartWithSessionStep, StartStep, ToggleDisabledStep DEF Starts
<1>2. ASSUME NEW p \in Procs, Reads(p) PROVE IInv'
  BY <1>2, AuthenticateStep, ReadCountStep, ChecksStep, FindStep, ReadEnvelopeStep, ReadPendingStep, OauthReads,
     ReadUserPasswordStep DEF Reads
<1>3. ASSUME NEW p \in Procs, Writes(p) PROVE IInv'
  BY <1>3, ClearAttemptsStep, PutCountStep, SignupStep, UpdateStep, PasswordStep, PutSessionStep, DropSessionStep,
     PendingStep, KeyStep, OauthCreateStep, IdentityStep, PutRawStep, DeleteStep DEF Writes
<1>4. ASSUME NEW p \in Procs, Die(p) PROVE IInv'
  BY <1>4, DoneStep DEF Die, At
<1>5. CASE UNCHANGED vars
  <2>1. UNCHANGED <<acct, ident, keys, session, pending, attempts, req, started, secrets, proven, dead>>
    BY <1>5 DEF vars
  <2>2. Kinds' /\ TablesOK'
    BY <2>1 DEF IInv, Kinds, TablesOK, SecretProven, OnlyOne, NoOrphans, Live
  <2>3. CountOK'
    BY <2>1 DEF IInv, CountOK, Active, At
  <2>4. \A t \in Tokens : SessionOK(t)'
    BY <2>1 DEF IInv, SessionOK, Live
  <2>5. \A p \in Procs : ReqOK(req[p])'
    BY <2>1 DEF IInv, ReqOK, OpFits, Live
  <2> QED BY <2>2, <2>3, <2>4, <2>5 DEF IInv
<1> QED BY <1>1, <1>2, <1>3, <1>4, <1>5, TimeStep DEF Next

\* The inductive invariant holds in every behaviour.
THEOREM Invariance == Spec => []IInv
BY InitInvariant, NextInvariant, PTL DEF Spec

\* The tables, the KV entries and the locals of the handlers are what the code
\* takes them for; however reads and puts of a counter overlap, no bucket holds
\* more failures than there were requests (rate-limit.ts:40-52).
THEOREM TypesHold == Spec => []TypeOK
<1>1. ASSUME IInv PROVE TypeOK
  <2>1. attempts \in [Buckets -> 0..started]
    <3>1. attempts \in [Buckets -> Nat] /\ started \in Nat /\ Cardinality(Active) \in Nat /\ CountOK
      <4>1. Cardinality(Active) \in Nat
        BY ActiveFinite DEF Active
      <4> QED BY <1>1, <4>1, AccountsAssumption DEF IInv, Kinds, AccountsAssumption
    <3>2. \A b \in Buckets : attempts[b] \in 0..started
      <4>1. ASSUME NEW b \in Buckets, NEW n \in Nat, NEW k \in Nat, k + n <= started PROVE k \in 0..started
        BY <3>1, <4>1
      <4>2. \A b \in Buckets : attempts[b] \in Nat /\ attempts[b] + Cardinality(Active) <= started
        BY <3>1 DEF CountOK
      <4> QED BY <3>1, <4>1, <4>2
    <3> QED BY <3>1, <3>2
  <2> QED BY <1>1, <2>1 DEF IInv, Kinds, TypeOK
<1> QED BY <1>1, Invariance, PTL

\* A second factor is only ever a secret that a code was shown for
\* (auth.ts:254-277).
THEOREM SecondFactorProven == Spec => []SecretProven
<1>1. IInv => SecretProven
  BY DEF IInv, TablesOK
<1> QED BY <1>1, Invariance, PTL

\* A token that a change or a reset of the password left behind never
\* authenticates again (auth.ts:44-55, 230-252, 279-283).
THEOREM LeftBehindForever == Spec => []PasswordChangeRevokes
<1>1. ASSUME IInv, NEW t \in dead, Valid(t) PROVE FALSE
  <2>1. t \in Tokens
    BY <1>1 DEF IInv, Kinds
  <2> QED BY <1>1, <2>1, ValidIs
<1>2. IInv => PasswordChangeRevokes
  BY <1>1 DEF PasswordChangeRevokes
<1> QED BY <1>2, Invariance, PTL

\* One person has one account, however many registrations and first logins with
\* a provider overlap (oauth.ts:117-119, the accounts_email_nocase triggers).
THEOREM OneAccountEver == Spec => []OneAccount
<1>1. ASSUME IInv PROVE OneAccount
  <2>1. CASE TheAccount = {}
    BY <2>1, FS_EmptySet DEF OneAccount
  <2>2. CASE TheAccount # {}
    <3>1. PICK a \in TheAccount : TRUE
      BY <2>2
    <3>2. TheAccount = {a}
      BY <1>1, <3>1 DEF IInv, TablesOK, OnlyOne, TheAccount
    <3>3. Cardinality({a}) = 1
      BY FS_Singleton
    <3> QED BY <3>2, <3>3 DEF OneAccount
  <2> QED BY <2>1, <2>2
<1> QED BY <1>1, Invariance, PTL

\* Identities and API keys never outlive their account, even when they are
\* written while the account is being deleted (db.ts:21-41).
THEOREM OrphansNever == Spec => []NoOrphans
<1>1. IInv => NoOrphans
  BY DEF IInv, TablesOK
<1> QED BY <1>1, Invariance, PTL
=============================================================================
