----------------------------- MODULE MailProofs -----------------------------
(***************************************************************************)
(* The safety of mail credentials and of the conversations held with them, *)
(* for every number of operations under way together, every set of secrets *)
(* and every quota.  The inductive invariant says of a conversation what   *)
(* its stage implies (WireOK), of an operation what it has in hand at each *)
(* step (LocalOK), and of the row what it promises (RowOK).                *)
(***************************************************************************)
EXTENDS MailAccounts, TLAPS

Envelope == {"from", "rcpt", "data", "body"}

WireOK(k) ==
  /\ k.direct => k.tls
  /\ k.at \in Login \union {"hello"} \union Envelope => k.tls
  /\ k.at \in Envelope => k.mail
  /\ k.at # "end" => k.result = "none" /\ ~k.accepted
  /\ k.result = "transient" => ~k.accepted

\* The operation r, its conversation k, the secrets known to work, the row c.
LocalOK(r, k, known, c) ==
  /\ r.pc = "slot" => r.op \in {"test", "change"}
  /\ r.pc = "talk" => /\ r.op \in {"add", "test", "change"} /\ ~k.mail /\ k.pw = r.pw
                      /\ k.at = "end" /\ k.result = "ok" => k.pw \in known
  /\ r.pc = "talk" /\ r.op = "add" => r.provider \in Providers
  /\ r.pc = "insert" => r.provider \in Providers /\ r.pw \in Secrets /\ (r.provider # Graph => r.pw \in known)
  /\ r.pc = "replace" => r.pw \in known
  /\ r.pc \in {"refresh", "tokens"} => c.state # "none" /\ c.provider = Graph
  /\ r.pc = "tokens" => r.pw \in Secrets
  /\ r.pc = "cap" => c.state # "none" /\ r.provider = c.provider
  /\ r.pc = "sent" => IF k.at = "end" THEN k.result = "ok" => k.accepted ELSE k.mail

RowOK ==
  /\ cred.state # "none" => cred.provider \in Providers
  /\ Live => cred.secret # NoSecret
  /\ RevokedHoldsNothing /\ ProvenBeforeStored /\ CapWithinCeiling

Types ==
  /\ cred \in CredRow /\ real \in Secrets /\ proven \subseteq Secrets /\ started \in 0..MaxRequests
  /\ req \in [Talkers -> ReqRec] /\ conn \in [Talkers -> ConnRec]

IInv ==
  /\ Types /\ RowOK
  /\ \A p \in Talkers : WireOK(conn[p]) /\ LocalOK(req[p], conn[p], proven, cred)

\* Only p's locals change, to r and k.
Moves(p, r, k) ==
  /\ req' = [req EXCEPT ![p] = r] /\ conn' = [conn EXCEPT ![p] = k]
  /\ r \in ReqRec /\ k \in ConnRec

\* Whoever works with the row still finds the provider it had.
RowStays == cred.state # "none" => cred'.state # "none" /\ cred'.provider = cred.provider

-----------------------------------------------------------------------------
(* The cap.                                                                *)

\* A quota is never 1, of which nine tenths would be nothing.
LEMMA LimitTypes ==
  ASSUME NEW v \in Providers
  PROVE  ProviderLimit(v) \in Nat /\ ProviderLimit(v) # 1
BY MailAssumption DEF MailAssumption, Providers, ProviderLimit

\* A percentage of a number is no more than the number.
LEMMA Share ==
  ASSUME NEW c \in Nat, NEW p \in 1..100
  PROVE  (c * p) \div 100 \in Nat /\ (c * p) \div 100 <= c
<1>1. c * p \in Nat /\ c * p <= c * 100
  <2>1. c * p \in Nat
    OBVIOUS
  <2>2. c * (100 - p) \in Nat /\ c * 100 = c * p + c * (100 - p)
    OBVIOUS
  <2> QED BY <2>1, <2>2
<1>2. ASSUME NEW x \in Nat, x <= c * 100 PROVE x \div 100 \in Nat /\ x \div 100 <= c
  BY <1>2
<1> QED BY <1>1, <1>2

\* A cap is null exactly when the quota is, and never above the ceiling.
LEMMA CapBounds ==
  ASSUME NEW v \in Providers, NEW pct \in Int
  PROVE  DailyCap(v, pct) \in Nat /\ (ProviderLimit(v) # 0 => DailyCap(v, pct) \in 1..Ceiling(v))
<1>1. Clamp(pct) \in 1..100
  BY DEF Clamp
<1>2. Ceiling(v) \in Nat /\ (ProviderLimit(v) # 0 => Ceiling(v) >= 1)
  BY LimitTypes DEF Ceiling
<1>3. DEFINE share == (Ceiling(v) * Clamp(pct)) \div 100
<1>4. share \in Nat /\ share <= Ceiling(v)
  BY <1>1, <1>2, Share
<1>5. DailyCap(v, pct) = IF ProviderLimit(v) = 0 THEN 0 ELSE IF share < 1 THEN 1 ELSE share
  BY DEF DailyCap
<1> HIDE DEF share
<1> QED BY <1>2, <1>4, <1>5

-----------------------------------------------------------------------------
(* How a step is put together.                                             *)

\* Working secrets only become more, so what others have in hand stays good.
LEMMA StepOf ==
  ASSUME IInv, NEW p \in Talkers, NEW r, NEW k, Moves(p, r, k), RowStays, cred' \in CredRow, RowOK', real' \in Secrets,
         proven' \subseteq Secrets, proven \subseteq proven', started' \in 0..MaxRequests,
         WireOK(k), LocalOK(r, k, proven', cred')
  PROVE  IInv'
<1>0. req \in [Talkers -> ReqRec] /\ conn \in [Talkers -> ConnRec]
  BY DEF IInv, Types
<1>1. Types'
  BY <1>0 DEF Types, Moves
<1>2. ASSUME NEW q \in Talkers PROVE WireOK(conn'[q]) /\ LocalOK(req'[q], conn'[q], proven', cred')
  <2>1. CASE q = p
    BY <1>0, <2>1 DEF Moves
  <2>2. CASE q # p
    <3>1. req'[q] = req[q] /\ conn'[q] = conn[q]
      BY <1>0, <2>2 DEF Moves
    <3>2. WireOK(conn[q]) /\ LocalOK(req[q], conn[q], proven, cred)
      BY DEF IInv
    <3>3. LocalOK(req[q], conn[q], proven', cred')
      BY <3>2 DEF LocalOK, RowStays
    <3> QED BY <3>1, <3>2, <3>3
  <2> QED BY <2>1, <2>2
<1> QED BY <1>1, <1>2 DEF IInv

\* The row and the secrets as they were.
LEMMA Quiet ==
  ASSUME IInv, NEW p \in Talkers, NEW r, NEW k, Moves(p, r, k), UNCHANGED <<cred, real, proven>>,
         started' \in 0..MaxRequests, WireOK(k), LocalOK(r, k, proven, cred)
  PROVE  IInv'
<1>1. RowOK'
  BY DEF IInv, RowOK, Live, RevokedHoldsNothing, ProvenBeforeStored, SmtpLive, CapWithinCeiling
<1>2. RowStays
  BY DEF RowStays
<1>3. cred' \in CredRow /\ real' \in Secrets /\ proven' \subseteq Secrets /\ proven \subseteq proven'
  BY DEF IInv, Types
<1>4. LocalOK(r, k, proven', cred')
  OBVIOUS
<1> QED BY <1>1, <1>2, <1>3, <1>4, StepOf

\* What p has before its step.
LEMMA Mine ==
  ASSUME IInv, NEW p \in Talkers
  PROVE  /\ req[p] \in ReqRec /\ conn[p] \in ConnRec /\ started \in 0..MaxRequests /\ cred \in CredRow
         /\ WireOK(conn[p]) /\ LocalOK(req[p], conn[p], proven, cred)
         /\ req' = [req EXCEPT ![p] = req[p]] <=> UNCHANGED req
         /\ conn' = [conn EXCEPT ![p] = conn[p]] <=> UNCHANGED conn
BY DEF IInv, Types

\* Nobody, and no conversation.
LEMMA IdleTypes == Idle \in ReqRec /\ NoConn \in ConnRec /\ WireOK(NoConn)
<1>1. Idle \in ReqRec
  BY DEF Idle, ReqRec, ReqPc, ReqOps, SecretOrNone
<1>2. NoConn \in ConnRec
  BY DEF NoConn, ConnRec, Stages, Results, SecretOrNone
<1>3. WireOK(NoConn)
  BY DEF NoConn, WireOK, Login, Envelope
<1> QED BY <1>1, <1>2, <1>3

\* An operation on the row starts with its provider.
LEMMA LoadedTypes ==
  ASSUME cred \in CredRow
  PROVE  Loaded \in ReqRec /\ Loaded.provider = cred.provider
BY IdleTypes DEF Loaded, CredRow, ReqRec

\* The end of an operation.
LEMMA DoneMoves ==
  ASSUME NEW p \in Talkers, Done(p), NEW known, NEW c
  PROVE  Moves(p, Idle, NoConn) /\ WireOK(NoConn) /\ LocalOK(Idle, NoConn, known, c)
<1>1. LocalOK(Idle, NoConn, known, c)
  BY DEF LocalOK, Idle
<1> QED BY <1>1, IdleTypes DEF Moves, Done

\* An operation that ends without writing anything keeps the invariant.
LEMMA DoneStep ==
  ASSUME IInv, NEW p \in Talkers, Done(p), UNCHANGED <<cred, started, real, proven>>
  PROVE  IInv'
BY DoneMoves, Mine, Quiet

\* A new conversation.
LEMMA OpenConn ==
  ASSUME NEW p \in Talkers, NEW direct \in BOOLEAN, NEW pw \in SecretOrNone, NEW mail \in BOOLEAN,
         Open(p, direct, pw, mail)
  PROVE  \E k \in ConnRec : /\ conn' = [conn EXCEPT ![p] = k] /\ WireOK(k)
                            /\ k.at = "greet" /\ k.pw = pw /\ k.mail = mail
<1>1. PICK k : k = [NoConn EXCEPT !.at = "greet", !.direct = direct, !.tls = direct, !.pw = pw, !.mail = mail]
  OBVIOUS
<1>2. NoConn.result = "none" /\ NoConn.accepted = FALSE
  BY DEF NoConn
<1>3. /\ k \in ConnRec /\ k.at = "greet" /\ k.direct = direct /\ k.tls = direct /\ k.pw = pw /\ k.mail = mail
      /\ k.result = "none" /\ k.accepted = FALSE
  BY <1>1, <1>2, IdleTypes DEF ConnRec, Stages
<1>4. WireOK(k)
  BY <1>3 DEF WireOK, Login, Envelope
<1> QED BY <1>1, <1>3, <1>4 DEF Open

\* A conversation that is over.
LEMMA EndConn ==
  ASSUME NEW p \in Talkers, conn[p] \in ConnRec, WireOK(conn[p]), NEW result \in Results, NEW accepted \in BOOLEAN,
         End(p, result, accepted), result = "transient" => ~accepted
  PROVE  \E k \in ConnRec : /\ conn' = [conn EXCEPT ![p] = k] /\ WireOK(k)
                            /\ k.at = "end" /\ k.result = result /\ k.accepted = accepted
                            /\ k.pw = conn[p].pw /\ k.mail = conn[p].mail
<1>1. PICK k : k = [conn[p] EXCEPT !.at = "end", !.result = result, !.accepted = accepted]
  OBVIOUS
<1>2. /\ k \in ConnRec /\ k.at = "end" /\ k.result = result /\ k.accepted = accepted /\ k.pw = conn[p].pw
      /\ k.mail = conn[p].mail /\ k.direct = conn[p].direct /\ k.tls = conn[p].tls
  BY <1>1 DEF ConnRec, Stages
<1>3. WireOK(k)
  BY <1>2 DEF WireOK, Login, Envelope
<1> QED BY <1>1, <1>2, <1>3 DEF End
-----------------------------------------------------------------------------
(* Every step of an operation keeps the invariant.                         *)

\* An operation begins: its locals are those it was given.
LEMMA Begun ==
  ASSUME IInv, NEW p \in Talkers, NEW op \in ReqOps, NEW s \in ReqPc, NEW f \in ReqRec, Begin(p, op, s, f)
  PROVE  \E r \in ReqRec : /\ req' = [req EXCEPT ![p] = r] /\ r.pc = s /\ r.op = op
                           /\ r.provider = f.provider /\ r.pw = f.pw
                           /\ started' \in 0..MaxRequests
<1>1. PICK r : r = [f EXCEPT !.pc = s, !.op = op]
  OBVIOUS
<1>2. r \in ReqRec /\ r.pc = s /\ r.op = op /\ r.provider = f.provider /\ r.pw = f.pw
  BY <1>1 DEF ReqRec
<1>3. started \in 0..MaxRequests /\ MaxRequests \in Nat
  BY MailAssumption DEF IInv, Types, MailAssumption
<1>4. started' \in 0..MaxRequests
  BY <1>3 DEF Begin
<1> QED BY <1>1, <1>2, <1>4 DEF Begin

\* The owner adds a credential: with a password, to be tested first, ...
LEMMA StartAddStep ==
  ASSUME IInv, NEW p \in Talkers, StartAdd(p)
  PROVE  IInv'
<1>1. PICK v \in DOMAIN Limit, direct \in BOOLEAN, pw \in Secrets, pct \in Percents :
        /\ Begin(p, "add", "talk", [Idle EXCEPT !.provider = v, !.direct = direct, !.pw = pw, !.pct = pct])
        /\ Open(p, direct, pw, FALSE) /\ UNCHANGED <<cred, real, proven>>
  BY DEF StartAdd
<1>2. PICK f : f = [Idle EXCEPT !.provider = v, !.direct = direct, !.pw = pw, !.pct = pct]
  OBVIOUS
<1>3. v \in Providers /\ pw \in SecretOrNone /\ pct \in Int
  BY MailAssumption DEF MailAssumption, Providers, SecretOrNone
<1>4. f \in ReqRec /\ f.provider = v /\ f.pw = pw
  BY <1>2, <1>3, IdleTypes DEF ReqRec
<1>5. Begin(p, "add", "talk", f) /\ "add" \in ReqOps /\ "talk" \in ReqPc
  BY <1>1, <1>2 DEF ReqPc, ReqOps
<1>6. PICK r \in ReqRec : /\ req' = [req EXCEPT ![p] = r] /\ r.pc = "talk" /\ r.op = "add" /\ r.provider = v
                          /\ r.pw = pw /\ started' \in 0..MaxRequests
  BY <1>4, <1>5, Begun
<1>7. PICK k \in ConnRec : conn' = [conn EXCEPT ![p] = k] /\ WireOK(k) /\ k.at = "greet" /\ k.pw = pw /\ k.mail = FALSE
  <2>1. PICK mail \in BOOLEAN : mail = FALSE
    OBVIOUS
  <2>2. Open(p, direct, pw, mail)
    BY <1>1, <2>1 DEF Open
  <2>3. PICK k \in ConnRec : conn' = [conn EXCEPT ![p] = k] /\ WireOK(k) /\ k.at = "greet" /\ k.pw = pw /\ k.mail = mail
    BY <1>3, <2>2, OpenConn
  <2> QED BY <2>1, <2>3
<1>8. LocalOK(r, k, proven, cred)
  BY <1>3, <1>6, <1>7 DEF LocalOK
<1> QED BY <1>1, <1>6, <1>7, <1>8, Quiet DEF Moves

\* ... or with the tokens of Microsoft Graph.
LEMMA StartAddGraphStep ==
  ASSUME IInv, NEW p \in Talkers, StartAddGraph(p)
  PROVE  IInv'
<1>1. PICK token \in Secrets : Begin(p, "add", "insert", [Idle EXCEPT !.provider = Graph, !.pw = token, !.pct = 100])
  BY DEF StartAddGraph
<1>2. PICK f : f = [Idle EXCEPT !.provider = Graph, !.pw = token, !.pct = 100]
  OBVIOUS
<1>3. Graph \in Providers /\ token \in SecretOrNone /\ 100 \in Int
  BY DEF Providers, SecretOrNone
<1>4. PICK v, pct : v = Graph /\ pct = 100
  OBVIOUS
<1>5. f \in ReqRec /\ f.provider = v /\ f.pw = token
  <2>1. f = [Idle EXCEPT !.provider = v, !.pw = token, !.pct = pct] /\ v \in Providers /\ pct \in Int
    BY <1>2, <1>3, <1>4
  <2> QED BY <1>3, <2>1, IdleTypes DEF ReqRec
<1>6. Begin(p, "add", "insert", f) /\ "add" \in ReqOps /\ "insert" \in ReqPc
  BY <1>1, <1>2 DEF ReqPc, ReqOps
<1>7. PICK r \in ReqRec : /\ req' = [req EXCEPT ![p] = r] /\ r.pc = "insert" /\ r.provider = Graph
                          /\ r.pw = token /\ started' \in 0..MaxRequests
  BY <1>4, <1>5, <1>6, Begun
<1>8. LocalOK(r, conn[p], proven, cred)
  BY <1>3, <1>7 DEF LocalOK
<1> QED BY <1>7, <1>8, Mine, Quiet DEF Moves, StartAddGraph, smtp

\* The other operations begin with what they read of the row, or with nothing.
LEMMA StartsStep ==
  ASSUME IInv, NEW p \in Talkers,
         StartTest(p) \/ StartChange(p) \/ StartCap(p) \/ StartDelete(p) \/ StartSend(p) \/ StartSystemMail(p)
  PROVE  IInv'
<1>0. UNCHANGED <<cred, smtp>>
  BY DEF StartTest, StartChange, StartCap, StartDelete, StartSend, StartSystemMail
<1>1. cred \in CredRow /\ cred.secret \in SecretOrNone /\ Loaded \in ReqRec /\ Loaded.provider = cred.provider
  BY Mine, LoadedTypes DEF CredRow
<1>2. Live => cred.secret \in Secrets
  BY <1>1 DEF IInv, RowOK, SecretOrNone
<1>3. \A pw \in SecretOrNone : [Loaded EXCEPT !.pw = pw] \in ReqRec /\ [Loaded EXCEPT !.pw = pw].provider = cred.provider
  BY <1>1 DEF ReqRec
<1>4. \A pct \in Int : [Loaded EXCEPT !.pct = pct] \in ReqRec /\ [Loaded EXCEPT !.pct = pct].provider = cred.provider
  BY <1>1 DEF ReqRec
<1>5. ASSUME NEW op \in ReqOps, NEW s \in ReqPc, NEW f \in ReqRec, Begin(p, op, s, f),
             s = "slot" => op \in {"test", "change"}, s \notin {"talk", "insert", "replace", "tokens", "sent"},
             s = "refresh" => Live /\ cred.provider = Graph, s = "cap" => Live /\ f.provider = cred.provider
      PROVE  IInv'
  <2>1. PICK r \in ReqRec : /\ req' = [req EXCEPT ![p] = r] /\ r.pc = s /\ r.op = op /\ r.provider = f.provider
                            /\ started' \in 0..MaxRequests
    BY <1>5, Begun
  <2>2. LocalOK(r, conn[p], proven, cred)
    BY <1>5, <2>1 DEF LocalOK, Live
  <2> QED BY <1>0, <2>1, <2>2, Mine, Quiet DEF Moves, smtp
<1>6. CASE StartTest(p)
  BY <1>1, <1>3, <1>5, <1>6 DEF StartTest, ReqPc, ReqOps
<1>7. CASE StartChange(p)
  <2>1. PICK pw \in Secrets : Begin(p, "change", "slot", [Loaded EXCEPT !.pw = pw])
    BY <1>7 DEF StartChange
  <2> QED BY <1>3, <1>5, <2>1 DEF ReqPc, ReqOps, SecretOrNone
<1>8. CASE StartCap(p)
  <2>1. PICK pct \in Percents : Live /\ Begin(p, "cap", "cap", [Loaded EXCEPT !.pct = pct])
    BY <1>8 DEF StartCap
  <2>2. pct \in Int
    BY MailAssumption DEF MailAssumption
  <2> QED BY <1>4, <1>5, <2>1, <2>2 DEF ReqPc, ReqOps
<1>9. CASE StartDelete(p)
  BY <1>5, <1>9, IdleTypes DEF StartDelete, ReqPc, ReqOps
<1>10. CASE StartSend(p)
  <2>1. PICK s \in (IF cred.provider = Graph THEN {"refresh", "graph"} ELSE {"decrypt"}) :
          Live /\ Begin(p, "send", s, [Loaded EXCEPT !.pw = cred.secret])
    BY <1>10 DEF StartSend
  <2>2. s \in ReqPc /\ s \in {"refresh", "graph", "decrypt"} /\ (s = "refresh" => cred.provider = Graph)
    BY DEF ReqPc
  <2> QED BY <1>1, <1>3, <1>5, <2>1, <2>2 DEF ReqOps
<1>11. CASE StartSystemMail(p)
  BY <1>5, <1>11, IdleTypes DEF StartSystemMail, ReqPc, ReqOps
<1> QED BY <1>6, <1>7, <1>8, <1>9, <1>10, <1>11

\* The conversation goes on: to the next stage, or to its good end, which a
\* test reaches by its login and a mail by the reply to its body.
LEMMA GoesOnConn ==
  ASSUME NEW p \in Talkers, conn[p] \in ConnRec, WireOK(conn[p]), GoesOn(p)
  PROVE  \E k \in ConnRec : /\ conn' = [conn EXCEPT ![p] = k] /\ WireOK(k) /\ k.pw = conn[p].pw /\ k.mail = conn[p].mail
                            /\ k.at = "end" => IF k.mail THEN k.accepted ELSE k.pw \in proven'
<1> DEFINE c == conn[p]
<1>1. c.at \in {"greet", "starttls", "from", "rcpt", "data", "body", "ehlo", "hello", "auth", "user", "pass"}
  BY DEF GoesOn, Talking, Hello, Login
<1>2. c.direct \in BOOLEAN /\ c.mail \in BOOLEAN /\ c.tls \in BOOLEAN /\ c.pw \in SecretOrNone
  BY DEF ConnRec
<1>3. PICK s : s = NextStage(c)
  OBVIOUS
<1>4. CASE s = "end"
  <2>1. (c.at = "pass" /\ ~c.mail) \/ c.at = "body"
    BY <1>1, <1>3, <1>4 DEF NextStage, AfterHello
  <2>2. PICK took \in BOOLEAN : took = (c.at = "body")
    OBVIOUS
  <2>3. End(p, "ok", took) /\ (c.at = "pass" => c.pw \in proven')
    BY <1>3, <1>4, <2>2 DEF GoesOn, End
  <2>4. PICK k \in ConnRec : /\ conn' = [conn EXCEPT ![p] = k] /\ WireOK(k) /\ k.at = "end" /\ k.accepted = took
                             /\ k.pw = c.pw /\ k.mail = c.mail
    BY <2>3, EndConn DEF Results
  <2>5. c.at = "body" => c.mail
    BY DEF WireOK, Envelope
  <2>6. IF k.mail THEN k.accepted ELSE k.pw \in proven'
    BY <2>1, <2>2, <2>3, <2>4, <2>5
  <2> QED BY <2>4, <2>6
<1>5. CASE s # "end"
  <2>1. PICK secure \in BOOLEAN : secure = (c.tls \/ c.at = "starttls")
    OBVIOUS
  <2>2. PICK k : k = [c EXCEPT !.at = s, !.tls = secure]
    OBVIOUS
  <2>3. s \in Stages
    BY <1>1, <1>3, <1>5 DEF NextStage, AfterHello, Stages, Hello, Login
  <2>4. /\ k \in ConnRec /\ k.at = s /\ k.tls = secure /\ k.pw = c.pw /\ k.mail = c.mail /\ k.direct = c.direct
        /\ k.accepted = c.accepted /\ k.result = c.result
    BY <2>2, <2>3 DEF ConnRec
  <2>5. conn' = [conn EXCEPT ![p] = k]
    BY <1>3, <1>5, <2>1, <2>2 DEF GoesOn
  <2>6. /\ s \in Login \union {"hello"} \union Envelope => secure
        /\ s \in Envelope => c.mail
    BY <1>1, <1>2, <1>3, <2>1 DEF NextStage, AfterHello, WireOK, Login, Envelope
  <2>7. (c.direct => secure) /\ c.result = "none" /\ ~c.accepted
    BY <1>1, <2>1 DEF WireOK
  <2>8. WireOK(k)
    BY <2>4, <2>6, <2>7 DEF WireOK
  <2> QED BY <1>5, <2>4, <2>5, <2>8
<1> QED BY <1>4, <1>5

\* It is refused, or its reply is lost: over, and never with good news.
LEMMA BrokenConn ==
  ASSUME NEW p \in Talkers, conn[p] \in ConnRec, WireOK(conn[p]), Refused(p) \/ Lost(p)
  PROVE  \E k \in ConnRec : /\ conn' = [conn EXCEPT ![p] = k] /\ WireOK(k) /\ k.pw = conn[p].pw /\ k.mail = conn[p].mail
                            /\ k.at = "end" /\ k.result # "ok"
<1>1. PICK result \in {"credential", "transient", "bounce", "dead"}, took \in BOOLEAN :
        End(p, result, took) /\ (result = "transient" => ~took)
  <2>1. CASE Refused(p)
    <3>1. PICK reply \in {"tmp", "perm"} : \E result \in Classify(conn[p].at, reply) : End(p, result, FALSE)
      BY <2>1 DEF Refused
    <3>2. Classify(conn[p].at, reply) \subseteq {"credential", "transient", "bounce", "dead"}
      BY DEF Classify
    <3>3. PICK result \in {"credential", "transient", "bounce", "dead"} : End(p, result, FALSE)
      BY <3>1, <3>2
    <3>4. PICK took \in BOOLEAN : took = FALSE
      OBVIOUS
    <3>5. End(p, result, took)
      BY <3>3, <3>4 DEF End
    <3> QED BY <3>4, <3>5
  <2>2. CASE Lost(p)
    <3>1. Classify(conn[p].at, "lost") = {"bounce"}
      BY DEF Classify
    <3>2. End(p, "bounce", FALSE) \/ End(p, "bounce", TRUE)
      BY <2>2, <3>1 DEF Lost
    <3>3. PICK took \in BOOLEAN : conn' = [conn EXCEPT ![p].at = "end", ![p].result = "bounce", ![p].accepted = took]
      BY <3>2 DEF End
    <3>4. End(p, "bounce", took)
      BY <3>3 DEF End
    <3> QED BY <3>4
  <2> QED BY <2>1, <2>2
<1>2. result \in Results /\ result # "ok"
  BY DEF Results
<1>3. PICK k \in ConnRec : /\ conn' = [conn EXCEPT ![p] = k] /\ WireOK(k) /\ k.at = "end" /\ k.result = result
                           /\ k.pw = conn[p].pw /\ k.mail = conn[p].mail
  BY <1>1, <1>2, EndConn
<1> QED BY <1>2, <1>3

\* What a reply, or none, does to the one who waits for it.
LEMMA TalkStep ==
  ASSUME IInv, NEW p \in Talkers, Talk(p)
  PROVE  IInv'
<1>0. UNCHANGED <<cred, req, started, real>> /\ proven \subseteq proven' /\ proven' \subseteq Secrets
  <2>1. UNCHANGED <<cred, req, started, real>>
    BY DEF Talk, GoesOn, Refused, Lost
  <2>2. proven' = proven \/ (conn[p].pw = real /\ proven' = proven \union {conn[p].pw})
    BY DEF Talk, GoesOn, Refused, Lost
  <2>3. proven \subseteq Secrets /\ real \in Secrets
    BY DEF IInv, Types
  <2> QED BY <2>1, <2>2, <2>3
<1>1. PICK k \in ConnRec : /\ conn' = [conn EXCEPT ![p] = k] /\ WireOK(k) /\ k.pw = conn[p].pw /\ k.mail = conn[p].mail
                           /\ k.at = "end" /\ k.result = "ok" => IF k.mail THEN k.accepted ELSE k.pw \in proven'
  BY Mine, GoesOnConn, BrokenConn DEF Talk
<1>2. conn[p].at # "end"
  BY DEF Talk, GoesOn, Refused, Lost, Talking, Hello, Login
<1>3. LocalOK(req[p], conn[p], proven, cred)
  BY Mine
<1>4. LocalOK(req[p], k, proven', cred)
  BY <1>0, <1>1, <1>2, <1>3 DEF LocalOK
<1>5. RowOK'
  BY <1>0 DEF IInv, RowOK, Live, RevokedHoldsNothing, ProvenBeforeStored, SmtpLive, CapWithinCeiling
<1>6. Moves(p, req[p], k) /\ RowStays /\ cred' = cred
  BY <1>0, <1>1, Mine DEF Moves, RowStays
<1>7. cred' \in CredRow /\ real' \in Secrets /\ started' \in 0..MaxRequests
  BY <1>0 DEF IInv, Types
<1> QED BY <1>0, <1>1, <1>4, <1>5, <1>6, <1>7, StepOf

\* An operation goes on with what it has.
LEMMA GotoReq ==
  ASSUME IInv, NEW p \in Talkers, NEW s \in ReqPc, Goto(p, s)
  PROVE  \E r \in ReqRec : /\ req' = [req EXCEPT ![p] = r] /\ r.pc = s /\ r.op = req[p].op
                           /\ r.provider = req[p].provider /\ r.pw = req[p].pw
<1>1. req[p] \in ReqRec
  BY Mine
<1>2. PICK r : r = [req[p] EXCEPT !.pc = s]
  OBVIOUS
<1>3. r \in ReqRec /\ r.pc = s /\ r.op = req[p].op /\ r.provider = req[p].provider /\ r.pw = req[p].pw
  BY <1>1, <1>2 DEF ReqRec
<1> QED BY <1>2, <1>3 DEF Goto

\* The slot for a test: taken, or refused.
LEMMA TakeSlotStep ==
  ASSUME IInv, NEW p \in Talkers, TakeSlot(p)
  PROVE  IInv'
<1>1. CASE Done(p)
  BY <1>1, DoneStep DEF TakeSlot
<1>2. CASE Goto(p, "talk") /\ Open(p, req[p].direct, req[p].pw, FALSE)
  <2>1. req[p].direct \in BOOLEAN /\ req[p].pw \in SecretOrNone /\ req[p].op \in {"test", "change"}
    BY Mine DEF ReqRec, TakeSlot, At, LocalOK
  <2>2. "talk" \in ReqPc
    BY DEF ReqPc
  <2>3. PICK r \in ReqRec : req' = [req EXCEPT ![p] = r] /\ r.pc = "talk" /\ r.op = req[p].op /\ r.pw = req[p].pw
    BY <1>2, <2>2, GotoReq
  <2>4. PICK k \in ConnRec : conn' = [conn EXCEPT ![p] = k] /\ WireOK(k) /\ k.at = "greet" /\ k.pw = req[p].pw /\ ~k.mail
    <3>1. PICK direct \in BOOLEAN, pw \in SecretOrNone, mail \in BOOLEAN :
            direct = req[p].direct /\ pw = req[p].pw /\ mail = FALSE
      BY <2>1
    <3>2. Open(p, direct, pw, mail)
      BY <1>2, <3>1 DEF Open
    <3>3. PICK k \in ConnRec : conn' = [conn EXCEPT ![p] = k] /\ WireOK(k) /\ k.at = "greet" /\ k.pw = pw /\ k.mail = mail
      BY <3>2, OpenConn
    <3> QED BY <3>1, <3>3
  <2>5. LocalOK(r, k, proven, cred)
    BY <2>1, <2>3, <2>4 DEF LocalOK
  <2> QED BY <2>3, <2>4, <2>5, Mine, Quiet DEF Moves, TakeSlot
<1> QED BY <1>1, <1>2 DEF TakeSlot

\* The test has its result: only a login that went through leads on.
LEMMA TestedStep ==
  ASSUME IInv, NEW p \in Talkers, Tested(p)
  PROVE  IInv'
<1>0. req[p].pc = "talk" /\ conn[p].at = "end" /\ LocalOK(req[p], conn[p], proven, cred)
  BY Mine DEF Tested, At
<1>1. CASE conn[p].result # "ok"
  BY <1>1, DoneStep DEF Tested
<1>2. CASE conn[p].result = "ok"
  <2>1. /\ req[p].op \in {"add", "test", "change"} /\ req[p].pw \in proven
        /\ req[p].op = "add" => req[p].provider \in Providers
    BY <1>0, <1>2 DEF LocalOK
  <2>2. PICK s : s = AfterTest[req[p].op]
    OBVIOUS
  <2>3. s \in ReqPc /\ s \in {"insert", "verified", "replace"} /\ (s = "insert" => req[p].op = "add")
    BY <2>1, <2>2 DEF AfterTest, ReqPc
  <2>4. Goto(p, s) /\ UNCHANGED <<conn, cred, started, real, proven>>
    BY <1>2, <2>2 DEF Tested
  <2>5. PICK r \in ReqRec : req' = [req EXCEPT ![p] = r] /\ r.pc = s /\ r.provider = req[p].provider /\ r.pw = req[p].pw
    BY <2>3, <2>4, GotoReq
  <2>6. LocalOK(r, conn[p], proven, cred)
    <3>1. proven \subseteq Secrets
      BY DEF IInv, Types
    <3> QED BY <2>1, <2>3, <2>5, <3>1 DEF LocalOK
  <2> QED BY <2>4, <2>5, <2>6, Mine, Quiet DEF Moves
<1> QED BY <1>1, <1>2

-----------------------------------------------------------------------------
(* The statements that write the row.                                      *)

\* A write with which the operation is over.
LEMMA WriteStep ==
  ASSUME IInv, NEW p \in Talkers, Done(p), UNCHANGED <<started, real, proven>>, cred' \in CredRow, RowStays, RowOK'
  PROVE  IInv'
<1>1. started' \in 0..MaxRequests /\ real' \in Secrets /\ proven' \subseteq Secrets /\ proven \subseteq proven'
  BY DEF IInv, Types
<1> QED BY <1>1, DoneMoves, StepOf

\* The credential is stored; its password was taken by the server.
LEMMA InsertStep ==
  ASSUME IInv, NEW p \in Talkers, Insert(p)
  PROVE  IInv'
<1>1. /\ req[p].provider \in Providers /\ req[p].pw \in Secrets /\ (req[p].provider # Graph => req[p].pw \in proven)
      /\ req[p].direct \in BOOLEAN /\ req[p].pct \in Int
  BY Mine DEF Insert, At, LocalOK, ReqRec
<1>2. PICK cap : cap = DailyCap(req[p].provider, req[p].pct)
  OBVIOUS
<1>3. cap \in Nat /\ (ProviderLimit(req[p].provider) # 0 => cap \in 1..Ceiling(req[p].provider))
  BY <1>1, <1>2, CapBounds
<1>4. cred' = [state |-> "live", provider |-> req[p].provider, direct |-> req[p].direct, secret |-> req[p].pw,
               verified |-> TRUE, pct |-> req[p].pct, cap |-> cap]
  BY <1>2 DEF Insert
<1>5. cred' \in CredRow
  BY <1>1, <1>3, <1>4 DEF CredRow, SecretOrNone
<1>6. /\ cred'.state = "live" /\ cred'.provider = req[p].provider /\ cred'.secret = req[p].pw /\ cred'.cap = cap
      /\ proven' = proven
  BY <1>4 DEF Insert
<1>7. RowOK'
  BY <1>1, <1>3, <1>6, SecretAssumption
     DEF SecretAssumption, RowOK, Live, RevokedHoldsNothing, ProvenBeforeStored, SmtpLive, CapWithinCeiling
<1> QED BY <1>5, <1>7, WriteStep DEF Insert, RowStays

\* A test, a change of password, a cap, a removal: only while the row lives.
LEMMA UpdateStep ==
  ASSUME IInv, NEW p \in Talkers, MarkVerified(p) \/ ReplacePassword(p) \/ WriteCap(p) \/ Revoke(p)
  PROVE  IInv'
<1>0. Done(p) /\ UNCHANGED <<started, real, proven>>
  BY DEF MarkVerified, ReplacePassword, WriteCap, Revoke
<1>1. CASE cred' = cred
  BY <1>0, <1>1, DoneStep
<1>2. cred \in CredRow /\ RowOK /\ LocalOK(req[p], conn[p], proven, cred) /\ req[p] \in ReqRec /\ proven \subseteq Secrets
  BY Mine DEF IInv, Types
<1>3. CASE MarkVerified(p) /\ Live
  <2>1. cred' = [cred EXCEPT !.verified = TRUE]
    BY <1>3 DEF MarkVerified
  <2>2. /\ cred' \in CredRow /\ cred'.state = cred.state /\ cred'.provider = cred.provider /\ cred'.secret = cred.secret
        /\ cred'.cap = cred.cap
    BY <1>2, <2>1 DEF CredRow
  <2>3. RowOK'
    BY <1>0, <1>2, <2>2 DEF RowOK, Live, RevokedHoldsNothing, ProvenBeforeStored, SmtpLive, CapWithinCeiling
  <2> QED BY <1>0, <2>2, <2>3, WriteStep DEF RowStays
<1>4. CASE ReplacePassword(p) /\ Live
  <2>1. req[p].pw \in proven
    BY <1>2, <1>4 DEF ReplacePassword, At, LocalOK
  <2>2. cred' = [cred EXCEPT !.secret = req[p].pw, !.verified = TRUE]
    BY <1>4 DEF ReplacePassword
  <2>3. /\ cred' \in CredRow /\ cred'.state = cred.state /\ cred'.provider = cred.provider /\ cred'.secret = req[p].pw
        /\ cred'.cap = cred.cap
    BY <1>2, <2>1, <2>2 DEF CredRow, SecretOrNone
  <2>4. RowOK'
    BY <1>0, <1>2, <1>4, <2>1, <2>3, SecretAssumption
       DEF SecretAssumption, RowOK, Live, RevokedHoldsNothing, ProvenBeforeStored, SmtpLive, CapWithinCeiling
  <2> QED BY <1>0, <2>3, <2>4, WriteStep DEF RowStays
<1>5. CASE WriteCap(p) /\ Live
  <2>1. req[p].provider = cred.provider /\ cred.provider \in Providers /\ req[p].pct \in Int
    BY <1>2, <1>5 DEF WriteCap, At, LocalOK, Live, RowOK, ReqRec
  <2>2. PICK cap : cap = DailyCap(cred.provider, req[p].pct)
    OBVIOUS
  <2>3. cap \in Nat /\ (ProviderLimit(cred.provider) # 0 => cap \in 1..Ceiling(cred.provider))
    BY <2>1, <2>2, CapBounds
  <2>4. PICK pct \in Int : pct = Clamp(req[p].pct)
    BY <2>1 DEF Clamp
  <2>5. cred' = [cred EXCEPT !.pct = pct, !.cap = cap]
    BY <1>5, <2>1, <2>2, <2>4 DEF WriteCap
  <2>6. /\ cred' \in CredRow /\ cred'.state = cred.state /\ cred'.provider = cred.provider /\ cred'.secret = cred.secret
        /\ cred'.cap = cap
    BY <1>2, <2>3, <2>5 DEF CredRow
  <2>7. RowOK'
    BY <1>0, <1>2, <2>3, <2>6 DEF RowOK, Live, RevokedHoldsNothing, ProvenBeforeStored, SmtpLive, CapWithinCeiling
  <2> QED BY <1>0, <2>6, <2>7, WriteStep DEF RowStays
<1>6. CASE Revoke(p) /\ Live
  <2>1. cred' = [cred EXCEPT !.state = "revoked", !.secret = NoSecret]
    BY <1>6 DEF Revoke
  <2>2. cred' \in CredRow /\ cred'.state = "revoked" /\ cred'.provider = cred.provider /\ cred'.secret = NoSecret
    BY <1>2, <2>1 DEF CredRow, SecretOrNone
  <2>3. RowOK'
    BY <1>2, <1>6, <2>2 DEF RowOK, Live, RevokedHoldsNothing, ProvenBeforeStored, SmtpLive, CapWithinCeiling
  <2> QED BY <1>0, <2>2, <2>3, WriteStep DEF RowStays
<1> QED BY <1>1, <1>3, <1>4, <1>5, <1>6 DEF MarkVerified, ReplacePassword, WriteCap, Revoke

\* A token refresh ends with the tokens in the row, which is one of Graph.
LEMMA TokenSteps ==
  ASSUME IInv, NEW p \in Talkers, Refresh(p) \/ PersistTokens(p)
  PROVE  IInv'
<1>0. LocalOK(req[p], conn[p], proven, cred) /\ req[p] \in ReqRec
  BY Mine
<1>1. CASE Refresh(p) /\ Done(p)
  BY <1>1, DoneStep DEF Refresh
<1>2. ASSUME NEW token \in Secrets, Refresh(p), req' = [req EXCEPT ![p].pc = "tokens", ![p].pw = token], UNCHANGED conn
      PROVE  IInv'
  <2>1. PICK r : r = [req[p] EXCEPT !.pc = "tokens", !.pw = token]
    OBVIOUS
  <2>2. r \in ReqRec /\ r.pc = "tokens" /\ r.pw = token /\ req' = [req EXCEPT ![p] = r]
    BY <1>0, <1>2, <2>1 DEF ReqRec, ReqPc, SecretOrNone
  <2>3. cred.state # "none" /\ cred.provider = Graph
    BY <1>0, <1>2 DEF Refresh, At, LocalOK
  <2>4. LocalOK(r, conn[p], proven, cred)
    BY <2>2, <2>3 DEF LocalOK
  <2> QED BY <1>2, <2>2, <2>4, Mine, Quiet DEF Moves, Refresh
<1>3. CASE PersistTokens(p)
  <2>1. req[p].pw \in Secrets /\ cred.state # "none" /\ cred.provider = Graph
    BY <1>0, <1>3 DEF PersistTokens, At, LocalOK
  <2>2. cred \in CredRow /\ RowOK
    BY DEF IInv, Types
  <2>3. PICK r \in ReqRec : req' = [req EXCEPT ![p] = r] /\ r.pc = "graph"
    BY <1>3, GotoReq DEF PersistTokens, ReqPc
  <2>4. LocalOK(r, conn[p], proven', cred')
    BY <2>3 DEF LocalOK
  <2>5. Moves(p, r, conn[p]) /\ WireOK(conn[p])
    BY <1>3, <2>3, Mine DEF Moves, PersistTokens, smtp
  <2>6. started' \in 0..MaxRequests /\ real' \in Secrets /\ proven' \subseteq Secrets /\ proven \subseteq proven'
    BY <1>3 DEF IInv, Types, PersistTokens, smtp
  <2>7. CASE Live
    <3>1. cred' = [cred EXCEPT !.secret = req[p].pw]
      BY <1>3, <2>7 DEF PersistTokens
    <3>2. /\ cred' \in CredRow /\ cred'.state = cred.state /\ cred'.provider = cred.provider /\ cred'.secret = req[p].pw
          /\ cred'.cap = cred.cap
      BY <2>1, <2>2, <3>1 DEF CredRow, SecretOrNone
    <3>3. RowOK'
      BY <2>1, <2>2, <2>7, <3>2, SecretAssumption
         DEF SecretAssumption, RowOK, Live, RevokedHoldsNothing, ProvenBeforeStored, SmtpLive, CapWithinCeiling
    <3> QED BY <2>4, <2>5, <2>6, <3>2, <3>3, StepOf DEF RowStays
  <2>8. CASE ~Live
    <3>1. cred' = cred
      BY <1>3, <2>8 DEF PersistTokens
    <3>2. LocalOK(r, conn[p], proven, cred)
      BY <2>3 DEF LocalOK
    <3> QED BY <1>3, <2>5, <2>6, <3>1, <3>2, Quiet DEF PersistTokens, smtp
  <2> QED BY <2>7, <2>8
<1> QED BY <1>1, <1>2, <1>3 DEF Refresh

-----------------------------------------------------------------------------
(* The mails.                                                              *)

\* A mail goes out over SMTP: the conversation is one for a mail.
LEMMA MailStep ==
  ASSUME IInv, NEW p \in Talkers, NEW direct \in BOOLEAN, NEW pw \in SecretOrNone, Goto(p, "sent"),
         Open(p, direct, pw, TRUE), UNCHANGED <<cred, started, real, proven>>
  PROVE  IInv'
<1>1. PICK mail \in BOOLEAN : mail = TRUE
  OBVIOUS
<1>2. Open(p, direct, pw, mail)
  BY <1>1 DEF Open
<1>3. PICK k \in ConnRec : conn' = [conn EXCEPT ![p] = k] /\ WireOK(k) /\ k.at = "greet" /\ k.mail = mail
  BY <1>2, OpenConn
<1>4. PICK r \in ReqRec : req' = [req EXCEPT ![p] = r] /\ r.pc = "sent"
  BY GotoReq DEF ReqPc
<1>5. LocalOK(r, k, proven, cred)
  BY <1>1, <1>3, <1>4 DEF LocalOK
<1> QED BY <1>3, <1>4, <1>5, Mine, Quiet DEF Moves

\* An HTTP API answered, or there was no password: the mail has its result.
LEMMA AnsweredStep ==
  ASSUME IInv, NEW p \in Talkers, NEW result \in Results, NEW took \in BOOLEAN, Goto(p, "sent"), End(p, result, took),
         UNCHANGED <<cred, started, real, proven>>, result = "ok" => took, result = "transient" => ~took
  PROVE  IInv'
<1>1. PICK k \in ConnRec : conn' = [conn EXCEPT ![p] = k] /\ WireOK(k) /\ k.at = "end" /\ k.result = result /\ k.accepted = took
  BY Mine, EndConn
<1>2. PICK r \in ReqRec : req' = [req EXCEPT ![p] = r] /\ r.pc = "sent"
  BY GotoReq DEF ReqPc
<1>3. LocalOK(r, k, proven, cred)
  BY <1>1, <1>2 DEF LocalOK
<1> QED BY <1>1, <1>2, <1>3, Mine, Quiet DEF Moves

\* Graph, the SMTP server of a user, Resend or the system's own server.
LEMMA SendSteps ==
  ASSUME IInv, NEW p \in Talkers, SendGraph(p) \/ Decrypt(p) \/ Resend(p)
  PROVE  IInv'
<1>0. UNCHANGED <<cred, started, real, proven>> /\ Goto(p, "sent")
  BY DEF SendGraph, Decrypt, Resend
<1>1. PICK yes \in BOOLEAN, no \in BOOLEAN : yes = TRUE /\ no = FALSE
  OBVIOUS
<1>2. {"ok", "transient", "bounce", "credential"} \subseteq Results
  BY DEF Results
<1>3. CASE SendGraph(p)
  <2>1. End(p, "ok", yes) \/ End(p, "transient", no) \/ End(p, "bounce", no) \/ End(p, "bounce", yes)
    BY <1>1, <1>3 DEF SendGraph, End
  <2> QED BY <1>0, <1>1, <1>2, <2>1, AnsweredStep
<1>4. CASE Decrypt(p)
  <2>1. CASE Open(p, req[p].direct, req[p].pw, TRUE)
    <3>1. req[p].direct \in BOOLEAN /\ req[p].pw \in SecretOrNone
      BY Mine DEF ReqRec
    <3>2. PICK direct \in BOOLEAN, pw \in SecretOrNone : direct = req[p].direct /\ pw = req[p].pw
      BY <3>1
    <3> QED BY <1>0, <2>1, <3>2, MailStep DEF Open
  <2>2. CASE End(p, "credential", FALSE)
    <3>1. End(p, "credential", no)
      BY <1>1, <2>2 DEF End
    <3> QED BY <1>0, <1>2, <3>1, AnsweredStep
  <2> QED BY <1>4, <2>1, <2>2 DEF Decrypt
<1>5. CASE Resend(p)
  <2>1. CASE End(p, "ok", TRUE)
    <3>1. End(p, "ok", yes)
      BY <1>1, <2>1 DEF End
    <3> QED BY <1>0, <1>1, <1>2, <3>1, AnsweredStep
  <2>2. ASSUME NEW pw \in Secrets, Open(p, FALSE, pw, TRUE) PROVE IInv'
    <3>1. Open(p, no, pw, yes) /\ pw \in SecretOrNone
      BY <1>1, <2>2 DEF Open, SecretOrNone
    <3> QED BY <1>0, <1>1, <2>2, <3>1, MailStep DEF Open
  <2> QED BY <1>5, <2>1, <2>2 DEF Resend
<1> QED BY <1>3, <1>4, <1>5

-----------------------------------------------------------------------------
(* The invariant.                                                          *)

\* No credential, or one that works.
LEMMA InitInvariant ==
  ASSUME Init
  PROVE  IInv
<1>1. real \in Secrets /\ proven = {real} /\ started \in 0..MaxRequests
  <2>1. real \in Secrets /\ proven = {real} /\ started = 0
    BY DEF Init
  <2>2. MaxRequests \in Nat
    BY MailAssumption DEF MailAssumption
  <2> QED BY <2>1, <2>2
<1>2. req = [p \in Talkers |-> Idle] /\ conn = [p \in Talkers |-> NoConn]
  BY DEF Init
<1>3. \A p \in Talkers : WireOK(conn[p]) /\ LocalOK(req[p], conn[p], proven, cred)
  <2>1. ASSUME NEW p \in Talkers PROVE LocalOK(Idle, NoConn, proven, cred)
    BY DEF LocalOK, Idle
  <2> QED BY <1>2, <2>1, IdleTypes
<1>4. cred \in CredRow /\ RowOK
  <2>0. NoCred \in CredRow
    BY DEF NoCred, CredRow, SecretOrNone
  <2>1. CASE cred = NoCred
    <3>1. cred.state = "none"
      BY <2>1 DEF NoCred
    <3> QED BY <2>0, <2>1, <3>1 DEF RowOK, Live, RevokedHoldsNothing, ProvenBeforeStored, SmtpLive, CapWithinCeiling
  <2>2. CASE cred # NoCred
    <3>1. PICK v \in Providers : cred = [NoCred EXCEPT !.state = "live", !.provider = v, !.secret = real, !.verified = TRUE,
                                                       !.pct = 100, !.cap = DailyCap(v, 100)]
      BY <2>2 DEF Init, Providers
    <3>2. PICK pct, cap : pct \in Int /\ pct = 100 /\ cap = DailyCap(v, pct)
      OBVIOUS
    <3>3. cap \in Nat /\ (ProviderLimit(v) # 0 => cap \in 1..Ceiling(v))
      BY <3>2, CapBounds
    <3>4. cred = [NoCred EXCEPT !.state = "live", !.provider = v, !.secret = real, !.verified = TRUE, !.pct = pct, !.cap = cap]
      BY <3>1, <3>2
    <3>5. /\ cred \in CredRow /\ cred.state = "live" /\ cred.provider = v /\ cred.secret = real /\ cred.cap = cap
      BY <1>1, <2>0, <3>2, <3>3, <3>4 DEF CredRow, SecretOrNone
    <3> QED BY <1>1, <3>3, <3>5, SecretAssumption
            DEF SecretAssumption, RowOK, Live, RevokedHoldsNothing, ProvenBeforeStored, SmtpLive, CapWithinCeiling
  <2> QED BY <2>1, <2>2
<1>5. req \in [Talkers -> ReqRec] /\ conn \in [Talkers -> ConnRec]
  BY <1>2, IdleTypes
<1> QED BY <1>1, <1>3, <1>4, <1>5 DEF IInv, Types

\* The provider's password changes under everyone's feet, or nothing happens.
LEMMA OtherSteps ==
  ASSUME IInv, (ChangePassword /\ UNCHANGED <<cred, req, started>>) \/ UNCHANGED vars
  PROVE  IInv'
<1>1. UNCHANGED <<cred, req, started, conn, proven>> /\ real' \in Secrets
  BY DEF ChangePassword, vars, smtp, IInv, Types
<1>2. Types'
  BY <1>1 DEF IInv, Types
<1>3. RowOK'
  BY <1>1 DEF IInv, RowOK, Live, RevokedHoldsNothing, ProvenBeforeStored, SmtpLive, CapWithinCeiling
<1>4. \A p \in Talkers : WireOK(conn'[p]) /\ LocalOK(req'[p], conn'[p], proven', cred')
  BY <1>1 DEF IInv
<1> QED BY <1>2, <1>3, <1>4 DEF IInv

\* Every step keeps the invariant.
LEMMA NextInvariant ==
  ASSUME IInv, [Next]_vars
  PROVE  IInv'
<1>1. ASSUME NEW p \in Talkers, Starts(p) PROVE IInv'
  BY <1>1, StartAddStep, StartAddGraphStep, StartsStep DEF Starts
<1>2. ASSUME NEW p \in Talkers, Steps(p) PROVE IInv'
  <2>1. CASE Sent(p)
    BY <2>1, DoneStep DEF Sent
  <2> QED BY <1>2, <2>1, TakeSlotStep, TalkStep, TestedStep, InsertStep, UpdateStep, TokenSteps, SendSteps DEF Steps
<1>3. ASSUME NEW p \in Talkers, Die(p) PROVE IInv'
  BY <1>3, DoneStep DEF Die
<1> QED BY <1>1, <1>2, <1>3, OtherSteps DEF Next

\* The inductive invariant holds in every behaviour.
THEOREM Invariance == Spec => []IInv
BY InitInvariant, NextInvariant, PTL DEF Spec

\* The row of mail_credentials and the locals of those who work with it are
\* what the code takes them for; a live row has its secret
\* (mail-credentials.ts, smtp-credential-test.ts).
THEOREM TypesHold == Spec => []TypeOK
<1>1. IInv => TypeOK
  BY DEF IInv, Types, RowOK, TypeOK
<1> QED BY <1>1, Invariance, PTL

\* Credentials and mails cross the wire encrypted only (smtp.ts:25-64), with
\* any number of conversations and whatever the servers answer.
THEOREM NothingInClear == Spec => []EncryptedOnly
<1>1. IInv => EncryptedOnly
  BY DEF IInv, WireOK, EncryptedOnly, Envelope
<1> QED BY <1>1, Invariance, PTL

\* A failure that is worth another try (smtp-failure.ts:22-26) never stands for
\* a mail that was taken: the retry of send-queue.ts:50 is not a second copy.
THEOREM RetryIsSafe == Spec => []RetryNeverDuplicates
<1>1. IInv => RetryNeverDuplicates
  BY DEF IInv, WireOK, RetryNeverDuplicates
<1> QED BY <1>1, Invariance, PTL

\* What sendOneMail and sendSystemMail report as sent, a server has taken.
THEOREM SentWasTaken == Spec => []OkMeansTaken
<1>1. ASSUME IInv, NEW p \in Talkers, At(p, "sent"), conn[p].result = "ok" PROVE conn[p].accepted
  <2>1. WireOK(conn[p]) /\ LocalOK(req[p], conn[p], proven, cred)
    BY <1>1, Mine
  <2>2. conn[p].at = "end"
    BY <1>1, <2>1 DEF WireOK
  <2> QED BY <1>1, <2>1, <2>2 DEF LocalOK, At
<1>2. IInv => OkMeansTaken
  BY <1>1 DEF OkMeansTaken
<1> QED BY <1>2, Invariance, PTL

\* A revoked credential never holds a secret again (mail-credentials.ts:172-182),
\* however many changes and refreshes were under way when it was revoked.
THEOREM RevokedStaysEmpty == Spec => []RevokedHoldsNothing
<1>1. IInv => RevokedHoldsNothing
  BY DEF IInv, RowOK
<1> QED BY <1>1, Invariance, PTL

\* No SMTP password is stored that the server did not take once
\* (mail-credentials.ts:70-79, smtp-credential-test.ts:96-102).
THEOREM StoredWasProven == Spec => []ProvenBeforeStored
<1>1. IInv => ProvenBeforeStored
  BY DEF IInv, RowOK
<1> QED BY <1>1, Invariance, PTL

\* The cap of a live credential is between 1 and nine tenths of the provider's
\* quota (mail-credentials.ts:39-50), for every quota and every wish.
THEOREM CapsHold == Spec => []CapWithinCeiling
<1>1. IInv => CapWithinCeiling
  BY DEF IInv, RowOK
<1> QED BY <1>1, Invariance, PTL
=============================================================================
