--------------------------- MODULE SendCountProofs ---------------------------
(***************************************************************************)
(* What the pipeline counts and how often it sends, for every number of    *)
(* jobs, recipients, consumers and invocations: the counters of a job      *)
(* never claim a mail that the log does not have, and are exact while no   *)
(* statement fails after a mail; one claim leads to at most one mail while *)
(* every message is worked on once and to its end; and a recipient gets at *)
(* most one while, besides, nothing but lost pushes and bounces brings a   *)
(* recipient back and no attempt lasts two hours.                          *)
(***************************************************************************)
EXTENDS SendPipelineProofs

\* A delivery is known by the attempt and the count of its deliveries.
Busy(c) == con[c].pc # "idle"
Early == ConPc \ {"idle", "log", "mark", "contact", "counters", "finish", "done"}
Same(a, b) == a.gen = b.gen /\ a.tries = b.tries

\* A consumer whose mail is logged and not yet added to the counters, and one
\* that has no "ok" entry in the log so far.
Counting(r) == r.kind = "ok" /\ r.pc \in {"mark", "contact", "counters"}
Unlogged(r) == r.pc \in Early \/ (r.pc = "log" /\ r.kind = "ok")

\* What a consumer will add to the counters, and what it has not logged.
CountOK(c) ==
  /\ con[c].pc \in Early => con[c].kind = "none" /\ con[c].nSent = 0
  /\ con[c].pc = "counters" => con[c].nSent = IF con[c].kind = "ok" THEN 1 ELSE 0
  /\ Unlogged(con[c]) => ~ \E l \in log : l.status = "ok" /\ Same(l, con[c].msg)
  /\ Busy(c) => job[MyJob(c)].status # "none"
  /\ \A d \in Consumers \ {c} : Busy(c) /\ Busy(d) => ~Same(con[c].msg, con[d].msg)

\* Messages: one for each attempt, delivered more often than any delivery known.
MessageOK(m) ==
  /\ \A n \in queue : n.gen = m.gen => n = m
  /\ \A c \in Consumers : Busy(c) /\ con[c].msg.gen = m.gen => con[c].msg.tries <= m.tries /\ con[c].msg.row = m.row
  /\ \A l \in log : l.gen = m.gen => l.tries <= m.tries
  /\ job[m.row[1]].status # "none"

\* The log: an "ok" entry for each delivery at most, of jobs that were created.
EntryOK(l) ==
  /\ l.gen <= clock /\ job[l.row[1]].status # "none"
  /\ \A k \in log : k.status = "ok" /\ l.status = "ok" /\ Same(k, l) => k = l

\* An attempt that is still to be pushed is known nowhere.
PushOK(p) ==
  /\ \A r \in inv[p].todo : job[r[1]].status # "none"
  /\ InvAt(p, "push") =>
       /\ \A m \in queue : m.gen # inv[p].gen
       /\ \A c \in Consumers : Busy(c) => con[c].msg.gen # inv[p].gen
       /\ \A l \in log : l.gen # inv[p].gen
       /\ \A q \in Invocations \ {p} : InvAt(q, "push") => inv[q].gen # inv[p].gen

KnownInv ==
  /\ \A c \in Consumers : CountOK(c)
  /\ \A m \in queue : MessageOK(m)
  /\ \A l \in log : EntryOK(l)
  /\ \A p \in Invocations : PushOK(p)

\* No statement fails after a mail, and no consumer is killed.
Calm == Faults \cap {"throw", "evict"} = {}

\* The counter of a job against the log.
Tally(j) ==
  /\ IsFiniteSet(BeingCounted(j))
  /\ Exists(j) => /\ job[j].sent + Cardinality(BeingCounted(j)) <= Cardinality(OkEntries(j))
                  /\ Calm => job[j].sent + Cardinality(BeingCounted(j)) = Cardinality(OkEntries(j))

CountInv == KnownInv /\ \A j \in Jobs : Tally(j)

-----------------------------------------------------------------------------
(* What requests and cron passes do to what is counted.                    *)

\* A step of an invocation keeps the counters; a job that is created has none,
\* and only with a job does its log go.
JobsCount ==
  /\ \A j \in Jobs : job[j].status # "none" => job'[j].status # "none"
  /\ \A j \in Jobs : Exists(j)' => \/ Exists(j) /\ job'[j].sent = job[j].sent
                                   \/ job[j].status = "none" /\ job'[j].sent = 0
  /\ log' \subseteq log /\ \A l \in log : Exists(l.row[1])' => l \in log'

LEMMA RequestCounts ==
  ASSUME IInv, NEW p \in Invocations, Begin(p) \/ Continue(p) \/ InvThrows(p) \/ InvEvict(p)
  PROVE  JobsCount
<1>1. /\ \A j \in Jobs : JobGood(job[j]) /\ job[j] \in JobRec
      /\ DOMAIN job = Jobs /\ job = [j \in Jobs |-> job[j]] /\ InvGood(inv[p]) /\ J(p) \in Jobs
  BY DEF IInv, TablesOK, InvsOK, InvGood, InvRec, J, JobGood
<1>2. \A j \in Jobs : /\ Exists(j)' <=> job'[j].status \in Active \union Final
                      /\ Exists(j) <=> job[j].status \in Active \union Final
  BY DEF Exists
<1>3. "none" \notin Active \union Final /\ "deleted" \notin Active \union Final
  BY DEF Active, Final
<1>4. ASSUME NEW j \in Jobs, NEW r, job' = [job EXCEPT ![j] = r], log' = log,
             r.sent = job[j].sent, r.status = job[j].status \/ (Exists(j) /\ r.status \in Active \union Final)
      PROVE  JobsCount
  <2>1. \A i \in Jobs : job'[i] = IF i = j THEN r ELSE job[i]
    BY <1>1, <1>4
  <2>2. \A i \in Jobs : job[i].status # "none" => job'[i].status # "none"
    BY <1>3, <1>4, <2>1
  <2>3. \A i \in Jobs : Exists(i)' => Exists(i) /\ job'[i].sent = job[i].sent
    BY <1>2, <1>4, <2>1
  <2> QED BY <1>4, <2>2, <2>3 DEF JobsCount
<1>5. ASSUME UNCHANGED <<job, log>> PROVE JobsCount
  BY <1>5 DEF JobsCount, Exists
<1>6. ASSUME NEW j \in Jobs, NEW s \in Active \union Final, NEW fin \in BOOLEAN,
             job' = [job EXCEPT ![j] = StatusSet(j, s, fin)] \/ UNCHANGED job, log' = log
      PROVE  JobsCount
  <2>1. PICK r : r = StatusSet(j, s, fin)
    OBVIOUS
  <2>2. r.sent = job[j].sent /\ r.status = IF Exists(j) THEN s ELSE job[j].status
    BY <1>1, <2>1, StatusKeeps
  <2> QED BY <1>4, <1>5, <1>6, <2>1, <2>2
<1>7. CASE CreateJob(p)
  <2>1. PICK j, r : /\ j \in Jobs /\ job[j].status = "none" /\ r.status = "pending" /\ r.sent = 0
                    /\ job' = [job EXCEPT ![j] = r] /\ log' = log
    <3>1. PICK j \in Jobs, c \in Creds, x \in Rates :
            /\ job[j].status = "none" /\ log' = log
            /\ job' = [job EXCEPT ![j] = [NoJob EXCEPT !.status = "pending", !.cred = c, !.rate = x]]
      BY <1>7 DEF CreateJob
    <3>2. PICK r : r = [NoJob EXCEPT !.status = "pending", !.cred = c, !.rate = x]
      OBVIOUS
    <3>3. r.status = "pending" /\ r.sent = 0
      BY <3>2 DEF NoJob
    <3> QED BY <3>1, <3>2, <3>3
  <2>2. \A i \in Jobs : job'[i] = IF i = j THEN r ELSE job[i]
    BY <1>1, <2>1
  <2> QED BY <1>2, <2>1, <2>2 DEF JobsCount
<1>8. CASE RetryWrite(p)
  <2>1. CASE ~Exists(J(p))
    BY <1>5, <1>8, <2>1 DEF RetryWrite
  <2>2. CASE Exists(J(p))
    <3>1. PICK f \in BOOLEAN : f = FALSE
      OBVIOUS
    <3>2. PICK s \in Active \union Final : s = "pending"
      BY DEF Active
    <3>3. PICK r : r = StatusSet(J(p), s, f)
      OBVIOUS
    <3>4. r \in JobRec /\ r.status = "pending" /\ r.sent = job[J(p)].sent
      BY <1>1, <2>2, <3>2, <3>3, StatusKeeps DEF JobGood
    <3>5. PICK x : x = [r EXCEPT !.cred = inv[p].cred, !.bounce = 0]
      OBVIOUS
    <3>6. x.status \in Active \union Final /\ x.sent = job[J(p)].sent
      BY <3>2, <3>4, <3>5 DEF JobRec
    <3>7. job' = [job EXCEPT ![J(p)] = x] /\ log' = log
      BY <1>8, <2>2, <3>1, <3>2, <3>3, <3>5 DEF RetryWrite
    <3> QED BY <1>1, <1>4, <2>2, <3>6, <3>7
  <2> QED BY <2>1, <2>2
<1>9. CASE DeleteWrite(p)
  <2>1. PICK k \in Jobs : k = J(p)
    BY <1>1
  <2>2. log' = {l \in log : l.row[1] # k} /\ job' = [job EXCEPT ![k] = [NoJob EXCEPT !.status = "deleted"]]
    BY <1>9, <2>1 DEF DeleteWrite
  <2>3. job'[k].status = "deleted" /\ \A i \in Jobs \ {k} : job'[i] = job[i]
    BY <1>1, <2>2 DEF NoJob
  <2>4. ~Exists(k)'
    BY <1>2, <1>3, <2>3
  <2>5. \A i \in Jobs : Exists(i)' => Exists(i) /\ job'[i].sent = job[i].sent
    BY <1>2, <2>3, <2>4
  <2>6. \A i \in Jobs : job[i].status # "none" => job'[i].status # "none"
    BY <2>3
  <2>7. \A l \in log : Exists(l.row[1])' => l \in log'
    BY <2>2, <2>4
  <2> QED BY <2>2, <2>5, <2>6, <2>7 DEF JobsCount
<1>10. CASE RevokeWrite(p)
  <2> DEFINE mine == {j \in Jobs : Exists(j) /\ job[j].cred = inv[p].cred}
  <2>1. job' = [j \in Jobs |-> IF j \in mine /\ job[j].status \in Active THEN StatusSet(j, "cancelled", TRUE) ELSE job[j]]
    BY <1>10 DEF RevokeWrite
  <2>2. ASSUME NEW j \in Jobs
        PROVE  /\ job'[j].sent = job[j].sent
               /\ job'[j].status = job[j].status \/ (Exists(j) /\ job'[j].status = "cancelled")
    <3>1. "cancelled" \in Active \union Final /\ TRUE \in BOOLEAN
      BY DEF Final
    <3>2. PICK r : r = StatusSet(j, "cancelled", TRUE)
      OBVIOUS
    <3>3. r.status = (IF Exists(j) THEN "cancelled" ELSE job[j].status) /\ r.sent = job[j].sent
      BY <1>1, <3>1, <3>2, StatusKeeps
    <3> QED BY <2>1, <3>2, <3>3
  <2>3. log' = log
    BY <1>10 DEF RevokeWrite
  <2> QED BY <1>2, <2>2, <2>3 DEF JobsCount
<1>11. CASE CancelWrite(p)
  <2>1. "cancelled" \in Active \union Final /\ TRUE \in BOOLEAN
    BY DEF Final
  <2> QED BY <1>1, <1>6, <1>11, <2>1 DEF CancelWrite
<1>12. CASE Promote(p)
  <2>1. "sending" \in Active \union Final /\ job[J(p)].finished \in BOOLEAN
    BY <1>1 DEF Active, JobRec
  <2> QED BY <1>1, <1>6, <1>12, <2>1 DEF Promote
<1>13. CASE RateWrite(p)
  <2>1. CASE Exists(J(p))
    <3>1. PICK r : r = [job[J(p)] EXCEPT !.rate = inv[p].rate]
      OBVIOUS
    <3>2. r.sent = job[J(p)].sent /\ r.status = job[J(p)].status
      BY <1>1, <3>1 DEF JobRec
    <3>3. job' = [job EXCEPT ![J(p)] = r] /\ log' = log
      BY <1>13, <2>1, <3>1 DEF RateWrite
    <3> QED BY <1>1, <1>4, <3>2, <3>3
  <2>2. CASE ~Exists(J(p))
    BY <1>5, <1>13, <2>2 DEF RateWrite
  <2> QED BY <2>1, <2>2
<1>14. CASE UNCHANGED <<job, log>>
  BY <1>5, <1>14
<1> QED
  BY <1>7, <1>8, <1>9, <1>10, <1>11, <1>12, <1>13, <1>14
  DEF Begin, Continue, InvThrows, InvEvict, CronStart, CancelRead, RetryRead, DeleteRead,
      RateRead, EditRead, RevokeRead, RedactStart, StageRecipients, RecoverStale, RecoverUpTo, ListJobs,
      NextJob, ReadQuotaSent, ReadQuotaQueued, ReadJobLimit, ReadJobSent, ReadJobQueued, ReadLiveJob,
      SelectPending, Claim, Push, PushFails, Release, EditWrite, RedactWrite

\* An invocation hands over what it had claimed, or claims, or has nothing to
\* push; its list holds recipients that are staged.
Hands(p) == /\ InvAt(p, "push") /\ queue' \subseteq queue \union Pushed(p) /\ clock' = clock
            /\ inv'[p].pc # "push" /\ inv'[p].todo \subseteq inv[p].todo
Claims(p) == /\ queue' = queue /\ clock' = clock + 1 /\ inv'[p].gen = clock' /\ inv'[p].todo = inv[p].todo
Rests(p) == /\ queue' = queue /\ clock' = clock /\ inv'[p].pc # "push"
            /\ \A r \in inv'[p].todo : r \in inv[p].todo \/ (r \in Rows /\ row[r].status # "absent")

LEMMA RequestMoves ==
  ASSUME IInv, NEW p \in Invocations, Begin(p) \/ Continue(p) \/ InvThrows(p) \/ InvEvict(p)
  PROVE  /\ \A q \in Invocations \ {p} : inv'[q] = inv[q]
         /\ Hands(p) \/ Claims(p) \/ Rests(p)
<1> DEFINE Done == (\A q \in Invocations \ {p} : inv'[q] = inv[q]) /\ (Hands(p) \/ Claims(p) \/ Rests(p))
<1>1. /\ InvIdle.todo = {} /\ InvIdle.pc = "idle" /\ \A q \in Invocations : inv[q] \in InvRec
      /\ DOMAIN inv = Invocations /\ inv = [q \in Invocations |-> inv[q]] /\ clock \in Nat
  BY DEF InvIdle, IInv, InvsOK, InvGood, QueueOK
<1>2. ASSUME NEW r, inv' = [inv EXCEPT ![p] = r], r.pc # "push", UNCHANGED <<queue, clock>>,
             \A x \in r.todo : x \in inv[p].todo \/ (x \in Rows /\ row[x].status # "absent")
      PROVE  Done
  BY <1>1, <1>2 DEF Rests
<1>3. Left(p).todo = {} /\ Left(p).pc # "push"
  BY <1>1 DEF Left, InvIdle
<1>4. ASSUME Leave(p) \/ inv' = [inv EXCEPT ![p] = InvIdle], UNCHANGED <<queue, clock>> PROVE Done
  <2>1. CASE Leave(p)
    BY <1>2, <1>3, <1>4, <2>1 DEF Leave
  <2>2. CASE inv' = [inv EXCEPT ![p] = InvIdle]
    BY <1>1, <1>2, <1>4, <2>2
  <2> QED BY <1>4, <2>1, <2>2
<1>5. ASSUME NEW s, InvGoto(p, s), s # "push", UNCHANGED <<queue, clock>> PROVE Done
  <2>1. PICK r : r = [inv[p] EXCEPT !.pc = s]
    OBVIOUS
  <2>2. r.pc = s /\ r.todo = inv[p].todo
    BY <1>1, <2>1 DEF InvRec
  <2>3. inv' = [inv EXCEPT ![p] = r]
    BY <1>5, <2>1 DEF InvGoto
  <2> QED BY <1>2, <1>5, <2>2, <2>3
<1>7. CASE Begin(p)
  <2>1. UNCHANGED <<queue, clock>>
    BY <1>7 DEF Begin, CreateJob, CronStart, CancelRead, RetryRead, DeleteRead, RateRead, EditRead, RevokeRead, RedactStart
  <2>2. InvIdle \in InvRec
    BY IdleGood DEF InvGood
  <2>3. ASSUME NEW op, NEW s, NEW j, NEW f \in InvRec, f.todo = {}, Start(p, op, s, j, f), s # "push" PROVE Done
    <3>1. PICK r : r = [f EXCEPT !.pc = s, !.op = op, !.job = j]
      OBVIOUS
    <3>2. r.pc = s /\ r.todo = {}
      BY <2>3, <3>1 DEF InvRec
    <3>3. inv' = [inv EXCEPT ![p] = r]
      BY <2>3, <3>1 DEF Start
    <3> QED BY <1>2, <2>1, <2>3, <3>2, <3>3
  <2>4. \A c \in Creds : [InvIdle EXCEPT !.cred = c] \in InvRec /\ [InvIdle EXCEPT !.cred = c].todo = {}
    BY <2>2 DEF InvRec, InvIdle
  <2>5. CASE CreateJob(p)
    BY <2>3, <2>4, <2>5 DEF CreateJob
  <2>6. CASE CronStart(p) \/ CancelRead(p) \/ DeleteRead(p) \/ EditRead(p)
    BY <1>1, <2>2, <2>3, <2>6 DEF CronStart, CancelRead, DeleteRead, EditRead
  <2>7. CASE RetryRead(p) \/ RevokeRead(p)
    BY <2>3, <2>4, <2>7 DEF RetryRead, RevokeRead
  <2>8. CASE RateRead(p)
    <3>1. PICK j \in Jobs, r \in Rates :
            /\ job[j].status \in Active
            /\ Start(p, "rate", "rate_write", j, [InvIdle EXCEPT !.cred = job[j].cred, !.rate = r])
      BY <2>8 DEF RateRead
    <3>2. r \in RateRec /\ job[j].cred \in Creds
      BY <3>1, RatesAssumption DEF IInv, TablesOK, JobGood
    <3>3. PICK f : f = [InvIdle EXCEPT !.cred = job[j].cred, !.rate = r]
      OBVIOUS
    <3>4. f \in InvRec /\ f.todo = {}
      BY <2>2, <3>2, <3>3 DEF InvRec, InvIdle
    <3> QED BY <2>3, <3>1, <3>3, <3>4
  <2>9. CASE RedactStart(p)
    <3>1. PICK T : Start(p, "redact", "redact_write", 1, [InvIdle EXCEPT !.todoJobs = T])
      BY <2>9 DEF RedactStart
    <3>2. PICK r : r = [[InvIdle EXCEPT !.todoJobs = T] EXCEPT !.pc = "redact_write", !.op = "redact", !.job = 1]
      OBVIOUS
    <3>3. r.pc = "redact_write" /\ r.todo = {}
      BY <3>2 DEF InvIdle
    <3>4. inv' = [inv EXCEPT ![p] = r]
      BY <3>1, <3>2 DEF Start
    <3> QED BY <1>2, <2>1, <3>3, <3>4
  <2> QED BY <1>7, <2>5, <2>6, <2>7, <2>8, <2>9 DEF Begin
<1>8. CASE StageRecipients(p) \/ RecoverStale(p) \/ Release(p) \/ Promote(p) \/ CancelWrite(p) \/ RetryWrite(p)
           \/ DeleteWrite(p) \/ EditWrite(p) \/ RevokeWrite(p)
  <2>1. UNCHANGED <<queue, clock>>
    BY <1>8 DEF StageRecipients, RecoverStale, RecoverUpTo, Release, Promote, CancelWrite, RetryWrite,
                DeleteWrite, EditWrite, RevokeWrite
  <2>2. Leave(p) \/ (\E s \in {"quota_sent", "list"} : InvGoto(p, s))
    BY <1>8 DEF StageRecipients, RecoverStale, RecoverUpTo, Release, Promote, CancelWrite, RetryWrite,
                DeleteWrite, EditWrite, RevokeWrite
  <2>3. CASE Leave(p)
    BY <1>4, <2>1, <2>3
  <2>4. CASE \E s \in {"quota_sent", "list"} : InvGoto(p, s)
    <3>1. PICK s \in {"quota_sent", "list"} : InvGoto(p, s)
      BY <2>4
    <3>2. s # "push"
      OBVIOUS
    <3> QED BY <1>5, <2>1, <3>1, <3>2
  <2> QED BY <2>2, <2>3, <2>4
<1>9. ASSUME NEW s, NEW n, s # "push", UNCHANGED <<queue, clock>>,
             \/ inv' = [inv EXCEPT ![p].pc = s, ![p].avail = n] \/ inv' = [inv EXCEPT ![p].pc = s, ![p].limit = n]
             \/ inv' = [inv EXCEPT ![p].pc = s, ![p].todoJobs = n] \/ inv' = [inv EXCEPT ![p].pc = s, ![p].cred = n]
             \/ inv' = [inv EXCEPT ![p].pc = s, ![p].rate = n]
      PROVE  Done
  <2>1. /\ inv'[p].pc = s /\ inv'[p].todo = inv[p].todo
        /\ \A q \in Invocations \ {p} : inv'[q] = inv[q]
    BY <1>1, <1>9 DEF InvRec
  <2> QED BY <1>9, <2>1 DEF Rests
<1>10. CASE ListJobs(p)
  BY <1>9, <1>10 DEF ListJobs
<1>11. CASE NextJob(p)
  <2>1. CASE inv' = [inv EXCEPT ![p] = InvIdle]
    BY <1>4, <1>11, <2>1 DEF NextJob
  <2>2. CASE \E j, c, T : inv' = [inv EXCEPT ![p].pc = "quota_sent", ![p].job = j, ![p].cred = c, ![p].todoJobs = T]
    <3>1. PICK j, c, T : inv' = [inv EXCEPT ![p].pc = "quota_sent", ![p].job = j, ![p].cred = c, ![p].todoJobs = T]
      BY <2>2
    <3>2. PICK r : r = [inv[p] EXCEPT !.pc = "quota_sent", !.job = j, !.cred = c, !.todoJobs = T]
      OBVIOUS
    <3>3. r.pc = "quota_sent" /\ r.todo = inv[p].todo
      BY <1>1, <3>2 DEF InvRec
    <3>4. inv' = [inv EXCEPT ![p] = r]
      BY <3>1, <3>2
    <3>5. UNCHANGED <<queue, clock>>
      BY <1>11 DEF NextJob
    <3> QED BY <1>2, <3>3, <3>4, <3>5
  <2> QED BY <1>11, <2>1, <2>2 DEF NextJob
<1>12. CASE ReadQuotaSent(p)
  BY <1>9, <1>12 DEF ReadQuotaSent
<1>13. CASE ReadQuotaQueued(p)
  <2>1. CASE Leave(p)
    BY <1>4, <1>13, <2>1 DEF ReadQuotaQueued
  <2>2. CASE \E n : inv' = [inv EXCEPT ![p].pc = "job_limit", ![p].avail = n]
    BY <1>9, <1>13, <2>2 DEF ReadQuotaQueued
  <2> QED BY <1>13, <2>1, <2>2 DEF ReadQuotaQueued
<1>14. CASE ReadJobLimit(p)
  <2>1. UNCHANGED <<queue, clock>> /\ "job_live" # "push" /\ "job_sent" # "push"
    BY <1>14 DEF ReadJobLimit
  <2>2. CASE Leave(p)
    BY <1>4, <2>1, <2>2
  <2>3. CASE InvGoto(p, "job_live")
    BY <1>5, <2>1, <2>3
  <2>4. CASE \E n : inv' = [inv EXCEPT ![p].pc = "job_sent", ![p].limit = n]
    BY <1>9, <2>1, <2>4
  <2> QED BY <1>14, <2>2, <2>3, <2>4 DEF ReadJobLimit
<1>15. CASE ReadJobSent(p)
  BY <1>9, <1>15 DEF ReadJobSent
<1>16. CASE ReadJobQueued(p)
  <2>1. UNCHANGED <<queue, clock>>
    BY <1>16 DEF ReadJobQueued
  <2>2. CASE Leave(p)
    BY <1>4, <2>1, <2>2
  <2>3. CASE \E n : inv' = [inv EXCEPT ![p].pc = "job_live", ![p].limit = 0, ![p].avail = n]
    <3>1. /\ inv'[p].pc = "job_live" /\ inv'[p].todo = inv[p].todo
          /\ \A q \in Invocations \ {p} : inv'[q] = inv[q]
      BY <1>1, <2>3 DEF InvRec
    <3> QED BY <2>1, <3>1 DEF Rests
  <2> QED BY <1>16, <2>2, <2>3 DEF ReadJobQueued
<1>17. CASE ReadLiveJob(p)
  <2>1. CASE Leave(p)
    BY <1>4, <1>17, <2>1 DEF ReadLiveJob
  <2>2. CASE \E n : inv' = [inv EXCEPT ![p].pc = "select", ![p].cred = n]
    BY <1>9, <1>17, <2>2 DEF ReadLiveJob
  <2> QED BY <1>17, <2>1, <2>2 DEF ReadLiveJob
<1>18. CASE SelectPending(p)
  <2>1. PICK T : T = FirstPending(J(p), inv[p].avail)
    OBVIOUS
  <2>2. \A r \in T : r \in Rows /\ row[r].status # "absent"
    BY <2>1 DEF FirstPending, InStatus
  <2>3. PICK x : x = [inv[p] EXCEPT !.pc = "claim", !.todo = T, !.avail = 0]
    OBVIOUS
  <2>4. x.pc = "claim" /\ x.todo = T
    BY <1>1, <2>3 DEF InvRec
  <2>5. inv' = [inv EXCEPT ![p] = x] /\ UNCHANGED <<queue, clock>>
    BY <1>18, <2>1, <2>3 DEF SelectPending
  <2> QED BY <1>2, <2>2, <2>4, <2>5
<1>19. CASE Claim(p)
  <2>1. PICK r \in inv[p].todo :
          \/ /\ clock' = Stamp /\ inv' = [inv EXCEPT ![p].pc = "push", ![p].gen = Stamp]
          \/ inv' = [inv EXCEPT ![p].todo = inv[p].todo \ {r}] /\ UNCHANGED clock
    BY <1>19 DEF Claim
  <2>2. queue' = queue /\ InvAt(p, "claim")
    BY <1>19 DEF Claim
  <2>3. CASE clock' = Stamp /\ inv' = [inv EXCEPT ![p].pc = "push", ![p].gen = Stamp]
    BY <1>1, <2>2, <2>3 DEF Claims, Stamp, InvRec
  <2>4. CASE inv' = [inv EXCEPT ![p].todo = inv[p].todo \ {r}] /\ UNCHANGED clock
    BY <1>1, <2>2, <2>4 DEF Rests, InvRec, InvAt
  <2> QED BY <2>1, <2>3, <2>4
<1>20. CASE Push(p)
  BY <1>1, <1>20 DEF Push, Hands, InvRec, InvAt
<1>21. CASE PushFails(p)
  BY <1>1, <1>21 DEF PushFails, Hands, InvRec, InvAt, InvGoto
<1>22. CASE RateWrite(p)
  BY <1>9, <1>22 DEF RateWrite
<1>23. CASE RedactWrite(p)
  <2>1. CASE inv' = [inv EXCEPT ![p] = InvIdle]
    BY <1>4, <1>23, <2>1 DEF RedactWrite
  <2>2. CASE \E T : inv' = [inv EXCEPT ![p] = [inv[p] EXCEPT !.todoJobs = T]]
    BY <1>1, <1>23, <2>2 DEF RedactWrite, Rests, InvRec, InvAt
  <2> QED BY <1>23, <2>1, <2>2 DEF RedactWrite
<1>24. CASE InvThrows(p) \/ InvEvict(p)
  BY <1>4, <1>24 DEF InvThrows, InvEvict, Leave
<1> QED
  BY <1>7, <1>8, <1>10, <1>11, <1>12, <1>13, <1>14, <1>15, <1>16, <1>17, <1>18, <1>19, <1>20, <1>21, <1>22, <1>23,
     <1>24 DEF Continue

\* Known deliveries under a step of an invocation.
LEMMA RequestKnown ==
  ASSUME IInv, GenOK, RowsOK, KnownInv, NEW p \in Invocations, Begin(p) \/ Continue(p) \/ InvThrows(p) \/ InvEvict(p)
  PROVE  KnownInv'
<1>1. con' = con /\ JobsCount
  BY RequestKeepsCreds, RequestCounts
<1>2. (\A q \in Invocations \ {p} : inv'[q] = inv[q]) /\ (Hands(p) \/ Claims(p) \/ Rests(p))
  BY RequestMoves
<1>3. /\ clock \in Nat /\ \A q \in Invocations : inv[q].gen \in Nat /\ inv[q].gen <= clock
      /\ \A q \in Invocations : \A r \in inv[q].todo : r \in Rows
      /\ \A m \in queue : m.gen \in Nat /\ m.gen <= clock /\ m.row \in Rows
      /\ \A c \in Consumers : con[c].msg.gen \in Nat /\ con[c].msg.gen <= clock /\ MyJob(c) \in Jobs
      /\ \A l \in log : l.gen \in Nat /\ l.gen <= clock /\ l.row \in Rows
  <2>1. \A q \in Invocations : inv[q] \in InvRec
    BY DEF IInv, InvsOK, InvGood
  <2>2. \A q \in Invocations : inv[q].gen \in Nat /\ \A r \in inv[q].todo : r \in Rows
    BY <2>1 DEF InvRec
  <2>3. \A m \in queue : m.gen \in Nat /\ m.row \in Rows
    BY DEF IInv, QueueOK, Message
  <2>4. \A l \in log : l.gen \in Nat /\ l.row \in Rows
    BY DEF IInv, TablesOK, LogRec
  <2>5. clock \in Nat /\ \A c \in Consumers : con[c].msg.gen \in Nat /\ MyJob(c) \in Jobs
    BY ConType DEF IInv, QueueOK
  <2> QED BY <2>2, <2>3, <2>4, <2>5 DEF GenOK, KnownInv, EntryOK
<1>4. clock' \in Nat /\ clock' >= clock
  BY <1>2, <1>3 DEF Hands, Claims, Rests
<1>5. log' \subseteq log /\ \A j \in Jobs : job[j].status # "none" => job'[j].status # "none"
  BY <1>1 DEF JobsCount
<1>6. ASSUME NEW c \in Consumers PROVE CountOK(c)'
  <2>1. CountOK(c) /\ MyJob(c)' = MyJob(c) /\ MyJob(c) \in Jobs
    BY <1>1, <1>3 DEF KnownInv, MyJob
  <2> QED BY <1>1, <1>5, <2>1 DEF CountOK, Busy
<1>7. ASSUME NEW l \in log' PROVE EntryOK(l)'
  <2>1. EntryOK(l) /\ l.row[1] \in Jobs
    BY <1>3, <1>5, <1>7, RowParts DEF KnownInv
  <2> QED BY <1>3, <1>4, <1>5, <2>1 DEF EntryOK
<1>8. ASSUME NEW r \in inv'[p].todo PROVE r \in Rows /\ job'[r[1]].status # "none"
  <2>1. r \in inv[p].todo \/ (r \in Rows /\ row[r].status # "absent")
    BY <1>2, <1>8 DEF Hands, Claims, Rests
  <2>2. CASE r \in inv[p].todo
    BY <1>3, <1>5, <2>2, RowParts DEF KnownInv, PushOK
  <2>3. CASE r \in Rows /\ row[r].status # "absent"
    <3>1. Exists(r[1]) /\ r[1] \in Jobs
      BY <2>3, RowParts DEF RowsOK
    <3>2. job[r[1]].status # "none"
      BY <3>1 DEF Exists, Active, Final
    <3> QED BY <1>5, <2>3, <3>1, <3>2
  <2> QED BY <2>1, <2>2, <2>3
<1>9. ASSUME NEW q \in Invocations \ {p}, NEW r \in inv'[q].todo PROVE job'[r[1]].status # "none"
  BY <1>2, <1>3, <1>5, <1>9, RowParts DEF KnownInv, PushOK
<1>10. ASSUME NEW m \in queue, queue' = queue PROVE MessageOK(m)'
  <2>1. MessageOK(m) /\ m.row[1] \in Jobs
    BY <1>3, RowParts DEF KnownInv
  <2> QED BY <1>1, <1>5, <1>10, <2>1 DEF MessageOK, Busy
<1>11. CASE Rests(p)
  <2>1. queue' = queue /\ ~InvAt(p, "push")'
    BY <1>11 DEF Rests, InvAt
  <2>2. ASSUME NEW q \in Invocations \ {p} PROVE PushOK(q)'
    <3>1. PushOK(q) /\ inv'[q] = inv[q]
      BY <1>2 DEF KnownInv
    <3> QED BY <1>1, <1>2, <1>5, <1>9, <2>1, <3>1 DEF PushOK, InvAt, Busy
  <2>3. PushOK(p)'
    BY <1>8, <2>1 DEF PushOK
  <2> QED BY <1>6, <1>7, <1>10, <2>1, <2>2, <2>3 DEF KnownInv
<1>12. CASE Claims(p)
  <2>1. queue' = queue /\ inv'[p].gen = clock + 1
    BY <1>12 DEF Claims
  <2>2. ASSUME NEW q \in Invocations \ {p} PROVE PushOK(q)'
    <3>1. PushOK(q) /\ inv'[q] = inv[q] /\ inv[q].gen # inv'[p].gen
      BY <1>2, <1>3, <2>1 DEF KnownInv
    <3> QED BY <1>1, <1>2, <1>5, <1>9, <2>1, <3>1 DEF PushOK, InvAt, Busy
  <2>3. PushOK(p)'
    <3>1. \A m \in queue' : m.gen # inv'[p].gen
      BY <1>3, <2>1
    <3>2. \A c \in Consumers : con'[c].msg.gen # inv'[p].gen
      BY <1>1, <1>3, <2>1
    <3>3. \A l \in log' : l.gen # inv'[p].gen
      BY <1>3, <1>5, <2>1
    <3>4. \A q \in Invocations \ {p} : inv'[q].gen # inv'[p].gen
      BY <1>2, <1>3, <2>1
    <3> QED BY <1>8, <3>1, <3>2, <3>3, <3>4 DEF PushOK
  <2> QED BY <1>6, <1>7, <1>10, <2>1, <2>2, <2>3 DEF KnownInv
<1>13. CASE Hands(p)
  <2>1. /\ InvAt(p, "push") /\ queue' \subseteq queue \union Pushed(p) /\ ~InvAt(p, "push")'
    BY <1>13 DEF Hands, InvAt
  <2>2. \A m \in Pushed(p) : m.gen = inv[p].gen /\ m.row = Claimed(p) /\ \A n \in Pushed(p) : n = m
    BY DEF Pushed
  <2>3. Claimed(p) \in inv[p].todo /\ Claimed(p) \in Rows
    BY <2>1, ClaimedIs DEF InvAt, IInv, InvsOK
  <2>4. PushOK(p)
    BY DEF KnownInv
  <2>5. ASSUME NEW q \in Invocations \ {p} PROVE PushOK(q)'
    <3>1. PushOK(q) /\ inv'[q] = inv[q]
      BY <1>2 DEF KnownInv
    <3>2. InvAt(q, "push") => \A m \in queue' : m.gen # inv[q].gen
      BY <2>1, <2>2, <3>1 DEF PushOK
    <3> QED BY <1>1, <1>2, <1>5, <1>9, <2>1, <3>1, <3>2 DEF PushOK, InvAt, Busy
  <2>6. PushOK(p)'
    BY <1>8, <2>1 DEF PushOK
  <2>7. ASSUME NEW m \in queue' PROVE MessageOK(m)'
    <3>1. CASE m \in queue
      <4>1. MessageOK(m) /\ m.row[1] \in Jobs
        BY <1>3, <3>1, RowParts DEF KnownInv
      <4>2. \A n \in queue' : n.gen = m.gen => n = m
        BY <2>1, <2>2, <2>4, <3>1, <4>1 DEF PushOK, MessageOK
      <4> QED BY <1>1, <1>5, <4>1, <4>2 DEF MessageOK, Busy
    <3>2. CASE m \in Pushed(p)
      <4>1. m.gen = inv[p].gen /\ m.row = Claimed(p)
        BY <2>2, <3>2
      <4>2. \A n \in queue' : n.gen = m.gen => n = m
        BY <2>1, <2>2, <2>4, <3>2, <4>1 DEF PushOK
      <4>3. (\A c \in Consumers : Busy(c) => con[c].msg.gen # m.gen) /\ \A l \in log : l.gen # m.gen
        BY <2>1, <2>4, <4>1 DEF PushOK
      <4>4. job'[m.row[1]].status # "none"
        BY <1>5, <2>3, <2>4, <4>1, RowParts DEF PushOK
      <4> QED BY <1>1, <1>5, <4>2, <4>3, <4>4 DEF MessageOK, Busy
    <3> QED BY <2>1, <3>1, <3>2
  <2> QED BY <1>6, <1>7, <2>5, <2>6, <2>7 DEF KnownInv
<1> QED BY <1>2, <1>11, <1>12, <1>13

\* The tally under a step of an invocation: the jobs that are left have their
\* counters and their log.
LEMMA RequestTally ==
  ASSUME IInv, RowsOK, CountInv, NEW p \in Invocations, Begin(p) \/ Continue(p) \/ InvThrows(p) \/ InvEvict(p),
         NEW j \in Jobs
  PROVE  Tally(j)'
<1>1. con' = con /\ JobsCount /\ KnownInv /\ Tally(j)
  BY RequestKeepsCreds, RequestCounts DEF CountInv
<1>2. BeingCounted(j)' = BeingCounted(j)
  BY <1>1 DEF BeingCounted
<1>3. CASE ~Exists(j)'
  BY <1>1, <1>2, <1>3 DEF Tally
<1>4. CASE Exists(j)' /\ Exists(j) /\ job'[j].sent = job[j].sent
  <2>1. OkEntries(j)' = OkEntries(j)
    BY <1>1, <1>4 DEF OkEntries, JobsCount
  <2> QED BY <1>1, <1>2, <1>4, <2>1 DEF Tally
<1>5. CASE Exists(j)' /\ job[j].status = "none" /\ job'[j].sent = 0
  <2>1. BeingCounted(j) = {}
    <3> SUFFICES ASSUME NEW c \in BeingCounted(j) PROVE FALSE
      OBVIOUS
    <3>1. c \in Consumers /\ Busy(c) /\ MyJob(c) = j
      BY DEF BeingCounted, Busy, MyJob
    <3> QED BY <1>1, <1>5, <3>1 DEF KnownInv, CountOK
  <2>2. OkEntries(j)' = {}
    BY <1>1, <1>5 DEF OkEntries, JobsCount, KnownInv, EntryOK
  <2>3. Cardinality(BeingCounted(j)') = 0 /\ Cardinality(OkEntries(j)') = 0
    BY <1>2, <2>1, <2>2, FS_EmptySet
  <2> QED BY <1>1, <1>2, <1>5, <2>3 DEF Tally
<1> QED BY <1>1, <1>3, <1>4, <1>5 DEF JobsCount

-----------------------------------------------------------------------------
(* What consumers do to what is counted.                                   *)

\* A consumer that goes on with its message: it stays what its state says of
\* the counters and the log, and while all is calm no mail goes uncounted.
Quiet(a, b) ==
  /\ b.msg = a.msg /\ a.pc # "idle" /\ b.pc # "idle"
  /\ b.pc \in Early => b.kind = "none" /\ b.nSent = 0
  /\ b.pc = "counters" => b.nSent = IF b.kind = "ok" THEN 1 ELSE 0
  /\ Unlogged(b) => Unlogged(a)
  /\ Counting(b) => Counting(a)
  /\ Calm /\ Counting(a) => Counting(b)

Ends(c) ==
  /\ con'[c] = ConIdle /\ log' = log /\ (Calm => ~Counting(con[c])) /\ ~UpdateCounters(c)
  /\ \E how : queue' = Settled(c, how)
GoesOn(c) == Quiet(con[c], con'[c]) /\ log' = log /\ queue' = queue /\ ~UpdateCounters(c)
Adds(c) == /\ UpdateCounters(c) /\ con'[c].msg = con[c].msg /\ con'[c].pc = "finish" /\ log' = log /\ queue' = queue
Logs(c) ==
  /\ con[c].pc = "log" /\ con'[c].pc = "mark" /\ con'[c].msg = con[c].msg /\ con'[c].kind = con[c].kind
  /\ queue' = queue /\ Exists(MyJob(c)) /\ ~UpdateCounters(c)
  /\ log' = log \union {[row |-> con[c].msg.row, gen |-> con[c].msg.gen, tries |-> con[c].msg.tries,
                         status |-> IF con[c].kind = "ok" THEN "ok" ELSE "bounce", today |-> TRUE]}

LEMMA ConsumerCounts ==
  ASSUME IInv, NEW c \in Consumers, CountOK(c), Deliver(c) \/ Consume(c) \/ Throw(c) \/ Evict(c)
  PROVE  Deliver(c) \/ Ends(c) \/ GoesOn(c) \/ Adds(c) \/ Logs(c)
<1>1. con \in [Consumers -> ConRec] /\ con[c] \in ConRec
  BY DEF IInv, ConsOK
<1>2. Early = {"job", "credential", "abort_gone", "staged", "limit", "count", "window", "demote",
               "slot", "current", "abort_redacted", "send", "abort_blocked"}
  BY DEF Early, ConPc
<1>3. con[c].pc \in Early => con[c].kind = "none" /\ con[c].nSent = 0
  BY DEF CountOK
<1> DEFINE b == con'[c]
           Done == Deliver(c) \/ Ends(c) \/ GoesOn(c) \/ Adds(c) \/ Logs(c)
<1>4. ASSUME con[c].pc \in Early, b.pc \in Early \union {"counters", "finish"}, b.msg = con[c].msg,
             b.kind = con[c].kind, b.nSent = con[c].nSent, UNCHANGED <<log, queue>>
      PROVE  Done
  <2>1. Quiet(con[c], b)
    BY <1>2, <1>3, <1>4 DEF Quiet, Unlogged, Counting
  <2>2. ~UpdateCounters(c)
    BY <1>2, <1>4 DEF UpdateCounters, At
  <2> QED BY <1>4, <2>1, <2>2 DEF GoesOn
<1>5. ASSUME NEW how, Return(c, how), log' = log, Calm => ~Counting(con[c]), ~UpdateCounters(c) PROVE Done
  BY <1>1, <1>5 DEF Return, Ends
<1>6. ASSUME ~At(c, "counters") PROVE ~UpdateCounters(c)
  BY <1>6 DEF UpdateCounters
<1>7. ASSUME NEW s \in Early \union {"counters", "finish"}, con[c].pc \in Early, UNCHANGED <<log, queue>>,
             \/ con' = [con EXCEPT ![c].pc = s]
             \/ con' = [con EXCEPT ![c].pc = s, ![c].ack = "ack"]
             \/ con' = [con EXCEPT ![c].pc = s, ![c].ack = "retry"]
             \/ \E n : con' = [con EXCEPT ![c].pc = s, ![c].avail = n]
             \/ \E n : con' = [con EXCEPT ![c].pc = s, ![c].cred = n]
             \/ con' = [con EXCEPT ![c].pc = s, ![c].aborted = TRUE]
             \/ con' = [con EXCEPT ![c].pc = s, ![c].aborted = TRUE, ![c].ack = "ack"]
      PROVE  Done
  <2>1. b.pc = s /\ b.msg = con[c].msg /\ b.kind = con[c].kind /\ b.nSent = con[c].nSent
    BY <1>1, <1>7 DEF ConRec
  <2> QED BY <1>4, <1>7, <2>1
<1>8. CASE ReadJob(c)
  <2>1. CASE Return(c, "ack")
    BY <1>5, <1>6, <1>8, <2>1 DEF ReadJob, At, consumed, Counting
  <2>2. CASE \E n : con' = [con EXCEPT ![c].pc = "credential", ![c].cred = n] /\ UNCHANGED queue
    BY <1>2, <1>7, <1>8, <2>2 DEF ReadJob, At, consumed
  <2> QED BY <1>8, <2>1, <2>2 DEF ReadJob
<1>9. CASE ReadCredential(c)
  BY <1>2, <1>7, <1>9 DEF ReadCredential, At, consumed, Goto, MarkAck
<1>10. CASE ReadStaged(c)
  BY <1>2, <1>7, <1>10 DEF ReadStaged, At, consumed, Goto, MarkAck
<1>11. CASE ReadLimit(c)
  BY <1>2, <1>7, <1>11 DEF ReadLimit, At, consumed, Goto, MarkAck
<1>12. CASE CountSent(c)
  BY <1>2, <1>7, <1>12 DEF CountSent, At, consumed
<1>13. CASE ReadWindow(c)
  BY <1>2, <1>7, <1>13 DEF ReadWindow, At, consumed, Goto
<1>14. CASE Demote(c)
  BY <1>2, <1>7, <1>14 DEF Demote, At, MarkAck
<1>15. CASE AcquireSlot(c)
  BY <1>2, <1>7, <1>15 DEF AcquireSlot, At, consumed, Goto
<1>16. CASE ReadCurrent(c)
  BY <1>2, <1>7, <1>16 DEF ReadCurrent, At, consumed, Goto, MarkAck
<1>17. CASE AbortRedacted(c)
  BY <1>2, <1>7, <1>17 DEF AbortRedacted, At, consumed
<1>18. CASE SendCredentialFailure(c)
  BY <1>2, <1>7, <1>18 DEF SendCredentialFailure, At, consumed, Goto
<1>19. CASE AbortBlocked(c)
  BY <1>2, <1>7, <1>19 DEF AbortBlocked, At, consumed
<1>20. CASE SendTransient(c)
  BY <1>2, <1>7, <1>20 DEF SendTransient, At, consumed
<1>21. CASE SendOk(c)
  <2>1. b.pc = "log" /\ b.kind = "ok" /\ b.msg = con[c].msg
    BY <1>1, <1>21 DEF SendOk, ConRec
  <2>2. con[c].pc = "send" /\ UNCHANGED <<log, queue>>
    BY <1>21 DEF SendOk, At
  <2>3. Quiet(con[c], b)
    BY <1>2, <2>1, <2>2 DEF Quiet, Unlogged, Counting
  <2> QED BY <1>6, <2>2, <2>3 DEF GoesOn, At
<1>22. CASE SendBounce(c)
  <2>1. PICK k, n : k \in BounceKinds(c) /\ con' = [con EXCEPT ![c].pc = "log", ![c].kind = k, ![c].nBounce = n]
    BY <1>22 DEF SendBounce
  <2>2. b.pc = "log" /\ b.kind = k /\ b.msg = con[c].msg /\ k # "ok"
    BY <1>1, <2>1 DEF ConRec, BounceKinds
  <2>3. con[c].pc = "send" /\ UNCHANGED <<log, queue>>
    BY <1>22 DEF SendBounce, At
  <2>4. Quiet(con[c], b)
    BY <1>2, <2>2, <2>3 DEF Quiet, Unlogged, Counting
  <2> QED BY <1>6, <2>3, <2>4 DEF GoesOn, At
<1>23. CASE LogInsert(c)
  <2>1. b.pc = "mark" /\ b.msg = con[c].msg /\ b.kind = con[c].kind
    BY <1>1, <1>23 DEF LogInsert, Goto, ConRec
  <2>2. con[c].pc = "log" /\ ~UpdateCounters(c)
    BY <1>6, <1>23 DEF LogInsert, At
  <2> QED BY <1>23, <2>1, <2>2 DEF LogInsert, Logs
<1>24. ASSUME con' = Counted(c), con[c].pc \in {"mark", "contact"}, UNCHANGED <<log, queue>> PROVE Done
  <2>1. PICK n : n = IF con[c].kind = "ok" THEN 1 ELSE 0
    OBVIOUS
  <2>2. con' = [con EXCEPT ![c].pc = "counters", ![c].ack = "ack", ![c].nSent = n]
    BY <1>24, <2>1 DEF Counted
  <2>3. b.pc = "counters" /\ b.msg = con[c].msg /\ b.kind = con[c].kind /\ b.nSent = n
    BY <1>1, <2>2 DEF ConRec
  <2>4. Quiet(con[c], b)
    BY <1>2, <1>24, <2>1, <2>3 DEF Quiet, Unlogged, Counting
  <2> QED BY <1>6, <1>24, <2>4 DEF GoesOn, At
<1>25. CASE MarkRecipient(c)
  <2>1. con[c].pc = "mark" /\ UNCHANGED <<log, queue>>
    BY <1>25 DEF MarkRecipient, At
  <2>2. CASE con' = Counted(c)
    BY <1>24, <2>1, <2>2
  <2>3. CASE Goto(c, "contact")
    <3>1. b.pc = "contact" /\ b.msg = con[c].msg /\ b.kind = con[c].kind
      BY <1>1, <2>3 DEF Goto, ConRec
    <3>2. Quiet(con[c], b)
      BY <1>2, <2>1, <3>1 DEF Quiet, Unlogged, Counting
    <3> QED BY <1>6, <2>1, <3>2 DEF GoesOn, At
  <2> QED BY <1>25, <2>2, <2>3 DEF MarkRecipient
<1>26. CASE VerifyContact(c)
  BY <1>24, <1>26 DEF VerifyContact, At
<1>27. CASE LogFails(c)
  <2>1. PICK n : con' = [con EXCEPT ![c].pc = "log", ![c].kind = "bounce", ![c].nBounce = n]
    BY <1>27 DEF LogFails
  <2>2. b.pc = "log" /\ b.kind = "bounce" /\ b.msg = con[c].msg
    BY <1>1, <2>1 DEF ConRec
  <2>3. con[c].pc \in {"log", "mark", "contact"} /\ (Calm => con[c].pc = "log") /\ UNCHANGED <<log, queue>>
    BY <1>27 DEF LogFails, At, consumed, Calm
  <2>4. Quiet(con[c], b)
    BY <1>2, <2>2, <2>3 DEF Quiet, Unlogged, Counting
  <2> QED BY <1>6, <2>3, <2>4 DEF GoesOn, At
<1>28. CASE UpdateCounters(c)
  BY <1>1, <1>28 DEF UpdateCounters, Goto, ConRec, Adds, consumed
<1>29. CASE ReadFinish(c)
  <2>1. con[c].pc = "finish" /\ log' = log /\ ~Counting(con[c])
    BY <1>29 DEF ReadFinish, At, consumed, Counting
  <2>2. CASE Return(c, con[c].ack)
    BY <1>5, <1>6, <2>1, <2>2 DEF At
  <2>3. CASE Goto(c, "done") /\ UNCHANGED queue
    <3>1. b.pc = "done" /\ b.msg = con[c].msg /\ b.kind = con[c].kind
      BY <1>1, <2>3 DEF Goto, ConRec
    <3>2. Quiet(con[c], b)
      BY <1>2, <2>1, <3>1 DEF Quiet, Unlogged, Counting
    <3> QED BY <1>6, <2>1, <2>3, <3>2 DEF GoesOn, At
  <2> QED BY <1>29, <2>2, <2>3 DEF ReadFinish
<1>30. CASE AbortCredentialGone(c) \/ MarkDone(c)
  <2>1. con[c].pc \in {"abort_gone", "done"} /\ log' = log /\ ~Counting(con[c]) /\ \E how : Return(c, how)
    BY <1>30 DEF AbortCredentialGone, MarkDone, At, consumed, Counting
  <2> QED BY <1>5, <1>6, <2>1 DEF At
<1>31. CASE Throw(c) \/ Evict(c)
  <2>1. log' = log /\ \E how : Return(c, how)
    BY <1>31 DEF Throw, Evict, consumed
  <2>2. Calm => ~Counting(con[c])
    BY <1>31 DEF Throw, Evict, Calm, Counting, At
  <2>3. ~UpdateCounters(c)
    <3>1. con'[c].pc = "idle"
      BY <1>1, <2>1 DEF Return, ConIdle
    <3>2. UpdateCounters(c) => con'[c].pc = "finish"
      BY <1>1 DEF UpdateCounters, Goto, ConRec
    <3> QED BY <3>1, <3>2
  <2> QED BY <1>5, <2>1, <2>2, <2>3
<1> QED
  BY <1>8, <1>9, <1>10, <1>11, <1>12, <1>13, <1>14, <1>15, <1>16, <1>17, <1>18, <1>19, <1>20,
     <1>21, <1>22, <1>23, <1>25, <1>26, <1>27, <1>28, <1>29, <1>30, <1>31 DEF Consume

\* The part of Quiet that is about what a consumer knows.
Advance(a, b) ==
  /\ b.msg = a.msg /\ a.pc # "idle" /\ b.pc # "idle"
  /\ b.pc \in Early => b.kind = "none" /\ b.nSent = 0
  /\ b.pc = "counters" => b.nSent = IF b.kind = "ok" THEN 1 ELSE 0
  /\ Unlogged(b) => Unlogged(a)

\* The queue holds what it held, apart from leases, or less.
Resettled ==
  /\ \A m \in queue' : \E n \in queue : Same(m, n) /\ m.row = n.row
  /\ \A m, k \in queue' : m.gen = k.gen => m = k

LEMMA SettledQueue ==
  ASSUME IInv, KnownInv, NEW c \in Consumers, NEW how, queue' = Settled(c, how)
  PROVE  Resettled
<1>1. \A m, n \in queue : m.gen = n.gen => m = n
  BY DEF KnownInv, MessageOK
<1>2. \A m \in queue : /\ [m EXCEPT !.leased = FALSE].gen = m.gen /\ [m EXCEPT !.leased = FALSE].tries = m.tries
                       /\ [m EXCEPT !.leased = FALSE].row = m.row
  BY DEF IInv, QueueOK, Message
<1>3. ASSUME NEW m \in queue'
      PROVE  \E n \in queue : /\ Same(m, n) /\ m.row = n.row
                              /\ \/ m = n /\ n.gen # con[c].msg.gen
                                 \/ m = [n EXCEPT !.leased = FALSE] /\ n.gen = con[c].msg.gen
  <2>1. CASE m \in queue /\ m.gen # con[c].msg.gen
    BY <2>1 DEF Same
  <2>2. CASE \E n \in queue : m = [n EXCEPT !.leased = FALSE] /\ n.gen = con[c].msg.gen
    BY <1>2, <2>2 DEF Same
  <2> QED BY <1>3, <2>1, <2>2 DEF Settled
<1>4. ASSUME NEW m \in queue', NEW k \in queue', m.gen = k.gen PROVE m = k
  <2>1. PICK a \in queue : /\ Same(m, a)
                           /\ \/ m = a /\ a.gen # con[c].msg.gen
                              \/ m = [a EXCEPT !.leased = FALSE] /\ a.gen = con[c].msg.gen
    BY <1>3
  <2>2. PICK b \in queue : /\ Same(k, b)
                           /\ \/ k = b /\ b.gen # con[c].msg.gen
                              \/ k = [b EXCEPT !.leased = FALSE] /\ b.gen = con[c].msg.gen
    BY <1>3
  <2>3. a = b
    BY <1>1, <1>4, <2>1, <2>2 DEF Same
  <2> QED BY <2>1, <2>2, <2>3
<1> QED BY <1>3, <1>4 DEF Resettled

\* Where nothing new becomes known, all stays as it was.
LEMMA KnownRest ==
  ASSUME IInv, KnownInv, Resettled, log' = log, UNCHANGED <<clock, inv>>, JobsKept,
         \A d \in Consumers : con'[d] = con[d] \/ con'[d].pc = "idle" \/ Advance(con[d], con'[d])
  PROVE  KnownInv'
<1>1. \A j \in Jobs : job'[j].status = "none" <=> job[j].status = "none"
  BY DEF JobsKept
<1>2. /\ \A m \in queue : m.row \in Rows
      /\ \A c \in Consumers : MyJob(c) \in Jobs
      /\ \A l \in log : l.row \in Rows
      /\ \A p \in Invocations : inv[p] \in InvRec
  BY ConType DEF IInv, QueueOK, Message, TablesOK, LogRec, InvsOK, InvGood
<1>3. \A p \in Invocations : \A r \in inv[p].todo : r \in Rows
  BY <1>2 DEF InvRec
<1>4. \A d \in Consumers : Busy(d)' => Busy(d) /\ con'[d].msg = con[d].msg
  BY DEF Busy, Advance
<1>5. ASSUME NEW c \in Consumers PROVE CountOK(c)'
  <2>1. CountOK(c)
    BY DEF KnownInv
  <2>2. Busy(c)' => job'[con'[c].msg.row[1]].status # "none"
    BY <1>1, <1>2, <1>4, <2>1 DEF CountOK, MyJob
  <2>3. \A d \in Consumers \ {c} : Busy(c)' /\ Busy(d)' => ~Same(con'[c].msg, con'[d].msg)
    BY <1>4, <2>1 DEF CountOK
  <2>4. /\ con'[c].pc \in Early => con'[c].kind = "none" /\ con'[c].nSent = 0
        /\ con'[c].pc = "counters" => con'[c].nSent = IF con'[c].kind = "ok" THEN 1 ELSE 0
        /\ Unlogged(con'[c]) => Unlogged(con[c]) /\ con'[c].msg = con[c].msg
    <3>1. CASE con'[c] = con[c]
      BY <2>1, <3>1 DEF CountOK
    <3>2. CASE con'[c].pc = "idle"
      BY <3>2 DEF Early, Unlogged
    <3>3. CASE Advance(con[c], con'[c])
      BY <3>3 DEF Advance
    <3> QED BY <3>1, <3>2, <3>3
  <2> QED BY <2>1, <2>2, <2>3, <2>4 DEF CountOK, MyJob
<1>6. ASSUME NEW m \in queue' PROVE MessageOK(m)'
  <2>1. PICK n \in queue : m.gen = n.gen /\ m.tries = n.tries /\ m.row = n.row
    BY DEF Resettled, Same
  <2>2. MessageOK(n) /\ n.row[1] \in Jobs
    BY <1>2, RowParts DEF KnownInv
  <2>3. \A k \in queue' : k.gen = m.gen => k = m
    BY DEF Resettled
  <2>4. \A c \in Consumers : Busy(c)' /\ con'[c].msg.gen = m.gen => con'[c].msg.tries <= m.tries /\ con'[c].msg.row = m.row
    BY <1>4, <2>1, <2>2 DEF MessageOK
  <2> QED BY <1>1, <2>1, <2>2, <2>3, <2>4 DEF MessageOK
<1>7. ASSUME NEW l \in log' PROVE EntryOK(l)'
  BY <1>1, <1>2, <1>7, RowParts DEF KnownInv, EntryOK
<1>8. ASSUME NEW p \in Invocations PROVE PushOK(p)'
  <2>1. PushOK(p)
    BY DEF KnownInv
  <2>2. InvAt(p, "push") => \A m \in queue' : m.gen # inv[p].gen
    BY <2>1 DEF PushOK, Resettled, Same
  <2>3. InvAt(p, "push") => \A c \in Consumers : Busy(c)' => con'[c].msg.gen # inv[p].gen
    BY <1>4, <2>1 DEF PushOK
  <2> QED BY <1>1, <1>3, <2>1, <2>2, <2>3, RowParts DEF PushOK, InvAt
<1> QED BY <1>5, <1>6, <1>7, <1>8 DEF KnownInv

\* A delivery that starts is the latest of its attempt.
LEMMA KnownDeliver ==
  ASSUME IInv, KnownInv, NEW c \in Consumers, Deliver(c), UNCHANGED inv
  PROVE  KnownInv'
<1>1. PICK m \in queue :
        /\ queue' = (queue \ {m}) \union {[m EXCEPT !.leased = TRUE, !.tries = m.tries + 1]}
        /\ con' = [con EXCEPT ![c] = [ConIdle EXCEPT !.pc = "job",
                    !.msg = [gen |-> m.gen, row |-> m.row, cred |-> m.cred, tries |-> m.tries + 1]]]
  BY DEF Deliver
<1>2. UNCHANGED <<job, log, clock>> /\ ~Busy(c)
  BY DEF Deliver, consumed, Busy, At
<1>3. MessageOK(m) /\ m \in Message
  BY DEF KnownInv, IInv, QueueOK
<1>4. PICK t \in Nat : t = m.tries + 1
  BY <1>3 DEF Message
<1>5. PICK n : n = [m EXCEPT !.leased = TRUE, !.tries = t]
  OBVIOUS
<1>6. n.gen = m.gen /\ n.row = m.row /\ n.tries = m.tries + 1
  BY <1>3, <1>4, <1>5 DEF Message
<1>7. queue' = (queue \ {m}) \union {n}
  BY <1>1, <1>4, <1>5
<1>8. PICK d : d = [gen |-> m.gen, row |-> m.row, cred |-> m.cred, tries |-> t]
  OBVIOUS
<1>9. PICK r : r = [ConIdle EXCEPT !.pc = "job", !.msg = d]
  OBVIOUS
<1>10. r.pc = "job" /\ r.msg = d /\ r.kind = "none" /\ r.nSent = 0
  BY <1>9 DEF ConIdle
<1>11. d.gen = m.gen /\ d.row = m.row /\ d.tries = m.tries + 1
  BY <1>4, <1>8
<1>12. con'[c] = r /\ \A x \in Consumers \ {c} : con'[x] = con[x]
  BY <1>1, <1>4, <1>8, <1>9 DEF IInv, ConsOK
<1>13. m.tries \in Nat /\ \A l \in log : l.tries \in Nat
  BY <1>3 DEF Message, IInv, TablesOK, LogRec
<1>14. \A x \in Consumers : con[x].msg.tries \in Nat
  BY ConType DEF IInv
<1>15. \A x \in Consumers \ {c} : Busy(x) => ~Same(con[x].msg, d) /\ ~Same(d, con[x].msg)
  BY <1>3, <1>11, <1>13, <1>14 DEF MessageOK, Same
<1>16. CountOK(c)'
  <2>1. ~ \E l \in log : l.status = "ok" /\ Same(l, d)
    BY <1>3, <1>11, <1>13 DEF MessageOK, Same
  <2>2. job[d.row[1]].status # "none"
    BY <1>3, <1>11 DEF MessageOK
  <2>3. r.pc # "counters"
    BY <1>10
  <2> QED BY <1>2, <1>10, <1>12, <1>15, <2>1, <2>2, <2>3 DEF CountOK, Busy, MyJob
<1>17. ASSUME NEW x \in Consumers \ {c} PROVE CountOK(x)'
  <2>1. CountOK(x)
    BY DEF KnownInv
  <2> QED BY <1>2, <1>10, <1>12, <1>15, <2>1 DEF CountOK, Busy, MyJob
<1>18. ASSUME NEW k \in queue' PROVE MessageOK(k)'
  <2>1. CASE k = n
    <3>1. \A y \in queue' : y.gen = k.gen => y = k
      BY <1>3, <1>6, <1>7, <2>1 DEF MessageOK
    <3>2. \A x \in Consumers : Busy(x)' /\ con'[x].msg.gen = k.gen => con'[x].msg.tries <= k.tries /\ con'[x].msg.row = k.row
      BY <1>3, <1>6, <1>10, <1>11, <1>12, <1>13, <1>14, <2>1 DEF MessageOK, Busy
    <3>3. \A l \in log : l.gen = k.gen => l.tries <= k.tries
      BY <1>3, <1>6, <1>13, <2>1 DEF MessageOK
    <3> QED BY <1>2, <1>3, <1>6, <2>1, <3>1, <3>2, <3>3 DEF MessageOK
  <2>2. CASE k \in queue \ {m}
    <3>1. MessageOK(k) /\ k.gen # m.gen
      BY <1>3, <2>2 DEF KnownInv, MessageOK
    <3> QED BY <1>2, <1>6, <1>7, <1>10, <1>11, <1>12, <3>1 DEF MessageOK, Busy
  <2> QED BY <1>7, <2>1, <2>2
<1>19. ASSUME NEW l \in log' PROVE EntryOK(l)'
  BY <1>2, <1>19 DEF KnownInv, EntryOK
<1>20. ASSUME NEW p \in Invocations PROVE PushOK(p)'
  <2>1. PushOK(p)
    BY DEF KnownInv
  <2> QED BY <1>2, <1>6, <1>7, <1>10, <1>11, <1>12, <2>1 DEF PushOK, InvAt, Busy
<1> QED BY <1>16, <1>17, <1>18, <1>19, <1>20 DEF KnownInv

\* An entry is the first of its delivery to say "ok".
LEMMA KnownLog ==
  ASSUME IInv, GenOK, KnownInv, NEW c \in Consumers, Logs(c), \A d \in Consumers \ {c} : con'[d] = con[d],
         UNCHANGED <<clock, inv>>, JobsKept
  PROVE  KnownInv'
<1>1. \A j \in Jobs : job'[j].status = "none" <=> job[j].status = "none"
  BY DEF JobsKept
<1>2. PICK s : s = IF con[c].kind = "ok" THEN "ok" ELSE "bounce"
  OBVIOUS
<1>3. PICK e : e = [row |-> con[c].msg.row, gen |-> con[c].msg.gen, tries |-> con[c].msg.tries, status |-> s, today |-> TRUE]
  OBVIOUS
<1>4. log' = log \union {e}
  BY <1>2, <1>3 DEF Logs
<1>5. e.row = con[c].msg.row /\ Same(e, con[c].msg) /\ (e.status = "ok" => con[c].kind = "ok")
  BY <1>2, <1>3 DEF Same
<1>6. /\ \A m \in queue : m.row \in Rows /\ m.tries \in Nat
      /\ \A d \in Consumers : MyJob(d) \in Jobs /\ con[d].msg.tries \in Nat
      /\ \A l \in log : l.row \in Rows
      /\ \A p \in Invocations : inv[p] \in InvRec
  BY ConType DEF IInv, QueueOK, Message, TablesOK, LogRec, InvsOK, InvGood
<1>7. \A p \in Invocations : \A r \in inv[p].todo : r \in Rows
  BY <1>6 DEF InvRec
<1>8. con[c].pc = "log" /\ con'[c].pc = "mark" /\ con'[c].msg = con[c].msg /\ queue' = queue /\ CountOK(c)
  BY DEF Logs, KnownInv
<1>9. Busy(c) /\ \A d \in Consumers : con'[d].msg = con[d].msg /\ (Busy(d)' <=> Busy(d))
  BY <1>8 DEF Busy
<1>10. ASSUME NEW d \in Consumers PROVE CountOK(d)'
  <2>1. CountOK(d)
    BY DEF KnownInv
  <2>2. \A x \in Consumers \ {d} : Busy(d)' /\ Busy(x)' => ~Same(con'[d].msg, con'[x].msg)
    BY <1>9, <2>1 DEF CountOK
  <2>3. Busy(d)' => job'[con'[d].msg.row[1]].status # "none"
    BY <1>1, <1>6, <1>9, <2>1 DEF CountOK, MyJob
  <2>4. CASE d = c
    BY <1>8, <2>2, <2>3, <2>4 DEF CountOK, Unlogged, Early, MyJob
  <2>5. CASE d # c
    <3>1. Unlogged(con[d]) => ~Same(e, con[d].msg)
      <4>1. Unlogged(con[d]) => Busy(d)
        BY DEF Unlogged, Early, Busy
      <4> QED BY <1>5, <1>8, <1>9, <2>5, <4>1 DEF CountOK, Same
    <3> QED BY <1>4, <2>1, <2>2, <2>3, <2>5, <3>1 DEF CountOK, MyJob
  <2> QED BY <2>4, <2>5
<1>11. ASSUME NEW m \in queue' PROVE MessageOK(m)'
  <2>1. MessageOK(m) /\ m.row[1] \in Jobs
    BY <1>6, <1>8, <1>11, RowParts DEF KnownInv
  <2>2. e.gen = m.gen => e.tries <= m.tries
    BY <1>5, <1>9, <2>1 DEF MessageOK, Same
  <2> QED BY <1>1, <1>4, <1>8, <1>9, <2>1, <2>2 DEF MessageOK
<1>12. ASSUME NEW l \in log' PROVE EntryOK(l)'
  <2>1. e.status = "ok" => \A k \in log : k.status = "ok" => ~Same(k, e) /\ ~Same(e, k)
    BY <1>5, <1>8 DEF CountOK, Unlogged, Same
  <2>2. l.gen <= clock
    BY <1>4, <1>5, <1>12 DEF KnownInv, EntryOK, GenOK, Same
  <2>3. job'[l.row[1]].status # "none"
    <3>1. CASE l = e
      BY <1>1, <1>5, <1>6, <1>8, <1>9, <3>1 DEF CountOK, MyJob
    <3>2. CASE l \in log
      BY <1>1, <1>6, <3>2, RowParts DEF KnownInv, EntryOK
    <3> QED BY <1>4, <3>1, <3>2
  <2>4. \A k \in log' : k.status = "ok" /\ l.status = "ok" /\ Same(k, l) => k = l
    BY <1>4, <2>1 DEF KnownInv, EntryOK
  <2> QED BY <2>2, <2>3, <2>4 DEF EntryOK
<1>13. ASSUME NEW p \in Invocations PROVE PushOK(p)'
  <2>1. PushOK(p)
    BY DEF KnownInv
  <2>2. InvAt(p, "push") => e.gen # inv[p].gen
    BY <1>5, <1>9, <2>1 DEF PushOK, Same
  <2> QED BY <1>1, <1>4, <1>7, <1>8, <1>9, <2>1, <2>2, RowParts DEF PushOK, InvAt
<1> QED BY <1>10, <1>11, <1>12, <1>13 DEF KnownInv

\* What is known, under every step of a consumer.
LEMMA ConsumerKnown ==
  ASSUME IInv, GenOK, KnownInv, NEW c \in Consumers, Deliver(c) \/ Consume(c) \/ Throw(c) \/ Evict(c)
  PROVE  KnownInv'
<1>1. JobsKept /\ UNCHANGED <<clock, inv>> /\ \A d \in Consumers \ {c} : con'[d] = con[d]
  BY ConsumerJobs, ConsumerMoves
<1>2. Deliver(c) \/ Ends(c) \/ GoesOn(c) \/ Adds(c) \/ Logs(c)
  BY ConsumerCounts DEF KnownInv
<1>3. \A m, n \in queue : m.gen = n.gen => m = n
  BY DEF KnownInv, MessageOK
<1>4. queue' = queue => Resettled
  BY <1>3 DEF Resettled, Same
<1>5. CASE Deliver(c)
  BY <1>1, <1>5, KnownDeliver
<1>6. CASE Logs(c)
  BY <1>1, <1>6, KnownLog
<1>7. CASE Ends(c)
  <2>1. Resettled /\ con'[c].pc = "idle" /\ log' = log
    BY <1>7, SettledQueue DEF Ends, ConIdle
  <2> QED BY <1>1, <2>1, KnownRest
<1>8. CASE GoesOn(c)
  <2>1. Resettled /\ Advance(con[c], con'[c]) /\ log' = log
    BY <1>4, <1>8 DEF GoesOn, Quiet, Advance
  <2> QED BY <1>1, <2>1, KnownRest
<1>9. CASE Adds(c)
  <2>1. Resettled /\ Advance(con[c], con'[c]) /\ log' = log
    BY <1>4, <1>9 DEF Adds, Advance, UpdateCounters, At, Early, Unlogged
  <2> QED BY <1>1, <2>1, KnownRest
<1> QED BY <1>2, <1>5, <1>6, <1>7, <1>8, <1>9

\* The tally under every step of a consumer: an entry of the log, and a mail
\* that is still to be counted, come and go together.
LEMMA ConsumerTally ==
  ASSUME IInv, CountInv, NEW c \in Consumers, Deliver(c) \/ Consume(c) \/ Throw(c) \/ Evict(c), NEW j \in Jobs
  PROVE  Tally(j)'
<1> DEFINE S == {d \in Consumers : con[d].msg.row[1] = j /\ Counting(con[d])}
           T == {d \in Consumers : con'[d].msg.row[1] = j /\ Counting(con'[d])}
<1>1. BeingCounted(j) = S /\ BeingCounted(j)' = T
  BY DEF BeingCounted, Counting
<1>2. Tally(j) /\ KnownInv /\ CountOK(c) /\ MyJob(c) \in Jobs
  BY ConType DEF CountInv, KnownInv, IInv
<1>3. /\ Exists(j)' <=> Exists(j)
      /\ job'[j].sent = job[j].sent \/ (UpdateCounters(c) /\ j = MyJob(c))
      /\ \A d \in Consumers \ {c} : con'[d] = con[d]
  BY ConsumerJobs, ConsumerMoves DEF JobsKept
<1>4. PICK b \in Nat : b = Cardinality(S) /\ IsFiniteSet(S)
  BY <1>1, <1>2, FS_CardinalityType DEF Tally
<1>5. IsFiniteSet(OkEntries(j))
  <2>1. OkEntries(j) \in SUBSET log /\ IsFiniteSet(log)
    BY DEF OkEntries, IInv, TablesOK
  <2> QED BY <2>1, FS_Subset
<1>6. PICK o \in Nat : o = Cardinality(OkEntries(j))
  BY <1>5, FS_CardinalityType
<1>7. job[j].sent \in Nat /\ con[c].nSent \in Nat
  BY ConType DEF IInv, TablesOK, JobGood, JobRec, ConRec
<1>8. Exists(j) => job[j].sent + b <= o /\ (Calm => job[j].sent + b = o)
  BY <1>1, <1>2, <1>4, <1>6 DEF Tally
<1> HIDE DEF S, T
<1>9. ASSUME NEW x \in Nat, NEW y \in Nat, Cardinality(T) = x, IsFiniteSet(T), Cardinality(OkEntries(j)') = y,
             Exists(j) => job'[j].sent + x <= y /\ (Calm => job'[j].sent + x = y)
      PROVE  Tally(j)'
  BY <1>1, <1>3, <1>9 DEF Tally
<1>10. Deliver(c) \/ Ends(c) \/ GoesOn(c) \/ Adds(c) \/ Logs(c)
  BY <1>2, ConsumerCounts
<1>11. ASSUME log' = log, job'[j].sent = job[j].sent, T \subseteq S, Calm => S = T PROVE Tally(j)'
  <2>1. PICK x \in Nat : x = Cardinality(T) /\ IsFiniteSet(T)
    BY <1>4, <1>11, FS_Subset, FS_CardinalityType
  <2>2. x <= b /\ (Calm => x = b)
    BY <1>4, <1>11, <2>1, FS_Subset
  <2>3. OkEntries(j)' = OkEntries(j)
    BY <1>11 DEF OkEntries
  <2>4. Exists(j) => job'[j].sent + x <= o /\ (Calm => job'[j].sent + x = o)
    BY <1>7, <1>8, <1>11, <2>2
  <2>5. Cardinality(OkEntries(j)') = o
    BY <1>6, <2>3
  <2> QED BY <1>9, <2>1, <2>4, <2>5
<1>12. CASE Deliver(c)
  <2>1. log' = log /\ job'[j].sent = job[j].sent /\ con[c].pc = "idle"
    BY <1>12 DEF Deliver, consumed, At
  <2>2. con'[c].pc = "job"
    <3>1. PICK m \in queue : con' = [con EXCEPT ![c] = [ConIdle EXCEPT !.pc = "job",
                    !.msg = [gen |-> m.gen, row |-> m.row, cred |-> m.cred, tries |-> m.tries + 1]]]
      BY <1>12 DEF Deliver
    <3>2. PICK d : d = [gen |-> m.gen, row |-> m.row, cred |-> m.cred, tries |-> m.tries + 1]
      OBVIOUS
    <3>3. PICK r : r = [ConIdle EXCEPT !.pc = "job", !.msg = d]
      OBVIOUS
    <3>4. r.pc = "job"
      BY <3>3 DEF ConIdle
    <3> QED BY <3>1, <3>2, <3>3, <3>4 DEF IInv, ConsOK
  <2>3. T = S
    BY <1>3, <2>1, <2>2 DEF S, T, Counting
  <2> QED BY <1>11, <2>1, <2>3
<1>13. CASE Ends(c)
  <2>1. con'[c].pc = "idle" /\ log' = log /\ (Calm => ~Counting(con[c])) /\ job'[j].sent = job[j].sent
    BY <1>3, <1>13 DEF Ends, ConIdle
  <2>2. T \subseteq S
    BY <1>3, <2>1 DEF S, T, Counting
  <2>3. Calm => T = S
    BY <1>3, <2>1 DEF S, T, Counting
  <2> QED BY <1>11, <2>1, <2>2, <2>3
<1>14. CASE GoesOn(c)
  <2>1. /\ con'[c].msg = con[c].msg /\ log' = log /\ job'[j].sent = job[j].sent
        /\ Counting(con'[c]) => Counting(con[c])
        /\ Calm /\ Counting(con[c]) => Counting(con'[c])
    BY <1>3, <1>14 DEF GoesOn, Quiet
  <2>2. T \subseteq S
    BY <1>3, <2>1 DEF S, T
  <2>3. Calm => T = S
    BY <1>3, <2>1 DEF S, T
  <2> QED BY <1>11, <2>1, <2>2, <2>3
<1>15. CASE Adds(c)
  <2>1. /\ con'[c].pc = "finish" /\ log' = log /\ con[c].pc = "counters"
        /\ con[c].nSent = IF con[c].kind = "ok" THEN 1 ELSE 0
    BY <1>2, <1>15 DEF Adds, UpdateCounters, At, CountOK
  <2>2. T = S \ {c}
    BY <1>3, <2>1 DEF S, T, Counting
  <2>3. c \in S <=> con[c].kind = "ok" /\ j = MyJob(c)
    BY <2>1 DEF S, Counting, MyJob
  <2>4. CASE j = MyJob(c)
    <3>1. Exists(j) => job'[j].sent = job[j].sent + con[c].nSent
      BY <1>15, <2>4, ConsumerJobs DEF Adds
    <3>2. PICK x \in Nat : x = Cardinality(T) /\ IsFiniteSet(T) /\ x = IF c \in S THEN b - 1 ELSE b
      BY <1>4, <2>2, FS_RemoveElement, FS_CardinalityType
    <3>3. x + con[c].nSent = b
      BY <2>1, <2>3, <2>4, <3>2
    <3>4. Exists(j) => job'[j].sent + x <= o /\ (Calm => job'[j].sent + x = o)
      BY <1>7, <1>8, <3>1, <3>3
    <3>5. Cardinality(OkEntries(j)') = o
      BY <1>6, <2>1 DEF OkEntries
    <3> QED BY <1>9, <3>2, <3>4, <3>5
  <2>5. CASE j # MyJob(c)
    <3>1. T = S
      BY <2>2, <2>3, <2>5
    <3> QED BY <1>3, <1>11, <2>1, <2>5, <3>1
  <2> QED BY <2>4, <2>5
<1>16. CASE Logs(c)
  <2>1. /\ con[c].pc = "log" /\ con'[c].pc = "mark" /\ con'[c].msg = con[c].msg /\ con'[c].kind = con[c].kind
        /\ job'[j].sent = job[j].sent
    BY <1>3, <1>16 DEF Logs
  <2>2. PICK s : s = IF con[c].kind = "ok" THEN "ok" ELSE "bounce"
    OBVIOUS
  <2>3. PICK e : e = [row |-> con[c].msg.row, gen |-> con[c].msg.gen, tries |-> con[c].msg.tries, status |-> s, today |-> TRUE]
    OBVIOUS
  <2>4. log' = log \union {e} /\ e.row[1] = MyJob(c) /\ e.status = s /\ Same(e, con[c].msg)
    BY <1>16, <2>2, <2>3 DEF Logs, MyJob, Same
  <2>5. CASE con[c].kind = "ok" /\ j = MyJob(c)
    <3>1. T = S \union {c} /\ c \notin S
      BY <1>3, <2>1, <2>5 DEF S, T, Counting, MyJob
    <3>2. e \notin OkEntries(j)
      BY <1>2, <2>1, <2>4, <2>5 DEF CountOK, Unlogged, OkEntries
    <3>3. OkEntries(j)' = OkEntries(j) \union {e}
      BY <2>2, <2>4, <2>5 DEF OkEntries
    <3>4. Cardinality(T) = b + 1 /\ IsFiniteSet(T)
      BY <1>4, <3>1, FS_AddElement
    <3>5. Cardinality(OkEntries(j)') = o + 1
      BY <1>5, <1>6, <3>2, <3>3, FS_AddElement
    <3>6. Exists(j) => job'[j].sent + (b + 1) <= o + 1 /\ (Calm => job'[j].sent + (b + 1) = o + 1)
      BY <1>7, <1>8, <2>1
    <3>7. PICK x \in Nat, y \in Nat : x = b + 1 /\ y = o + 1
      OBVIOUS
    <3> QED BY <1>9, <3>4, <3>5, <3>6, <3>7
  <2>6. CASE ~(con[c].kind = "ok" /\ j = MyJob(c))
    <3>1. T = S
      BY <1>3, <2>1, <2>6 DEF S, T, Counting, MyJob
    <3>2. OkEntries(j)' = OkEntries(j)
      BY <2>2, <2>4, <2>6 DEF OkEntries
    <3> QED BY <1>4, <1>6, <1>8, <1>9, <2>1, <3>1, <3>2
  <2> QED BY <2>5, <2>6
<1> QED BY <1>10, <1>12, <1>13, <1>14, <1>15, <1>16

-----------------------------------------------------------------------------
(* What time and redelivery do to what is counted.                         *)

\* A lease that lapses, a limit that switches: nothing new is known.
LEMMA LapseKnown ==
  ASSUME IInv, CountInv, LeaseLapses \/ (\E j \in Jobs : LimitSwitches(j)) \/ UNCHANGED vars
  PROVE  CountInv'
<1>1. UNCHANGED <<job, log, clock, inv, con>> /\ KnownInv
  BY DEF LeaseLapses, LimitSwitches, vars, consumed, CountInv
<1>2. \A m, n \in queue : m.gen = n.gen => m = n
  BY <1>1 DEF KnownInv, MessageOK
<1>3. Resettled
  <2>1. CASE LeaseLapses
    <3>1. PICK m \in queue : queue' = (queue \ {m}) \union {[m EXCEPT !.leased = FALSE]}
      BY <2>1 DEF LeaseLapses
    <3>2. PICK n : n = [m EXCEPT !.leased = FALSE]
      OBVIOUS
    <3>3. n.gen = m.gen /\ n.tries = m.tries /\ n.row = m.row
      BY <3>2 DEF IInv, QueueOK, Message
    <3>4. \A k \in queue' : k \in queue \ {m} \/ k = n
      BY <3>1, <3>2
    <3>5. \A k \in queue' : \E x \in queue : Same(k, x) /\ k.row = x.row
      BY <3>3, <3>4 DEF Same
    <3>6. \A k, x \in queue' : k.gen = x.gen => k = x
      BY <1>2, <3>3, <3>4
    <3> QED BY <3>5, <3>6 DEF Resettled
  <2>2. CASE queue' = queue
    BY <1>2, <2>2 DEF Resettled, Same
  <2> QED BY <2>1, <2>2 DEF LimitSwitches, vars
<1>4. JobsKept
  BY <1>1 DEF JobsKept, Exists
<1>5. KnownInv'
  BY <1>1, <1>3, <1>4, KnownRest
<1>6. \A j \in Jobs : Tally(j)'
  BY <1>1 DEF CountInv, Tally, Exists, BeingCounted, OkEntries
<1> QED BY <1>5, <1>6 DEF CountInv

\* Midnight leaves as many entries of a job as there were: no two deliveries
\* have the same entry.
LEMMA MidnightKnown ==
  ASSUME IInv, CountInv, NewDay
  PROVE  CountInv'
<1> DEFINE older(l) == [l EXCEPT !.today = FALSE]
<1>1. log' = {older(l) : l \in log} /\ UNCHANGED <<job, queue, clock, inv, con>> /\ KnownInv
  BY DEF NewDay, CountInv
<1>2. \A l \in log : /\ older(l).row = l.row /\ older(l).gen = l.gen /\ older(l).tries = l.tries
                     /\ older(l).status = l.status
  BY DEF IInv, TablesOK, LogRec
<1>3. \A l \in log : EntryOK(l)
  BY <1>1 DEF KnownInv
<1> HIDE DEF older
<1>4. \A k \in log' : \E l \in log : k = older(l) /\ Same(k, l) /\ k.row = l.row /\ k.status = l.status
  BY <1>1, <1>2 DEF Same
<1>5. ASSUME NEW c \in Consumers PROVE CountOK(c)'
  <2>1. CountOK(c)
    BY <1>1 DEF KnownInv
  <2>2. Unlogged(con[c]) => ~ \E l \in log' : l.status = "ok" /\ Same(l, con[c].msg)
    BY <1>4, <2>1 DEF CountOK, Same
  <2> QED BY <1>1, <2>1, <2>2 DEF CountOK, Busy, MyJob
<1>6. ASSUME NEW m \in queue' PROVE MessageOK(m)'
  <2>1. MessageOK(m)
    BY <1>1, <1>6 DEF KnownInv
  <2>2. \A l \in log' : l.gen = m.gen => l.tries <= m.tries
    BY <1>4, <2>1 DEF MessageOK, Same
  <2> QED BY <1>1, <2>1, <2>2 DEF MessageOK, Busy
<1>7. ASSUME NEW k \in log' PROVE EntryOK(k)'
  <2>1. PICK l \in log : k = older(l) /\ Same(k, l) /\ k.row = l.row /\ k.status = l.status
    BY <1>4, <1>7
  <2>2. ASSUME NEW x \in log', x.status = "ok", k.status = "ok", Same(x, k) PROVE x = k
    <3>1. PICK y \in log : x = older(y) /\ Same(x, y) /\ x.status = y.status
      BY <1>4
    <3>2. y = l
      BY <1>3, <2>1, <2>2, <3>1 DEF EntryOK, Same
    <3> QED BY <2>1, <3>1, <3>2
  <2>3. k.gen <= clock /\ job[k.row[1]].status # "none"
    BY <1>3, <2>1 DEF EntryOK, Same
  <2> QED BY <1>1, <2>2, <2>3 DEF EntryOK
<1>8. ASSUME NEW p \in Invocations PROVE PushOK(p)'
  <2>1. PushOK(p)
    BY <1>1 DEF KnownInv
  <2>2. InvAt(p, "push") => \A l \in log' : l.gen # inv[p].gen
    BY <1>4, <2>1 DEF PushOK, Same
  <2> QED BY <1>1, <2>1, <2>2 DEF PushOK, InvAt, Busy
<1>9. ASSUME NEW j \in Jobs PROVE Tally(j)'
  <2> DEFINE A == OkEntries(j)
             B == {l \in log' : l.status = "ok" /\ l.row[1] = j}
             f == [l \in A |-> older(l)]
  <2>1. A \in SUBSET log /\ IsFiniteSet(log)
    BY DEF OkEntries, IInv, TablesOK
  <2>2. IsFiniteSet(A)
    BY <2>1, FS_Subset
  <2>3. f \in [A -> B]
    BY <1>1, <1>2 DEF OkEntries
  <2>4. \A x, y \in A : f[x] = f[y] => x = y
    <3> SUFFICES ASSUME NEW x \in A, NEW y \in A, older(x) = older(y) PROVE x = y
      OBVIOUS
    <3>1. x \in log /\ y \in log /\ x.status = "ok" /\ y.status = "ok"
      BY DEF OkEntries
    <3>2. Same(x, y)
      BY <1>2, <3>1 DEF Same
    <3> QED BY <1>3, <3>1, <3>2 DEF EntryOK
  <2>5. \A z \in B : \E x \in A : f[x] = z
    BY <1>4 DEF OkEntries
  <2>6. f \in Bijection(A, B)
    <3>1. PICK g : g = f
      OBVIOUS
    <3>2. g \in [A -> B] /\ (\A x, y \in A : g[x] = g[y] => x = y) /\ \A z \in B : \E x \in A : g[x] = z
      BY <2>3, <2>4, <2>5, <3>1
    <3> HIDE DEF A, B, f
    <3>3. g \in Injection(A, B)
      <4>1. DOMAIN g = A
        BY <3>2
      <4> QED BY <3>2, <4>1 DEF Injection, IsInjective
    <3>4. g \in Surjection(A, B)
      BY <3>2, Zenon DEF Surjection
    <3> QED BY <3>1, <3>3, <3>4 DEF Bijection
  <2>7. ExistsBijection(A, B)
    BY <2>6 DEF ExistsBijection
  <2>8. Cardinality(B) = Cardinality(A)
    BY <2>2, <2>7, FS_Bijection
  <2>9. OkEntries(j)' = B /\ BeingCounted(j)' = BeingCounted(j) /\ (Exists(j)' <=> Exists(j)) /\ Tally(j)
    BY <1>1 DEF OkEntries, BeingCounted, Exists, CountInv
  <2> QED BY <1>1, <2>8, <2>9 DEF Tally
<1> QED BY <1>5, <1>6, <1>7, <1>8, <1>9 DEF KnownInv, CountInv

\* Nothing is known at first, and nothing counted.
LEMMA CountInit == Init => CountInv
<1> SUFFICES ASSUME Init PROVE CountInv
  OBVIOUS
<1>1. /\ \A c \in Consumers : con[c].pc = "idle"
      /\ \A p \in Invocations : inv[p].pc = "idle" /\ inv[p].todo = {}
      /\ queue = {} /\ log = {} /\ \A j \in Jobs : job[j].status = "none"
  BY DEF Init, ConIdle, InvIdle, NoJob
<1>2. KnownInv
  BY <1>1 DEF KnownInv, CountOK, MessageOK, EntryOK, PushOK, Busy, InvAt, Unlogged, Early
<1>3. ASSUME NEW j \in Jobs PROVE Tally(j)
  <2>1. BeingCounted(j) = {} /\ ~Exists(j)
    BY <1>1 DEF BeingCounted, Exists, Active, Final
  <2> QED BY <2>1, FS_EmptySet DEF Tally
<1> QED BY <1>2, <1>3 DEF CountInv

\* Every step keeps the tally.
LEMMA CountStep == IInv /\ GenOK /\ CredsInv /\ CountInv /\ [Next]_vars => CountInv'
<1> SUFFICES ASSUME IInv, GenOK, CredsInv, CountInv, [Next]_vars PROVE CountInv'
  OBVIOUS
<1>1. ASSUME NEW c \in Consumers, Deliver(c) \/ Consume(c) \/ Throw(c) \/ Evict(c) PROVE CountInv'
  BY <1>1, ConsumerKnown, ConsumerTally DEF CountInv
<1>2. ASSUME NEW p \in Invocations, Begin(p) \/ Continue(p) \/ InvThrows(p) \/ InvEvict(p) PROVE CountInv'
  BY <1>2, RequestKnown, RequestTally DEF CountInv, CredsInv
<1>3. CASE LeaseLapses \/ (\E j \in Jobs : LimitSwitches(j)) \/ UNCHANGED vars
  BY <1>3, LapseKnown
<1>4. CASE NewDay
  BY <1>4, MidnightKnown
<1> QED BY <1>1, <1>2, <1>3, <1>4 DEF Next

\* In every behaviour, whatever fails.
THEOREM CountsHold == Spec => [](IInv /\ GenOK /\ CredsInv /\ CountInv)
<1>1. Init => IInv /\ GenOK /\ CredsInv /\ CountInv
  BY IInvInit, GenInit, CredsInit, CountInit
<1>2. IInv /\ GenOK /\ CredsInv /\ CountInv /\ [Next]_vars => (IInv /\ GenOK /\ CredsInv /\ CountInv)'
  BY IInvStep, GenStep, CredsStep, CountStep
<1> QED BY <1>1, <1>2, PTL DEF Spec

\* sent_count never claims a mail that the log does not have, whatever is thrown,
\* redelivered or killed: a mail is counted after it was logged, and once
\* (send-queue.ts:48-51).
THEOREM NoMailOverstated == Spec => []NeverOverstated
<1>1. CountInv => NeverOverstated
  BY DEF CountInv, Tally, NeverOverstated
<1> QED BY <1>1, CountsHold, PTL

\* While no statement fails after a mail and no consumer is killed, sent_count
\* and the log agree but for the mails a consumer is about to add, however the
\* queue redelivers and whoever retries, cancels or deletes (send-queue.ts:48-51).
THEOREM CountersAreExact == ASSUME Calm PROVE Spec => []CountersMatchLog
<1>1. CountInv => CountersMatchLog
  BY Calm DEF CountInv, Tally, CountersMatchLog
<1> QED BY <1>1, CountsHold, PTL

-----------------------------------------------------------------------------
(* How often the pipeline mails.                                           *)

\* Every message is worked on once at a time, and to its end.
Once == Faults \cap {"redeliver", "evict", "throw"} = {}

\* The outcome of an attempt is being recorded, or is, and the message marked.
Recording(r) == r.pc \in {"log", "mark", "contact"}
Closing(r) == r.pc \in {"counters", "finish", "done"} /\ r.ack = "ack"

\* The attempt of a mail is not made again: whoever holds its message is past
\* the sending, and where the message is delivered anew its job is gone.
MailOK(k) ==
  /\ k.gen <= clock /\ k.row \in Rows /\ job[k.row[1]].status # "none"
  /\ \A p \in Invocations : InvAt(p, "push") => inv[p].gen # k.gen
  /\ \A c \in Consumers : Busy(c) /\ con[c].msg.gen = k.gen =>
       Recording(con[c]) \/ Closing(con[c]) \/ (con[c].pc = "job" /\ ~Exists(MyJob(c)))
  /\ \A m \in queue : ~m.leased /\ m.gen = k.gen => ~Exists(m.row[1])

HeldOnce ==
  /\ \A c, d \in Consumers : Busy(c) /\ Busy(d) /\ con[c].msg.gen = con[d].msg.gen => c = d
  /\ \A c \in Consumers : \A m \in queue : Busy(c) /\ ~m.leased => m.gen # con[c].msg.gen

OnceInv == HeldOnce /\ (\A k \in mails : MailOK(k)) /\ OneMailPerClaim

\* What a consumer does to its recipient's row.
RowGoes(c) ==
  LET r == con[c].msg.row IN
  /\ \A q \in Rows \ {r} : row'[q] = row[q]
  /\ \/ row'[r] = row[r]
     \/ con[c].pc = "demote" /\ Current(con[c].msg)
     \/ con[c].pc = "mark" /\ row'[r].status \in {"ok", "bounce"}
  /\ con[c].pc = "mark" => row[r].status = "absent" \/ row'[r].status \in {"ok", "bounce"}

\* A step of a consumer that works on every message once: it ends, sends, or
\* goes on in the order of processJobMessages.
Finishes(c) ==
  /\ con'[c] = ConIdle /\ Busy(c) /\ UNCHANGED <<mails, row>>
  /\ con[c].pc \in {"log", "mark"} => ~Exists(MyJob(c))
  /\ \E how : /\ queue' = Settled(c, how)
              /\ how # "ack" => \/ con[c].pc = "log" /\ ~Exists(MyJob(c))
                                \/ con[c].pc \in {"finish", "done"} /\ con[c].ack # "ack"
Sends(c) ==
  /\ con[c].pc = "send" /\ con'[c].pc = "log" /\ con'[c].msg = con[c].msg
  /\ UNCHANGED <<queue, row>> /\ (mails' = mails \/ Accepted(c))
Goes(c) ==
  /\ con'[c].msg = con[c].msg /\ Busy(c) /\ UNCHANGED <<queue, mails>> /\ RowGoes(c)
  /\ Recording(con[c]) => Recording(con'[c]) \/ Closing(con'[c])
  /\ Closing(con[c]) => Closing(con'[c])
  /\ con[c].pc = "job" => Exists(MyJob(c))
  /\ con'[c].pc # "idle"
  /\ con'[c].pc = "send" => con[c].pc = "current" /\ Current(con[c].msg)
  /\ con'[c].pc \in {"log", "mark"} => con[c].pc = "log"
  /\ con[c].pc = "log" => con'[c].pc \in {"log", "mark"}

LEMMA ConsumerSends ==
  ASSUME IInv, Once, NEW c \in Consumers, Deliver(c) \/ Consume(c) \/ Throw(c) \/ Evict(c)
  PROVE  Deliver(c) \/ Finishes(c) \/ Sends(c) \/ Goes(c)
<1>1. /\ con \in [Consumers -> ConRec] /\ con[c] \in ConRec /\ row \in [Rows -> RowRec]
      /\ con[c].msg.row \in Rows
  BY ConType DEF IInv, ConsOK, TablesOK
<1> DEFINE b == con'[c]
           Done == Deliver(c) \/ Finishes(c) \/ Sends(c) \/ Goes(c)
<1>2. row' = row /\ con[c].pc # "mark" => RowGoes(c)
  BY DEF RowGoes
<1>3. ASSUME NEW s, con[c].pc \notin {"idle", "job", "log", "mark", "contact", "counters", "finish", "done"},
             s \notin {"idle", "send", "log", "mark"}, b.pc = s, b.msg = con[c].msg, UNCHANGED <<queue, mails>>, RowGoes(c)
      PROVE  Done
  BY <1>3 DEF Goes, Busy, Recording, Closing
<1>4. ASSUME NEW s,
             \/ con' = [con EXCEPT ![c].pc = s]
             \/ con' = [con EXCEPT ![c].pc = s, ![c].ack = "ack"]
             \/ con' = [con EXCEPT ![c].pc = s, ![c].ack = "retry"]
             \/ \E n : con' = [con EXCEPT ![c].pc = s, ![c].avail = n]
             \/ \E n : con' = [con EXCEPT ![c].pc = s, ![c].cred = n]
             \/ con' = [con EXCEPT ![c].pc = s, ![c].aborted = TRUE]
             \/ con' = [con EXCEPT ![c].pc = s, ![c].aborted = TRUE, ![c].ack = "ack"]
      PROVE  b.pc = s /\ b.msg = con[c].msg
  BY <1>1, <1>4 DEF ConRec
<1>5. ASSUME NEW how, Return(c, how), Busy(c), UNCHANGED <<mails, row>>,
             con[c].pc \in {"log", "mark"} => ~Exists(MyJob(c)),
             how # "ack" => \/ con[c].pc = "log" /\ ~Exists(MyJob(c))
                            \/ con[c].pc \in {"finish", "done"} /\ con[c].ack # "ack"
      PROVE  Done
  BY <1>1, <1>5 DEF Return, Finishes
<1>6. CASE ReadJob(c)
  <2>1. CASE Return(c, "ack")
    BY <1>5, <1>6, <2>1 DEF ReadJob, At, Busy, consumed
  <2>2. CASE Exists(MyJob(c)) /\ UNCHANGED queue /\ \E n : con' = [con EXCEPT ![c].pc = "credential", ![c].cred = n]
    <3>1. b.pc = "credential" /\ b.msg = con[c].msg
      BY <1>4, <2>2
    <3> QED BY <1>2, <1>6, <2>2, <3>1 DEF ReadJob, At, consumed, Goes, Busy, Recording, Closing
  <2> QED BY <1>6, <2>1, <2>2 DEF ReadJob
<1>7. CASE ReadCredential(c)
  <2>1. b.pc \in {"abort_gone", "staged"} /\ b.msg = con[c].msg
    BY <1>4, <1>7 DEF ReadCredential, Goto, MarkAck
  <2> QED BY <1>2, <1>3, <1>7, <2>1 DEF ReadCredential, At, consumed
<1>8. CASE ReadStaged(c)
  <2>1. b.pc \in {"limit", "finish"} /\ b.msg = con[c].msg
    BY <1>4, <1>8 DEF ReadStaged, Goto, MarkAck
  <2> QED BY <1>2, <1>3, <1>8, <2>1 DEF ReadStaged, At, consumed
<1>9. CASE ReadLimit(c)
  <2>1. b.pc \in {"finish", "slot", "count"} /\ b.msg = con[c].msg
    BY <1>4, <1>9 DEF ReadLimit, Goto, MarkAck
  <2> QED BY <1>2, <1>3, <1>9, <2>1 DEF ReadLimit, At, consumed
<1>10. CASE CountSent(c)
  <2>1. b.pc = "window" /\ b.msg = con[c].msg
    BY <1>4, <1>10 DEF CountSent
  <2> QED BY <1>2, <1>3, <1>10, <2>1 DEF CountSent, At, consumed
<1>11. CASE ReadWindow(c)
  <2>1. b.pc \in {"slot", "demote"} /\ b.msg = con[c].msg
    BY <1>4, <1>11 DEF ReadWindow, Goto
  <2> QED BY <1>2, <1>3, <1>11, <2>1 DEF ReadWindow, At, consumed
<1>12. CASE Demote(c)
  <2>1. b.pc = "finish" /\ b.msg = con[c].msg
    BY <1>4, <1>12 DEF Demote, MarkAck
  <2>2. RowGoes(c)
    BY <1>1, <1>12 DEF Demote, RowGoes, At
  <2> QED BY <1>3, <1>12, <2>1, <2>2 DEF Demote, At
<1>13. CASE AcquireSlot(c)
  <2>1. b.pc \in {"current", "finish"} /\ b.msg = con[c].msg
    BY <1>4, <1>13 DEF AcquireSlot, Goto
  <2> QED BY <1>2, <1>3, <1>13, <2>1 DEF AcquireSlot, At, consumed
<1>14. CASE ReadCurrent(c)
  <2>1. CASE Current(con[c].msg) /\ Goto(c, "send")
    <3>1. b.pc = "send" /\ b.msg = con[c].msg
      BY <1>4, <2>1 DEF Goto
    <3> QED BY <1>2, <1>14, <2>1, <3>1 DEF ReadCurrent, At, consumed, Goes, Busy, Recording, Closing
  <2>2. CASE MarkAck(c, "finish") \/ MarkAck(c, "abort_redacted")
    <3>1. b.pc \in {"finish", "abort_redacted"} /\ b.msg = con[c].msg
      BY <1>4, <2>2 DEF MarkAck
    <3> QED BY <1>2, <1>3, <1>14, <3>1 DEF ReadCurrent, At, consumed
  <2> QED BY <1>14, <2>1, <2>2 DEF ReadCurrent
<1>15. CASE AbortRedacted(c)
  <2>1. b.pc \in {"counters"} /\ b.msg = con[c].msg
    BY <1>4, <1>15 DEF AbortRedacted
  <2> QED BY <1>2, <1>3, <1>15, <2>1 DEF AbortRedacted, At, consumed
<1>16. CASE SendCredentialFailure(c)
  <2>1. b.pc \in {"abort_blocked"} /\ b.msg = con[c].msg
    BY <1>4, <1>16 DEF SendCredentialFailure, Goto
  <2> QED BY <1>2, <1>3, <1>16, <2>1 DEF SendCredentialFailure, At, consumed
<1>17. CASE AbortBlocked(c)
  <2>1. b.pc \in {"counters"} /\ b.msg = con[c].msg
    BY <1>4, <1>17 DEF AbortBlocked
  <2> QED BY <1>2, <1>3, <1>17, <2>1 DEF AbortBlocked, At, consumed
<1>18. CASE SendTransient(c)
  <2>1. b.pc \in {"counters"} /\ b.msg = con[c].msg
    BY <1>4, <1>18 DEF SendTransient
  <2> QED BY <1>2, <1>3, <1>18, <2>1 DEF SendTransient, At, consumed
<1>19. CASE SendOk(c)
  <2>1. b.pc = "log" /\ b.msg = con[c].msg
    BY <1>1, <1>19 DEF SendOk, ConRec
  <2> QED BY <1>19, <2>1 DEF SendOk, At, Sends
<1>20. CASE SendBounce(c)
  <2>1. PICK k, n : con' = [con EXCEPT ![c].pc = "log", ![c].kind = k, ![c].nBounce = n]
    BY <1>20 DEF SendBounce
  <2>2. b.pc = "log" /\ b.msg = con[c].msg
    BY <1>1, <2>1 DEF ConRec
  <2> QED BY <1>20, <2>2 DEF SendBounce, At, Sends
<1>21. CASE LogInsert(c)
  <2>1. b.pc = "mark" /\ b.msg = con[c].msg
    BY <1>4, <1>21 DEF LogInsert, Goto
  <2> QED BY <1>2, <1>21, <2>1 DEF LogInsert, At, Goes, Busy, Recording, Closing
<1>22. con' = Counted(c) => b.pc = "counters" /\ b.msg = con[c].msg /\ b.ack = "ack"
  <2>1. PICK n : n = IF con[c].kind = "ok" THEN 1 ELSE 0
    OBVIOUS
  <2>2. con' = Counted(c) => con' = [con EXCEPT ![c].pc = "counters", ![c].ack = "ack", ![c].nSent = n]
    BY <2>1 DEF Counted
  <2> QED BY <1>1, <2>2 DEF ConRec
<1>23. CASE MarkRecipient(c)
  <2>1. con[c].pc = "mark" /\ UNCHANGED <<queue, mails>>
    BY <1>23 DEF MarkRecipient, At
  <2>2. RowGoes(c)
    BY <1>1, <1>23 DEF MarkRecipient, At, RowGoes, RowRec
  <2>3. b.msg = con[c].msg /\ (b.pc = "contact" \/ (b.pc = "counters" /\ b.ack = "ack"))
    BY <1>4, <1>22, <1>23 DEF MarkRecipient, Goto
  <2> QED BY <2>1, <2>2, <2>3 DEF Goes, Busy, Recording, Closing
<1>24. CASE VerifyContact(c)
  <2>1. con[c].pc = "contact" /\ UNCHANGED <<queue, mails, row>>
    BY <1>24 DEF VerifyContact, At
  <2>2. b.msg = con[c].msg /\ b.pc = "counters" /\ b.ack = "ack"
    BY <1>22, <1>24 DEF VerifyContact
  <2> QED BY <1>2, <2>1, <2>2 DEF Goes, Busy, Recording, Closing
<1>25. CASE LogFails(c)
  <2>1. PICK n : con' = [con EXCEPT ![c].pc = "log", ![c].kind = "bounce", ![c].nBounce = n]
    BY <1>25 DEF LogFails
  <2>2. b.pc = "log" /\ b.msg = con[c].msg
    BY <1>1, <2>1 DEF ConRec
  <2>3. con[c].pc = "log" /\ UNCHANGED <<queue, mails, row>>
    BY <1>25 DEF LogFails, At, consumed, Once
  <2> QED BY <1>2, <2>2, <2>3 DEF Goes, Busy, Recording, Closing
<1>26. CASE UpdateCounters(c)
  <2>1. con[c].pc = "counters" /\ UNCHANGED <<queue, mails, row>>
    BY <1>26 DEF UpdateCounters, At, consumed
  <2>2. b.pc = "finish" /\ b.msg = con[c].msg /\ b.ack = con[c].ack
    BY <1>1, <1>26 DEF UpdateCounters, Goto, ConRec
  <2> QED BY <1>2, <2>1, <2>2 DEF Goes, Busy, Recording, Closing
<1>27. CASE ReadFinish(c)
  <2>1. con[c].pc = "finish" /\ UNCHANGED <<mails, row>>
    BY <1>27 DEF ReadFinish, At, consumed
  <2>2. CASE Return(c, con[c].ack)
    BY <1>5, <2>1, <2>2 DEF Busy
  <2>3. CASE Goto(c, "done") /\ UNCHANGED queue
    <3>1. b.pc = "done" /\ b.msg = con[c].msg /\ b.ack = con[c].ack
      BY <1>1, <2>3 DEF Goto, ConRec
    <3> QED BY <1>2, <2>1, <2>3, <3>1 DEF Goes, Busy, Recording, Closing
  <2> QED BY <1>27, <2>2, <2>3 DEF ReadFinish
<1>28. CASE AbortCredentialGone(c)
  BY <1>5, <1>28 DEF AbortCredentialGone, At, consumed, Busy
<1>29. CASE MarkDone(c)
  BY <1>5, <1>29 DEF MarkDone, At, consumed, Busy
<1>30. CASE Throw(c)
  <2>1. con[c].pc = "log" /\ ~Exists(MyJob(c)) /\ UNCHANGED <<mails, row>>
    BY <1>30 DEF Throw, At, Once, consumed
  <2>2. \E how : Return(c, how)
    BY <1>30 DEF Throw
  <2> QED BY <1>5, <2>1, <2>2 DEF Busy
<1>31. ~Evict(c)
  BY DEF Evict, Once
<1> QED
  BY <1>6, <1>7, <1>8, <1>9, <1>10, <1>11, <1>12, <1>13, <1>14, <1>15, <1>16, <1>17, <1>18, <1>19, <1>20,
     <1>21, <1>23, <1>24, <1>25, <1>26, <1>27, <1>28, <1>29, <1>30, <1>31 DEF Consume

\* What an end of an invocation leaves in the queue.
LEMMA SettledMessages ==
  ASSUME IInv, NEW c \in Consumers, NEW how, NEW m \in Settled(c, how)
  PROVE  \E n \in queue : /\ n.gen = m.gen /\ n.row = m.row
                          /\ n = m \/ (how # "ack" /\ m.gen = con[c].msg.gen)
                          /\ m.gen = con[c].msg.gen => how # "ack"
<1>1. CASE m \in queue /\ m.gen # con[c].msg.gen
  BY <1>1
<1>2. CASE how # "ack" /\ \E n \in queue : m = [n EXCEPT !.leased = FALSE] /\ n.gen = con[c].msg.gen
  <2>1. PICK n \in queue : m = [n EXCEPT !.leased = FALSE] /\ n.gen = con[c].msg.gen
    BY <1>2
  <2>2. n \in Message
    BY DEF IInv, QueueOK
  <2>3. m.gen = n.gen /\ m.row = n.row
    BY <2>1, <2>2 DEF Message
  <2> QED BY <1>2, <2>1, <2>3
<1> QED BY <1>1, <1>2 DEF Settled

\* The message a consumer takes up, and what it becomes.
LEMMA DeliverIs ==
  ASSUME IInv, NEW c \in Consumers, Deliver(c)
  PROVE  /\ UNCHANGED <<job, row, mails>> /\ con[c].pc = "idle"
         /\ \E m \in queue : \E n :
              /\ ~m.leased /\ queue' = (queue \ {m}) \union {n}
              /\ n.gen = m.gen /\ n.row = m.row /\ n.leased
              /\ con'[c].pc = "job" /\ con'[c].msg.gen = m.gen /\ con'[c].msg.row = m.row
<1>1. PICK m \in queue :
        /\ ~m.leased
        /\ queue' = (queue \ {m}) \union {[m EXCEPT !.leased = TRUE, !.tries = m.tries + 1]}
        /\ con' = [con EXCEPT ![c] = [ConIdle EXCEPT !.pc = "job",
                    !.msg = [gen |-> m.gen, row |-> m.row, cred |-> m.cred, tries |-> m.tries + 1]]]
  BY DEF Deliver
<1>2. PICK t : t = m.tries + 1
  OBVIOUS
<1>3. PICK n : n = [m EXCEPT !.leased = TRUE, !.tries = t]
  OBVIOUS
<1>4. m \in Message
  BY DEF IInv, QueueOK
<1>5. n.gen = m.gen /\ n.row = m.row /\ n.leased
  BY <1>3, <1>4 DEF Message
<1>6. queue' = (queue \ {m}) \union {n}
  BY <1>1, <1>2, <1>3
<1>7. PICK d : d = [gen |-> m.gen, row |-> m.row, cred |-> m.cred, tries |-> t]
  OBVIOUS
<1>8. PICK r : r = [ConIdle EXCEPT !.pc = "job", !.msg = d]
  OBVIOUS
<1>9. r.pc = "job" /\ r.msg = d
  BY <1>8 DEF ConIdle
<1>10. d.gen = m.gen /\ d.row = m.row
  BY <1>7
<1>11. con'[c] = r
  BY <1>1, <1>2, <1>7, <1>8 DEF IInv, ConsOK
<1>12. UNCHANGED <<job, row, mails>> /\ con[c].pc = "idle"
  BY DEF Deliver, consumed, At
<1> QED BY <1>1, <1>5, <1>6, <1>9, <1>10, <1>11, <1>12

\* No two consumers come to hold messages of one attempt, and no attempt is new
\* to the queue or to a consumer, whatever fails.
LEMMA ConsumerHeld ==
  ASSUME IInv, KnownInv, HeldOnce, NEW c \in Consumers, Deliver(c) \/ Consume(c) \/ Throw(c) \/ Evict(c)
  PROVE  /\ HeldOnce'
         /\ \A y \in queue' : \E x \in queue : x.gen = y.gen
         /\ \/ ~Busy(c)' \/ (\E x \in queue : x.gen = con'[c].msg.gen)
            \/ Busy(c) /\ con'[c].msg = con[c].msg
<1>1. (\A d \in Consumers \ {c} : con'[d] = con[d]) /\ \A m \in queue : MessageOK(m)
  BY ConsumerMoves DEF KnownInv
<1>2. /\ \A a, d \in Consumers : Busy(a) /\ Busy(d) /\ con[a].msg.gen = con[d].msg.gen => a = d
      /\ \A a \in Consumers : \A m \in queue : Busy(a) /\ ~m.leased => m.gen # con[a].msg.gen
  BY DEF HeldOnce
<1>3. CASE Deliver(c)
  <2>1. PICK m, n :
          /\ m \in queue /\ ~m.leased /\ queue' = (queue \ {m}) \union {n}
          /\ n.gen = m.gen /\ n.row = m.row /\ n.leased
          /\ con'[c].pc = "job" /\ con'[c].msg.gen = m.gen /\ con'[c].msg.row = m.row
    BY <1>3, DeliverIs
  <2>2. ASSUME NEW y \in queue', ~y.leased PROVE y \in queue /\ y.gen # m.gen
    BY <1>1, <2>1, <2>2 DEF MessageOK
  <2>3. ASSUME NEW d \in Consumers \ {c}, Busy(d)' PROVE con'[d] = con[d] /\ Busy(d) /\ con[d].msg.gen # m.gen
    BY <1>1, <1>2, <2>1, <2>3 DEF Busy
  <2>4. \A a, d \in Consumers : Busy(a)' /\ Busy(d)' /\ con'[a].msg.gen = con'[d].msg.gen => a = d
    BY <1>2, <2>1, <2>3
  <2>5. \A a \in Consumers : \A y \in queue' : Busy(a)' /\ ~y.leased => y.gen # con'[a].msg.gen
    BY <1>2, <2>1, <2>2, <2>3
  <2> QED BY <2>1, <2>4, <2>5 DEF HeldOnce
<1>4. CASE Ends(c)
  <2>1. PICK how : queue' = Settled(c, how)
    BY <1>4 DEF Ends
  <2>2. ~Busy(c)'
    BY <1>4 DEF Ends, Busy, ConIdle
  <2>3. ASSUME NEW d \in Consumers, Busy(d)' PROVE d # c /\ con'[d] = con[d] /\ Busy(d)
    BY <1>1, <2>2, <2>3 DEF Busy
  <2>4. ASSUME NEW y \in queue' PROVE \E n \in queue : n.gen = y.gen /\ (n = y \/ y.gen = con[c].msg.gen)
    BY <2>1, <2>4, SettledMessages
  <2>5. ASSUME NEW a \in Consumers, NEW y \in queue', Busy(a)', ~y.leased PROVE y.gen # con'[a].msg.gen
    <3>1. ~Deliver(c)
      <4>1. Deliver(c) => con'[c].pc = "job"
        BY DeliverIs
      <4> QED BY <2>2, <4>1 DEF Busy
    <3>2. Consume(c) \/ Throw(c) \/ Evict(c) => Busy(c)
      BY DEF Consume, Throw, Evict, ReadJob, ReadCredential, AbortCredentialGone, ReadStaged,
             ReadLimit, CountSent, ReadWindow, Demote, AcquireSlot, ReadCurrent, AbortRedacted, SendOk,
             SendCredentialFailure, AbortBlocked, SendTransient, SendBounce, LogInsert, MarkRecipient,
             VerifyContact, LogFails, UpdateCounters, ReadFinish, MarkDone, At, Busy
    <3>3. Busy(c)
      BY <3>1, <3>2
    <3> QED BY <1>2, <2>3, <2>4, <2>5, <3>3
  <2>6. \A a, d \in Consumers : Busy(a)' /\ Busy(d)' /\ con'[a].msg.gen = con'[d].msg.gen => a = d
    BY <1>2, <2>3
  <2> QED BY <2>2, <2>4, <2>5, <2>6 DEF HeldOnce
<1>5. CASE GoesOn(c) \/ Adds(c) \/ Logs(c)
  <2>1. con'[c].msg = con[c].msg /\ Busy(c) /\ queue' = queue
    BY <1>5 DEF GoesOn, Adds, Logs, Quiet, Busy, UpdateCounters, At
  <2>2. \A a \in Consumers : con'[a].msg = con[a].msg /\ (Busy(a)' => Busy(a))
    BY <1>1, <2>1 DEF Busy
  <2> QED BY <1>2, <2>1, <2>2 DEF HeldOnce
<1> QED BY <1>3, <1>4, <1>5, ConsumerCounts DEF KnownInv

\* A consumer keeps to one mail for each attempt.
LEMMA ConsumerOnce ==
  ASSUME IInv, GenOK, KnownInv, OnceInv, Once, NEW c \in Consumers, Deliver(c) \/ Consume(c) \/ Throw(c) \/ Evict(c)
  PROVE  OnceInv'
<1>1. JobsKept /\ UNCHANGED <<clock, inv>> /\ \A d \in Consumers \ {c} : con'[d] = con[d]
  BY ConsumerJobs, ConsumerMoves
<1>2. /\ \A m \in queue : MessageOK(m) /\ m.row \in Rows
      /\ \A d \in Consumers : MyJob(d) \in Jobs /\ con[d].msg.row \in Rows /\ con[d].msg.gen \in Nat /\ con[d].msg.gen <= clock
      /\ \A k \in mails : MailOK(k)
  BY ConType DEF IInv, QueueOK, Message, KnownInv, OnceInv, GenOK
<1>3. \A j \in Jobs : (Exists(j)' <=> Exists(j)) /\ (job'[j].status = "none" <=> job[j].status = "none")
  BY <1>1 DEF JobsKept
<1>4. /\ \A a, d \in Consumers : Busy(a) /\ Busy(d) /\ con[a].msg.gen = con[d].msg.gen => a = d
      /\ \A a \in Consumers : \A m \in queue : Busy(a) /\ ~m.leased => m.gen # con[a].msg.gen
      /\ OneMailPerClaim
  BY DEF OnceInv, HeldOnce
<1>0. HeldOnce'
  BY ConsumerHeld DEF OnceInv
\* What is left to show, with the mails that were there.
<1>5. ASSUME mails' = mails,
             \A k \in mails : \A a \in Consumers : Busy(a)' /\ con'[a].msg.gen = k.gen =>
               Recording(con'[a]) \/ Closing(con'[a]) \/ (con'[a].pc = "job" /\ ~Exists(MyJob(a))'),
             \A k \in mails : \A m \in queue' : ~m.leased /\ m.gen = k.gen => ~Exists(m.row[1])'
      PROVE  OnceInv'
  <2>1. ASSUME NEW k \in mails PROVE MailOK(k)'
    <3>1. MailOK(k)
      BY <1>2
    <3>2. k.row[1] \in Jobs
      BY <3>1, RowParts DEF MailOK
    <3> QED BY <1>1, <1>3, <1>5, <3>1, <3>2 DEF MailOK, InvAt
  <2>2. OneMailPerClaim'
    BY <1>4, <1>5 DEF OneMailPerClaim
  <2> QED BY <1>0, <1>5, <2>1, <2>2 DEF OnceInv
<1>6. CASE Deliver(c)
  <2>1. PICK m, n :
          /\ m \in queue /\ ~m.leased /\ queue' = (queue \ {m}) \union {n}
          /\ n.gen = m.gen /\ n.row = m.row /\ n.leased
          /\ con'[c].pc = "job" /\ con'[c].msg.gen = m.gen /\ con'[c].msg.row = m.row
    BY <1>6, DeliverIs
  <2>2. mails' = mails
    BY <1>6, DeliverIs
  <2>3. ASSUME NEW y \in queue', ~y.leased PROVE y \in queue /\ y.gen # m.gen
    BY <1>2, <2>1, <2>3 DEF MessageOK
  <2>4. ASSUME NEW d \in Consumers \ {c}, Busy(d)' PROVE con'[d] = con[d] /\ Busy(d) /\ con[d].msg.gen # m.gen
    BY <1>1, <1>4, <2>1, <2>4 DEF Busy
  <2>6. ASSUME NEW k \in mails, NEW a \in Consumers, Busy(a)', con'[a].msg.gen = k.gen
        PROVE  Recording(con'[a]) \/ Closing(con'[a]) \/ (con'[a].pc = "job" /\ ~Exists(MyJob(a))')
    <3>1. MailOK(k)
      BY <1>2
    <3>2. CASE a = c
      <4>1. ~Exists(m.row[1]) /\ m.row[1] \in Jobs
        BY <1>2, <2>1, <2>6, <3>1, <3>2, RowParts DEF MailOK
      <4> QED BY <1>3, <2>1, <3>2, <4>1 DEF MyJob
    <3>3. CASE a # c
      <4>1. con'[a] = con[a] /\ Busy(a) /\ MyJob(a)' = MyJob(a)
        BY <2>4, <2>6, <3>3 DEF MyJob
      <4> QED BY <1>2, <1>3, <2>6, <3>1, <4>1 DEF MailOK
    <3> QED BY <3>2, <3>3
  <2>7. ASSUME NEW k \in mails, NEW y \in queue', ~y.leased, y.gen = k.gen PROVE ~Exists(y.row[1])'
    <3>1. MailOK(k) /\ y \in queue /\ y.row[1] \in Jobs
      BY <1>2, <2>3, <2>7, RowParts
    <3> QED BY <1>3, <2>7, <3>1 DEF MailOK
  <2> QED BY <1>5, <2>2, <2>6, <2>7
<1>7. CASE Finishes(c)
  <2>1. PICK how : /\ queue' = Settled(c, how)
                   /\ how # "ack" => \/ con[c].pc = "log" /\ ~Exists(MyJob(c))
                                     \/ con[c].pc \in {"finish", "done"} /\ con[c].ack # "ack"
    BY <1>7 DEF Finishes
  <2>2. mails' = mails /\ ~Busy(c)' /\ Busy(c)
    BY <1>7 DEF Finishes, Busy, ConIdle
  <2>3. ASSUME NEW d \in Consumers, Busy(d)' PROVE d # c /\ con'[d] = con[d] /\ Busy(d) /\ MyJob(d)' = MyJob(d)
    BY <1>1, <2>2, <2>3 DEF Busy, MyJob
  <2>4. ASSUME NEW y \in queue'
        PROVE \E n \in queue : /\ n.gen = y.gen /\ n.row = y.row
                               /\ n = y \/ (how # "ack" /\ y.gen = con[c].msg.gen)
                               /\ y.gen = con[c].msg.gen => how # "ack"
    BY <2>1, <2>4, SettledMessages
  <2>6. ASSUME NEW k \in mails, NEW a \in Consumers, Busy(a)', con'[a].msg.gen = k.gen
        PROVE  Recording(con'[a]) \/ Closing(con'[a]) \/ (con'[a].pc = "job" /\ ~Exists(MyJob(a))')
    <3>1. MailOK(k) /\ con'[a] = con[a] /\ Busy(a) /\ MyJob(a)' = MyJob(a)
      BY <1>2, <2>3, <2>6
    <3> QED BY <1>2, <1>3, <2>6, <3>1 DEF MailOK
  <2>7. ASSUME NEW k \in mails, NEW y \in queue', ~y.leased, y.gen = k.gen PROVE ~Exists(y.row[1])'
    <3>1. PICK n \in queue : /\ n.gen = y.gen /\ n.row = y.row
                             /\ n = y \/ (how # "ack" /\ y.gen = con[c].msg.gen)
      BY <2>4
    <3>2. MailOK(k) /\ n.row[1] \in Jobs /\ MessageOK(n)
      BY <1>2, RowParts
    <3>3. CASE n = y
      BY <1>3, <2>7, <3>2, <3>3 DEF MailOK
    <3>4. CASE how # "ack" /\ y.gen = con[c].msg.gen
      <4>1. Recording(con[c]) \/ Closing(con[c]) \/ con[c].pc = "job"
        BY <2>2, <2>7, <3>2, <3>4 DEF MailOK
      <4>2. con[c].pc = "log" /\ ~Exists(MyJob(c))
        BY <2>1, <3>4, <4>1 DEF Recording, Closing
      <4>3. n.row = con[c].msg.row
        BY <2>2, <3>1, <3>2, <3>4 DEF MessageOK
      <4> QED BY <1>2, <1>3, <3>1, <4>2, <4>3 DEF MyJob
    <3> QED BY <3>1, <3>3, <3>4
  <2> QED BY <1>5, <2>2, <2>6, <2>7
<1>9. CASE Sends(c)
  <2>1. con'[c].msg = con[c].msg /\ Busy(c) /\ Busy(c)' /\ queue' = queue /\ HeldOnce' /\ MyJob(c)' = MyJob(c)
    BY <1>0, <1>9 DEF Sends, Busy, MyJob
  <2>2. Recording(con'[c])
    BY <1>9 DEF Sends, Recording
  <2>3. ASSUME NEW k \in mails PROVE MailOK(k)' /\ k.gen # con[c].msg.gen
    <3>1. MailOK(k) /\ k.row[1] \in Jobs
      BY <1>2, RowParts DEF MailOK
    <3>2. k.gen # con[c].msg.gen
      BY <1>9, <2>1, <3>1 DEF MailOK, Sends, Recording, Closing
    <3>3. \A a \in Consumers : Busy(a)' /\ con'[a].msg.gen = k.gen =>
            Recording(con'[a]) \/ Closing(con'[a]) \/ (con'[a].pc = "job" /\ ~Exists(MyJob(a))')
      <4> SUFFICES ASSUME NEW a \in Consumers, Busy(a)', con'[a].msg.gen = k.gen
                   PROVE  Recording(con'[a]) \/ Closing(con'[a]) \/ (con'[a].pc = "job" /\ ~Exists(MyJob(a))')
        OBVIOUS
      <4>1. CASE a = c
        BY <2>2, <4>1
      <4>2. CASE a # c
        <5>1. con'[a] = con[a] /\ Busy(a) /\ MyJob(a)' = MyJob(a)
          BY <1>1, <4>2 DEF Busy, MyJob
        <5> QED BY <1>2, <1>3, <3>1, <5>1 DEF MailOK
      <4> QED BY <4>1, <4>2
    <3>4. \A m \in queue' : ~m.leased /\ m.gen = k.gen => ~Exists(m.row[1])'
      BY <1>2, <1>3, <2>1, <3>1, RowParts DEF MailOK
    <3> QED BY <1>1, <1>3, <3>1, <3>2, <3>3, <3>4 DEF MailOK, InvAt
  <2>4. PICK x : x = [row |-> con[c].msg.row, gen |-> con[c].msg.gen, tries |-> con[c].msg.tries]
    OBVIOUS
  <2>5. x.row = con[c].msg.row /\ x.gen = con[c].msg.gen
    BY <2>4
  <2>6. MailOK(x)'
    <3>1. x.gen <= clock' /\ x.row \in Rows /\ job'[x.row[1]].status # "none"
      BY <1>1, <1>2, <1>3, <2>1, <2>5 DEF KnownInv, CountOK, MyJob
    <3>2. \A p \in Invocations : InvAt(p, "push")' => inv'[p].gen # x.gen
      BY <1>1, <2>1, <2>5 DEF KnownInv, PushOK, InvAt
    <3>3. \A a \in Consumers : Busy(a)' /\ con'[a].msg.gen = x.gen => Recording(con'[a])
      BY <2>1, <2>2, <2>5 DEF HeldOnce
    <3>4. \A m \in queue' : ~m.leased => m.gen # x.gen
      BY <2>1, <2>5 DEF HeldOnce
    <3> QED BY <3>1, <3>2, <3>3, <3>4 DEF MailOK
  <2>7. mails' = mails \/ mails' = mails \union {x}
    BY <1>9, <2>4 DEF Sends, Accepted
  <2>8. OneMailPerClaim'
    BY <1>4, <2>3, <2>5, <2>7 DEF OneMailPerClaim
  <2> QED BY <2>1, <2>3, <2>6, <2>7, <2>8 DEF OnceInv
<1>10. CASE Goes(c)
  <2>1. /\ con'[c].msg = con[c].msg /\ Busy(c) /\ Busy(c)' /\ queue' = queue
        /\ MyJob(c)' = MyJob(c) /\ mails' = mails
    BY <1>10 DEF Goes, Busy, MyJob
  <2>2. ASSUME NEW k \in mails, NEW a \in Consumers, Busy(a)', con'[a].msg.gen = k.gen
        PROVE  Recording(con'[a]) \/ Closing(con'[a]) \/ (con'[a].pc = "job" /\ ~Exists(MyJob(a))')
    <3>1. MailOK(k)
      BY <1>2
    <3>2. CASE a = c
      <4>1. Recording(con[c]) \/ Closing(con[c]) \/ (con[c].pc = "job" /\ ~Exists(MyJob(c)))
        BY <2>1, <2>2, <3>1, <3>2 DEF MailOK
      <4> QED BY <1>10, <3>2, <4>1 DEF Goes
    <3>3. CASE a # c
      <4>1. con'[a] = con[a] /\ Busy(a) /\ MyJob(a)' = MyJob(a)
        BY <1>1, <2>2, <3>3 DEF Busy, MyJob
      <4> QED BY <1>2, <1>3, <2>2, <3>1, <4>1 DEF MailOK
    <3> QED BY <3>2, <3>3
  <2>3. ASSUME NEW k \in mails, NEW y \in queue', ~y.leased, y.gen = k.gen PROVE ~Exists(y.row[1])'
    <3>1. MailOK(k) /\ y.row[1] \in Jobs
      BY <1>2, <2>1, RowParts
    <3> QED BY <1>3, <2>1, <2>3, <3>1 DEF MailOK
  <2> QED BY <1>5, <2>1, <2>2, <2>3
<1> QED BY <1>6, <1>7, <1>9, <1>10, ConsumerSends

\* Requests and cron passes mail nothing.
LEMMA RequestMails ==
  ASSUME NEW p \in Invocations, Begin(p) \/ Continue(p) \/ InvThrows(p) \/ InvEvict(p)
  PROVE  mails' = mails
BY DEF Begin, Continue, InvThrows, InvEvict, CreateJob, CronStart, CancelRead, RetryRead, DeleteRead,
       RateRead, EditRead, RevokeRead, RedactStart, StageRecipients, RecoverStale, RecoverUpTo, ListJobs,
       NextJob, ReadQuotaSent, ReadQuotaQueued, ReadJobLimit, ReadJobSent, ReadJobQueued, ReadLiveJob,
       SelectPending, Claim, Push, PushFails, Release, Promote, CancelWrite, RetryWrite, DeleteWrite,
       RateWrite, EditWrite, RevokeWrite, RedactWrite, requested

\* What they push is a new attempt, which nobody holds.
LEMMA RequestHeld ==
  ASSUME IInv, RowsOK, KnownInv, HeldOnce, NEW p \in Invocations, Begin(p) \/ Continue(p) \/ InvThrows(p) \/ InvEvict(p)
  PROVE  HeldOnce'
<1>1. con' = con /\ (Hands(p) \/ Claims(p) \/ Rests(p))
  BY RequestKeepsCreds, RequestMoves
<1>2. \A m \in queue' : m \in queue \/ (m.gen = inv[p].gen /\ InvAt(p, "push"))
  BY <1>1 DEF Hands, Claims, Rests, Pushed
<1>3. \A c \in Consumers : \A m \in queue' : Busy(c)' /\ ~m.leased => m.gen # con'[c].msg.gen
  BY <1>1, <1>2 DEF HeldOnce, KnownInv, PushOK, Busy
<1> QED BY <1>1, <1>3 DEF HeldOnce, Busy

LEMMA RequestOnce ==
  ASSUME IInv, GenOK, RowsOK, KnownInv, OnceInv, NEW p \in Invocations,
         Begin(p) \/ Continue(p) \/ InvThrows(p) \/ InvEvict(p)
  PROVE  OnceInv'
<1>1. con' = con /\ mails' = mails /\ JobsCount
  BY RequestKeepsCreds, RequestMails, RequestCounts
<1>2. (\A q \in Invocations \ {p} : inv'[q] = inv[q]) /\ (Hands(p) \/ Claims(p) \/ Rests(p))
  BY RequestMoves
<1>3. /\ clock \in Nat
      /\ \A m \in queue : MessageOK(m) /\ m.row \in Rows
      /\ \A d \in Consumers : CountOK(d) /\ MyJob(d) \in Jobs
      /\ \A k \in mails : MailOK(k) /\ k.gen \in Nat
  BY ConType DEF IInv, QueueOK, Message, MailRec, KnownInv, OnceInv
<1>4. /\ \A j \in Jobs : job[j].status # "none" => job'[j].status # "none"
      /\ \A j \in Jobs : Exists(j)' => Exists(j) \/ job[j].status = "none"
  BY <1>1 DEF JobsCount
<1>5. \A m \in queue' : m \in queue \/ (m \in Pushed(p) /\ InvAt(p, "push"))
  BY <1>2 DEF Hands, Claims, Rests
<1>6. \A m \in Pushed(p) : m.gen = inv[p].gen
  BY DEF Pushed
<1>7. HeldOnce'
  BY RequestHeld DEF OnceInv
<1>8. ASSUME NEW k \in mails PROVE MailOK(k)'
  <2>1. MailOK(k) /\ k.row[1] \in Jobs /\ k.gen \in Nat
    BY <1>3, RowParts DEF MailOK
  <2>2. k.gen <= clock' /\ k.row \in Rows /\ job'[k.row[1]].status # "none"
    BY <1>2, <1>3, <1>4, <2>1 DEF MailOK, Hands, Claims, Rests
  <2>3. \A q \in Invocations : InvAt(q, "push")' => inv'[q].gen # k.gen
    BY <1>2, <1>3, <2>1 DEF MailOK, InvAt, Hands, Claims, Rests
  <2>4. ASSUME NEW c \in Consumers, Busy(c)', con'[c].msg.gen = k.gen
        PROVE  Recording(con'[c]) \/ Closing(con'[c]) \/ (con'[c].pc = "job" /\ ~Exists(MyJob(c))')
    <3>1. con'[c] = con[c] /\ MyJob(c)' = MyJob(c) /\ Busy(c) /\ MyJob(c) \in Jobs /\ job[MyJob(c)].status # "none"
      BY <1>1, <1>3, <2>4 DEF MyJob, Busy, CountOK
    <3> QED BY <1>4, <2>1, <2>4, <3>1 DEF MailOK
  <2>5. ASSUME NEW m \in queue', ~m.leased, m.gen = k.gen PROVE ~Exists(m.row[1])'
    <3>1. m \in queue
      BY <1>5, <1>6, <2>1, <2>5 DEF MailOK
    <3>2. m.row[1] \in Jobs /\ job[m.row[1]].status # "none"
      BY <1>3, <3>1, RowParts DEF MessageOK
    <3> QED BY <1>4, <2>1, <2>5, <3>1, <3>2 DEF MailOK
  <2> QED BY <2>2, <2>3, <2>4, <2>5 DEF MailOK
<1>9. OneMailPerClaim'
  BY <1>1 DEF OnceInv, OneMailPerClaim
<1> QED BY <1>1, <1>7, <1>8, <1>9 DEF OnceInv

\* Every step keeps to one mail for each attempt.
LEMMA OnceStep ==
  ASSUME Once, IInv, GenOK, CredsInv, CountInv, OnceInv, [Next]_vars
  PROVE  OnceInv'
<1>1. ASSUME NEW c \in Consumers, Deliver(c) \/ Consume(c) \/ Throw(c) \/ Evict(c) PROVE OnceInv'
  BY <1>1, ConsumerOnce DEF CountInv
<1>2. ASSUME NEW p \in Invocations, Begin(p) \/ Continue(p) \/ InvThrows(p) \/ InvEvict(p) PROVE OnceInv'
  BY <1>2, RequestOnce DEF CountInv, CredsInv
<1>3. ~LeaseLapses
  BY DEF LeaseLapses, Once
<1>4. CASE NewDay \/ (\E j \in Jobs : LimitSwitches(j)) \/ UNCHANGED vars
  <2>1. UNCHANGED <<job, queue, clock, mails, con, inv>>
    BY <1>4 DEF NewDay, LimitSwitches, vars
  <2> QED BY <2>1 DEF OnceInv, HeldOnce, MailOK, OneMailPerClaim, Busy, InvAt, MyJob, Exists
<1> QED BY <1>1, <1>2, <1>3, <1>4 DEF Next

\* In every behaviour in which each message is worked on once and to its end.
LEMMA OnceHolds == ASSUME Once PROVE Spec => [](IInv /\ GenOK /\ CredsInv /\ CountInv /\ OnceInv)
<1>1. Init => OnceInv
  BY DEF Init, ConIdle, OnceInv, HeldOnce, OneMailPerClaim, Busy
<1>2. IInv /\ GenOK /\ CredsInv /\ CountInv /\ OnceInv /\ [Next]_vars => OnceInv'
  BY Once, OnceStep
<1> QED BY <1>1, <1>2, CountsHold, PTL DEF Spec

\* While the queue delivers each message once and no consumer dies over it, one
\* claim leads to at most one mail, whatever is retried by the user, recovered,
\* cancelled, deleted or pushed in doubt, and although a connection lost after
\* DATA is taken for a bounce (send-queue.ts:41-49).
THEOREM OneMailForAClaim == ASSUME Once PROVE Spec => []OneMailPerClaim
<1>1. OnceInv => OneMailPerClaim
  BY DEF OnceInv
<1> QED BY Once, <1>1, OnceHolds, PTL

-----------------------------------------------------------------------------
(* How often a recipient is mailed.                                        *)

\* Nobody asks for a retry, no message is taken that was reported as lost, and
\* no attempt is under way for as long as the recovery waits.
NoRetry == "push_taken" \notin Faults /\ "retry" \notin Ops /\ TimelyRecovery

\* A consumer that is past the last check has its recipient to itself until the
\* outcome is in the row, unless the job is deleted meanwhile.
Delivering(r) == r.pc \in {"send", "log", "mark"}
PassOK(c) ==
  LET r == con[c].msg.row IN
  Delivering(con[c]) =>
    /\ Exists(r[1]) => Current(con[c].msg) \/ row[r].status = "cancelled"
    /\ \A d \in Consumers \ {c} : Delivering(con[d]) => con[d].msg.row # r
    /\ con[c].pc = "send" => \A k \in mails : k.row # r

\* A recipient that was mailed is settled, or is about to be.
MailedOK(k) ==
  Exists(k.row[1]) =>
    \/ row[k.row].status \in {"ok", "bounce"}
    \/ \E c \in Consumers : con[c].pc \in {"log", "mark"} /\ con[c].msg.row = k.row

\* A claim is released only where its message was not taken.
ReleaseOK(p) ==
  /\ inv[p].pc # "retry_write"
  /\ InvAt(p, "release") => /\ \A c \in Consumers : Busy(c) => con[c].msg.gen # inv[p].gen
                            /\ \A m \in queue : m.gen # inv[p].gen
                            /\ \A q \in Invocations \ {p} : InvAt(q, "push") => inv[q].gen # inv[p].gen

SoleInv ==
  /\ \A c \in Consumers : PassOK(c)
  /\ \A k \in mails : MailedOK(k)
  /\ \A p \in Invocations : ReleaseOK(p)
  /\ OneMailPerRecipient

\* What an invocation does to a recipient that is queued, settled or cancelled.
LEMMA RequestSettles ==
  ASSUME IInv, NEW p \in Invocations, Begin(p) \/ Continue(p) \/ InvThrows(p) \/ InvEvict(p),
         NEW r \in Rows, row[r].status \notin {"absent", "pending"}
  PROVE  \/ row'[r] = row[r] \/ ~Exists(r[1])' \/ InvAt(p, "retry_write")
         \/ row[r].status = "queued" /\
              \/ row'[r].status = "cancelled"
              \/ InvAt(p, "release") /\ row[r].queuedAt = inv[p].gen
              \/ \E t \in Cutoffs : row[r].queuedAt <= t
<1>1. row \in [Rows -> RowRec] /\ r[1] \in Jobs /\ DOMAIN job = Jobs /\ (InvAt(p, "release") => Claimed(p) \in Rows)
  BY RowParts, ClaimedIs DEF IInv, TablesOK, InvsOK, InvAt
<1>2. CASE UNCHANGED row
  BY <1>2
<1>3. CASE StageRecipients(p)
  BY <1>3 DEF StageRecipients
<1>4. CASE RecoverStale(p)
  BY <1>4 DEF RecoverStale, RecoverUpTo, Stale
<1>5. CASE Claim(p)
  BY <1>1, <1>5 DEF Claim
<1>6. CASE Release(p)
  BY <1>1, <1>6 DEF Release
<1>7. CASE CancelWrite(p) \/ RevokeWrite(p)
  <2>1. PICK S : row' = CancelledRows(S)
    BY <1>7 DEF CancelWrite, RevokeWrite
  <2> QED BY <2>1 DEF CancelledRows, RowIs
<1>8. CASE RetryWrite(p)
  BY <1>8 DEF RetryWrite
<1>9. CASE DeleteWrite(p)
  <2>1. CASE r[1] = J(p)
    <3>1. job'[r[1]].status = "deleted"
      BY <1>1, <1>9, <2>1 DEF DeleteWrite, NoJob
    <3> QED BY <3>1 DEF Exists, Active, Final
  <2>2. CASE r[1] # J(p)
    BY <1>9, <2>2 DEF DeleteWrite
  <2> QED BY <2>1, <2>2
<1> QED
  BY <1>2, <1>3, <1>4, <1>5, <1>6, <1>7, <1>8, <1>9
  DEF Begin, Continue, InvThrows, InvEvict, CreateJob, CronStart, CancelRead, RetryRead, DeleteRead,
      RateRead, EditRead, RevokeRead, RedactStart, ListJobs, NextJob, ReadQuotaSent, ReadQuotaQueued,
      ReadJobLimit, ReadJobSent, ReadJobQueued, ReadLiveJob, SelectPending, Push, PushFails, Promote,
      RateWrite, EditWrite, RedactWrite

\* An invocation comes to a release only by a push that failed, and to a retry
\* only when one is asked for.
Elsewhere(s) == s \notin {"release", "retry_write"}
LEMMA RequestReleases ==
  ASSUME IInv, NEW p \in Invocations, Begin(p) \/ Continue(p) \/ InvThrows(p) \/ InvEvict(p), NoRetry
  PROVE  \/ Elsewhere(inv'[p].pc)
         \/ inv'[p].pc = "release" /\ InvAt(p, "push") /\ inv'[p].gen = inv[p].gen /\ queue' = queue
<1> DEFINE Done == \/ Elsewhere(inv'[p].pc)
                   \/ inv'[p].pc = "release" /\ InvAt(p, "push") /\ inv'[p].gen = inv[p].gen /\ queue' = queue
<1>1. /\ DOMAIN inv = Invocations /\ inv[p] \in InvRec /\ Elsewhere(InvIdle.pc) /\ Elsewhere(Left(p).pc)
      /\ inv = [q \in Invocations |-> inv[q]]
  BY DEF IInv, InvsOK, InvGood, InvIdle, Left, Elsewhere
<1>2. ASSUME Leave(p) \/ inv' = [inv EXCEPT ![p] = InvIdle] PROVE Done
  BY <1>1, <1>2 DEF Leave
<1>3. ASSUME NEW s, Elsewhere(s),
             \/ InvGoto(p, s)
             \/ \E n : inv' = [inv EXCEPT ![p].pc = s, ![p].avail = n]
             \/ \E n : inv' = [inv EXCEPT ![p].pc = s, ![p].limit = n]
             \/ \E n : inv' = [inv EXCEPT ![p].pc = s, ![p].todoJobs = n]
             \/ \E n : inv' = [inv EXCEPT ![p].pc = s, ![p].cred = n]
             \/ \E n : inv' = [inv EXCEPT ![p].pc = s, ![p].rate = n]
      PROVE  Done
  <2>1. CASE InvGoto(p, s)
    BY <1>1, <1>3, <2>1 DEF InvGoto, InvRec
  <2>2. ASSUME NEW n,
               \/ inv' = [inv EXCEPT ![p].pc = s, ![p].avail = n] \/ inv' = [inv EXCEPT ![p].pc = s, ![p].limit = n]
               \/ inv' = [inv EXCEPT ![p].pc = s, ![p].todoJobs = n] \/ inv' = [inv EXCEPT ![p].pc = s, ![p].cred = n]
               \/ inv' = [inv EXCEPT ![p].pc = s, ![p].rate = n]
        PROVE  inv'[p].pc = s
    BY <1>1, <2>2 DEF InvRec
  <2> QED BY <1>3, <2>1, <2>2
<1>4. ASSUME NEW r, inv' = [inv EXCEPT ![p] = r], Elsewhere(r.pc) PROVE Done
  BY <1>1, <1>4
<1>5. CASE Begin(p)
  <2>1. InvIdle \in InvRec
    BY IdleGood DEF InvGood
  <2>2. "retry" \notin Ops
    BY DEF NoRetry
  <2>3. ASSUME NEW f \in InvRec, NEW op, NEW s, NEW j, Start(p, op, s, j, f), Elsewhere(s) PROVE Done
    <3>1. PICK r : r = [f EXCEPT !.pc = s, !.op = op, !.job = j]
      OBVIOUS
    <3>2. r.pc = s
      BY <2>3, <3>1 DEF InvRec
    <3> QED BY <1>4, <2>3, <3>1, <3>2 DEF Start
  <2>4. \A c \in Creds : [InvIdle EXCEPT !.cred = c] \in InvRec
    BY <2>1 DEF InvRec, InvIdle
  <2>5. \A s \in {"stage", "recover", "cancel_write", "delete_write", "edit_write", "revoke_write", "rate_write",
                  "redact_write"} : Elsewhere(s)
    BY DEF Elsewhere
  <2>6. CASE CreateJob(p)
    BY <2>3, <2>4, <2>5, <2>6 DEF CreateJob
  <2>7. CASE CronStart(p) \/ CancelRead(p) \/ DeleteRead(p) \/ EditRead(p)
    BY <2>1, <2>3, <2>5, <2>7 DEF CronStart, CancelRead, DeleteRead, EditRead
  <2>8. CASE RevokeRead(p)
    BY <2>3, <2>4, <2>5, <2>8 DEF RevokeRead
  <2>9. ~RetryRead(p)
    BY <2>2 DEF RetryRead, Start
  <2>10. CASE RateRead(p)
    <3>1. PICK j \in Jobs, r \in Rates :
            /\ job[j].status \in Active
            /\ Start(p, "rate", "rate_write", j, [InvIdle EXCEPT !.cred = job[j].cred, !.rate = r])
      BY <2>10 DEF RateRead
    <3>2. r \in RateRec /\ job[j].cred \in Creds
      BY <3>1, RatesAssumption DEF IInv, TablesOK, JobGood
    <3>3. PICK f : f = [InvIdle EXCEPT !.cred = job[j].cred, !.rate = r]
      OBVIOUS
    <3>4. f \in InvRec
      BY <2>1, <3>2, <3>3 DEF InvRec, InvIdle
    <3> QED BY <2>3, <2>5, <3>1, <3>3, <3>4
  <2>11. CASE RedactStart(p)
    <3>1. PICK T : Start(p, "redact", "redact_write", 1, [InvIdle EXCEPT !.todoJobs = T])
      BY <2>11 DEF RedactStart
    <3>2. PICK r : r = [[InvIdle EXCEPT !.todoJobs = T] EXCEPT !.pc = "redact_write", !.op = "redact", !.job = 1]
      OBVIOUS
    <3>3. r.pc = "redact_write"
      BY <3>2 DEF InvIdle
    <3>4. inv' = [inv EXCEPT ![p] = r]
      BY <3>1, <3>2 DEF Start
    <3> QED BY <1>4, <2>5, <3>3, <3>4
  <2> QED BY <1>5, <2>6, <2>7, <2>8, <2>9, <2>10, <2>11 DEF Begin
<1>6. \A s \in {"list", "quota_sent", "quota_queued", "job_limit", "job_sent", "job_queued", "job_live", "select",
                "claim", "next", "push"} : Elsewhere(s)
  BY DEF Elsewhere
<1>7. CASE StageRecipients(p) \/ RecoverStale(p) \/ Release(p) \/ Promote(p) \/ CancelWrite(p) \/ RetryWrite(p)
           \/ DeleteWrite(p) \/ EditWrite(p) \/ RevokeWrite(p)
  <2>1. Leave(p) \/ InvGoto(p, "quota_sent") \/ InvGoto(p, "list")
    BY <1>7 DEF StageRecipients, RecoverStale, RecoverUpTo, Release, Promote, CancelWrite, RetryWrite,
                DeleteWrite, EditWrite, RevokeWrite
  <2> QED BY <1>2, <1>3, <1>6, <2>1
<1>8. CASE ListJobs(p)
  BY <1>3, <1>6, <1>8 DEF ListJobs
<1>9. CASE NextJob(p)
  <2>1. CASE inv' = [inv EXCEPT ![p] = InvIdle]
    BY <1>2, <2>1
  <2>2. CASE \E j, c, T : inv' = [inv EXCEPT ![p].pc = "quota_sent", ![p].job = j, ![p].cred = c, ![p].todoJobs = T]
    <3>1. PICK j, c, T : inv' = [inv EXCEPT ![p].pc = "quota_sent", ![p].job = j, ![p].cred = c, ![p].todoJobs = T]
      BY <2>2
    <3>2. PICK r : r = [inv[p] EXCEPT !.pc = "quota_sent", !.job = j, !.cred = c, !.todoJobs = T]
      OBVIOUS
    <3>3. r.pc = "quota_sent"
      BY <1>1, <3>2 DEF InvRec
    <3>4. inv' = [inv EXCEPT ![p] = r]
      BY <3>1, <3>2
    <3> QED BY <1>4, <1>6, <3>3, <3>4
  <2> QED BY <1>9, <2>1, <2>2 DEF NextJob
<1>10. CASE ReadQuotaSent(p)
  BY <1>3, <1>6, <1>10 DEF ReadQuotaSent
<1>11. CASE ReadQuotaQueued(p)
  BY <1>2, <1>3, <1>6, <1>11 DEF ReadQuotaQueued
<1>12. CASE ReadJobLimit(p)
  BY <1>2, <1>3, <1>6, <1>12 DEF ReadJobLimit
<1>13. CASE ReadJobSent(p)
  BY <1>3, <1>6, <1>13 DEF ReadJobSent
<1>14. CASE ReadJobQueued(p)
  <2>1. CASE \E n : inv' = [inv EXCEPT ![p].pc = "job_live", ![p].limit = 0, ![p].avail = n]
    <3>1. inv'[p].pc = "job_live"
      BY <1>1, <2>1 DEF InvRec
    <3> QED BY <1>6, <3>1
  <2> QED BY <1>2, <1>14, <2>1 DEF ReadJobQueued
<1>15. CASE ReadLiveJob(p)
  BY <1>2, <1>3, <1>6, <1>15 DEF ReadLiveJob
<1>16. CASE SelectPending(p)
  <2>1. inv'[p].pc = "claim"
    BY <1>1, <1>16 DEF SelectPending, InvRec
  <2> QED BY <1>6, <2>1
<1>17. CASE Claim(p)
  <2>1. InvAt(p, "claim") /\ (inv'[p].pc = "push" \/ inv'[p].pc = inv[p].pc)
    BY <1>1, <1>17 DEF Claim, InvRec
  <2> QED BY <1>6, <2>1 DEF InvAt
<1>18. CASE Push(p)
  <2>1. inv'[p].pc = "claim"
    BY <1>1, <1>18 DEF Push, InvRec
  <2> QED BY <1>6, <2>1
<1>19. CASE PushFails(p)
  <2>1. inv'[p].pc = "release" /\ inv'[p].gen = inv[p].gen
    BY <1>1, <1>19 DEF PushFails, InvGoto, InvRec
  <2> QED BY <1>19, <2>1 DEF PushFails, NoRetry
<1>20. CASE RateWrite(p)
  BY <1>3, <1>6, <1>20 DEF RateWrite
<1>21. CASE RedactWrite(p)
  <2>1. CASE inv' = [inv EXCEPT ![p] = InvIdle]
    BY <1>2, <2>1
  <2>2. CASE \E T : inv' = [inv EXCEPT ![p] = [inv[p] EXCEPT !.todoJobs = T]]
    <3>1. inv'[p].pc = inv[p].pc /\ InvAt(p, "redact_write")
      BY <1>1, <1>21, <2>2 DEF InvRec, RedactWrite
    <3> QED BY <3>1 DEF InvAt, Elsewhere
  <2> QED BY <1>21, <2>1, <2>2 DEF RedactWrite
<1>22. CASE InvThrows(p) \/ InvEvict(p)
  BY <1>2, <1>22 DEF InvThrows, InvEvict, Leave
<1> QED
  BY <1>5, <1>7, <1>8, <1>9, <1>10, <1>11, <1>12, <1>13, <1>14, <1>15, <1>16, <1>17, <1>18, <1>19, <1>20, <1>21,
     <1>22 DEF Continue

\* A consumer's step takes up nothing that is being released.
LEMMA ConsumerReleases ==
  ASSUME IInv, KnownInv, HeldOnce, \A p \in Invocations : ReleaseOK(p),
         NEW c \in Consumers, Deliver(c) \/ Consume(c) \/ Throw(c) \/ Evict(c)
  PROVE  \A p \in Invocations : ReleaseOK(p)'
<1> SUFFICES ASSUME NEW p \in Invocations PROVE ReleaseOK(p)'
  OBVIOUS
<1>1. UNCHANGED inv /\ \A d \in Consumers \ {c} : con'[d] = con[d]
  BY ConsumerJobs, ConsumerMoves
<1>2. /\ \A y \in queue' : \E x \in queue : x.gen = y.gen
      /\ ~Busy(c)' \/ (\E x \in queue : x.gen = con'[c].msg.gen) \/ (Busy(c) /\ con'[c].msg = con[c].msg)
  BY ConsumerHeld
<1>3. ReleaseOK(p) /\ \A q \in Invocations : inv'[q] = inv[q]
  BY <1>1
<1>4. InvAt(p, "release") => \A d \in Consumers : Busy(d)' => con'[d].msg.gen # inv[p].gen
  BY <1>1, <1>2, <1>3 DEF ReleaseOK, Busy
<1>5. InvAt(p, "release") => \A y \in queue' : y.gen # inv[p].gen
  BY <1>2, <1>3 DEF ReleaseOK
<1> QED BY <1>3, <1>4, <1>5 DEF ReleaseOK, InvAt

\* A release that is due stays one of a message that was not taken.
LEMMA RequestKeepsReleases ==
  ASSUME IInv, GenOK, RowsOK, KnownInv, \A q \in Invocations : ReleaseOK(q), NoRetry,
         NEW p \in Invocations, Begin(p) \/ Continue(p) \/ InvThrows(p) \/ InvEvict(p)
  PROVE  \A q \in Invocations : ReleaseOK(q)'
<1>1. con' = con
  BY RequestKeepsCreds
<1>2. (\A q \in Invocations \ {p} : inv'[q] = inv[q]) /\ (Hands(p) \/ Claims(p) \/ Rests(p))
  BY RequestMoves
<1>3. \A q \in Invocations : ReleaseOK(q) /\ PushOK(q)
  BY DEF KnownInv
<1>4. ASSUME NEW q \in Invocations PROVE ReleaseOK(q)'
  <2>1. CASE q = p
    <3>1. CASE Elsewhere(inv'[p].pc)
      BY <2>1, <3>1 DEF ReleaseOK, Elsewhere, InvAt
    <3>2. CASE inv'[p].pc = "release" /\ InvAt(p, "push") /\ inv'[p].gen = inv[p].gen /\ queue' = queue
      <4>1. \A o \in Invocations \ {p} : InvAt(o, "push")' => InvAt(o, "push") /\ inv'[o].gen = inv[o].gen
        BY <1>2 DEF InvAt
      <4> QED BY <1>1, <1>3, <2>1, <3>2, <4>1 DEF ReleaseOK, PushOK, Busy
    <3> QED BY <3>1, <3>2, RequestReleases
  <2>2. CASE q # p
    <3>1. ReleaseOK(q) /\ inv'[q] = inv[q]
      BY <1>2, <1>3, <2>2
    <3>2. \A m \in queue' : m \in queue \/ (InvAt(p, "push") /\ m.gen = inv[p].gen)
      BY <1>2 DEF Hands, Claims, Rests, Pushed
    <3>3. ASSUME InvAt(q, "release"), NEW o \in Invocations \ {q}, InvAt(o, "push")' PROVE inv'[o].gen # inv[q].gen
      <4>1. CASE o # p
        BY <1>2, <3>1, <3>3, <4>1 DEF ReleaseOK, InvAt
      <4>2. CASE o = p
        <5>1. Claims(p)
          BY <1>2, <3>3, <4>2 DEF Hands, Rests, InvAt
        <5>2. inv[q].gen \in Nat /\ inv[q].gen <= clock /\ clock \in Nat
          BY DEF GenOK, IInv, InvsOK, InvGood, InvRec, QueueOK
        <5> QED BY <4>2, <5>1, <5>2 DEF Claims
      <4> QED BY <4>1, <4>2
    <3>4. InvAt(q, "release") => \A m \in queue' : m.gen # inv[q].gen
      BY <2>2, <3>1, <3>2 DEF ReleaseOK
    <3>5. InvAt(q, "release")' <=> InvAt(q, "release")
      BY <3>1 DEF InvAt
    <3> QED BY <1>1, <3>1, <3>3, <3>4, <3>5 DEF ReleaseOK, Busy
  <2> QED BY <2>1, <2>2
<1> QED BY <1>4

\* A recipient that a consumer works on is not taken from it, but for a
\* cancellation.
LEMMA RequestKeepsWork ==
  ASSUME IInv, KnownInv, \A q \in Invocations : ReleaseOK(q), NoRetry,
         NEW p \in Invocations, Begin(p) \/ Continue(p) \/ InvThrows(p) \/ InvEvict(p),
         NEW d \in Consumers, Busy(d), NEW r \in Rows, Exists(r[1])', row[r].status \notin {"absent", "pending"},
         row[r].status = "queued" => row[r].queuedAt = con[d].msg.gen
  PROVE  row'[r] = row[r] \/ (row[r].status = "queued" /\ row'[r].status = "cancelled")
<1>1. row \in [Rows -> RowRec] /\ ~InvAt(p, "retry_write") /\ row[r].queuedAt \in Nat /\ con[d].msg.gen \in Nat
  <2>1. row \in [Rows -> RowRec]
    BY DEF IInv, TablesOK
  <2> QED BY <2>1, ConType DEF IInv, RowRec, ReleaseOK, InvAt
<1>2. \/ row'[r] = row[r]
      \/ row[r].status = "queued" /\
           \/ row'[r].status = "cancelled"
           \/ InvAt(p, "release") /\ row[r].queuedAt = inv[p].gen
           \/ \E t \in Cutoffs : row[r].queuedAt <= t
  BY <1>1, RequestSettles
<1>3. ASSUME row[r].status = "queued", InvAt(p, "release"), row[r].queuedAt = inv[p].gen PROVE FALSE
  BY <1>3 DEF ReleaseOK
<1>4. ASSUME row[r].status = "queued", NEW t \in Cutoffs, row[r].queuedAt <= t PROVE FALSE
  <2>1. d \in DOMAIN con /\ con[d].pc # "idle"
    BY DEF Busy, IInv, ConsOK
  <2>2. t < con[d].msg.gen /\ t \in Int
    BY <2>1 DEF Cutoffs, NoRetry
  <2> QED BY <1>1, <1>4, <2>2
<1> QED BY <1>2, <1>3, <1>4

\* Two attempts of one recipient are never both its current one.
LEMMA CurrentOne ==
  ASSUME HeldOnce, NEW c \in Consumers, NEW d \in Consumers, Busy(c), Busy(d), c # d,
         Current(con[c].msg), con[c].msg.row = con[d].msg.row
  PROVE  ~Current(con[d].msg) /\ row[con[d].msg.row].status # "cancelled"
BY DEF HeldOnce, Current

\* At its last check, a consumer finds nobody else at its recipient.
LEMMA LastCheck ==
  ASSUME IInv, RowsOK, HeldOnce, SoleInv, NEW c \in Consumers, con[c].pc = "current", Current(con[c].msg)
  PROVE  /\ \A d \in Consumers \ {c} : Delivering(con[d]) => con[d].msg.row # con[c].msg.row
         /\ \A k \in mails : k.row # con[c].msg.row
<1>1. con[c].msg.row \in Rows /\ row[con[c].msg.row].status = "queued" /\ Exists(con[c].msg.row[1]) /\ Busy(c)
  BY ConType DEF IInv, Current, RowsOK, Busy
<1>2. ASSUME NEW d \in Consumers \ {c}, Delivering(con[d]), con[d].msg.row = con[c].msg.row PROVE FALSE
  <2>1. Busy(d) /\ PassOK(d)
    BY <1>2 DEF Delivering, Busy, SoleInv
  <2>2. Current(con[d].msg) \/ row[con[d].msg.row].status = "cancelled"
    BY <1>1, <1>2, <2>1 DEF PassOK
  <2> QED BY <1>1, <1>2, <2>1, <2>2, CurrentOne
<1>3. ASSUME NEW k \in mails, k.row = con[c].msg.row PROVE FALSE
  <2>1. \E d \in Consumers : con[d].pc \in {"log", "mark"} /\ con[d].msg.row = con[c].msg.row
    BY <1>1, <1>3 DEF SoleInv, MailedOK
  <2>2. \A d \in Consumers : con[d].pc \in {"log", "mark"} => Delivering(con[d]) /\ d # c
    BY DEF Delivering
  <2> QED BY <1>2, <2>1, <2>2
<1> QED BY <1>2, <1>3

\* A consumer that a step of another one leaves alone keeps its recipient.
LEMMA OthersPass ==
  ASSUME IInv, RowsOK, HeldOnce, SoleInv, JobsKept, NEW c \in Consumers, NEW d \in Consumers \ {c},
         con'[d] = con[d], \A e \in Consumers \ {c} : con'[e] = con[e], RowGoes(c), Busy(c),
         \/ ~Delivering(con'[c])
         \/ /\ con'[c].msg = con[c].msg
            /\ Delivering(con[c]) \/ (con[c].pc = "current" /\ Current(con[c].msg)),
         \A k \in mails' : k \in mails \/ (con[c].pc = "send" /\ k.row = con[c].msg.row)
  PROVE  PassOK(d)'
<1> SUFFICES ASSUME Delivering(con[d]) PROVE PassOK(d)'
  BY DEF PassOK
<1>1. PassOK(d) /\ Busy(d) /\ con[d].msg.row \in Rows /\ con[d].msg.row[1] \in Jobs
  BY ConType, RowParts DEF SoleInv, Delivering, Busy, IInv
<1>2. Exists(con[d].msg.row[1])' <=> Exists(con[d].msg.row[1])
  BY <1>1 DEF JobsKept
<1>3. Delivering(con[c]) => con[c].msg.row # con[d].msg.row
  BY <1>1 DEF PassOK
<1>4. ASSUME Exists(con[d].msg.row[1]) PROVE Current(con[d].msg)' \/ row'[con[d].msg.row].status = "cancelled"
  <2>1. Current(con[d].msg) \/ row[con[d].msg.row].status = "cancelled"
    BY <1>1, <1>4 DEF PassOK
  <2>2. row'[con[d].msg.row] = row[con[d].msg.row]
    <3>1. CASE con[d].msg.row # con[c].msg.row
      BY <1>1, <3>1 DEF RowGoes
    <3>2. CASE con[d].msg.row = con[c].msg.row
      <4>1. con[c].pc # "mark"
        BY <1>3, <3>2 DEF Delivering
      <4>2. ~Current(con[c].msg)
        BY <1>1, <2>1, <3>2, CurrentOne
      <4> QED BY <3>2, <4>1, <4>2 DEF RowGoes
    <3> QED BY <3>1, <3>2
  <2> QED BY <2>1, <2>2 DEF Current
<1>5. ASSUME NEW e \in Consumers \ {d}, Delivering(con'[e]) PROVE con'[e].msg.row # con[d].msg.row
  <2>1. CASE e # c
    BY <1>1, <1>5, <2>1 DEF PassOK
  <2>2. CASE e = c
    BY <1>3, <1>5, <2>2, LastCheck
  <2> QED BY <2>1, <2>2
<1>6. con[d].pc = "send" => \A k \in mails' : k.row # con[d].msg.row
  BY <1>1, <1>3 DEF PassOK, Delivering
<1>7. con'[d] = con[d]
  OBVIOUS
<1> QED BY <1>1, <1>2, <1>4, <1>5, <1>6, <1>7 DEF PassOK

\* A consumer keeps to one mail for each recipient.
LEMMA ConsumerSole ==
  ASSUME IInv, RowsOK, KnownInv, OnceInv, SoleInv, Once, NEW c \in Consumers,
         Deliver(c) \/ Consume(c) \/ Throw(c) \/ Evict(c)
  PROVE  SoleInv'
<1>1. JobsKept /\ UNCHANGED <<clock, inv>> /\ \A d \in Consumers \ {c} : con'[d] = con[d]
  BY ConsumerJobs, ConsumerMoves
<1>2. /\ \A d \in Consumers : con[d].msg.row \in Rows /\ con[d].msg.row[1] \in Jobs /\ PassOK(d)
      /\ \A k \in mails : MailOK(k) /\ MailedOK(k) /\ k.row \in Rows /\ k.row[1] \in Jobs
      /\ HeldOnce /\ OneMailPerRecipient /\ \A p \in Invocations : ReleaseOK(p)
  BY ConType, RowParts DEF IInv, OnceInv, SoleInv, MailOK
<1>3. \A j \in Jobs : Exists(j)' <=> Exists(j)
  BY <1>1 DEF JobsKept
<1>4. \A p \in Invocations : ReleaseOK(p)'
  BY <1>2, ConsumerReleases
<1>5. ASSUME mails' = mails, row' = row, Busy(c) => con[c].pc \notin {"log", "mark"} \/ ~Exists(MyJob(c))
      PROVE  \A k \in mails' : MailedOK(k)'
  <2> SUFFICES ASSUME NEW k \in mails, Exists(k.row[1]) PROVE MailedOK(k)'
    BY <1>2, <1>3, <1>5 DEF MailedOK
  <2>1. CASE row[k.row].status \in {"ok", "bounce"}
    BY <1>5, <2>1 DEF MailedOK
  <2>2. CASE \E d \in Consumers : con[d].pc \in {"log", "mark"} /\ con[d].msg.row = k.row
    <3>1. PICK d \in Consumers : con[d].pc \in {"log", "mark"} /\ con[d].msg.row = k.row
      BY <2>2
    <3>2. d # c
      BY <1>5, <3>1 DEF Busy, MyJob
    <3> QED BY <1>1, <3>1, <3>2 DEF MailedOK
  <2> QED BY <1>2, <2>1, <2>2 DEF MailedOK
<1>6. ASSUME mails' = mails, row' = row, ~Delivering(con'[c]) PROVE \A d \in Consumers : PassOK(d)'
  <2> SUFFICES ASSUME NEW d \in Consumers, Delivering(con'[d]) PROVE PassOK(d)'
    BY DEF PassOK
  <2>1. d # c /\ con'[d] = con[d]
    BY <1>1, <1>6
  <2>2. Exists(con[d].msg.row[1])' <=> Exists(con[d].msg.row[1])
    BY <1>2, <1>3, <2>1
  <2>3. PassOK(d) /\ Delivering(con[d])
    BY <1>2, <2>1
  <2>4. \A e \in Consumers \ {d} : Delivering(con'[e]) => con'[e].msg.row # con[d].msg.row
    BY <1>1, <1>6, <2>3 DEF PassOK
  <2> QED BY <1>6, <2>1, <2>2, <2>3, <2>4 DEF PassOK, Current
<1>7. CASE Deliver(c)
  <2>1. PICK m, n :
          /\ m \in queue /\ ~m.leased /\ queue' = (queue \ {m}) \union {n}
          /\ n.gen = m.gen /\ n.row = m.row /\ n.leased
          /\ con'[c].pc = "job" /\ con'[c].msg.gen = m.gen /\ con'[c].msg.row = m.row
    BY <1>7, DeliverIs
  <2>2. mails' = mails /\ row' = row /\ ~Busy(c) /\ ~Delivering(con'[c])
    BY <1>7, <2>1, DeliverIs DEF Busy, Delivering
  <2>3. \A d \in Consumers : PassOK(d)'
    BY <1>6, <2>2
  <2>4. \A k \in mails' : MailedOK(k)'
    BY <1>5, <2>2
  <2>5. \A p \in Invocations : ReleaseOK(p)'
    BY <1>4
  <2>6. OneMailPerRecipient'
    BY <1>2, <2>2 DEF OneMailPerRecipient
  <2> QED BY <2>3, <2>4, <2>5, <2>6 DEF SoleInv
<1>8. CASE Finishes(c)
  <2>1. mails' = mails /\ row' = row /\ ~Busy(c)' /\ ~Delivering(con'[c])
    BY <1>8 DEF Finishes, Busy, Delivering, ConIdle
  <2>2. con[c].pc \in {"log", "mark"} => ~Exists(MyJob(c))
    BY <1>8 DEF Finishes
  <2>3. \A y \in queue' : \E x \in queue : x.gen = y.gen
    BY <1>8, SettledMessages DEF Finishes
  <2>4. \A d \in Consumers : PassOK(d)'
    BY <1>6, <2>1
  <2>5. \A k \in mails' : MailedOK(k)'
    BY <1>5, <2>1, <2>2
  <2>6. \A p \in Invocations : ReleaseOK(p)'
    BY <1>4
  <2>7. OneMailPerRecipient'
    BY <1>2, <2>1 DEF OneMailPerRecipient
  <2> QED BY <2>4, <2>5, <2>6, <2>7 DEF SoleInv
<1>9. CASE Sends(c)
  <2>1. /\ con[c].pc = "send" /\ con'[c].pc = "log" /\ con'[c].msg = con[c].msg /\ queue' = queue /\ row' = row
        /\ Delivering(con[c]) /\ Delivering(con'[c]) /\ Busy(c)
    BY <1>9 DEF Sends, Delivering, Busy
  <2>2. PICK x : x = [row |-> con[c].msg.row, gen |-> con[c].msg.gen, tries |-> con[c].msg.tries]
    OBVIOUS
  <2>3. x.row = con[c].msg.row /\ (mails' = mails \/ mails' = mails \union {x})
    BY <1>9, <2>2 DEF Sends, Accepted
  <2>4. RowGoes(c)
    BY <2>1 DEF RowGoes
  <2>5. ASSUME NEW d \in Consumers \ {c} PROVE PassOK(d)'
    BY <1>1, <1>2, <2>1, <2>3, <2>4, OthersPass
  <2>6. PassOK(c)'
    <3>1. Exists(con[c].msg.row[1])' <=> Exists(con[c].msg.row[1])
      BY <1>2, <1>3, <2>1
    <3>2. \A e \in Consumers \ {c} : Delivering(con'[e]) => con'[e].msg.row # con[c].msg.row
      BY <1>1, <1>2, <2>1 DEF PassOK
    <3> QED BY <1>2, <2>1, <3>1, <3>2 DEF PassOK, Current
  <2>7. ASSUME NEW k \in mails' PROVE MailedOK(k)'
    <3>1. CASE k.row = con[c].msg.row
      BY <2>1, <3>1 DEF MailedOK
    <3>2. CASE k.row # con[c].msg.row
      <4>1. k \in mails
        BY <2>3, <2>7, <3>2
      <4>2. Exists(k.row[1])' <=> Exists(k.row[1])
        BY <1>2, <1>3, <4>1
      <4>3. \A d \in Consumers : con[d].msg.row = k.row => con'[d] = con[d]
        BY <1>1, <3>2
      <4> QED BY <1>2, <2>1, <4>1, <4>2, <4>3 DEF MailedOK
    <3> QED BY <3>1, <3>2
  <2>8. \A p \in Invocations : ReleaseOK(p)'
    BY <1>4
  <2>9. OneMailPerRecipient'
    <3>1. \A k \in mails : k.row # con[c].msg.row
      BY <1>2, <2>1 DEF PassOK
    <3> QED BY <1>2, <2>3, <3>1 DEF OneMailPerRecipient
  <2> QED BY <2>5, <2>6, <2>7, <2>8, <2>9 DEF SoleInv
<1>10. CASE Goes(c)
  <2>1. /\ con'[c].msg = con[c].msg /\ queue' = queue /\ mails' = mails /\ Busy(c) /\ RowGoes(c)
        /\ con'[c].pc = "send" => con[c].pc = "current" /\ Current(con[c].msg)
        /\ con'[c].pc \in {"log", "mark"} => con[c].pc = "log"
        /\ con[c].pc = "log" => con'[c].pc \in {"log", "mark"}
    BY <1>10 DEF Goes
  <2>2. ~Delivering(con'[c]) \/ Delivering(con[c]) \/ (con[c].pc = "current" /\ Current(con[c].msg))
    BY <2>1 DEF Delivering
  <2>3. ASSUME NEW d \in Consumers \ {c} PROVE PassOK(d)'
    BY <1>1, <1>2, <2>1, <2>2, OthersPass
  <2>4. PassOK(c)'
    <3> SUFFICES ASSUME Delivering(con'[c]) PROVE PassOK(c)'
      BY DEF PassOK
    <3>1. con[c].pc = "log" \/ (con[c].pc = "current" /\ Current(con[c].msg))
      BY <2>1 DEF Delivering
    <3>2. row'[con[c].msg.row] = row[con[c].msg.row]
      BY <2>1, <3>1 DEF RowGoes
    <3>3. Exists(con[c].msg.row[1])' <=> Exists(con[c].msg.row[1])
      BY <1>2, <1>3, <2>1
    <3>4. Current(con[c].msg)' <=> Current(con[c].msg)
      BY <2>1, <3>2 DEF Current
    <3>5. Exists(con[c].msg.row[1]) => Current(con[c].msg) \/ row[con[c].msg.row].status = "cancelled"
      BY <1>2, <3>1 DEF PassOK, Delivering
    <3>6. \A e \in Consumers \ {c} : Delivering(con[e]) => con[e].msg.row # con[c].msg.row
      BY <1>2, <3>1, LastCheck DEF PassOK, Delivering
    <3>7. con'[c].pc = "send" => \A k \in mails : k.row # con[c].msg.row
      BY <1>2, <2>1, LastCheck
    <3> QED BY <1>1, <2>1, <3>2, <3>3, <3>4, <3>5, <3>6, <3>7 DEF PassOK
  <2>5. ASSUME NEW k \in mails', Exists(k.row[1])' PROVE MailedOK(k)'
    <3>1. k \in mails /\ Exists(k.row[1]) /\ k.row \in Rows
      BY <1>2, <1>3, <2>1, <2>5
    <3>2. CASE row[k.row].status \in {"ok", "bounce"}
      <4>1. row'[k.row].status \in {"ok", "bounce"}
        BY <2>1, <3>1, <3>2 DEF RowGoes, Current
      <4> QED BY <4>1 DEF MailedOK
    <3>3. CASE \E d \in Consumers : con[d].pc \in {"log", "mark"} /\ con[d].msg.row = k.row
      <4>1. PICK d \in Consumers : con[d].pc \in {"log", "mark"} /\ con[d].msg.row = k.row
        BY <3>3
      <4>2. CASE d # c
        BY <1>1, <4>1, <4>2 DEF MailedOK
      <4>3. CASE d = c /\ con[c].pc = "log"
        BY <2>1, <4>1, <4>3 DEF MailedOK
      <4>4. CASE d = c /\ con[c].pc = "mark"
        <5>1. Current(con[c].msg) \/ row[k.row].status = "cancelled"
          BY <1>2, <3>1, <4>1, <4>4 DEF PassOK, Delivering
        <5>2. row'[k.row].status \in {"ok", "bounce"}
          BY <2>1, <4>1, <4>4, <5>1 DEF RowGoes, Current
        <5> QED BY <5>2 DEF MailedOK
      <4> QED BY <4>1, <4>2, <4>3, <4>4
    <3> QED BY <1>2, <3>1, <3>2, <3>3 DEF MailedOK
  <2>6. \A k \in mails' : MailedOK(k)'
    BY <2>5 DEF MailedOK
  <2>7. \A p \in Invocations : ReleaseOK(p)'
    BY <1>4
  <2>8. OneMailPerRecipient'
    BY <1>2, <2>1 DEF OneMailPerRecipient
  <2> QED BY <2>3, <2>4, <2>6, <2>7, <2>8 DEF SoleInv
<1> QED BY <1>7, <1>8, <1>9, <1>10, ConsumerSends

\* Nor do requests and cron passes bring a mailed recipient back.
LEMMA RequestSole ==
  ASSUME IInv, GenOK, RowsOK, KnownInv, OnceInv, SoleInv, NoRetry, NEW p \in Invocations,
         Begin(p) \/ Continue(p) \/ InvThrows(p) \/ InvEvict(p)
  PROVE  SoleInv'
<1>1. con' = con /\ mails' = mails /\ JobsCount
  BY RequestKeepsCreds, RequestMails, RequestCounts
<1>2. (\A q \in Invocations \ {p} : inv'[q] = inv[q]) /\ (Hands(p) \/ Claims(p) \/ Rests(p))
  BY RequestMoves
<1>3. /\ \A d \in Consumers : con[d].msg.row \in Rows /\ MyJob(d) \in Jobs /\ con[d].msg.gen \in Nat /\ PassOK(d) /\ CountOK(d)
      /\ \A k \in mails : MailOK(k) /\ MailedOK(k) /\ k.row \in Rows /\ k.row[1] \in Jobs
      /\ \A q \in Invocations : ReleaseOK(q) /\ PushOK(q)
      /\ \A r \in Rows : row[r].queuedAt \in Nat
  <2>1. row \in [Rows -> RowRec]
    BY DEF IInv, TablesOK
  <2> QED BY <2>1, ConType, RowParts DEF IInv, OnceInv, SoleInv, MailOK, KnownInv, RowRec, MyJob
<1>4. /\ \A j \in Jobs : Exists(j)' => Exists(j) \/ job[j].status = "none"
      /\ ~InvAt(p, "retry_write")
  BY <1>1, <1>3 DEF JobsCount, ReleaseOK, InvAt
<1>5. ASSUME NEW d \in Consumers PROVE PassOK(d)'
  <2> SUFFICES ASSUME Delivering(con[d]) PROVE PassOK(d)'
    BY <1>1 DEF PassOK
  <2>1. PassOK(d) /\ Busy(d) /\ job[MyJob(d)].status # "none"
    BY <1>3 DEF Delivering, Busy, CountOK
  <2>2. ASSUME Exists(con[d].msg.row[1])' PROVE Current(con[d].msg)' \/ row'[con[d].msg.row].status = "cancelled"
    <3>0. PICK r \in Rows : r = con[d].msg.row
      BY <1>3
    <3>1. Exists(r[1])
      BY <1>1, <1>3, <1>4, <2>1, <2>2, <3>0 DEF MyJob
    <3>2. Current(con[d].msg) \/ row[r].status = "cancelled"
      BY <2>1, <3>0, <3>1 DEF PassOK
    <3>3. row[r].status \in {"queued", "cancelled"}
      BY <3>0, <3>2 DEF Current
    <3>4. row[r].status = "queued" => row[r].queuedAt = con[d].msg.gen
      BY <3>0, <3>2 DEF Current
    <3>5. row'[r] = row[r] \/ (row[r].status = "queued" /\ row'[r].status = "cancelled")
      <4>1. Exists(r[1])' /\ row[r].status \notin {"absent", "pending"}
        BY <1>1, <2>2, <3>0, <3>3
      <4> QED BY <1>3, <2>1, <3>0, <3>4, <4>1, RequestKeepsWork
    <3> QED BY <1>1, <3>0, <3>2, <3>5 DEF Current
  <2> QED BY <1>1, <2>1, <2>2 DEF PassOK
<1>6. ASSUME NEW k \in mails PROVE MailedOK(k)'
  <2> SUFFICES ASSUME Exists(k.row[1])' PROVE MailedOK(k)'
    BY DEF MailedOK
  <2>1. Exists(k.row[1])
    BY <1>3, <1>4 DEF MailOK
  <2>2. CASE row[k.row].status \in {"ok", "bounce"}
    <3>1. row'[k.row] = row[k.row]
      BY <1>3, <1>4, <2>2, RequestSettles
    <3> QED BY <2>2, <3>1 DEF MailedOK
  <2>3. CASE \E d \in Consumers : con[d].pc \in {"log", "mark"} /\ con[d].msg.row = k.row
    BY <1>1, <2>3 DEF MailedOK
  <2> QED BY <1>3, <2>1, <2>2, <2>3 DEF MailedOK
<1>7. \A q \in Invocations : ReleaseOK(q)'
  BY <1>3, RequestKeepsReleases
<1>8. OneMailPerRecipient'
  BY <1>1 DEF SoleInv, OneMailPerRecipient
<1> QED BY <1>1, <1>5, <1>6, <1>7, <1>8 DEF SoleInv

\* Every step keeps to one mail for each recipient.
LEMMA SoleStep ==
  ASSUME Once, NoRetry, IInv, GenOK, CredsInv, CountInv, OnceInv, SoleInv, [Next]_vars
  PROVE  SoleInv'
<1>1. ASSUME NEW c \in Consumers, Deliver(c) \/ Consume(c) \/ Throw(c) \/ Evict(c) PROVE SoleInv'
  BY <1>1, ConsumerSole DEF CountInv, CredsInv
<1>2. ASSUME NEW p \in Invocations, Begin(p) \/ Continue(p) \/ InvThrows(p) \/ InvEvict(p) PROVE SoleInv'
  BY <1>2, RequestSole DEF CountInv, CredsInv
<1>3. ~LeaseLapses
  BY DEF LeaseLapses, Once
<1>4. CASE NewDay \/ (\E j \in Jobs : LimitSwitches(j)) \/ UNCHANGED vars
  <2>1. UNCHANGED <<job, row, queue, mails, con, inv>>
    BY <1>4 DEF NewDay, LimitSwitches, vars
  <2> QED BY <2>1 DEF SoleInv, PassOK, MailedOK, ReleaseOK, OneMailPerRecipient, Busy, InvAt, Exists, Current
<1> QED BY <1>1, <1>2, <1>3, <1>4 DEF Next

\* As long as nobody asks for a retry, a recipient gets one mail per job at most:
\* neither a claim that is released after a push that failed, nor the recovery of
\* stale attempts, nor a demotion, a cancellation or another consumer sends the
\* letter again, given that a failing push took no message, that each message is
\* worked on once and to its end, and that no attempt is under way for two hours
\* (send.ts:230-262, 297-321, send-queue.ts:41-49).
THEOREM OneMailForARecipient == ASSUME Once, NoRetry PROVE Spec => []OneMailPerRecipient
<1>1. Init => SoleInv
  <2> SUFFICES ASSUME Init PROVE SoleInv
    OBVIOUS
  <2>1. mails = {} /\ (\A c \in Consumers : con[c].pc = "idle") /\ \A p \in Invocations : inv[p].pc = "idle"
    BY DEF Init, ConIdle, InvIdle
  <2> QED BY <2>1 DEF SoleInv, PassOK, MailedOK, ReleaseOK, OneMailPerRecipient, Delivering, InvAt
<1>2. IInv /\ GenOK /\ CredsInv /\ CountInv /\ OnceInv /\ SoleInv /\ [Next]_vars => SoleInv'
  BY Once, NoRetry, SoleStep
<1>3. SoleInv => OneMailPerRecipient
  BY DEF SoleInv
<1> QED BY Once, <1>1, <1>2, <1>3, OnceHolds, PTL DEF Spec
=============================================================================
