-------------------------- MODULE SendOutcomeProofs --------------------------
(***************************************************************************)
(* What comes of a recipient, for every number of jobs, recipients,        *)
(* consumers and invocations, while nobody asks for a retry: the pipeline  *)
(* implements MailDelivery if every message is worked on once and to its   *)
(* end, and a job that is done has an outcome for every recipient as long  *)
(* as no message is with two consumers, killed and failing ones included.  *)
(***************************************************************************)
EXTENDS SendCountProofs, FunctionTheorems

-----------------------------------------------------------------------------
(* The steps of a consumer, by what they do to the outcome.                *)

\* A consumer takes a message up or ends; or goes on, with no outcome yet.
Fresh(c) ==
  /\ con'[c].pc \in {"idle", "job"} /\ con'[c].kind = "none" /\ con'[c].nSent = 0 /\ con'[c].nBounce = 0
  /\ UNCHANGED <<mails, row, job>>
Waits(c) ==
  /\ con[c].pc \in Early /\ con'[c].pc \in Early \union {"counters", "finish"}
  /\ con'[c].msg = con[c].msg /\ con'[c].kind = con[c].kind
  /\ con'[c].nSent = con[c].nSent /\ con'[c].nBounce = con[c].nBounce
  /\ mails' = mails /\ (row' = row \/ Demote(c))
  /\ con'[c].pc = "send" => con[c].pc = "current" /\ Current(con[c].msg)
Records(c) ==
  SendOk(c) \/ SendBounce(c) \/ LogInsert(c) \/ MarkRecipient(c) \/ VerifyContact(c) \/ LogFails(c)
Closes(c) ==
  UpdateCounters(c) \/ (ReadFinish(c) /\ Goto(c, "done") /\ UNCHANGED queue) \/ MarkDone(c)

LEMMA ConsumerPaths ==
  ASSUME IInv, NEW c \in Consumers, Deliver(c) \/ Consume(c) \/ Throw(c) \/ Evict(c)
  PROVE  Fresh(c) \/ AbortCredentialGone(c) \/ Waits(c) \/ Records(c) \/ Closes(c)
<1>1. con \in [Consumers -> ConRec] /\ con[c] \in ConRec
  BY DEF IInv, ConsOK
<1>2. Early = {"job", "credential", "abort_gone", "staged", "limit", "count", "window", "demote",
               "slot", "current", "abort_redacted", "send", "abort_blocked"}
  BY DEF Early, ConPc
<1> DEFINE b == con'[c]
           Done == Fresh(c) \/ AbortCredentialGone(c) \/ Waits(c) \/ Records(c) \/ Closes(c)
<1>3. ASSUME NEW how, Return(c, how), UNCHANGED <<mails, row, job>> PROVE Done
  BY <1>1, <1>3 DEF Return, Fresh, ConIdle
<1>4. ASSUME NEW s \in Early \union {"counters", "finish"}, con[c].pc \in Early, mails' = mails,
             row' = row \/ Demote(c), s = "send" => con[c].pc = "current" /\ Current(con[c].msg),
             \/ con' = [con EXCEPT ![c].pc = s]
             \/ con' = [con EXCEPT ![c].pc = s, ![c].ack = "ack"]
             \/ con' = [con EXCEPT ![c].pc = s, ![c].ack = "retry"]
             \/ \E n : con' = [con EXCEPT ![c].pc = s, ![c].avail = n]
             \/ \E n : con' = [con EXCEPT ![c].pc = s, ![c].cred = n]
             \/ con' = [con EXCEPT ![c].pc = s, ![c].aborted = TRUE]
             \/ con' = [con EXCEPT ![c].pc = s, ![c].aborted = TRUE, ![c].ack = "ack"]
      PROVE  Done
  <2>1. /\ b.pc = s /\ b.msg = con[c].msg /\ b.kind = con[c].kind
        /\ b.nSent = con[c].nSent /\ b.nBounce = con[c].nBounce
    BY <1>1, <1>4 DEF ConRec
  <2> QED BY <1>4, <2>1 DEF Waits
<1>5. CASE Deliver(c)
  <2>1. PICK d : con' = [con EXCEPT ![c] = [ConIdle EXCEPT !.pc = "job", !.msg = d]]
    BY <1>5 DEF Deliver
  <2>2. PICK r : r = [ConIdle EXCEPT !.pc = "job", !.msg = d]
    OBVIOUS
  <2>3. r.pc = "job" /\ r.kind = "none" /\ r.nSent = 0 /\ r.nBounce = 0
    BY <2>2 DEF ConIdle
  <2>4. b = r
    BY <1>1, <2>1, <2>2
  <2> QED BY <1>5, <2>3, <2>4 DEF Fresh, Deliver, consumed
<1>6. CASE ReadJob(c)
  <2>1. CASE Return(c, "ack")
    BY <1>3, <1>6, <2>1 DEF ReadJob, consumed
  <2>2. CASE \E n : con' = [con EXCEPT ![c].pc = "credential", ![c].cred = n] /\ UNCHANGED queue
    BY <1>2, <1>4, <1>6, <2>2 DEF ReadJob, At, consumed
  <2> QED BY <1>6, <2>1, <2>2 DEF ReadJob
<1>7. CASE ReadCredential(c)
  BY <1>2, <1>4, <1>7 DEF ReadCredential, At, consumed, Goto, MarkAck
<1>8. CASE ReadStaged(c)
  BY <1>2, <1>4, <1>8 DEF ReadStaged, At, consumed, Goto, MarkAck
<1>9. CASE ReadLimit(c)
  BY <1>2, <1>4, <1>9 DEF ReadLimit, At, consumed, Goto, MarkAck
<1>10. CASE CountSent(c)
  BY <1>2, <1>4, <1>10 DEF CountSent, At, consumed
<1>11. CASE ReadWindow(c)
  BY <1>2, <1>4, <1>11 DEF ReadWindow, At, consumed, Goto
<1>12. CASE Demote(c)
  <2>1. con[c].pc = "demote" /\ mails' = mails /\ con' = [con EXCEPT ![c].pc = "finish", ![c].ack = "ack"]
    BY <1>12 DEF Demote, At, MarkAck
  <2> QED BY <1>2, <1>4, <1>12, <2>1
<1>13. CASE AcquireSlot(c)
  BY <1>2, <1>4, <1>13 DEF AcquireSlot, At, consumed, Goto
<1>14. CASE ReadCurrent(c)
  BY <1>2, <1>4, <1>14 DEF ReadCurrent, At, consumed, Goto, MarkAck
<1>15. CASE AbortRedacted(c)
  BY <1>2, <1>4, <1>15 DEF AbortRedacted, At, consumed
<1>16. CASE SendCredentialFailure(c)
  BY <1>2, <1>4, <1>16 DEF SendCredentialFailure, At, consumed, Goto
<1>17. CASE AbortBlocked(c)
  BY <1>2, <1>4, <1>17 DEF AbortBlocked, At, consumed
<1>18. CASE SendTransient(c)
  BY <1>2, <1>4, <1>18 DEF SendTransient, At, consumed
<1>19. CASE ReadFinish(c)
  <2>1. CASE Return(c, con[c].ack)
    BY <1>3, <1>19, <2>1 DEF ReadFinish, consumed
  <2> QED BY <1>19, <2>1 DEF ReadFinish, Closes
<1>20. CASE Throw(c)
  <2>1. UNCHANGED <<mails, row, job>> /\ \E how : Return(c, how)
    BY <1>20 DEF Throw, consumed
  <2> QED BY <1>3, <2>1
<1>21. CASE Evict(c)
  BY <1>3, <1>21 DEF Evict, consumed
<1> QED
  BY <1>5, <1>6, <1>7, <1>8, <1>9, <1>10, <1>11, <1>12, <1>13, <1>14, <1>15, <1>16, <1>17, <1>18, <1>19, <1>20,
     <1>21 DEF Consume, Records, Closes

\* What the steps that record an outcome do to a consumer.
LEMMA RecordsFields ==
  ASSUME IInv, NEW c \in Consumers, Records(c)
  PROVE  /\ con'[c].msg = con[c].msg
         /\ con[c].pc \in {"send", "log", "mark", "contact"} /\ con'[c].pc \in {"log", "mark", "contact", "counters"}
         /\ SendOk(c) => con'[c].pc = "log" /\ con'[c].kind = "ok" /\ con'[c].nBounce = con[c].nBounce
         /\ SendBounce(c) => con'[c].pc = "log" /\ con'[c].kind \in {"bounce", "dead"} /\ con'[c].nBounce = con[c].nBounce + 1
         /\ LogInsert(c) => con'[c].pc = "mark" /\ con'[c].kind = con[c].kind /\ con'[c].nBounce = con[c].nBounce
         /\ MarkRecipient(c) \/ VerifyContact(c) =>
              /\ con'[c].pc \in {"contact", "counters"} /\ con'[c].kind = con[c].kind /\ con'[c].nBounce = con[c].nBounce
              /\ con'[c].pc = "counters" => con'[c].nSent = IF con[c].kind = "ok" THEN 1 ELSE 0
         /\ LogFails(c) => /\ con[c].pc \in {"log", "mark", "contact"} /\ con[c].kind = "ok"
                           /\ con'[c].pc = "log" /\ con'[c].kind = "bounce" /\ con'[c].nBounce = con[c].nBounce + 1
                           /\ Once => con[c].pc = "log" /\ ~Exists(MyJob(c))
<1>1. con \in [Consumers -> ConRec] /\ con[c] \in ConRec
  BY DEF IInv, ConsOK
<1> DEFINE b == con'[c]
<1>2. ASSUME SendOk(c)
      PROVE  b.pc = "log" /\ b.kind = "ok" /\ b.nBounce = con[c].nBounce /\ b.msg = con[c].msg /\ con[c].pc = "send"
  BY <1>1, <1>2 DEF SendOk, At, ConRec
<1>3. ASSUME SendBounce(c)
      PROVE  /\ b.pc = "log" /\ b.kind \in {"bounce", "dead"} /\ b.nBounce = con[c].nBounce + 1 /\ b.msg = con[c].msg
             /\ con[c].pc = "send"
  <2>1. PICK k, n : k \in {"bounce", "dead"} /\ n = con[c].nBounce + 1 /\ con' = [con EXCEPT ![c].pc = "log", ![c].kind = k, ![c].nBounce = n]
    BY <1>3 DEF SendBounce, BounceKinds
  <2>2. b.pc = "log" /\ b.kind = k /\ b.nBounce = n /\ b.msg = con[c].msg
    BY <1>1, <2>1 DEF ConRec
  <2> QED BY <1>3, <2>1, <2>2 DEF SendBounce, At
<1>4. ASSUME LogInsert(c)
      PROVE  /\ b.pc = "mark" /\ b.kind = con[c].kind /\ b.nBounce = con[c].nBounce /\ b.msg = con[c].msg
             /\ con[c].pc = "log"
  BY <1>1, <1>4 DEF LogInsert, Goto, At, ConRec
<1>5. ASSUME LogFails(c)
      PROVE  /\ b.pc = "log" /\ b.kind = "bounce" /\ b.nBounce = con[c].nBounce + 1 /\ b.msg = con[c].msg
             /\ con[c].pc \in {"log", "mark", "contact"} /\ con[c].kind = "ok"
             /\ Once => con[c].pc = "log" /\ ~Exists(MyJob(c))
  <2>1. PICK n : n = con[c].nBounce + 1 /\ con' = [con EXCEPT ![c].pc = "log", ![c].kind = "bounce", ![c].nBounce = n]
    BY <1>5 DEF LogFails
  <2>2. b.pc = "log" /\ b.kind = "bounce" /\ b.nBounce = n /\ b.msg = con[c].msg
    BY <1>1, <2>1 DEF ConRec
  <2> QED BY <1>5, <2>1, <2>2 DEF LogFails, At, Once
<1>6. ASSUME con' = Counted(c)
      PROVE  /\ b.pc = "counters" /\ b.msg = con[c].msg /\ b.kind = con[c].kind /\ b.nBounce = con[c].nBounce
             /\ b.nSent = IF con[c].kind = "ok" THEN 1 ELSE 0
  <2>1. PICK n : n = IF con[c].kind = "ok" THEN 1 ELSE 0
    OBVIOUS
  <2>2. con' = [con EXCEPT ![c].pc = "counters", ![c].ack = "ack", ![c].nSent = n]
    BY <1>6, <2>1 DEF Counted
  <2>3. PICK r : r = [con[c] EXCEPT !.pc = "counters", !.ack = "ack", !.nSent = n]
    OBVIOUS
  <2>4. b = r
    BY <1>1, <2>2, <2>3
  <2>5. r.pc = "counters" /\ r.msg = con[c].msg /\ r.kind = con[c].kind /\ r.nBounce = con[c].nBounce /\ r.nSent = n
    BY <1>1, <2>3 DEF ConRec
  <2> QED BY <2>1, <2>4, <2>5
<1>7. ASSUME MarkRecipient(c) \/ VerifyContact(c)
      PROVE  /\ b.pc \in {"contact", "counters"} /\ b.kind = con[c].kind /\ b.nBounce = con[c].nBounce /\ b.msg = con[c].msg
             /\ b.pc = "counters" => b.nSent = IF con[c].kind = "ok" THEN 1 ELSE 0
             /\ con[c].pc \in {"mark", "contact"}
  <2>1. con[c].pc \in {"mark", "contact"}
    BY <1>7 DEF MarkRecipient, VerifyContact, At
  <2>2. con' = Counted(c) \/ Goto(c, "contact")
    BY <1>7 DEF MarkRecipient, VerifyContact
  <2>3. Goto(c, "contact") => b.pc = "contact" /\ b.msg = con[c].msg /\ b.kind = con[c].kind /\ b.nBounce = con[c].nBounce
    BY <1>1 DEF Goto, ConRec
  <2> QED BY <1>6, <2>1, <2>2, <2>3
<1> QED BY <1>2, <1>3, <1>4, <1>5, <1>7 DEF Records

-----------------------------------------------------------------------------
(* The steps of requests and cron passes, by what they do to the outcome.  *)

\* Nobody retries: jobs keep their counters, and only a deletion ends one.
JobsSettle(p) ==
  \A j \in Jobs :
    \/ /\ job'[j].sent = job[j].sent /\ job'[j].bounce = job[j].bounce
       /\ (Exists(j)' <=> Exists(j)) /\ (job'[j].status = "deleted" <=> job[j].status = "deleted")
       /\ job'[j].status = "done" => job[j].status = "done"
    \/ job[j].status = "none" /\ job'[j].status = "pending" /\ job'[j].sent = 0 /\ job'[j].bounce = 0
    \/ DeleteWrite(p) /\ j = J(p) /\ job'[j].status = "deleted"

LEMMA RequestJobs ==
  ASSUME IInv, NEW p \in Invocations, Begin(p) \/ Continue(p) \/ InvThrows(p) \/ InvEvict(p),
         inv[p].pc # "retry_write"
  PROVE  JobsSettle(p)
<1>1. /\ \A j \in Jobs : JobGood(job[j]) /\ job[j] \in JobRec
      /\ DOMAIN job = Jobs /\ job = [j \in Jobs |-> job[j]] /\ J(p) \in Jobs
  BY DEF IInv, TablesOK, InvsOK, InvGood, InvRec, J, JobGood
<1>2. \A j \in Jobs : /\ Exists(j)' <=> job'[j].status \in Active \union Final
                      /\ Exists(j) <=> job[j].status \in Active \union Final
  BY DEF Exists
<1>3. {"none", "deleted"} \cap (Active \union Final) = {}
  BY DEF Active, Final
<1>4. ASSUME NEW j \in Jobs, NEW r, job' = [job EXCEPT ![j] = r], r.sent = job[j].sent, r.bounce = job[j].bounce,
             r.status = job[j].status \/ (Exists(j) /\ r.status \in (Active \union Final) \ {"done"})
      PROVE  JobsSettle(p)
  <2>1. \A i \in Jobs : job'[i] = IF i = j THEN r ELSE job[i]
    BY <1>1, <1>4
  <2> QED BY <1>2, <1>3, <1>4, <2>1 DEF JobsSettle
<1>5. ASSUME UNCHANGED job PROVE JobsSettle(p)
  BY <1>5 DEF JobsSettle, Exists
<1>6. ASSUME NEW j \in Jobs, NEW s \in (Active \union Final) \ {"done"}, NEW fin \in BOOLEAN,
             job' = [job EXCEPT ![j] = StatusSet(j, s, fin)] \/ UNCHANGED job
      PROVE  JobsSettle(p)
  <2>1. PICK r : r = StatusSet(j, s, fin)
    OBVIOUS
  <2>2. r.sent = job[j].sent /\ r.bounce = job[j].bounce /\ r.status = IF Exists(j) THEN s ELSE job[j].status
    BY <1>1, <2>1, StatusKeeps
  <2> QED BY <1>4, <1>5, <1>6, <2>1, <2>2
<1>7. CASE CreateJob(p)
  <2>1. PICK j \in Jobs, c \in Creds, x \in Rates :
          /\ job[j].status = "none"
          /\ job' = [job EXCEPT ![j] = [NoJob EXCEPT !.status = "pending", !.cred = c, !.rate = x]]
    BY <1>7 DEF CreateJob
  <2>2. PICK r : r = [NoJob EXCEPT !.status = "pending", !.cred = c, !.rate = x]
    OBVIOUS
  <2>3. r.status = "pending" /\ r.sent = 0 /\ r.bounce = 0
    BY <2>2 DEF NoJob
  <2>4. \A i \in Jobs : job'[i] = IF i = j THEN r ELSE job[i]
    BY <1>1, <2>1, <2>2
  <2> QED BY <1>2, <2>1, <2>3, <2>4 DEF JobsSettle
<1>8. ~RetryWrite(p)
  BY DEF RetryWrite, InvAt
<1>9. CASE DeleteWrite(p)
  <2>1. PICK k \in Jobs : k = J(p)
    BY <1>1
  <2>2. job' = [job EXCEPT ![k] = [NoJob EXCEPT !.status = "deleted"]]
    BY <1>9, <2>1 DEF DeleteWrite
  <2>3. job'[k].status = "deleted" /\ \A i \in Jobs \ {k} : job'[i] = job[i]
    BY <1>1, <2>2 DEF NoJob
  <2> QED BY <1>2, <1>9, <2>1, <2>3 DEF JobsSettle
<1>10. CASE RevokeWrite(p)
  <2> DEFINE mine == {j \in Jobs : Exists(j) /\ job[j].cred = inv[p].cred}
  <2>1. job' = [j \in Jobs |-> IF j \in mine /\ job[j].status \in Active THEN StatusSet(j, "cancelled", TRUE) ELSE job[j]]
    BY <1>10 DEF RevokeWrite
  <2>2. ASSUME NEW j \in Jobs
        PROVE  /\ job'[j].sent = job[j].sent /\ job'[j].bounce = job[j].bounce
               /\ job'[j].status = job[j].status \/ (Exists(j) /\ job'[j].status = "cancelled")
    <3>1. "cancelled" \in Active \union Final /\ TRUE \in BOOLEAN
      BY DEF Final
    <3>2. PICK r : r = StatusSet(j, "cancelled", TRUE)
      OBVIOUS
    <3>3. r.status = (IF Exists(j) THEN "cancelled" ELSE job[j].status) /\ r.sent = job[j].sent /\ r.bounce = job[j].bounce
      BY <1>1, <3>1, <3>2, StatusKeeps
    <3> QED BY <2>1, <3>2, <3>3
  <2>3. "cancelled" \in Active \union Final
    BY DEF Final
  <2> QED BY <1>2, <1>3, <2>2, <2>3 DEF JobsSettle
<1>11. CASE CancelWrite(p)
  <2>1. "cancelled" \in (Active \union Final) \ {"done"} /\ TRUE \in BOOLEAN
    BY DEF Final
  <2> QED BY <1>1, <1>6, <1>11, <2>1 DEF CancelWrite
<1>12. CASE Promote(p)
  <2>1. "sending" \in (Active \union Final) \ {"done"} /\ job[J(p)].finished \in BOOLEAN
    BY <1>1 DEF Active, JobRec
  <2> QED BY <1>1, <1>6, <1>12, <2>1 DEF Promote
<1>13. CASE RateWrite(p)
  <2>1. CASE Exists(J(p))
    <3>1. PICK r : r = [job[J(p)] EXCEPT !.rate = inv[p].rate]
      OBVIOUS
    <3>2. r.sent = job[J(p)].sent /\ r.bounce = job[J(p)].bounce /\ r.status = job[J(p)].status
      BY <1>1, <3>1 DEF JobRec
    <3>3. job' = [job EXCEPT ![J(p)] = r]
      BY <1>13, <2>1, <3>1 DEF RateWrite
    <3> QED BY <1>1, <1>4, <3>2, <3>3
  <2>2. CASE ~Exists(J(p))
    BY <1>5, <1>13, <2>2 DEF RateWrite
  <2> QED BY <2>1, <2>2
<1>14. CASE UNCHANGED job
  BY <1>5, <1>14
<1> QED
  BY <1>7, <1>8, <1>9, <1>10, <1>11, <1>12, <1>13, <1>14
  DEF Begin, Continue, InvThrows, InvEvict, CronStart, CancelRead, RetryRead, DeleteRead,
      RateRead, EditRead, RevokeRead, RedactStart, StageRecipients, RecoverStale, RecoverUpTo, ListJobs,
      NextJob, ReadQuotaSent, ReadQuotaQueued, ReadJobLimit, ReadJobSent, ReadJobQueued, ReadLiveJob,
      SelectPending, Claim, Push, PushFails, Release, EditWrite, RedactWrite

\* The recipients wait on as they did, claimed or not, or are settled.
ToServe == {"pending", "queued"}
RowsRest ==
  \A r \in Rows : row'[r].status = row[r].status \/ (row[r].status \in ToServe /\ row'[r].status \in ToServe)

LEMMA RequestServes ==
  ASSUME IInv, NEW p \in Invocations, Begin(p) \/ Continue(p) \/ InvThrows(p) \/ InvEvict(p),
         inv[p].pc # "retry_write"
  PROVE  \/ RowsRest \/ (StageRecipients(p) /\ Exists(J(p)))
         \/ CancelWrite(p) \/ RevokeWrite(p) \/ DeleteWrite(p)
<1>1. row \in [Rows -> RowRec] /\ (InvAt(p, "release") => Claimed(p) \in Rows)
  BY ClaimedIs DEF IInv, TablesOK, InvsOK, InvAt
<1>2. CASE UNCHANGED row
  BY <1>2 DEF RowsRest
<1>3. CASE StageRecipients(p)
  BY <1>2, <1>3 DEF StageRecipients
<1>4. CASE RecoverStale(p)
  BY <1>4 DEF RecoverStale, RecoverUpTo, Stale, RowIs, RowsRest, ToServe
<1>5. CASE Claim(p)
  <2>1. CASE UNCHANGED row
    BY <1>2, <2>1
  <2>2. PICK r \in inv[p].todo : UNCHANGED row \/ (row[r].status = "pending" /\ row' = [row EXCEPT ![r] = [status |-> "queued", queuedAt |-> Stamp]])
    BY <1>5 DEF Claim
  <2> QED BY <1>1, <2>1, <2>2 DEF RowsRest, ToServe
<1>6. CASE Release(p)
  <2>1. CASE UNCHANGED row
    BY <1>2, <2>1
  <2>2. PICK r \in Rows : UNCHANGED row \/ (row[r].status = "queued" /\ row' = [row EXCEPT ![r] = RowIs("pending")])
    BY <1>1, <1>6 DEF Release
  <2> QED BY <1>1, <2>1, <2>2 DEF RowsRest, ToServe, RowIs
<1>7. ~RetryWrite(p)
  BY DEF RetryWrite, InvAt
<1> QED
  BY <1>2, <1>3, <1>4, <1>5, <1>6, <1>7
  DEF Begin, Continue, InvThrows, InvEvict, CreateJob, CronStart, CancelRead, RetryRead, DeleteRead,
      RateRead, EditRead, RevokeRead, RedactStart, ListJobs, NextJob, ReadQuotaSent, ReadQuotaQueued,
      ReadJobLimit, ReadJobSent, ReadJobQueued, ReadLiveJob, SelectPending, Push, PushFails, Promote,
      RateWrite, EditWrite, RedactWrite

-----------------------------------------------------------------------------
(* Outcomes are what happened.                                             *)

\* No mail is taken by a server whose answer was lost.
Unambiguous == "ambiguous" \notin Faults

\* While it records an outcome, a consumer knows whether its recipient has a mail.
Mailed(r) == \E k \in mails : k.row = r
HonestOK(c) ==
  con[c].pc \in {"log", "mark"} /\ Exists(MyJob(c)) => (con[c].kind = "ok" <=> Mailed(con[c].msg.row))

\* The recipients of a job are staged together, and go together.
StagedTogether == \A q, r \in Rows : q[1] = r[1] /\ row[q].status = "absent" => row[r].status = "absent"

OutcomeInv == StagedTogether /\ \A c \in Consumers : HonestOK(c)

\* No consumer stages a recipient, or unstages one.
LEMMA ConsumerStages ==
  ASSUME IInv, NEW c \in Consumers, Deliver(c) \/ Consume(c) \/ Throw(c) \/ Evict(c)
  PROVE  /\ \A r \in Rows : row'[r].status = "absent" <=> row[r].status = "absent"
         /\ RowsRest \/ MarkRecipient(c)
<1>1. row \in [Rows -> RowRec] /\ con[c].msg.row \in Rows
  BY ConType DEF IInv, TablesOK
<1>2. CASE Demote(c)
  <2>1. row' = row \/ (row[con[c].msg.row].status = "queued" /\ row' = [row EXCEPT ![con[c].msg.row] = RowIs("pending")])
    BY <1>2 DEF Demote, Current
  <2> QED BY <1>1, <2>1 DEF RowsRest, ToServe, RowIs
<1>3. CASE MarkRecipient(c)
  BY <1>1, <1>3 DEF MarkRecipient, RowRec
<1>4. CASE UNCHANGED row
  BY <1>4 DEF RowsRest
<1> QED
  BY <1>2, <1>3, <1>4
  DEF Deliver, Consume, Throw, Evict, ReadJob, ReadCredential, AbortCredentialGone, ReadStaged, ReadLimit,
      CountSent, ReadWindow, AcquireSlot, ReadCurrent, AbortRedacted, SendOk, SendCredentialFailure,
      AbortBlocked, SendTransient, SendBounce, LogInsert, VerifyContact, LogFails,
      UpdateCounters, ReadFinish, MarkDone, consumed

\* What a consumer's step does to the mails.
LEMMA ConsumerMails ==
  ASSUME Once, Unambiguous, IInv, NEW c \in Consumers, Deliver(c) \/ Consume(c) \/ Throw(c) \/ Evict(c)
  PROVE  mails' = mails \/ SendOk(c)
BY DEF Deliver, Consume, Throw, Evict, ReadJob, ReadCredential, AbortCredentialGone, ReadStaged, ReadLimit,
       CountSent, ReadWindow, Demote, AcquireSlot, ReadCurrent, AbortRedacted, SendCredentialFailure,
       AbortBlocked, SendTransient, SendBounce, LogInsert, MarkRecipient, VerifyContact, LogFails,
       UpdateCounters, ReadFinish, MarkDone, consumed, Unambiguous

\* A consumer's step keeps outcomes honest.
LEMMA ConsumerOutcome ==
  ASSUME Once, Unambiguous, IInv, CredsInv, SoleInv, OutcomeInv,
         NEW c \in Consumers, Deliver(c) \/ Consume(c) \/ Throw(c) \/ Evict(c)
  PROVE  OutcomeInv'
<1>1. JobsKept /\ (\A d \in Consumers \ {c} : con'[d] = con[d]) /\ MyJob(c) \in Jobs
  BY ConsumerJobs, ConsumerMoves, ConType DEF IInv
<1>2. StagedTogether'
  BY ConsumerStages DEF OutcomeInv, StagedTogether
<1>3. \A j \in Jobs : Exists(j)' <=> Exists(j)
  BY <1>1 DEF JobsKept
<1>4. PICK x : x = [row |-> con[c].msg.row, gen |-> con[c].msg.gen, tries |-> con[c].msg.tries]
  OBVIOUS
<1>5. x.row = con[c].msg.row
  BY <1>4
<1>6. SendOk(c) => mails' = mails \union {x} /\ con[c].pc = "send"
  BY <1>4 DEF SendOk, Accepted, At
<1>7. ASSUME NEW d \in Consumers \ {c} PROVE HonestOK(d)'
  <2>1. HonestOK(d) /\ PassOK(c) /\ con'[d] = con[d] /\ MyJob(d)' = MyJob(d) /\ MyJob(d) \in Jobs
    BY <1>1, ConType DEF OutcomeInv, SoleInv, MyJob, IInv
  <2>2. CASE con[d].pc \in {"log", "mark"}
    <3>1. SendOk(c) => con[d].msg.row # con[c].msg.row
      BY <1>6, <2>1, <2>2 DEF PassOK, Delivering
    <3>2. Mailed(con[d].msg.row)' <=> Mailed(con[d].msg.row)
      <4>1. CASE mails' = mails
        BY <2>1, <4>1 DEF Mailed
      <4>2. CASE SendOk(c)
        BY <1>5, <1>6, <2>1, <3>1, <4>2 DEF Mailed
      <4> QED BY <4>1, <4>2, ConsumerMails
    <3> QED BY <1>3, <2>1, <3>2 DEF HonestOK
  <2>3. CASE con[d].pc \notin {"log", "mark"}
    BY <2>1, <2>3 DEF HonestOK
  <2> QED BY <2>2, <2>3
<1>8. HonestOK(c)'
  <2>1. CASE con'[c].pc \notin {"log", "mark"}
    BY <2>1 DEF HonestOK
  <2>2. CASE Records(c) /\ con'[c].pc \in {"log", "mark"}
    <3>1. con'[c].msg = con[c].msg /\ MyJob(c)' = MyJob(c)
      BY <2>2, RecordsFields DEF MyJob
    <3>2. CASE SendOk(c)
      <4>1. x \in mails' /\ con'[c].kind = "ok"
        BY <1>6, <2>2, <3>2, RecordsFields
      <4>2. Mailed(con[c].msg.row)'
        BY <1>5, <3>1, <4>1 DEF Mailed
      <4> QED BY <3>1, <4>1, <4>2 DEF HonestOK
    <3>3. CASE SendBounce(c)
      <4>1. con[c].pc = "send" /\ con'[c].kind # "ok" /\ mails' = mails
        BY <2>2, <3>3, RecordsFields DEF SendBounce, At, Unambiguous
      <4>2. \A k \in mails : k.row # con[c].msg.row
        BY <4>1 DEF SoleInv, PassOK, Delivering
      <4>3. ~Mailed(con[c].msg.row)'
        BY <3>1, <4>1, <4>2 DEF Mailed
      <4> QED BY <3>1, <4>1, <4>3 DEF HonestOK
    <3>4. CASE LogInsert(c)
      <4>1. con[c].pc = "log" /\ con'[c].kind = con[c].kind /\ mails' = mails
        BY <2>2, <3>4, RecordsFields DEF LogInsert, At
      <4>2. HonestOK(c) /\ (Mailed(con[c].msg.row)' <=> Mailed(con[c].msg.row))
        BY <3>1, <4>1 DEF OutcomeInv, Mailed
      <4> QED BY <1>1, <1>3, <3>1, <4>1, <4>2 DEF HonestOK
    <3>5. CASE LogFails(c)
      <4>1. ~Exists(MyJob(c))
        BY <2>2, <3>5, RecordsFields
      <4> QED BY <1>1, <1>3, <3>1, <4>1 DEF HonestOK
    <3>6. ~(MarkRecipient(c) \/ VerifyContact(c))
      BY <2>2, RecordsFields
    <3> QED BY <2>2, <3>2, <3>3, <3>4, <3>5, <3>6 DEF Records
  <2>3. Fresh(c) \/ AbortCredentialGone(c) \/ Waits(c) \/ Closes(c) => con'[c].pc \notin {"log", "mark"}
    <3>1. {"log", "mark"} \cap Early = {} /\ con \in [Consumers -> ConRec] /\ con[c] \in ConRec
      BY DEF Early, IInv, ConsOK
    <3>2. ASSUME NEW how, Return(c, how) PROVE con'[c].pc = "idle"
      BY <3>1, <3>2 DEF Return, ConIdle
    <3>3. UpdateCounters(c) => con'[c].pc = "finish"
      BY <3>1 DEF UpdateCounters, Goto, ConRec
    <3>4. Goto(c, "done") => con'[c].pc = "done"
      BY <3>1 DEF Goto, ConRec
    <3> QED BY <3>1, <3>2, <3>3, <3>4 DEF Fresh, AbortCredentialGone, Waits, Closes, MarkDone
  <2> QED BY <2>1, <2>2, <2>3, ConsumerPaths
<1> QED BY <1>2, <1>7, <1>8 DEF OutcomeInv

\* Requests and cron passes do, too.
LEMMA RequestOutcome ==
  ASSUME NoRetry, IInv, CredsInv, KnownInv, SoleInv, OutcomeInv,
         NEW p \in Invocations, Begin(p) \/ Continue(p) \/ InvThrows(p) \/ InvEvict(p)
  PROVE  OutcomeInv'
<1>1. con' = con /\ mails' = mails /\ JobsCount /\ inv[p].pc # "retry_write"
  BY RequestKeepsCreds, RequestMails, RequestCounts DEF SoleInv, ReleaseOK, CredsInv
<1>2. ASSUME NEW c \in Consumers PROVE HonestOK(c)'
  <2>1. HonestOK(c) /\ CountOK(c) /\ MyJob(c) \in Jobs /\ MyJob(c)' = MyJob(c)
    BY <1>1, ConType DEF OutcomeInv, KnownInv, IInv, MyJob
  <2>2. con[c].pc \in {"log", "mark"} /\ Exists(MyJob(c))' => Exists(MyJob(c))
    BY <1>1, <2>1 DEF JobsCount, CountOK, Busy
  <2>3. Mailed(con[c].msg.row)' <=> Mailed(con[c].msg.row)
    BY <1>1 DEF Mailed
  <2> QED BY <1>1, <2>1, <2>2, <2>3 DEF HonestOK
<1>3. StagedTogether'
  <2>1. \A r \in Rows : row \in [Rows -> RowRec]
    BY DEF IInv, TablesOK
  <2>2. CASE RowsRest
    <3>1. \A r \in Rows : row'[r].status = "absent" <=> row[r].status = "absent"
      BY <2>2 DEF RowsRest, ToServe
    <3> QED BY <3>1 DEF OutcomeInv, StagedTogether
  <2>3. CASE StageRecipients(p) /\ Exists(J(p))
    BY <2>3 DEF StageRecipients, RowIs, OutcomeInv, StagedTogether
  <2>4. CASE CancelWrite(p) \/ RevokeWrite(p)
    <3>1. PICK S : row' = CancelledRows(S)
      BY <2>4 DEF CancelWrite, RevokeWrite
    <3>2. \A r \in Rows : row'[r].status = "absent" <=> row[r].status = "absent"
      BY <3>1 DEF CancelledRows, RowIs
    <3> QED BY <3>2 DEF OutcomeInv, StagedTogether
  <2>5. CASE DeleteWrite(p)
    BY <2>5 DEF DeleteWrite, RowIs, OutcomeInv, StagedTogether
  <2> QED BY <1>1, <2>2, <2>3, <2>4, <2>5, RequestServes
<1> QED BY <1>2, <1>3 DEF OutcomeInv

LEMMA OutcomeStep ==
  ASSUME Once, NoRetry, Unambiguous, IInv, GenOK, CredsInv, CountInv, OnceInv, SoleInv, OutcomeInv, [Next]_vars
  PROVE  OutcomeInv'
<1>1. ASSUME NEW c \in Consumers, Deliver(c) \/ Consume(c) \/ Throw(c) \/ Evict(c) PROVE OutcomeInv'
  BY <1>1, ConsumerOutcome
<1>2. ASSUME NEW p \in Invocations, Begin(p) \/ Continue(p) \/ InvThrows(p) \/ InvEvict(p) PROVE OutcomeInv'
  BY <1>2, RequestOutcome DEF CountInv
<1>3. ~LeaseLapses
  BY DEF LeaseLapses, Once
<1>4. CASE NewDay \/ (\E j \in Jobs : LimitSwitches(j)) \/ UNCHANGED vars
  <2>1. UNCHANGED <<job, row, mails, con>>
    BY <1>4 DEF NewDay, LimitSwitches, vars
  <2> QED BY <2>1 DEF OutcomeInv, StagedTogether, HonestOK, Mailed, MyJob, Exists
<1> QED BY <1>1, <1>2, <1>3, <1>4 DEF Next

\* All that is known of a pipeline in which nothing is done twice.
Settling == IInv /\ GenOK /\ CredsInv /\ CountInv /\ OnceInv /\ SoleInv /\ OutcomeInv

LEMMA SettlingHolds == ASSUME Once, NoRetry, Unambiguous PROVE Spec => []Settling
<1>1. Init => IInv /\ GenOK /\ CredsInv /\ CountInv
  BY IInvInit, GenInit, CredsInit, CountInit
<1>2. Init => OnceInv /\ SoleInv /\ OutcomeInv
  <2> SUFFICES ASSUME Init PROVE OnceInv /\ SoleInv /\ OutcomeInv
    OBVIOUS
  <2>1. /\ mails = {} /\ queue = {} /\ (\A c \in Consumers : con[c].pc = "idle")
        /\ (\A p \in Invocations : inv[p].pc = "idle") /\ \A r \in Rows : row[r].status = "absent"
    BY DEF Init, ConIdle, InvIdle, RowIs
  <2> QED BY <2>1 DEF OnceInv, HeldOnce, OneMailPerClaim, Busy, SoleInv, PassOK, MailedOK, ReleaseOK,
                      OneMailPerRecipient, Delivering, InvAt, OutcomeInv, StagedTogether, HonestOK
<1>3. Settling /\ [Next]_vars => (IInv /\ GenOK /\ CredsInv /\ CountInv)'
  BY IInvStep, GenStep, CredsStep, CountStep DEF Settling
<1>4. Settling /\ [Next]_vars => (OnceInv /\ SoleInv /\ OutcomeInv)'
  BY Once, NoRetry, Unambiguous, OnceStep, SoleStep, OutcomeStep DEF Settling
<1> QED BY <1>1, <1>2, <1>3, <1>4, PTL DEF Spec, Settling

-----------------------------------------------------------------------------
(* What the user is shown, step by step.                                   *)

\* Shown, one status at a time.
ShowsAs(r, s) ==
  /\ row[r].status = "absent" => s = IF job[r[1]].status = "deleted" THEN "gone" ELSE "none"
  /\ row[r].status \in ToServe => s = "waiting"
  /\ row[r].status = "ok" => s = "sent"
  /\ row[r].status = "bounce" => s = "failed"
  /\ row[r].status = "cancelled" => s = "cancelled"

LEMMA ShownIs == ASSUME NEW r \in Rows PROVE ShowsAs(r, Shown(r)) /\ ShowsAs(r, Shown(r))'
<1>1. ShowsAs(r, Shown(r))
  BY ZenonT(60) DEF ShowsAs, Shown, ToServe
<1>2. ShowsAs(r, Shown(r))'
  BY ZenonT(60) DEF ShowsAs, Shown, ToServe
<1> QED BY <1>1, <1>2

\* A recipient that waits on, claimed or not, or keeps its status, is shown as before.
LEMMA ShownKeeps ==
  ASSUME IInv, NEW r \in Rows, row'[r].status = row[r].status \/ (row[r].status \in ToServe /\ row'[r].status \in ToServe),
         row[r].status = "absent" => (job'[r[1]].status = "deleted" <=> job[r[1]].status = "deleted")
  PROVE  Shown(r)' = Shown(r)
<1>1. ShowsAs(r, Shown(r)) /\ ShowsAs(r, Shown(r))'
  BY ShownIs
<1>2. row[r].status \in {"absent", "ok", "bounce", "cancelled"} \union ToServe
  BY DEF IInv, TablesOK, RowRec, RowStatus, ToServe
<1>3. CASE row[r].status \in ToServe
  <2>1. row'[r].status \in ToServe
    BY <1>3
  <2> QED BY <1>1, <1>3, <2>1 DEF ShowsAs
<1>4. CASE row[r].status = "absent"
  <2>1. row'[r].status = "absent"
    BY <1>4 DEF ToServe
  <2> QED BY <1>1, <1>4, <2>1 DEF ShowsAs
<1>5. CASE row[r].status \in {"ok", "bounce", "cancelled"}
  <2>1. row'[r].status = row[r].status
    BY <1>5 DEF ToServe
  <2> QED BY <1>1, <1>5, <2>1 DEF ShowsAs
<1> QED BY <1>2, <1>3, <1>4, <1>5

\* How many mails a recipient has.
Taken(r) == Cardinality({m \in mails : m.row = r})

LEMMA TakenIs ==
  ASSUME OneMailPerRecipient, NEW r \in Rows
  PROVE  (Mailed(r) => Taken(r) = 1) /\ (~Mailed(r) => Taken(r) = 0)
<1>1. CASE Mailed(r)
  <2>1. PICK m \in mails : m.row = r
    BY <1>1 DEF Mailed
  <2>2. {k \in mails : k.row = r} = {m}
    BY <2>1 DEF OneMailPerRecipient
  <2> QED BY <1>1, <2>2, FS_Singleton DEF Taken
<1>2. CASE ~Mailed(r)
  <2>1. {k \in mails : k.row = r} = {}
    BY <1>2 DEF Mailed
  <2> QED BY <1>2, <2>1, FS_EmptySet DEF Taken
<1> QED BY <1>1, <1>2

\* The state of MailDelivery.
Phase == [r \in Rows |-> Shown(r)]
Accepts == [r \in Rows |-> Taken(r)]

LEMMA StepStutters ==
  ASSUME \A r \in Rows : Shown(r)' = Shown(r), mails' = mails
  PROVE  UNCHANGED <<Phase, Accepts>>
BY DEF Phase, Accepts, Taken

\* A server takes the mail of a recipient that waits, or did until its job was
\* cancelled or deleted.
LEMMA SendMaps ==
  ASSUME Settling, NEW c \in Consumers, SendOk(c)
  PROVE  Mailing!Accept(con[c].msg.row)
<1>1. PICK r \in Rows : r = con[c].msg.row /\ r[1] \in Jobs /\ MyJob(c) = r[1]
  BY ConType DEF Settling, IInv, MyJob
<1>2. con[c].pc = "send" /\ UNCHANGED <<row, job>>
  BY DEF SendOk, At
<1>3. PICK x : x.row = r /\ mails' = mails \union {x}
  <2>1. PICK x : x = [row |-> con[c].msg.row, gen |-> con[c].msg.gen, tries |-> con[c].msg.tries]
    OBVIOUS
  <2>2. x.row = r
    BY <1>1, <2>1
  <2> QED BY <2>1, <2>2 DEF SendOk, Accepted
<1>4. ~Mailed(r) /\ (Exists(r[1]) => Current(con[c].msg) \/ row[r].status = "cancelled")
  BY <1>1, <1>2 DEF Settling, SoleInv, PassOK, Delivering, Mailed
<1>5. Shown(r) \in {"waiting", "cancelled", "gone"}
  <2>1. ShowsAs(r, Shown(r))
    BY <1>1, ShownIs
  <2>2. CASE Exists(r[1])
    BY <1>1, <1>4, <2>1, <2>2 DEF ShowsAs, Current, ToServe
  <2>3. CASE ~Exists(r[1])
    <3>1. row[r].status = "absent"
      BY <1>1, <2>3 DEF Settling, CredsInv, RowsOK
    <3>2. job[r[1]].status # "none"
      BY <1>1, <1>2 DEF Settling, CountInv, KnownInv, CountOK, Busy
    <3>3. job[r[1]].status \in JobStatus
      BY <1>1 DEF Settling, IInv, TablesOK, JobGood, JobRec
    <3>4. job[r[1]].status = "deleted"
      BY <2>3, <3>2, <3>3 DEF Exists, JobStatus
    <3> QED BY <2>1, <3>1, <3>4 DEF ShowsAs
  <2> QED BY <2>2, <2>3
<1>6. Taken(r) = 0 /\ Taken(r)' = 1
  <2>1. {m \in mails' : m.row = r} = {x}
    BY <1>3, <1>4 DEF Mailed
  <2>2. Taken(r)' = 1
    BY <2>1, FS_Singleton DEF Taken
  <2>3. Taken(r) = 0
    BY <1>1, <1>4, TakenIs DEF Settling, SoleInv
  <2> QED BY <2>2, <2>3
<1>7. ASSUME NEW q \in Rows PROVE Shown(q)' = Shown(q) /\ (q # r => Taken(q)' = Taken(q))
  <2>1. Shown(q)' = Shown(q)
    BY <1>2, <1>7, ShownKeeps DEF Settling
  <2>2. q # r => {m \in mails' : m.row = q} = {m \in mails : m.row = q}
    BY <1>3
  <2> QED BY <2>1, <2>2 DEF Taken
<1>8. Mailing!Accept(r)
  BY <1>5, <1>6, <1>7 DEF Mailing!Accept, Taken
<1> QED BY <1>1, <1>8

\* The outcome of an attempt is shown, and is what happened.
LEMMA MarkMaps ==
  ASSUME Once, Settling, NEW c \in Consumers, MarkRecipient(c)
  PROVE  Mailing!Report(con[c].msg.row) \/ UNCHANGED <<Phase, Accepts>>
<1>1. PICK r \in Rows : r = con[c].msg.row /\ r[1] \in Jobs /\ MyJob(c) = r[1]
  BY ConType DEF Settling, IInv, MyJob
<1>2. con[c].pc = "mark" /\ UNCHANGED <<mails, job>> /\ row \in [Rows -> RowRec]
  BY DEF MarkRecipient, At, Settling, IInv, TablesOK
<1>3. CASE row[r].status = "absent"
  <2>1. row' = row
    BY <1>1, <1>3 DEF MarkRecipient
  <2> QED BY <1>2, <2>1, ShownKeeps, StepStutters DEF Settling
<1>4. CASE row[r].status # "absent"
  <2>1. Exists(r[1])
    BY <1>4 DEF Settling, CredsInv, RowsOK
  <2>2. Current(con[c].msg) \/ row[r].status = "cancelled"
    BY <1>1, <1>2, <2>1 DEF Settling, SoleInv, PassOK, Delivering
  <2>3. Shown(r) \in {"waiting", "cancelled"}
    BY <1>1, <2>2, ShownIs DEF ShowsAs, Current, ToServe
  <2>4. con[c].kind = "ok" <=> Mailed(r)
    BY <1>1, <1>2, <2>1 DEF Settling, OutcomeInv, HonestOK
  <2>5. Taken(r) = IF con[c].kind = "ok" THEN 1 ELSE 0
    BY <2>4, TakenIs DEF Settling, SoleInv
  <2>6. PICK s : s = IF con[c].kind = "ok" THEN "ok" ELSE "bounce"
    OBVIOUS
  <2>7. row' = [row EXCEPT ![r].status = s]
    BY <1>1, <1>4, <2>6 DEF MarkRecipient
  <2>8. row'[r].status = s /\ \A q \in Rows \ {r} : row'[q] = row[q]
    BY <1>2, <2>7 DEF RowRec
  <2>9. Shown(r)' = IF Taken(r) = 1 THEN "sent" ELSE "failed"
    BY <2>5, <2>6, <2>8, ShownIs DEF ShowsAs
  <2>10. ASSUME NEW q \in Rows \ {r} PROVE Shown(q)' = Shown(q)
    BY <1>2, <2>8, <2>10, ShownKeeps DEF Settling
  <2>11. \A q \in Rows : Taken(q)' = Taken(q)
    BY <1>2 DEF Taken
  <2>12. Mailing!Report(r)
    BY <2>3, <2>9, <2>10, <2>11 DEF Mailing!Report, Taken
  <2> QED BY <1>1, <2>12
<1> QED BY <1>3, <1>4

\* Everything else a consumer does goes unseen.
LEMMA ConsumerMaps ==
  ASSUME Once, Unambiguous, Settling, NEW c \in Consumers, Deliver(c) \/ Consume(c) \/ Throw(c) \/ Evict(c)
  PROVE  Mailing!Next \/ UNCHANGED <<Phase, Accepts>>
<1>1. con[c].msg.row \in Rows
  BY ConType DEF Settling, IInv
<1>2. CASE SendOk(c)
  BY <1>1, <1>2, SendMaps DEF Mailing!Next
<1>3. CASE MarkRecipient(c)
  BY <1>1, <1>3, MarkMaps DEF Mailing!Next
<1>4. CASE mails' = mails /\ RowsRest
  <2>1. JobsKept /\ \A r \in Rows : row'[r].status = "absent" <=> row[r].status = "absent"
    BY ConsumerStages, ConsumerJobs DEF Settling
  <2>2. ASSUME NEW r \in Rows PROVE Shown(r)' = Shown(r)
    <3>1. r[1] \in Jobs /\ RowsOK /\ RowsOK'
      BY RowParts, ConsumerRows DEF Settling, CredsInv
    <3>2. IInv /\ job[r[1]].status \in JobStatus
      BY <3>1 DEF Settling, IInv, TablesOK, JobGood, JobRec
    <3>3. job'[r[1]].status \in JobStatus
      <4>1. IInv' 
        BY IInvStep DEF Settling, Next
      <4> QED BY <3>1, <4>1 DEF IInv, TablesOK, JobGood, JobRec
    <3>4. job'[r[1]].status = "deleted" <=> job[r[1]].status = "deleted"
      BY <2>1, <3>1, <3>2, <3>3 DEF JobsKept, Exists, JobStatus, Active, Final
    <3> QED BY <1>4, <2>2, <3>2, <3>4, ShownKeeps DEF RowsRest
  <2> QED BY <1>4, <2>2, StepStutters
<1> QED BY <1>2, <1>3, <1>4, ConsumerMails, ConsumerStages DEF Settling

-----------------------------------------------------------------------------
(* Requests and cron passes, as the user sees them.                        *)

\* The recipients of jobs are cancelled, ...
LEMMA CancelMaps ==
  ASSUME IInv, NEW S, row' = CancelledRows(S), mails' = mails,
         \A j \in Jobs : job'[j].status = "deleted" <=> job[j].status = "deleted"
  PROVE  Mailing!Cancel({r \in Rows : r[1] \in S})
<1> DEFINE T == {r \in Rows : r[1] \in S}
<1>1. ASSUME NEW q \in Rows PROVE q[1] \in {s[1] : s \in T} <=> q[1] \in S
  OBVIOUS
<1>2. ASSUME NEW q \in Rows PROVE Shown(q)' = IF q[1] \in S /\ Shown(q) = "waiting" THEN "cancelled" ELSE Shown(q)
  <2>1. ShowsAs(q, Shown(q)) /\ ShowsAs(q, Shown(q))' /\ q[1] \in Jobs
    BY ShownIs, RowParts
  <2>2. row[q].status \in {"absent", "ok", "bounce", "cancelled"} \union ToServe
    BY DEF IInv, TablesOK, RowRec, RowStatus, ToServe
  <2>3. Shown(q) = "waiting" <=> row[q].status \in ToServe
    BY <2>1, <2>2 DEF ShowsAs
  <2>4. CASE q[1] \in S /\ row[q].status \in ToServe
    <3>1. row'[q].status = "cancelled"
      BY <2>4 DEF CancelledRows, RowIs, ToServe
    <3> QED BY <2>1, <2>3, <2>4, <3>1 DEF ShowsAs
  <2>5. CASE ~(q[1] \in S /\ row[q].status \in ToServe)
    <3>1. row'[q] = row[q]
      BY <2>5 DEF CancelledRows, ToServe
    <3>2. Shown(q)' = Shown(q)
      BY <2>1, <3>1, ShownKeeps
    <3> QED BY <2>3, <2>5, <3>2
  <2> QED BY <2>4, <2>5
<1> QED BY <1>1, <1>2 DEF Mailing!Cancel

\* ... go with their job, ...
LEMMA DeleteMaps ==
  ASSUME IInv, NEW p \in Invocations, DeleteWrite(p)
  PROVE  \E r \in Rows : Mailing!Delete(r)
<1>1. PICK j \in Jobs : j = J(p)
  BY DEF IInv, InvsOK, InvGood, InvRec, J
<1>2. PICK e \in Emails : e = 1
  BY SizesAssumption DEF Emails
<1>3. <<j, e>> \in Rows
  BY DEF Rows
<1>4. /\ job' = [job EXCEPT ![j] = [NoJob EXCEPT !.status = "deleted"]] /\ mails' = mails
      /\ row' = [r \in Rows |-> IF r[1] = j THEN RowIs("absent") ELSE row[r]]
  BY <1>1 DEF DeleteWrite, requested
<1>5. job'[j].status = "deleted" /\ \A i \in Jobs \ {j} : job'[i] = job[i]
  BY <1>4 DEF IInv, TablesOK, NoJob
<1>6. ASSUME NEW q \in Rows PROVE Shown(q)' = IF q[1] = j THEN "gone" ELSE Shown(q)
  <2>1. q[1] \in Jobs
    BY RowParts
  <2>2. CASE q[1] = j
    <3>1. row'[q].status = "absent"
      BY <1>4, <2>2 DEF RowIs
    <3> QED BY <1>5, <2>2, <3>1, ShownIs DEF ShowsAs
  <2>3. CASE q[1] # j
    BY <1>4, <1>5, <2>1, <2>3, ShownKeeps
  <2> QED BY <2>2, <2>3
<1>7. Mailing!Delete(<<j, e>>)
  BY <1>3, <1>4, <1>6 DEF Mailing!Delete
<1> QED BY <1>3, <1>7

\* ... or are staged with it, all or none.
LEMMA StageMaps ==
  ASSUME Settling, NEW p \in Invocations, StageRecipients(p), Exists(J(p))
  PROVE  Mailing!Next \/ UNCHANGED <<Phase, Accepts>>
<1>1. PICK j \in Jobs : j = J(p)
  BY DEF Settling, IInv, InvsOK, InvGood, InvRec, J
<1>2. /\ row' = [r \in Rows |-> IF r[1] = j /\ row[r].status = "absent" THEN RowIs("pending") ELSE row[r]]
      /\ UNCHANGED <<mails, job>> /\ job[j].status # "deleted"
  BY <1>1 DEF StageRecipients, requested, Exists, Active, Final
<1>3. CASE \E r \in Rows : r[1] = j /\ row[r].status = "absent"
  <2>1. PICK r \in Rows : r[1] = j /\ row[r].status = "absent"
    BY <1>3
  <2>2. ASSUME NEW q \in Rows PROVE Shown(q)' = IF q[1] = j THEN "waiting" ELSE Shown(q)
    <3>1. CASE q[1] = j
      <4>1. row[q].status = "absent"
        BY <2>1, <3>1 DEF Settling, OutcomeInv, StagedTogether
      <4>2. row'[q].status = "pending"
        BY <1>2, <3>1, <4>1 DEF RowIs
      <4> QED BY <3>1, <4>2, ShownIs DEF ShowsAs, ToServe
    <3>2. CASE q[1] # j
      BY <1>2, <3>2, ShownKeeps DEF Settling
    <3> QED BY <3>1, <3>2
  <2>3. Shown(r) = "none"
    BY <1>2, <2>1, ShownIs DEF ShowsAs
  <2>4. Mailing!Stage(r)
    BY <1>2, <2>1, <2>2, <2>3 DEF Mailing!Stage
  <2> QED BY <2>4 DEF Mailing!Next
<1>4. CASE ~ \E r \in Rows : r[1] = j /\ row[r].status = "absent"
  <2>1. \A r \in Rows : row'[r] = row[r]
    BY <1>2, <1>4
  <2> QED BY <1>2, <2>1, ShownKeeps, StepStutters DEF Settling
<1> QED BY <1>3, <1>4

LEMMA RequestMaps ==
  ASSUME Settling, NEW p \in Invocations, Begin(p) \/ Continue(p) \/ InvThrows(p) \/ InvEvict(p)
  PROVE  Mailing!Next \/ UNCHANGED <<Phase, Accepts>>
<1>1. mails' = mails /\ inv[p].pc # "retry_write" /\ JobsSettle(p)
  BY RequestMails, RequestJobs DEF Settling, SoleInv, ReleaseOK
<1>2. CASE DeleteWrite(p)
  BY <1>2, DeleteMaps DEF Settling, Mailing!Next
<1>3. ASSUME ~DeleteWrite(p) PROVE \A j \in Jobs : job'[j].status = "deleted" <=> job[j].status = "deleted"
  BY <1>1, <1>3 DEF JobsSettle
<1>4. CASE ~DeleteWrite(p) /\ RowsRest
  <2>1. \A r \in Rows : Shown(r)' = Shown(r)
    BY <1>3, <1>4, RowParts, ShownKeeps DEF RowsRest, Settling
  <2> QED BY <1>1, <2>1, StepStutters
<1>5. CASE StageRecipients(p) /\ Exists(J(p))
  BY <1>5, StageMaps
<1>6. CASE CancelWrite(p) \/ RevokeWrite(p)
  <2>1. PICK S : row' = CancelledRows(S)
    BY <1>6 DEF CancelWrite, RevokeWrite
  <2>2. ~DeleteWrite(p)
    BY <1>6 DEF CancelWrite, RevokeWrite, DeleteWrite, InvAt
  <2>3. Mailing!Cancel({r \in Rows : r[1] \in S})
    BY <1>1, <1>3, <2>1, <2>2, CancelMaps DEF Settling
  <2>4. {r \in Rows : r[1] \in S} \in SUBSET Rows
    OBVIOUS
  <2> QED BY <2>3, <2>4 DEF Mailing!Next
<1> QED BY <1>1, <1>2, <1>4, <1>5, <1>6, RequestServes DEF Settling

\* The pipeline implements MailDelivery: a recipient is mailed once at most, is
\* shown as sent only after a server took the mail and as failed only when none
\* did, and keeps what was shown, whatever is claimed, released, recovered,
\* demoted, cancelled, revoked or deleted in between; given that each message is
\* worked on once and to its end, that a push that fails took no message, that
\* nobody retries, that no attempt is under way for two hours, and that no answer
\* of a server is lost (send.ts:180-342, send-queue.ts:31-62).
THEOREM PipelineImplementsMailDelivery ==
  ASSUME Once, NoRetry, Unambiguous PROVE Spec => ImplementsMailDelivery
<1>1. Init => Mailing!Init
  <2> SUFFICES ASSUME Init PROVE Mailing!Init
    OBVIOUS
  <2>1. ASSUME NEW r \in Rows PROVE Shown(r) = "none" /\ Taken(r) = 0
    <3>1. r[1] \in Jobs /\ ShowsAs(r, Shown(r))
      BY RowParts, ShownIs
    <3>2. row[r].status = "absent" /\ job[r[1]].status # "deleted"
      BY <3>1 DEF Init, RowIs, NoJob
    <3>3. mails = {}
      BY DEF Init
    <3>4. {m \in mails : m.row = r} = {}
      BY <3>3
    <3> QED BY <3>1, <3>2, <3>4, FS_EmptySet DEF ShowsAs, Taken
  <2> QED BY <2>1 DEF Mailing!Init, Taken
<1>2. Settling /\ [Next]_vars =>
        [Mailing!Next]_<<[r \in Rows |-> Shown(r)], [r \in Rows |-> Cardinality({m \in mails : m.row = r})]>>
  <2> SUFFICES ASSUME Settling, [Next]_vars PROVE Mailing!Next \/ UNCHANGED <<Phase, Accepts>>
    BY DEF Phase, Accepts, Taken
  <2>1. ASSUME NEW c \in Consumers, Deliver(c) \/ Consume(c) \/ Throw(c) \/ Evict(c)
        PROVE  Mailing!Next \/ UNCHANGED <<Phase, Accepts>>
    BY Once, Unambiguous, <2>1, ConsumerMaps
  <2>2. ASSUME NEW p \in Invocations, Begin(p) \/ Continue(p) \/ InvThrows(p) \/ InvEvict(p)
        PROVE  Mailing!Next \/ UNCHANGED <<Phase, Accepts>>
    BY <2>2, RequestMaps
  <2>3. ~LeaseLapses
    BY Once DEF LeaseLapses, Once
  <2>4. CASE NewDay \/ (\E j \in Jobs : LimitSwitches(j)) \/ UNCHANGED vars
    <3>1. UNCHANGED <<job, row, mails>>
      BY <2>4 DEF NewDay, LimitSwitches, vars
    <3> QED BY <3>1, ShownKeeps, StepStutters DEF Settling
  <2> QED BY <2>1, <2>2, <2>3, <2>4 DEF Next
<1> QED BY Once, NoRetry, Unambiguous, SettlingHolds, <1>1, <1>2, PTL DEF Spec, ImplementsMailDelivery, Mailing!Spec

\* What the user is shown is what happened.
OutcomesHonest ==
  \A r \in Rows : /\ Taken(r) \in {0, 1}
                  /\ Shown(r) = "sent" => Taken(r) = 1
                  /\ Shown(r) = "failed" => Taken(r) = 0

\* What MailDelivery keeps, the pipeline does: a recipient that is shown as sent
\* has exactly one mail and one that is shown as failed has none, at every moment
\* and not only when the outcome is recorded (send-queue.ts:48-49, 58).
THEOREM ShownIsWhatHappened == ASSUME Once, NoRetry, Unambiguous PROVE Spec => []OutcomesHonest
<1>1. Mailing!Init => OutcomesHonest
  <2> SUFFICES ASSUME Mailing!Init, NEW r \in Rows PROVE Shown(r) = "none" /\ Taken(r) = 0
    BY DEF OutcomesHonest
  <2> QED BY DEF Mailing!Init, Taken
<1>2. OutcomesHonest /\ [Mailing!Next]_<<[r \in Rows |-> Shown(r)], [r \in Rows |-> Cardinality({m \in mails : m.row = r})]>>
        => OutcomesHonest'
  <2> SUFFICES ASSUME OutcomesHonest, Mailing!Next \/ UNCHANGED <<Phase, Accepts>>, NEW q \in Rows
               PROVE  /\ Taken(q)' \in {0, 1} /\ (Shown(q)' = "sent" => Taken(q)' = 1)
                      /\ (Shown(q)' = "failed" => Taken(q)' = 0)
    BY DEF OutcomesHonest, Phase, Accepts, Taken
  <2>1. Taken(q) \in {0, 1} /\ (Shown(q) = "sent" => Taken(q) = 1) /\ (Shown(q) = "failed" => Taken(q) = 0)
    BY DEF OutcomesHonest
  <2>2. CASE UNCHANGED <<Phase, Accepts>>
    <3>1. Phase[q]' = Phase[q] /\ Accepts[q]' = Accepts[q]
      BY <2>2
    <3> QED BY <2>1, <3>1 DEF Phase, Accepts
  <2>3. ASSUME NEW r \in Rows, Mailing!Stage(r) PROVE Taken(q)' = Taken(q) /\ Shown(q)' \in {Shown(q), "waiting"}
    BY <2>3 DEF Mailing!Stage, Taken
  <2>4. ASSUME NEW S, Mailing!Cancel(S) PROVE Taken(q)' = Taken(q) /\ Shown(q)' \in {Shown(q), "cancelled"}
    BY <2>4 DEF Mailing!Cancel, Taken
  <2>5. ASSUME NEW r \in Rows, Mailing!Delete(r) PROVE Taken(q)' = Taken(q) /\ Shown(q)' \in {Shown(q), "gone"}
    BY <2>5 DEF Mailing!Delete, Taken
  <2>6. ASSUME NEW r \in Rows, Mailing!Accept(r)
        PROVE  Shown(q)' = Shown(q) /\ (Taken(q)' = Taken(q) \/ (Taken(q)' = 1 /\ Shown(q) # "failed"))
    BY <2>6 DEF Mailing!Accept, Taken
  <2>7. ASSUME NEW r \in Rows, Mailing!Report(r)
        PROVE  /\ Taken(q)' = Taken(q)
               /\ Shown(q)' = Shown(q) \/ Shown(q)' = IF Taken(q) = 1 THEN "sent" ELSE "failed"
    BY <2>7 DEF Mailing!Report, Taken
  <2> QED BY <2>1, <2>2, <2>3, <2>4, <2>5, <2>6, <2>7 DEF Mailing!Next
<1> QED
  BY Once, NoRetry, Unambiguous, PipelineImplementsMailDelivery, <1>1, <1>2, PTL DEF ImplementsMailDelivery, Mailing!Spec

-----------------------------------------------------------------------------
(* Whose recipient it is, even when consumers fail and die over it.        *)

\* A message is with one consumer at a time.
OneHolder == "redeliver" \notin Faults

\* A consumer past its last check has the recipient to itself, and works on the
\* current attempt until its outcome is in the row, unless the job is cancelled or
\* deleted meanwhile.
AtWork(r) == r.pc \in {"send", "log", "mark", "contact"}
HasOutcome(r) == row[r].status \in {"ok", "bounce"}
WorksOK(c) ==
  LET r == con[c].msg.row IN
  AtWork(con[c]) =>
    /\ Exists(r[1]) => \/ Current(con[c].msg) \/ row[r].status = "cancelled"
                       \/ con[c].pc # "send" /\ HasOutcome(r)
    /\ \A d \in Consumers \ {c} : AtWork(con[d]) => con[d].msg.row # r

HoldInv == HeldOnce /\ (\A c \in Consumers : WorksOK(c)) /\ \A p \in Invocations : ReleaseOK(p)

\* What a consumer's step does to the recipients.
LEMMA ConsumerTouches ==
  ASSUME IInv, NEW c \in Consumers, Deliver(c) \/ Consume(c) \/ Throw(c) \/ Evict(c), NEW r \in Rows,
         r = con[c].msg.row
  PROVE  /\ \A q \in Rows \ {r} : row'[q] = row[q]
         /\ \/ row'[r] = row[r]
            \/ con[c].pc = "demote" /\ Current(con[c].msg)
            \/ MarkRecipient(c) /\ row[r].status # "absent" /\ HasOutcome(r)'
         /\ MarkRecipient(c) => con[c].pc = "mark" /\ (row[r].status = "absent" \/ HasOutcome(r)')
<1>1. row \in [Rows -> RowRec]
  BY DEF IInv, TablesOK
<1>2. CASE Demote(c)
  <2>1. con[c].pc = "demote" /\ row' = IF Current(con[c].msg) THEN [row EXCEPT ![r] = RowIs("pending")] ELSE row
    BY <1>2 DEF Demote, At
  <2> QED BY <1>1, <2>1 DEF MarkRecipient, At
<1>3. CASE MarkRecipient(c)
  <2>1. PICK s \in {"ok", "bounce"} : s = IF con[c].kind = "ok" THEN "ok" ELSE "bounce"
    OBVIOUS
  <2>2. con[c].pc = "mark" /\ row' = IF row[r].status = "absent" THEN row ELSE [row EXCEPT ![r].status = s]
    BY <1>3, <2>1 DEF MarkRecipient, At
  <2> QED BY <1>1, <1>3, <2>1, <2>2 DEF RowRec, HasOutcome
<1>4. CASE UNCHANGED row /\ ~MarkRecipient(c)
  BY <1>4
<1> QED
  BY <1>2, <1>3, <1>4
  DEF Deliver, Consume, Throw, Evict, ReadJob, ReadCredential, AbortCredentialGone, ReadStaged, ReadLimit,
      CountSent, ReadWindow, AcquireSlot, ReadCurrent, AbortRedacted, SendOk, SendCredentialFailure,
      AbortBlocked, SendTransient, SendBounce, LogInsert, VerifyContact, LogFails,
      UpdateCounters, ReadFinish, MarkDone, consumed

\* Nobody is at work on a recipient whose current attempt is somebody else's.
LEMMA CurrentAlone ==
  ASSUME IInv, RowsOK, HoldInv, NEW c \in Consumers, Busy(c), Current(con[c].msg),
         NEW d \in Consumers \ {c}, AtWork(con[d])
  PROVE  con[d].msg.row # con[c].msg.row
<1> SUFFICES ASSUME con[d].msg.row = con[c].msg.row PROVE FALSE
  OBVIOUS
<1>1. PICK r \in Rows : r = con[c].msg.row
  BY ConType DEF IInv
<1>2. row[r].status = "queued" /\ row[r].queuedAt = con[c].msg.gen /\ Exists(r[1])
  BY <1>1 DEF Current, RowsOK
<1>3. Busy(d) /\ WorksOK(d)
  BY DEF HoldInv, AtWork, Busy
<1>4. row[r].queuedAt = con[d].msg.gen
  BY <1>1, <1>2, <1>3 DEF WorksOK, Current, HasOutcome
<1> QED BY <1>2, <1>3, <1>4 DEF HoldInv, HeldOnce

\* How a consumer comes to be at work, and stays so.
LEMMA ConsumerAtWork ==
  ASSUME IInv, NEW c \in Consumers, Deliver(c) \/ Consume(c) \/ Throw(c) \/ Evict(c), AtWork(con'[c])
  PROVE  /\ con'[c].msg = con[c].msg /\ Busy(c)
         /\ \/ Records(c) /\ AtWork(con[c]) /\ con'[c].pc # "send"
            \/ con[c].pc = "current" /\ Current(con[c].msg) /\ con'[c].pc = "send"
<1>1. con \in [Consumers -> ConRec] /\ con[c] \in ConRec
  BY DEF IInv, ConsOK
<1>2. con'[c].pc \in {"send", "log", "mark", "contact"}
  BY DEF AtWork
<1>3. ~Fresh(c)
  BY <1>2 DEF Fresh
<1>4. ~(AbortCredentialGone(c) \/ Closes(c))
  <2>1. ASSUME NEW how PROVE ~Return(c, how)
    BY <1>1, <1>2 DEF Return, ConIdle
  <2>2. ~UpdateCounters(c)
    BY <1>1, <1>2 DEF UpdateCounters, Goto, ConRec
  <2>3. ~Goto(c, "done")
    BY <1>1, <1>2 DEF Goto, ConRec
  <2> QED BY <2>1, <2>2, <2>3 DEF AbortCredentialGone, Closes, MarkDone
<1>5. CASE Waits(c)
  <2>1. con'[c].pc = "send"
    BY <1>2, <1>5 DEF Waits, Early
  <2> QED BY <1>5, <2>1 DEF Waits, Busy
<1>6. CASE Records(c)
  <2>1. /\ con'[c].msg = con[c].msg /\ con[c].pc \in {"send", "log", "mark", "contact"}
        /\ con'[c].pc \in {"log", "mark", "contact", "counters"}
    BY <1>6, RecordsFields
  <2> QED BY <1>6, <2>1 DEF AtWork, Busy
<1> QED BY <1>3, <1>4, <1>5, <1>6, ConsumerPaths

\* Consumers do not get in each other's way, ...
LEMMA ConsumerHolds ==
  ASSUME IInv, RowsOK, KnownInv, HoldInv, NEW c \in Consumers, Deliver(c) \/ Consume(c) \/ Throw(c) \/ Evict(c)
  PROVE  HoldInv'
<1>1. JobsKept /\ \A d \in Consumers \ {c} : con'[d] = con[d]
  BY ConsumerJobs, ConsumerMoves
<1>2. \A d \in Consumers : con[d].msg.row \in Rows /\ con[d].msg.row[1] \in Jobs /\ WorksOK(d)
  BY ConType, RowParts DEF IInv, HoldInv
<1>3. PICK r \in Rows : r = con[c].msg.row
  BY <1>2
<1>4. /\ \A q \in Rows \ {r} : row'[q] = row[q]
      /\ \/ row'[r] = row[r]
         \/ con[c].pc = "demote" /\ Current(con[c].msg)
         \/ MarkRecipient(c) /\ con[c].pc = "mark" /\ HasOutcome(r)'
  BY <1>3, ConsumerTouches
<1>5. AtWork(con'[c]) =>
        /\ con'[c].msg = con[c].msg /\ Busy(c)
        /\ \/ AtWork(con[c]) /\ con'[c].pc # "send"
           \/ con[c].pc = "current" /\ Current(con[c].msg) /\ con'[c].pc = "send"
  BY ConsumerAtWork
<1>6. ASSUME NEW d \in Consumers \ {c}, AtWork(con[d]) PROVE WorksOK(d)'
  <2>1. WorksOK(d) /\ con'[d] = con[d]
    BY <1>1, <1>2
  <2>2. PICK q \in Rows : q = con[d].msg.row
    BY <1>2
  <2>3. row'[q] = row[q]
    <3>1. con[c].pc = "demote" /\ Current(con[c].msg) => q # r
      BY <1>3, <1>6, <2>2, CurrentAlone DEF Busy
    <3>2. con[c].pc = "mark" => q # r
      BY <1>3, <1>6, <2>1, <2>2 DEF WorksOK, AtWork
    <3> QED BY <1>4, <3>1, <3>2
  <2>4. Exists(q[1])' <=> Exists(q[1])
    BY <1>1, <1>2, <2>2 DEF JobsKept
  <2>5. Exists(q[1]) => Current(con[d].msg) \/ row[q].status = "cancelled" \/ (con[d].pc # "send" /\ HasOutcome(q))
    BY <1>6, <2>1, <2>2 DEF WorksOK
  <2>6. ASSUME NEW e \in Consumers \ {d}, AtWork(con'[e]) PROVE con'[e].msg.row # q
    <3>1. CASE e # c
      BY <1>1, <1>6, <2>1, <2>2, <2>6, <3>1 DEF WorksOK
    <3>2. CASE e = c
      <4>1. CASE AtWork(con[c])
        BY <1>5, <1>6, <2>1, <2>2, <2>6, <3>2, <4>1 DEF WorksOK
      <4>2. CASE Busy(c) /\ Current(con[c].msg)
        BY <1>5, <1>6, <2>2, <2>6, <3>2, <4>2, CurrentAlone
      <4> QED BY <1>5, <2>6, <3>2, <4>1, <4>2
    <3> QED BY <3>1, <3>2
  <2> QED BY <2>1, <2>2, <2>3, <2>4, <2>5, <2>6 DEF WorksOK, Current, HasOutcome
<1>7. ASSUME AtWork(con'[c]) PROVE WorksOK(c)'
  <2>1. con'[c].msg = con[c].msg /\ (Exists(r[1])' <=> Exists(r[1]))
    BY <1>1, <1>2, <1>3, <1>5, <1>7 DEF JobsKept
  <2>2. CASE AtWork(con[c]) /\ con'[c].pc # "send"
    <3>1. \A e \in Consumers \ {c} : AtWork(con'[e]) => con'[e].msg.row # r
      BY <1>1, <1>2, <1>3, <2>2 DEF WorksOK
    <3>2. Exists(r[1]) => Current(con[c].msg) \/ row[r].status = "cancelled" \/ HasOutcome(r)
      BY <1>2, <1>3, <2>2 DEF WorksOK
    <3>3. row'[r] = row[r] \/ HasOutcome(r)'
      BY <1>4, <2>2 DEF AtWork
    <3> QED BY <1>3, <2>1, <2>2, <3>1, <3>2, <3>3 DEF WorksOK, Current, HasOutcome
  <2>3. CASE con[c].pc = "current" /\ Current(con[c].msg)
    <3>1. \A e \in Consumers \ {c} : AtWork(con'[e]) => con'[e].msg.row # r
      BY <1>1, <1>3, <2>3, CurrentAlone DEF Busy
    <3>2. row'[r] = row[r]
      BY <1>4, <2>3
    <3> QED BY <1>3, <2>1, <2>3, <3>1, <3>2 DEF WorksOK, Current
  <2> QED BY <1>5, <1>7, <2>2, <2>3
<1>8. \A d \in Consumers : WorksOK(d)'
  <2> SUFFICES ASSUME NEW d \in Consumers, AtWork(con'[d]) PROVE WorksOK(d)'
    BY DEF WorksOK
  <2>1. CASE d = c
    BY <1>7, <2>1
  <2>2. CASE d # c
    BY <1>1, <1>6, <2>2
  <2> QED BY <2>1, <2>2
<1> QED BY <1>8, ConsumerHeld, ConsumerReleases DEF HoldInv

\* ... and requests take a recipient from nobody.
LEMMA RequestHolds ==
  ASSUME NoRetry, IInv, GenOK, RowsOK, KnownInv, HoldInv,
         NEW p \in Invocations, Begin(p) \/ Continue(p) \/ InvThrows(p) \/ InvEvict(p)
  PROVE  HoldInv'
<1>1. con' = con /\ JobsCount
  BY RequestKeepsCreds, RequestCounts
<1>2. ASSUME NEW d \in Consumers, AtWork(con[d]) PROVE WorksOK(d)'
  <2>1. PICK r \in Rows : r = con[d].msg.row /\ r[1] \in Jobs /\ r[1] = MyJob(d)
    BY ConType, RowParts DEF IInv, MyJob
  <2>2. WorksOK(d) /\ Busy(d) /\ CountOK(d)
    BY <1>2 DEF HoldInv, KnownInv, AtWork, Busy
  <2>3. ASSUME Exists(r[1])'
        PROVE  Current(con[d].msg)' \/ row'[r].status = "cancelled" \/ (con[d].pc # "send" /\ HasOutcome(r)')
    <3>1. Exists(r[1])
      BY <1>1, <2>1, <2>2, <2>3 DEF JobsCount, CountOK
    <3>2. Current(con[d].msg) \/ row[r].status = "cancelled" \/ (con[d].pc # "send" /\ HasOutcome(r))
      BY <1>2, <2>1, <2>2, <3>1 DEF WorksOK
    <3>3. row[r].status \notin {"absent", "pending"} /\ (row[r].status = "queued" => row[r].queuedAt = con[d].msg.gen)
      BY <2>1, <3>2 DEF Current, HasOutcome
    <3>4. row'[r] = row[r] \/ (row[r].status = "queued" /\ row'[r].status = "cancelled")
      BY <2>2, <2>3, <3>3, RequestKeepsWork DEF HoldInv
    <3> QED BY <1>1, <2>1, <3>2, <3>4 DEF Current, HasOutcome
  <2> QED BY <1>1, <2>1, <2>2, <2>3 DEF WorksOK
<1>3. \A d \in Consumers : WorksOK(d)'
  <2> SUFFICES ASSUME NEW d \in Consumers, AtWork(con'[d]) PROVE WorksOK(d)'
    BY DEF WorksOK
  <2> QED BY <1>1, <1>2
<1> QED BY <1>3, RequestHeld, RequestKeepsReleases DEF HoldInv

LEMMA HoldStep ==
  ASSUME OneHolder, NoRetry, IInv, GenOK, CredsInv, CountInv, HoldInv, [Next]_vars
  PROVE  HoldInv'
<1>1. ASSUME NEW c \in Consumers, Deliver(c) \/ Consume(c) \/ Throw(c) \/ Evict(c) PROVE HoldInv'
  BY <1>1, ConsumerHolds DEF CountInv, CredsInv
<1>2. ASSUME NEW p \in Invocations, Begin(p) \/ Continue(p) \/ InvThrows(p) \/ InvEvict(p) PROVE HoldInv'
  BY <1>2, RequestHolds DEF CountInv, CredsInv
<1>3. ~LeaseLapses
  BY DEF LeaseLapses, OneHolder
<1>4. CASE NewDay \/ (\E j \in Jobs : LimitSwitches(j)) \/ UNCHANGED vars
  <2>1. UNCHANGED <<job, row, queue, con, inv>>
    BY <1>4 DEF NewDay, LimitSwitches, vars
  <2> QED BY <2>1 DEF HoldInv, HeldOnce, WorksOK, ReleaseOK, Busy, InvAt, Exists, Current, HasOutcome
<1> QED BY <1>1, <1>2, <1>3, <1>4 DEF Next

-----------------------------------------------------------------------------
(* A job that is done.                                                     *)

\* What a consumer does to the other counter, and when it ends a job.
LEMMA ConsumerBounces ==
  ASSUME IInv, NEW c \in Consumers, Deliver(c) \/ Consume(c) \/ Throw(c) \/ Evict(c)
  PROVE  /\ \A j \in Jobs : job'[j].bounce = job[j].bounce \/ (UpdateCounters(c) /\ j = MyJob(c))
         /\ UpdateCounters(c) /\ Exists(MyJob(c)) => job'[MyJob(c)].bounce = job[MyJob(c)].bounce + con[c].nBounce
         /\ \A j \in Jobs : job'[j].status = "done" =>
              job[j].status = "done" \/ (MarkDone(c) /\ j = MyJob(c) /\ Exists(j))
<1> DEFINE k == MyJob(c)
<1>1. k \in Jobs /\ JobGood(job[k]) /\ con[c] \in ConRec /\ DOMAIN job = Jobs /\ job = [j \in Jobs |-> job[j]]
  BY ConType DEF IInv, TablesOK
<1>2. "done" \in Active \union Final /\ "aborted" \in Active \union Final /\ TRUE \in BOOLEAN
  BY DEF Final
<1>3. CASE AbortCredentialGone(c) \/ AbortRedacted(c) \/ AbortBlocked(c) \/ MarkDone(c)
  <2>1. PICK s \in {"aborted", "done"} : s = IF MarkDone(c) THEN "done" ELSE "aborted"
    OBVIOUS
  <2>2. ~MarkDone(c) \/ ~(AbortCredentialGone(c) \/ AbortRedacted(c) \/ AbortBlocked(c))
    BY DEF MarkDone, AbortCredentialGone, AbortRedacted, AbortBlocked, At
  <2>3. PICK r : r = StatusSet(k, s, TRUE)
    OBVIOUS
  <2>4. job' = [job EXCEPT ![k] = r]
    BY <1>3, <2>1, <2>2, <2>3 DEF AbortCredentialGone, AbortRedacted, AbortBlocked, Aborted, MarkDone
  <2>5. r.bounce = job[k].bounce /\ r.status = IF Exists(k) THEN s ELSE job[k].status
    BY <1>1, <1>2, <2>1, <2>3, StatusKeeps
  <2>6. \A j \in Jobs : job'[j] = IF j = k THEN r ELSE job[j]
    BY <1>1, <2>4
  <2>7. ~UpdateCounters(c)
    BY <1>3 DEF AbortCredentialGone, AbortRedacted, AbortBlocked, MarkDone, UpdateCounters, At
  <2> QED BY <2>1, <2>5, <2>6, <2>7
<1>4. CASE UpdateCounters(c)
  <2>1. PICK s \in (Active \union Final) \ {"done"} : s = IF con[c].aborted THEN "aborted" ELSE "sending"
    BY DEF Active, Final
  <2>2. job[k].finished \in BOOLEAN /\ con[c].nSent \in Nat /\ con[c].nBounce \in Nat
    BY <1>1 DEF JobGood, JobRec, ConRec
  <2>3. PICK r : r = StatusSet(k, s, job[k].finished)
    OBVIOUS
  <2>4. r \in JobRec /\ r.bounce = job[k].bounce /\ r.status = IF Exists(k) THEN s ELSE job[k].status
    BY <1>1, <2>2, <2>3, StatusKeeps DEF JobGood
  <2>5. PICK n : n = r.sent + con[c].nSent
    OBVIOUS
  <2>6. PICK b : b = r.bounce + con[c].nBounce
    OBVIOUS
  <2>7. PICK x : x = [r EXCEPT !.sent = n, !.bounce = b]
    OBVIOUS
  <2>8. x.status = r.status /\ x.bounce = b
    BY <2>4, <2>7 DEF JobRec
  <2>9. CASE Exists(k)
    <3>1. job' = [job EXCEPT ![k] = [StatusSet(k, s, job[k].finished) EXCEPT !.sent = @ + con[c].nSent, !.bounce = @ + con[c].nBounce]]
      BY <1>4, <2>1, <2>9 DEF UpdateCounters
    <3>2. job' = [job EXCEPT ![k] = x]
      BY <2>3, <2>5, <2>6, <2>7, <3>1
    <3>3. \A j \in Jobs : job'[j] = IF j = k THEN x ELSE job[j]
      BY <1>1, <3>2
    <3> QED BY <1>1, <1>4, <2>1, <2>4, <2>6, <2>8, <2>9, <3>3
  <2>10. CASE ~Exists(k)
    <3>1. job' = job
      BY <1>4, <2>10 DEF UpdateCounters
    <3> QED BY <2>10, <3>1
  <2> QED BY <2>9, <2>10
<1>5. CASE UNCHANGED job /\ ~UpdateCounters(c)
  BY <1>5
<1>6. AbortCredentialGone(c) \/ AbortRedacted(c) \/ AbortBlocked(c) \/ MarkDone(c) \/ UpdateCounters(c) \/ UNCHANGED job
  BY DEF Deliver, Consume, Throw, Evict, ReadJob, ReadCredential, ReadStaged, ReadLimit,
         CountSent, ReadWindow, Demote, AcquireSlot, ReadCurrent, SendOk, SendCredentialFailure,
         SendTransient, SendBounce, LogInsert, MarkRecipient, VerifyContact, LogFails, ReadFinish
<1> QED BY <1>3, <1>4, <1>5, <1>6

\* What a consumer adds to the counters of a job that is there: one for every
\* outcome it recorded.
AddsOK(c) ==
  /\ con[c].pc \in Early => con[c].nBounce = 0
  /\ Recording(con[c]) => con[c].kind # "none"
  /\ Recording(con[c]) /\ Exists(MyJob(c)) => con[c].nBounce = IF con[c].kind = "ok" THEN 0 ELSE 1
  /\ con[c].pc = "counters" /\ Exists(MyJob(c)) => con[c].nSent + con[c].nBounce = IF con[c].kind = "none" THEN 0 ELSE 1

LEMMA ConsumerAdds ==
  ASSUME IInv, KnownInv, NEW c \in Consumers, AddsOK(c), Deliver(c) \/ Consume(c) \/ Throw(c) \/ Evict(c)
  PROVE  AddsOK(c)'
<1>1. Early = {"job", "credential", "abort_gone", "staged", "limit", "count", "window", "demote",
               "slot", "current", "abort_redacted", "send", "abort_blocked"}
  BY DEF Early, ConPc
<1>2. /\ con \in [Consumers -> ConRec] /\ con[c] \in ConRec /\ CountOK(c) /\ MyJob(c) \in Jobs
      /\ con[c].nSent \in Nat /\ con[c].nBounce \in Nat
  BY ConType DEF IInv, ConsOK, KnownInv, ConRec
<1>3. con'[c].msg = con[c].msg /\ Exists(MyJob(c))' => Exists(MyJob(c))
  <2>1. JobsKept
    BY ConsumerJobs
  <2>2. con'[c].msg = con[c].msg => MyJob(c)' = MyJob(c)
    BY DEF MyJob
  <2> QED BY <1>2, <2>1, <2>2 DEF JobsKept
<1>4. CASE Fresh(c)
  BY <1>1, <1>4 DEF Fresh, AddsOK, Recording
<1>5. CASE con'[c].pc \in {"idle", "finish", "done"}
  BY <1>1, <1>5 DEF AddsOK, Recording
<1>6. CASE Waits(c)
  <2>1. /\ con'[c].nBounce = 0 /\ con'[c].nSent = 0 /\ con'[c].kind = "none"
        /\ con'[c].pc \in Early \union {"counters", "finish"}
    BY <1>2, <1>6 DEF Waits, AddsOK, CountOK
  <2> QED BY <1>1, <2>1 DEF AddsOK, Recording
<1>7. CASE Records(c)
  <2>1. /\ con'[c].msg = con[c].msg /\ con'[c].pc \in {"log", "mark", "contact", "counters"}
    BY <1>7, RecordsFields
  <2>2. CASE SendOk(c) \/ SendBounce(c)
    <3>1. con[c].nBounce = 0
      BY <1>1, <1>2, <2>2 DEF SendOk, SendBounce, At, AddsOK
    <3> QED BY <1>1, <1>7, <2>2, <3>1, RecordsFields DEF AddsOK, Recording
  <2>3. CASE LogInsert(c)
    <3>1. con[c].pc = "log" /\ con'[c].pc = "mark" /\ con'[c].kind = con[c].kind /\ con'[c].nBounce = con[c].nBounce
      BY <1>7, <2>3, RecordsFields DEF LogInsert, At
    <3> QED BY <1>1, <1>3, <2>1, <3>1 DEF AddsOK, Recording
  <2>4. CASE MarkRecipient(c) \/ VerifyContact(c)
    <3>1. /\ Recording(con[c]) /\ con'[c].pc \in {"contact", "counters"} /\ con'[c].kind = con[c].kind
          /\ con'[c].nBounce = con[c].nBounce
          /\ con'[c].pc = "counters" => con'[c].nSent = IF con[c].kind = "ok" THEN 1 ELSE 0
      BY <1>7, <2>4, RecordsFields DEF MarkRecipient, VerifyContact, At, Recording
    <3> QED BY <1>1, <1>2, <1>3, <2>1, <3>1 DEF AddsOK, Recording
  <2>5. CASE LogFails(c)
    <3>1. /\ Recording(con[c]) /\ con[c].kind = "ok"
          /\ con'[c].pc = "log" /\ con'[c].kind = "bounce" /\ con'[c].nBounce = con[c].nBounce + 1
      BY <1>7, <2>5, RecordsFields DEF Recording
    <3> QED BY <1>1, <1>3, <2>1, <3>1 DEF AddsOK, Recording
  <2> QED BY <1>7, <2>2, <2>3, <2>4, <2>5 DEF Records
<1>8. AbortCredentialGone(c) \/ Closes(c) => con'[c].pc \in {"idle", "finish", "done"}
  <2>1. ASSUME NEW how, Return(c, how) PROVE con'[c].pc = "idle"
    BY <1>2, <2>1 DEF Return, ConIdle
  <2>2. UpdateCounters(c) => con'[c].pc = "finish"
    BY <1>2 DEF UpdateCounters, Goto, ConRec
  <2>3. Goto(c, "done") => con'[c].pc = "done"
    BY <1>2 DEF Goto, ConRec
  <2> QED BY <2>1, <2>2, <2>3 DEF AbortCredentialGone, Closes, MarkDone
<1> QED BY <1>4, <1>5, <1>6, <1>7, <1>8, ConsumerPaths

\* The recipients of a job whose outcome is recorded, and the consumers that
\* have yet to add one to its counters: an outcome is recorded, and may be
\* corrected (LogFails) before it is added.
SettledRows(j) == {r \in RowsOf(j) : HasOutcome(r)}
Owes(c) ==
  /\ con[c].kind # "none"
  /\ con[c].pc \in {"contact", "counters"} \/ (con[c].pc \in {"log", "mark"} /\ HasOutcome(con[c].msg.row))
Adding(j) == {c \in Consumers : con[c].msg.row[1] = j /\ Owes(c)}

\* The counters, with what is yet to be added, claim no outcome twice.
SettledTally(j) ==
  /\ IsFiniteSet(Adding(j))
  /\ Exists(j) => job[j].sent + job[j].bounce + Cardinality(Adding(j)) <= Cardinality(SettledRows(j))

\* A job that is done, or about to be, has an outcome for everyone.
Ending(j) == job[j].status = "done" \/ (Exists(j) /\ \E c \in Consumers : con[c].pc = "done" /\ MyJob(c) = j)
DoneOK(j) == Ending(j) => SettledRows(j) = RowsOf(j)

DoneInv == (\A c \in Consumers : AddsOK(c)) /\ \A j \in Jobs : SettledTally(j) /\ DoneOK(j)

\* A job has as many recipients as are staged for each.
LEMMA RowsCounted ==
  ASSUME NEW j \in Jobs
  PROVE  IsFiniteSet(RowsOf(j)) /\ Cardinality(RowsOf(j)) = NEmails
<1>1. IsFiniteSet(Emails) /\ Cardinality(Emails) = NEmails
  BY SizesAssumption, FS_Interval DEF Emails
<1>2. PICK f : f = [e \in Emails |-> <<j, e>>]
  OBVIOUS
<1>3. f \in Bijection(Emails, RowsOf(j))
  <2>1. f \in [Emails -> RowsOf(j)]
    BY <1>2 DEF RowsOf, Rows
  <2>2. \A a, b \in Emails : f[a] = f[b] => a = b
    BY <1>2
  <2>3. ASSUME NEW r \in RowsOf(j) PROVE \E e \in Emails : f[e] = r
    <3>1. r = <<j, r[2]>> /\ r[2] \in Emails
      BY DEF RowsOf, Rows
    <3> QED BY <1>2, <3>1
  <2>4. f \in Injection(Emails, RowsOf(j))
    BY <2>1, <2>2, Fun_IsInj
  <2>5. f \in Surjection(Emails, RowsOf(j))
    BY <2>1, <2>3, Fun_IsSurj
  <2> QED BY <2>4, <2>5 DEF Bijection
<1>4. ExistsBijection(Emails, RowsOf(j))
  BY <1>3 DEF ExistsBijection
<1> QED BY <1>1, <1>4, FS_Bijection

LEMMA SettledFinite == ASSUME NEW j \in Jobs PROVE IsFiniteSet(SettledRows(j)) /\ Cardinality(SettledRows(j)) \in Nat
<1>1. SettledRows(j) \in SUBSET RowsOf(j)
  BY DEF SettledRows
<1>2. IsFiniteSet(SettledRows(j))
  BY <1>1, RowsCounted, FS_Subset
<1> QED BY <1>2, FS_CardinalityType

\* A consumer's step to the recipients of a job: nothing is unsettled, and an
\* outcome settles one more, unless it corrects one.
LEMMA ConsumerSettles ==
  ASSUME IInv, HoldInv, NEW c \in Consumers, Deliver(c) \/ Consume(c) \/ Throw(c) \/ Evict(c), NEW j \in Jobs
  PROVE  /\ SettledRows(j) \subseteq SettledRows(j)'
         /\ MarkRecipient(c) /\ Exists(j) /\ MyJob(c) = j /\ ~HasOutcome(con[c].msg.row) =>
              Cardinality(SettledRows(j)') = Cardinality(SettledRows(j)) + 1
<1>1. PICK r \in Rows : r = con[c].msg.row /\ MyJob(c) = r[1]
  BY ConType DEF IInv, MyJob
<1>2. /\ \A q \in Rows \ {r} : row'[q] = row[q]
      /\ \/ row'[r] = row[r]
         \/ con[c].pc = "demote" /\ Current(con[c].msg)
         \/ MarkRecipient(c) /\ HasOutcome(r)'
      /\ MarkRecipient(c) => con[c].pc = "mark" /\ (row[r].status = "absent" \/ HasOutcome(r)')
  BY <1>1, ConsumerTouches
<1>3. ASSUME NEW q \in Rows, HasOutcome(q) PROVE HasOutcome(q)'
  BY <1>1, <1>2, <1>3 DEF HasOutcome, Current
<1>4. SettledRows(j) \subseteq SettledRows(j)'
  BY <1>3 DEF SettledRows, RowsOf
<1>5. ASSUME MarkRecipient(c), Exists(j), MyJob(c) = j, ~HasOutcome(r)
      PROVE  Cardinality(SettledRows(j)') = Cardinality(SettledRows(j)) + 1
  <2>1. WorksOK(c) /\ AtWork(con[c])
    BY <1>2, <1>5 DEF HoldInv, AtWork
  <2>2. Current(con[c].msg) \/ row[r].status = "cancelled"
    BY <1>1, <1>5, <2>1 DEF WorksOK
  <2>3. HasOutcome(r)'
    BY <1>1, <1>2, <1>5, <2>2 DEF Current
  <2>4. SettledRows(j)' = SettledRows(j) \union {r} /\ r \notin SettledRows(j)
    BY <1>1, <1>2, <1>5, <2>3 DEF SettledRows, RowsOf, HasOutcome
  <2> QED BY <2>4, SettledFinite, FS_AddElement
<1> QED BY <1>1, <1>4, <1>5

\* A consumer's step makes no other consumer owe anything, and the consumer itself
\* only where it records an outcome.
LEMMA ConsumerOwes ==
  ASSUME IInv, RowsOK, KnownInv, HoldInv, NEW c \in Consumers, Deliver(c) \/ Consume(c) \/ Throw(c) \/ Evict(c)
  PROVE  /\ \A d \in Consumers \ {c} : Owes(d)' => Owes(d) /\ con'[d] = con[d]
         /\ ~MarkRecipient(c) /\ Owes(c)' => Owes(c) /\ con'[c].msg = con[c].msg
<1>1. \A d \in Consumers \ {c} : con'[d] = con[d]
  BY ConsumerMoves
<1>2. PICK r \in Rows : r = con[c].msg.row /\ r[1] = MyJob(c)
  BY ConType DEF IInv, MyJob
<1>3. /\ \A q \in Rows \ {r} : row'[q] = row[q]
      /\ row'[r] = row[r] \/ con[c].pc \in {"demote", "mark"}
      /\ row'[r] = row[r] \/ (con[c].pc = "demote" /\ Current(con[c].msg)) \/ MarkRecipient(c)
  BY <1>2, ConsumerTouches DEF MarkRecipient, At
<1>4. ASSUME NEW d \in Consumers \ {c}, Owes(d)' PROVE Owes(d)
  <2>1. con'[d] = con[d]
    BY <1>1
  <2>2. PICK q \in Rows : q = con[d].msg.row
    BY ConType DEF IInv
  <2>3. CASE con[d].pc \in {"log", "mark"}
    <3>1. AtWork(con[d]) /\ WorksOK(d)
      BY <2>3 DEF AtWork, HoldInv
    <3>2. con[c].pc = "mark" => q # r
      BY <1>2, <2>2, <3>1 DEF WorksOK, AtWork
    <3>3. con[c].pc = "demote" /\ Current(con[c].msg) => q # r
      BY <1>2, <2>2, <3>1, CurrentAlone DEF Busy
    <3>4. row'[q] = row[q]
      BY <1>3, <3>2, <3>3 DEF MarkRecipient, At
    <3> QED BY <1>4, <2>1, <2>2, <3>4 DEF Owes, HasOutcome
  <2> QED BY <1>4, <2>1, <2>3 DEF Owes
<1>5. ASSUME ~MarkRecipient(c), Owes(c)' PROVE Owes(c) /\ con'[c].msg = con[c].msg
  <2>0. PICK m : m = con'[c].msg.row
    OBVIOUS
  <2>1. /\ con'[c].pc \in {"log", "mark", "contact", "counters"} /\ con'[c].kind # "none"
        /\ con'[c].pc \in {"log", "mark"} => HasOutcome(m)'
    BY <1>5, <2>0 DEF Owes, HasOutcome
  <2>2. CountOK(c) /\ con \in [Consumers -> ConRec] /\ con[c] \in ConRec
    BY DEF KnownInv, IInv, ConsOK
  <2>3. ~Fresh(c) /\ ~Waits(c)
    BY <2>1, <2>2 DEF Fresh, Waits, CountOK
  <2>4. ~(AbortCredentialGone(c) \/ Closes(c))
    <3>1. ASSUME NEW how PROVE ~Return(c, how)
      BY <2>1, <2>2 DEF Return, ConIdle
    <3>2. ~UpdateCounters(c) /\ ~Goto(c, "done")
      BY <2>1, <2>2 DEF UpdateCounters, Goto, ConRec
    <3> QED BY <3>1, <3>2 DEF AbortCredentialGone, Closes, MarkDone
  <2>5. Records(c)
    BY <2>3, <2>4, ConsumerPaths
  <2>6. /\ con'[c].msg = con[c].msg /\ con[c].pc \in {"send", "log", "mark", "contact"}
        /\ con[c].pc \in {"log", "mark", "contact"} => con[c].kind # "none"
        /\ con'[c].pc \in {"log", "mark"} \/ con[c].pc = "contact"
    <3>1. con[c].pc \in {"log", "mark", "contact"} => ~SendOk(c) /\ ~SendBounce(c)
      BY DEF SendOk, SendBounce, At
    <3>2. con[c].pc = "contact" \/ ~VerifyContact(c)
      BY DEF VerifyContact, At
    <3> QED BY <1>5, <2>1, <2>5, <3>1, <3>2, RecordsFields DEF Records
  <2>7. CASE con'[c].pc \in {"log", "mark"}
    <3>1. row'[r] = row[r] /\ HasOutcome(r)
      <4>1. row'[r] = row[r]
        BY <1>3, <1>5, <2>6
      <4> QED BY <1>2, <2>0, <2>1, <2>6, <2>7, <4>1 DEF HasOutcome
    <3>2. con[c].pc # "send"
      <4>1. SUFFICES ASSUME con[c].pc = "send" PROVE FALSE
        OBVIOUS
      <4>2. WorksOK(c) /\ AtWork(con[c])
        BY <4>1 DEF HoldInv, AtWork
      <4>3. Exists(r[1])
        BY <3>1 DEF RowsOK, HasOutcome
      <4> QED BY <1>2, <3>1, <4>1, <4>2, <4>3 DEF WorksOK, Current, HasOutcome
    <3> QED BY <1>2, <2>6, <3>1, <3>2 DEF Owes
  <2>8. CASE con[c].pc = "contact"
    BY <2>6, <2>8 DEF Owes
  <2> QED BY <2>6, <2>7, <2>8
<1> QED BY <1>1, <1>4, <1>5

\* The account of a job under a consumer's step.
LEMMA ConsumerSettledTally ==
  ASSUME IInv, RowsOK, KnownInv, HoldInv, DoneInv,
         NEW c \in Consumers, Deliver(c) \/ Consume(c) \/ Throw(c) \/ Evict(c), NEW j \in Jobs
  PROVE  SettledTally(j)'
<1> DEFINE S == {d \in Consumers : con[d].msg.row[1] = j /\ Owes(d)}
           T == {d \in Consumers : con'[d].msg.row[1] = j /\ Owes(d)'}
           Z == SettledRows(j)
           Y == SettledRows(j)'
<1>1. Adding(j) = S /\ Adding(j)' = T
  BY DEF Adding
<1>2. SettledTally(j) /\ AddsOK(c) /\ CountOK(c) /\ (Exists(j)' <=> Exists(j)) /\ \A d \in Consumers \ {c} : con'[d] = con[d]
  BY ConsumerJobs, ConsumerMoves DEF DoneInv, KnownInv, JobsKept
<1>3. PICK s \in Nat : s = Cardinality(S) /\ IsFiniteSet(S)
  BY <1>1, <1>2, FS_CardinalityType DEF SettledTally
<1>4. PICK z \in Nat, y \in Nat : z = Cardinality(Z) /\ y = Cardinality(Y) /\ z <= y
  <2>1. Z \in SUBSET Y /\ IsFiniteSet(Y) /\ Cardinality(Y) \in Nat
    <3>1. Z \subseteq Y
      BY ConsumerSettles
    <3>2. Y \in SUBSET RowsOf(j)
      BY DEF SettledRows
    <3>3. IsFiniteSet(Y)
      BY <3>2, RowsCounted, FS_Subset
    <3> QED BY <3>1, <3>3, FS_CardinalityType
  <2> QED BY <2>1, SettledFinite, FS_Subset
<1>5. /\ job[j].sent \in Nat /\ job[j].bounce \in Nat /\ con[c].nSent \in Nat /\ con[c].nBounce \in Nat
      /\ con \in [Consumers -> ConRec] /\ con[c] \in ConRec /\ MyJob(c) \in Jobs
  BY ConType DEF IInv, TablesOK, JobGood, JobRec, ConsOK, ConRec
<1>6. Exists(j) => job[j].sent + job[j].bounce + s <= z
  BY <1>1, <1>2, <1>3, <1>4 DEF SettledTally
<1> HIDE DEF S, T, Z, Y
<1>7. ASSUME NEW t \in Nat, Cardinality(T) = t, IsFiniteSet(T), Exists(j) => job'[j].sent + job'[j].bounce + t <= y
      PROVE  SettledTally(j)'
  BY <1>1, <1>2, <1>4, <1>7 DEF SettledTally, Y
<1>8. ASSUME job'[j].sent = job[j].sent, job'[j].bounce = job[j].bounce, T \subseteq S PROVE SettledTally(j)'
  <2>1. PICK t \in Nat : t = Cardinality(T) /\ IsFiniteSet(T) /\ t <= s
    BY <1>3, <1>8, FS_Subset, FS_CardinalityType
  <2> QED BY <1>4, <1>5, <1>6, <1>7, <1>8, <2>1
<1>9. ASSUME ~UpdateCounters(c) PROVE job'[j].sent = job[j].sent /\ job'[j].bounce = job[j].bounce
  BY <1>9, ConsumerJobs, ConsumerBounces
<1>10. \A d \in Consumers \ {c} : d \in T => d \in S
  BY <1>2, ConsumerOwes DEF S, T
<1>11. CASE MarkRecipient(c)
  <2>1. con[c].pc = "mark" /\ ~UpdateCounters(c)
    BY <1>11 DEF MarkRecipient, UpdateCounters, At
  <2>2. Records(c)
    BY <1>11 DEF Records
  <2>3. con'[c].msg = con[c].msg /\ con'[c].kind = con[c].kind /\ con'[c].pc \in {"contact", "counters"}
    BY <1>11, <2>2, RecordsFields
  <2>4. con[c].kind # "none" /\ (c \in S <=> HasOutcome(con[c].msg.row) /\ MyJob(c) = j)
    BY <1>2, <2>1 DEF AddsOK, Recording, S, Owes, MyJob
  <2>5. CASE MyJob(c) = j /\ c \notin S
    <3>1. T \subseteq S \union {c}
      BY <1>10 DEF T
    <3>2. PICK t \in Nat : t = Cardinality(T) /\ IsFiniteSet(T) /\ t <= s + 1
      <4>1. IsFiniteSet(S \union {c}) /\ Cardinality(S \union {c}) = s + 1
        BY <1>3, <2>5, FS_AddElement
      <4> QED BY <3>1, <4>1, FS_Subset, FS_CardinalityType
    <3>3. Exists(j) => y = z + 1
      BY <1>4, <1>11, <2>4, <2>5, ConsumerSettles DEF Y, Z
    <3>4. Exists(j) => job'[j].sent + job'[j].bounce + t <= y
      BY <1>5, <1>6, <1>9, <2>1, <3>2, <3>3
    <3> QED BY <1>7, <3>2, <3>4
  <2>6. CASE MyJob(c) # j \/ c \in S
    <3>1. c \in T => c \in S
      BY <2>3, <2>6 DEF T, MyJob
    <3>2. T \subseteq S
      BY <1>10, <3>1 DEF S, T
    <3> QED BY <1>8, <1>9, <2>1, <3>2
  <2> QED BY <2>5, <2>6
<1>12. CASE UpdateCounters(c)
  <2>1. con[c].pc = "counters" /\ con'[c].pc = "finish"
    BY <1>5, <1>12 DEF UpdateCounters, At, Goto, ConRec
  <2>2. T \subseteq S \ {c}
    <3>1. ~Owes(c)'
      BY <2>1 DEF Owes
    <3> QED BY <1>10, <3>1 DEF S, T
  <2>3. c \in S <=> con[c].kind # "none" /\ MyJob(c) = j
    BY <2>1 DEF S, Owes, MyJob
  <2>4. PICK t \in Nat : t = Cardinality(T) /\ IsFiniteSet(T) /\ t <= IF c \in S THEN s - 1 ELSE s
    <3>1. /\ IsFiniteSet(S \ {c}) /\ Cardinality(S \ {c}) \in Nat
          /\ Cardinality(S \ {c}) = IF c \in S THEN s - 1 ELSE s
      BY <1>3, FS_RemoveElement, FS_CardinalityType
    <3> QED BY <2>2, <3>1, FS_Subset, FS_CardinalityType
  <2>5. CASE MyJob(c) = j /\ Exists(j)
    <3>1. job'[j].sent = job[j].sent + con[c].nSent /\ job'[j].bounce = job[j].bounce + con[c].nBounce
      BY <1>12, <2>5, ConsumerJobs, ConsumerBounces
    <3>2. con[c].nSent + con[c].nBounce = IF c \in S THEN 1 ELSE 0
      BY <1>2, <2>1, <2>3, <2>5 DEF AddsOK
    <3>3. con[c].nSent + con[c].nBounce + t <= s
      BY <1>5, <2>4, <3>2
    <3>4. job'[j].sent + job'[j].bounce + t <= y
      BY <1>4, <1>5, <1>6, <2>5, <3>1, <3>3
    <3> QED BY <1>7, <2>4, <3>4
  <2>6. CASE MyJob(c) # j
    <3>1. job'[j].sent = job[j].sent /\ job'[j].bounce = job[j].bounce
      BY <2>6, ConsumerJobs, ConsumerBounces
    <3>2. T \subseteq S
      BY <2>2
    <3> QED BY <1>8, <3>1, <3>2
  <2>7. CASE ~Exists(j)
    BY <1>7, <2>4, <2>7
  <2> QED BY <2>5, <2>6, <2>7
<1>13. CASE ~MarkRecipient(c) /\ ~UpdateCounters(c)
  <2>1. c \in T => c \in S
    BY <1>13, ConsumerOwes DEF S, T
  <2>2. T \subseteq S
    BY <1>10, <2>1 DEF S, T
  <2> QED BY <1>8, <1>9, <1>13, <2>2
<1> QED BY <1>11, <1>12, <1>13

\* A consumer ends a job only when the counters say that everyone is settled.
LEMMA ConsumerDone ==
  ASSUME IInv, KnownInv, HoldInv, DoneInv,
         NEW c \in Consumers, Deliver(c) \/ Consume(c) \/ Throw(c) \/ Evict(c), NEW j \in Jobs
  PROVE  DoneOK(j)'
<1> SUFFICES ASSUME Ending(j)' PROVE SettledRows(j)' = RowsOf(j)'
  BY DEF DoneOK
<1>1. /\ (Exists(j)' <=> Exists(j)) /\ (\A d \in Consumers \ {c} : con'[d] = con[d]) /\ DoneOK(j) /\ SettledTally(j)
      /\ con \in [Consumers -> ConRec] /\ con[c] \in ConRec
  BY ConsumerJobs, ConsumerMoves DEF DoneInv, JobsKept, IInv, ConsOK
<1>2. SettledRows(j) \subseteq SettledRows(j)' /\ SettledRows(j)' \subseteq RowsOf(j) /\ RowsOf(j)' = RowsOf(j)
  BY ConsumerSettles DEF SettledRows, RowsOf
<1>3. CASE Ending(j)
  BY <1>1, <1>2, <1>3 DEF DoneOK
<1>4. CASE ~Ending(j)
  <2>1. ~(MarkDone(c) /\ j = MyJob(c) /\ Exists(j))
    BY <1>4 DEF MarkDone, At, Ending
  <2>2. job'[j].status # "done"
    BY <1>4, <2>1, ConsumerBounces DEF Ending
  <2>3. PICK d \in Consumers : Exists(j)' /\ con'[d].pc = "done" /\ MyJob(d)' = j
    BY <2>2 DEF Ending
  <2>4. d = c
    <3>1. CASE d # c
      BY <1>1, <1>4, <2>3, <3>1 DEF Ending, MyJob
    <3> QED BY <3>1
  <2>5. ~Fresh(c) /\ ~Waits(c) /\ ~Records(c)
    <3>1. "done" \notin Early
      BY DEF Early
    <3>2. ~Records(c)
      BY <2>3, <2>4, RecordsFields
    <3> QED BY <2>3, <2>4, <3>1, <3>2 DEF Fresh, Waits
  <2>6. ASSUME NEW how PROVE ~Return(c, how)
    BY <1>1, <2>3, <2>4 DEF Return, ConIdle
  <2>7. ~UpdateCounters(c)
    BY <1>1, <2>3, <2>4 DEF UpdateCounters, Goto, ConRec
  <2>8. ReadFinish(c) /\ Goto(c, "done")
    BY <2>5, <2>6, <2>7, ConsumerPaths DEF Closes, AbortCredentialGone, MarkDone
  <2>9. MyJob(c) = j
    BY <1>1, <2>3, <2>4, <2>8 DEF Goto, MyJob, ConRec
  <2>10. Exists(j) /\ job[j].sent + job[j].bounce >= NEmails
    BY <2>6, <2>8, <2>9 DEF ReadFinish
  <2>11. PICK a \in Nat : a = Cardinality(Adding(j))
    BY <1>1, FS_CardinalityType DEF SettledTally
  <2>12. PICK n \in Nat : n = job[j].sent + job[j].bounce
    BY DEF IInv, TablesOK, JobGood, JobRec
  <2>13. PICK z \in Nat : z = Cardinality(SettledRows(j))
    BY SettledFinite
  <2>14. n + a <= z
    BY <1>1, <2>10, <2>11, <2>12, <2>13 DEF SettledTally
  <2>15. SettledRows(j) \in SUBSET RowsOf(j)
    BY DEF SettledRows
  <2>16. z <= NEmails /\ NEmails \in Nat /\ (z = NEmails => SettledRows(j) = RowsOf(j))
    BY <2>13, <2>15, RowsCounted, FS_Subset, SizesAssumption
  <2>17. SettledRows(j) = RowsOf(j)
    BY <2>10, <2>12, <2>14, <2>16
  <2> QED BY <1>2, <2>17
<1> QED BY <1>3, <1>4

\* Requests leave the outcomes of a job that stays.
LEMMA RequestSettled ==
  ASSUME IInv, HoldInv, NEW p \in Invocations, Begin(p) \/ Continue(p) \/ InvThrows(p) \/ InvEvict(p),
         NEW j \in Jobs, Exists(j)'
  PROVE  SettledRows(j) \subseteq SettledRows(j)'
<1>1. inv[p].pc # "retry_write"
  BY DEF HoldInv, ReleaseOK
<1>2. ASSUME NEW q \in Rows, q[1] = j, row[q].status \in {"ok", "bounce"} PROVE row'[q].status = row[q].status
  <2>1. CASE RowsRest
    BY <1>2, <2>1 DEF RowsRest, ToServe
  <2>2. CASE StageRecipients(p)
    BY <1>2, <2>2 DEF StageRecipients
  <2>3. CASE CancelWrite(p) \/ RevokeWrite(p)
    BY <1>2, <2>3 DEF CancelWrite, RevokeWrite, CancelledRows
  <2>4. CASE DeleteWrite(p)
    <3>1. J(p) \in Jobs
      BY DEF IInv, InvsOK, InvGood, InvRec, J
    <3>2. J(p) = j => job'[j].status = "deleted"
      BY <2>4, <3>1 DEF DeleteWrite, IInv, TablesOK, NoJob
    <3>3. J(p) # j
      BY <3>2 DEF Exists, Active, Final
    <3> QED BY <1>2, <2>4, <3>3 DEF DeleteWrite
  <2> QED BY <1>1, <2>1, <2>2, <2>3, <2>4, RequestServes
<1> QED BY <1>2 DEF SettledRows, RowsOf, HasOutcome

\* Nor does anybody come to owe the counters anything by them.
LEMMA RequestOwes ==
  ASSUME IInv, RowsOK, HoldInv, NEW p \in Invocations, Begin(p) \/ Continue(p) \/ InvThrows(p) \/ InvEvict(p),
         NEW d \in Consumers, Owes(d)'
  PROVE  Owes(d)
<1>1. con' = con /\ inv[p].pc # "retry_write"
  BY RequestKeepsCreds DEF HoldInv, ReleaseOK
<1>2. PICK q \in Rows : q = con[d].msg.row
  BY ConType DEF IInv
<1>3. HasOutcome(q)' => HasOutcome(q)
  <2>1. CASE RowsRest
    BY <2>1 DEF RowsRest, ToServe, HasOutcome
  <2>2. CASE StageRecipients(p)
    BY <2>2 DEF StageRecipients, HasOutcome, RowIs
  <2>3. CASE CancelWrite(p) \/ RevokeWrite(p)
    <3>1. PICK S : row' = CancelledRows(S)
      BY <2>3 DEF CancelWrite, RevokeWrite
    <3>2. row'[q] = row[q] \/ row'[q].status = "cancelled"
      BY <1>2, <3>1 DEF CancelledRows, RowIs
    <3> QED BY <3>2 DEF HasOutcome
  <2>4. CASE DeleteWrite(p)
    BY <2>4 DEF DeleteWrite, HasOutcome, RowIs
  <2> QED BY <1>1, <2>1, <2>2, <2>3, <2>4, RequestServes
<1> QED BY <1>1, <1>2, <1>3 DEF Owes

LEMMA RequestDone ==
  ASSUME IInv, RowsOK, KnownInv, HoldInv, DoneInv,
         NEW p \in Invocations, Begin(p) \/ Continue(p) \/ InvThrows(p) \/ InvEvict(p)
  PROVE  DoneInv'
<1>1. con' = con /\ JobsCount /\ JobsSettle(p) /\ inv[p].pc # "retry_write"
  BY RequestKeepsCreds, RequestCounts, RequestJobs DEF HoldInv, ReleaseOK
<1>2. ASSUME NEW c \in Consumers PROVE CountOK(c) /\ MyJob(c) \in Jobs /\ MyJob(c)' = MyJob(c)
  BY <1>1, ConType DEF KnownInv, IInv, MyJob
<1>3. ASSUME NEW c \in Consumers, Busy(c), Exists(MyJob(c))' PROVE Exists(MyJob(c))
  BY <1>1, <1>2, <1>3 DEF JobsCount, CountOK
<1>4. ASSUME NEW c \in Consumers PROVE AddsOK(c)'
  BY <1>1, <1>2, <1>3 DEF DoneInv, AddsOK, Recording, Busy
<1>5. ASSUME NEW j \in Jobs PROVE SettledTally(j)' /\ DoneOK(j)'
  <2>1. SettledTally(j) /\ DoneOK(j) /\ RowsOf(j)' = RowsOf(j)
    BY DEF DoneInv, RowsOf
  <2>0. PICK a, b \in Nat :
          /\ a = Cardinality(Adding(j)) /\ b = Cardinality(Adding(j)') /\ b <= a
          /\ IsFiniteSet(Adding(j)') /\ (Adding(j) = {} => b = 0)
    <3>1. Adding(j)' \subseteq Adding(j)
      BY <1>1, RequestOwes DEF Adding
    <3> QED BY <2>1, <3>1, FS_Subset, FS_CardinalityType, FS_EmptySet DEF SettledTally
  <2>2. CASE ~Exists(j)'
    <3>1. job'[j].status # "done"
      BY <2>2 DEF Exists, Final
    <3> QED BY <2>0, <2>2, <3>1 DEF SettledTally, DoneOK, Ending
  <2>3. CASE Exists(j)'
    <3>1. SettledRows(j) \subseteq SettledRows(j)' /\ SettledRows(j)' \subseteq RowsOf(j)
      BY <2>3, RequestSettled DEF SettledRows, RowsOf
    <3>2. SettledRows(j)' \in SUBSET RowsOf(j) /\ SettledRows(j) \in SUBSET SettledRows(j)'
      BY <3>1
    <3>3. IsFiniteSet(SettledRows(j)')
      BY <3>2, RowsCounted, FS_Subset
    <3>4. PICK z \in Nat, y \in Nat : z = Cardinality(SettledRows(j)) /\ y = Cardinality(SettledRows(j)') /\ z <= y
      BY <3>2, <3>3, SettledFinite, FS_Subset, FS_CardinalityType
    <3>6. job[j].sent \in Nat /\ job[j].bounce \in Nat
      BY DEF IInv, TablesOK, JobGood, JobRec
    <3>7. CASE Exists(j)
      <4>1. /\ job'[j].sent = job[j].sent /\ job'[j].bounce = job[j].bounce
            /\ job'[j].status = "done" => job[j].status = "done"
        <5>1. job'[j].status # "deleted" /\ job[j].status # "none"
          BY <2>3, <3>7 DEF Exists, Active, Final
        <5> QED BY <1>1, <5>1 DEF JobsSettle
      <4>2. job[j].sent + job[j].bounce + a <= z
        BY <2>0, <2>1, <3>4, <3>7 DEF SettledTally
      <4>3. job'[j].sent + job'[j].bounce + b <= y
        BY <2>0, <3>4, <3>6, <4>1, <4>2
      <4>4. Ending(j)' => Ending(j)
        BY <1>1, <1>2, <3>7, <4>1 DEF Ending
      <4> QED BY <2>0, <2>1, <3>1, <3>4, <4>3, <4>4 DEF SettledTally, DoneOK
    <3>8. CASE ~Exists(j)
      <4>1. job[j].status = "none" /\ job'[j].status = "pending" /\ job'[j].sent = 0 /\ job'[j].bounce = 0
        <5>1. job'[j].status # "deleted"
          BY <2>3 DEF Exists, Active, Final
        <5> QED BY <1>1, <2>3, <3>8, <5>1 DEF JobsSettle
      <4>2. \A c \in Consumers : Busy(c) => MyJob(c) # j
        BY <1>2, <4>1 DEF CountOK
      <4>3. Adding(j) = {}
        BY <4>2 DEF Adding, Owes, Busy, MyJob
      <4>4. b = 0
        BY <2>0, <4>3
      <4>5. ~Ending(j)'
        BY <1>1, <1>2, <4>1, <4>2 DEF Ending, Busy
      <4>6. job'[j].sent + job'[j].bounce + b <= y
        BY <3>4, <4>1, <4>4
      <4> QED BY <2>0, <2>1, <3>4, <4>5, <4>6 DEF SettledTally, DoneOK
    <3> QED BY <3>7, <3>8
  <2> QED BY <2>2, <2>3
<1> QED BY <1>4, <1>5 DEF DoneInv

LEMMA DoneStep ==
  ASSUME OneHolder, IInv, CredsInv, CountInv, HoldInv, DoneInv, [Next]_vars
  PROVE  DoneInv'
<1>1. ASSUME NEW c \in Consumers, Deliver(c) \/ Consume(c) \/ Throw(c) \/ Evict(c) PROVE DoneInv'
  <2>1. AddsOK(c)' /\ \A j \in Jobs : SettledTally(j)' /\ DoneOK(j)'
    BY <1>1, ConsumerAdds, ConsumerSettledTally, ConsumerDone DEF DoneInv, CountInv, CredsInv
  <2>2. ASSUME NEW d \in Consumers \ {c} PROVE AddsOK(d)'
    <3>1. con'[d] = con[d] /\ MyJob(d)' = MyJob(d) /\ MyJob(d) \in Jobs /\ JobsKept
      BY <1>1, ConsumerMoves, ConsumerJobs, ConType DEF MyJob, IInv
    <3>2. Exists(MyJob(d))' <=> Exists(MyJob(d))
      BY <3>1 DEF JobsKept
    <3> QED BY <3>1, <3>2 DEF DoneInv, AddsOK, Recording
  <2> QED BY <2>1, <2>2 DEF DoneInv
<1>2. ASSUME NEW p \in Invocations, Begin(p) \/ Continue(p) \/ InvThrows(p) \/ InvEvict(p) PROVE DoneInv'
  BY <1>2, RequestDone DEF CountInv, CredsInv
<1>3. ~LeaseLapses
  BY DEF LeaseLapses, OneHolder
<1>4. CASE NewDay \/ (\E j \in Jobs : LimitSwitches(j)) \/ UNCHANGED vars
  <2>1. UNCHANGED <<job, row, con>>
    BY <1>4 DEF NewDay, LimitSwitches, vars
  <2> QED BY <2>1 DEF DoneInv, AddsOK, SettledTally, DoneOK, Ending, Adding, Owes, SettledRows, HasOutcome, RowsOf, MyJob, Exists
<1> QED BY <1>1, <1>2, <1>3, <1>4 DEF Next

\* A job that is done has an outcome for every recipient, so none that waits is
\* left behind by the cron pass, which looks at live jobs only: the counters,
\* which each consumer raises and reads in statements of their own, never reach
\* the number of recipients early, wherever a consumer is killed or a statement
\* fails and an outcome is recorded again (send-queue.ts:48-51, 62, send.ts:327);
\* given that a message is with one consumer at a time, that a push that fails
\* took no message, that nobody retries, and that no attempt is under way for two
\* hours.
THEOREM DoneIsComplete == ASSUME OneHolder, NoRetry PROVE Spec => []DoneLeavesNobody
<1>1. Init => IInv /\ GenOK /\ CredsInv /\ CountInv /\ HoldInv /\ DoneInv
  <2> SUFFICES ASSUME Init PROVE HoldInv /\ DoneInv
    BY IInvInit, GenInit, CredsInit, CountInit
  <2>1. /\ (\A c \in Consumers : con[c].pc = "idle") /\ \A j \in Jobs : job[j].status = "none"
        /\ \A p \in Invocations : inv[p].pc = "idle"
    BY DEF Init, ConIdle, NoJob, InvIdle
  <2>2. \A j \in Jobs : Adding(j) = {} /\ ~Exists(j) /\ ~Ending(j)
    BY <2>1 DEF Adding, Owes, Ending, Exists, Active, Final
  <2>3. \A j \in Jobs : IsFiniteSet(Adding(j))
    BY <2>2, FS_EmptySet
  <2>4. \A c \in Consumers : AddsOK(c)
    BY <2>1 DEF AddsOK, Recording, Early
  <2>5. HoldInv
    BY <2>1 DEF HoldInv, HeldOnce, Busy, WorksOK, AtWork, ReleaseOK, InvAt
  <2> QED BY <2>2, <2>3, <2>4, <2>5 DEF DoneInv, SettledTally, DoneOK
<1> DEFINE Complete == IInv /\ GenOK /\ CredsInv /\ CountInv /\ HoldInv /\ DoneInv
<1>2. Complete /\ [Next]_vars => Complete'
  BY OneHolder, NoRetry, IInvStep, GenStep, CredsStep, CountStep, HoldStep, DoneStep
<1>3. Complete => DoneLeavesNobody
  <2> SUFFICES ASSUME Complete, NEW r \in Rows, job[r[1]].status = "done" PROVE row[r].status \notin {"pending", "queued"}
    BY DEF DoneLeavesNobody
  <2>1. r[1] \in Jobs
    BY RowParts
  <2>2. SettledRows(r[1]) = RowsOf(r[1])
    BY <2>1 DEF DoneInv, DoneOK, Ending
  <2> QED BY <2>2 DEF SettledRows, HasOutcome, RowsOf
<1> QED BY <1>1, <1>2, <1>3, PTL DEF Spec
=============================================================================
