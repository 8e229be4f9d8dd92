---------------------------- MODULE SendPipeline ----------------------------
(***************************************************************************)
(* The send pipeline: requests and cron passes (SendRequests) on one side  *)
(* of the queue, consumers (QueueConsumer) on the other, all of them on    *)
(* the tables of SendStore.                                                *)
(***************************************************************************)
EXTENDS QueueConsumer, SendRequests

Next ==
  \/ \E c \in Consumers : Deliver(c) \/ Consume(c) \/ Throw(c) \/ Evict(c)
  \/ \E p \in Invocations : Begin(p) \/ Continue(p) \/ InvThrows(p) \/ InvEvict(p)
  \/ LeaseLapses
  \/ NewDay
  \/ \E j \in Jobs : LimitSwitches(j)

Spec == Init /\ [][Next]_vars

\* The platform runs what it has started, delivers what it holds, and fires
\* the cron trigger every minute, the last time long after the latest claim;
\* days pass; nobody must use the application.
Fairness ==
  /\ WF_vars(NewDay)
  /\ \A c \in Consumers : WF_vars(Deliver(c)) /\ WF_vars(Consume(c))
  /\ \A p \in Invocations :
       /\ WF_vars(Continue(p)) /\ SF_vars(RecoverUpTo(p, clock))
       /\ SF_vars(CronStart(p)) /\ SF_vars(RedactStart(p))

FairSpec == Spec /\ Fairness

-----------------------------------------------------------------------------
ConPc == {"idle", "job", "credential", "abort_gone", "staged", "limit", "count", "window", "demote",
          "slot", "current", "abort_redacted", "send", "abort_blocked", "log", "mark", "contact",
          "counters", "finish", "done"}

ConRec == [pc : ConPc, msg : [gen : Nat, row : Rows, cred : Creds \union {NoCred}, tries : Nat],
           cred : Creds \union {NoCred}, avail : Nat, kind : {"none", "ok", "bounce", "dead"},
           nSent : Nat, nBounce : Nat, aborted : BOOLEAN, ack : {"none", "ack", "retry"}]

InvPc == {"idle", "stage", "recover", "list", "next", "quota_sent", "quota_queued", "job_limit",
          "job_sent", "job_queued", "job_live", "select", "claim", "push", "release", "cancel_write",
          "retry_write", "delete_write", "rate_write", "edit_write", "revoke_write", "redact_write"}

InvRec == [pc : InvPc, op : AllOps \union {"none"}, job : Jobs, cred : Creds \union {NoCred},
           rate : RateRec, avail : Int, limit : Int,
           todoJobs : SUBSET (Jobs \X (Creds \union {NoCred})), todo : SUBSET Rows,
           gen : Nat, pushed : BOOLEAN]

MailRec == [row : Rows, gen : Nat, tries : Nat]

\* Every table, message and local state has its type (the schema of
\* 0000_current_baseline.sql and the locals of send.ts and send-queue.ts).
TypeOK ==
  /\ job \in [Jobs -> JobRec]
  /\ row \in [Rows -> RowRec]
  /\ log \subseteq LogRec
  /\ switched \subseteq Jobs /\ redacted \subseteq Jobs /\ revoked \subseteq Creds
  /\ verified \in [Emails -> {"none", "valid", "dead"}]
  /\ queue \subseteq Message
  /\ clock \in Nat
  /\ mails \subseteq MailRec
  /\ con \in [Consumers -> ConRec]
  /\ inv \in [Invocations -> InvRec]

-----------------------------------------------------------------------------
\* The attempts that exist anywhere outside the recipient's row: messages the
\* queue holds, and deliveries that a consumer works on.
Attempts == queue \union {con[c].msg : c \in {d \in Consumers : con[d].pc # "idle"}}

\* Once an attempt is superseded (its recipient was cancelled, released,
\* demoted, retried or claimed anew: send.ts, queued_at in every UPDATE) it
\* never becomes its recipient's current attempt again, however late, often
\* or out of order the queue delivers it.
SupersededForever ==
  [][\A m \in Attempts : ~Current(m) => ~Current(m)']_vars

\* A consumer works on a recipient past the last check of send-queue.ts:45.
PastCheck(c) == con[c].pc \in {"send", "abort_blocked", "log", "mark", "contact"}

\* A recipient that was cancelled (send.ts:474, mail-credentials.ts:179) stays
\* out of every later pass.  Only a retry of its job brings it back; a consumer
\* whose mail was already under way may still record its outcome.
CancelledStays ==
  [][\A r \in Rows :
       row[r].status = "cancelled" /\ row[r].status' # "cancelled" =>
         \/ row[r].status' \in {"ok", "bounce"} /\ \E c \in Consumers : PastCheck(c) /\ con[c].msg.row = r
         \/ \E p \in Invocations : InvAt(p, "retry_write") /\ J(p) = r[1]
         \/ job[r[1]].status' = "deleted"]_vars

\* A consumer that goes on to abort the job.
Aborting(c) == con[c].pc \in {"abort_gone", "abort_redacted"}

\* A consumer gives its message up only when the recipient no longer waits for
\* it, when the job is over or is about to be aborted, or when the message names
\* a credential the job no longer had: no early return of processJobMessages
\* drops a recipient of a live job otherwise (send-queue.ts:33-49).
AckedIsOver ==
  [][\A c \in Consumers :
       con[c].ack # "ack" /\ con[c].ack' = "ack" =>
         \/ ~Current(con[c].msg)' \/ job[MyJob(c)].status' \notin Active
         \/ Aborting(c)' \/ con[c].msg.cred # con[c].cred]_vars

\* No mail leaves through a credential that was revoked before the consumer's
\* last check of the recipient: the revocation cancels what waits for the
\* credential, so an invocation that read it earlier, and then waited for its
\* send slot, finds nothing to send (mail-credentials.ts:177-181).
RevokedNotUsed ==
  [][\A c \in Consumers : con[c].pc = "current" /\ con[c].pc' = "send" => con[c].cred \notin revoked]_vars

\* While the queue does not redeliver and no invocation dies, one claim of a
\* recipient leads to at most one mail, whatever is retried, cancelled or
\* recovered meanwhile (send-queue.ts:41-49).
OneMailPerClaim == \A a, b \in mails : a.gen = b.gen => a = b

\* A recipient gets one mail per job, as long as nobody asks for a retry.
OneMailPerRecipient == \A a, b \in mails : a.row = b.row => a = b

\* sent_count is the number of mails the log says were sent, except for those
\* a consumer has logged and not yet added (send-queue.ts:48-51); increments of
\* concurrent consumers are not lost.
BeingCounted(j) ==
  {c \in Consumers : /\ con[c].msg.row[1] = j /\ con[c].kind = "ok"
                     /\ con[c].pc \in {"mark", "contact", "counters"}}

OkEntries(j) == {l \in log : l.status = "ok" /\ l.row[1] = j}

CountersMatchLog ==
  \A j \in Jobs : Exists(j) => job[j].sent + Cardinality(BeingCounted(j)) = Cardinality(OkEntries(j))

\* Whatever fails, is repeated or is killed, sent_count never claims a mail that
\* the log does not have: what was counted was logged first (send-queue.ts:48).
NeverOverstated ==
  \A j \in Jobs : Exists(j) => job[j].sent + Cardinality(BeingCounted(j)) <= Cardinality(OkEntries(j))

\* The user's view of the pipeline: what a recipient's row says, nothing once
\* its job is deleted, and the mails.
Shown(r) ==
  CASE row[r].status = "absent" -> IF job[r[1]].status = "deleted" THEN "gone" ELSE "none"
    [] row[r].status \in {"pending", "queued"} -> "waiting"
    [] row[r].status = "ok" -> "sent"
    [] row[r].status = "bounce" -> "failed"
    [] row[r].status = "cancelled" -> "cancelled"

Mailing == INSTANCE MailDelivery WITH
  Recipients <- Rows, MailingOf <- LAMBDA r : r[1],
  phase <- [r \in Rows |-> Shown(r)],
  accepted <- [r \in Rows |-> Cardinality({m \in mails : m.row = r})]

\* Without retries by the user, redelivery and deaths, the pipeline implements
\* MailDelivery: outcomes are honest, final and at most one mail each.
ImplementsMailDelivery == Mailing!Spec

\* A job that is done has no recipient left to serve: "done" is final for the
\* cron pass, so such a recipient would never be served (send.ts:327).
DoneLeavesNobody ==
  \A r \in Rows : job[r[1]].status = "done" => row[r].status \notin {"pending", "queued"}

\* A job keeps its daily limit, whatever the enqueuers and the consumers do
\* (maySendQueuedRecipient, send.ts:130-166).
WithinJobLimit ==
  \A j \in Jobs : Exists(j) /\ EffectiveLimit(j) # 0 => SentToday({j}) <= EffectiveLimit(j)

-----------------------------------------------------------------------------
Staged(j) == Exists(j) /\ \A r \in RowsOf(j) : row[r].status # "absent"

\* A job whose recipients are staged reaches an end, through cron passes alone
\* (send.ts:323-342), unless the model's bound on claims is hit first.
StagedJobFinishes ==
  \A j \in Jobs : Staged(j) ~> job[j].status \in Final \/ clock = MaxClock

Waiting(r) == row[r].status = "queued" /\ ~ \E l \in log : l.row = r /\ l.status = "ok"

\* No recipient of a live job waits for ever for an attempt that will not come:
\* a message that was lost, dead-lettered or acknowledged without a send is made
\* good by the recovery of stale rows (send.ts:297-321).
WaitingMovesOn == \A r \in Rows : Waiting(r) ~> ~Waiting(r) \/ job[r[1]].status \notin Active

\* A retried job whose letter the retention pass has redacted meanwhile does not
\* hang while recipients wait: it is aborted, or its letter edited
\* (letter-privacy.ts:38, send.ts:534, send-queue.ts:47), unless the model's
\* bound on claims is hit first.
RedactedJobEnds ==
  \A j \in Jobs :
    job[j].status \in Active /\ j \in redacted /\ InStatus({j}, "pending") # {} ~>
      job[j].status \notin Active \/ j \notin redacted \/ clock = MaxClock

-----------------------------------------------------------------------------
(* What the code or its documentation says and a run refutes.              *)

\* send.ts:507 asks the user to cancel a job before deleting it: a cancelled
\* job stays cancelled until it is retried or deleted.
CancelIsFinal ==
  [][\A j \in Jobs :
       job[j].status = "cancelled" /\ job[j].status' # "cancelled" =>
         \/ job[j].status' = "deleted"
         \/ \E p \in Invocations : InvAt(p, "retry_write") /\ J(p) = j]_vars
=============================================================================
