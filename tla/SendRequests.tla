----------------------------- MODULE SendRequests -----------------------------
(***************************************************************************)
(* app/src/send.ts, with deleteMailCredential of mail-credentials.ts and   *)
(* the retention pass of letter-privacy.ts: what fetch() and scheduled()   *)
(* invocations do to the send pipeline.  Creating a job, retrying it,      *)
(* changing its rate and the cron pass all end in the same enqueue path:   *)
(* provider quota, job quota, claim and push.  Again one D1 statement (or  *)
(* batch) or one queue call per action; inv[p].pc names what comes next.   *)
(***************************************************************************)
EXTENDS SendStore

InvAt(p, s) == inv[p].pc = s
InvGoto(p, s) == inv' = [inv EXCEPT ![p].pc = s]
J(p) == inv[p].job

requested == <<switched, verified, mails, con>>

\* An idle invocation starts operation op on job j and continues at s.
Start(p, op, s, j, fields) ==
  /\ InvAt(p, "idle") /\ op \in Ops
  /\ inv' = [inv EXCEPT ![p] = [fields EXCEPT !.pc = s, !.op = op, !.job = j]]

\* Done with a job: the cron pass goes on to its next one (it catches what a
\* job throws), a request ends.
Left(p) ==
  IF inv[p].op = "cron" THEN [InvIdle EXCEPT !.pc = "next", !.op = "cron", !.todoJobs = inv[p].todoJobs]
  ELSE InvIdle
Leave(p) == inv' = [inv EXCEPT ![p] = Left(p)]

-----------------------------------------------------------------------------
(* createAndEnqueueSendJob: INSERT the job, then stage its recipients in a *)
(* statement of its own.                                                   *)

CreateJob(p) ==
  \E j \in Jobs, c \in Creds, r \in Rates :
    /\ job[j].status = "none" /\ \A i \in 1..(j - 1) : job[i].status # "none"
    /\ Start(p, "create", "stage", j, [InvIdle EXCEPT !.cred = c])
    /\ job' = [job EXCEPT ![j] = [NoJob EXCEPT !.status = "pending", !.cred = c, !.rate = r]]
    /\ UNCHANGED <<row, log, redacted, revoked, queue, clock, requested>>

StageRecipients(p) ==
  /\ InvAt(p, "stage")
  /\ IF Exists(J(p))
     THEN /\ row' = [r \in Rows |-> IF r[1] = J(p) /\ row[r].status = "absent" THEN RowIs("pending") ELSE row[r]]
          /\ InvGoto(p, "quota_sent")
     ELSE UNCHANGED row /\ Leave(p)
  /\ UNCHANGED <<job, log, redacted, revoked, queue, clock, requested>>

-----------------------------------------------------------------------------
(* enqueuePendingUserSendJobs, once a minute.                              *)

CronStart(p) ==
  /\ Start(p, "cron", "recover", 1, InvIdle)
  /\ UNCHANGED <<job, row, log, redacted, revoked, queue, clock, requested>>

\* Variant of Stale: only of jobs that are not sending yet.
StaleOfPending(r, cutoff) ==
  /\ row[r].status = "queued" /\ row[r].queuedAt <= cutoff
  /\ job[r[1]].status = "pending"
  /\ ~ \E l \in log : l.row = r /\ l.status = "ok"

\* A row may be released when its attempt is no younger than the cutoff, its
\* job is live and no send_log entry says that it was sent.
Stale(r, cutoff) ==
  /\ row[r].status = "queued" /\ row[r].queuedAt <= cutoff
  /\ job[r[1]].status \in Active
  /\ ~ \E l \in log : l.row = r /\ l.status = "ok"

\* "now - two hours" falls after any claim made so far; with TimelyRecovery no
\* attempt that a consumer holds is that old.
Cutoffs == {t \in 0..clock : TimelyRecovery => \A c \in DOMAIN con : con[c].pc # "idle" => t < con[c].msg.gen}

RecoverUpTo(p, t) ==
  /\ InvAt(p, "recover") /\ t \in Cutoffs
  /\ row' = [r \in Rows |-> IF Stale(r, t) THEN RowIs("pending") ELSE row[r]]
  /\ InvGoto(p, "list")
  /\ UNCHANGED <<job, log, redacted, revoked, queue, clock, requested>>

RecoverStale(p) == \E t \in 0..clock : RecoverUpTo(p, t)

\* Variant of ListJobs: only the jobs that are already sending.
ListSending(p) ==
  /\ InvAt(p, "list")
  /\ inv' = [inv EXCEPT ![p].pc = "next",
               ![p].todoJobs = {<<j, job[j].cred>> : j \in
                  {i \in Jobs : job[i].status = "sending" /\ InStatus({i}, "pending") # {}}}]
  /\ UNCHANGED <<job, row, log, redacted, revoked, queue, clock, requested>>

\* The live jobs with a pending recipient, and the credential each has now.
ListJobs(p) ==
  /\ InvAt(p, "list")
  /\ inv' = [inv EXCEPT ![p].pc = "next",
               ![p].todoJobs = {<<j, job[j].cred>> : j \in
                  {i \in Jobs : job[i].status \in Active /\ InStatus({i}, "pending") # {}}}]
  /\ UNCHANGED <<job, row, log, redacted, revoked, queue, clock, requested>>

NextJob(p) ==
  /\ InvAt(p, "next")
  /\ IF inv[p].todoJobs = {} THEN inv' = [inv EXCEPT ![p] = InvIdle]
     ELSE \E x \in inv[p].todoJobs :
            /\ \A y \in inv[p].todoJobs : x[1] <= y[1]
            /\ inv' = [inv EXCEPT ![p].pc = "quota_sent", ![p].job = x[1], ![p].cred = x[2],
                                  ![p].todoJobs = inv[p].todoJobs \ {x}]
  /\ UNCHANGED <<job, row, log, redacted, revoked, queue, clock, requested>>

-----------------------------------------------------------------------------
(* remainingQuotaForCredential reads what was sent, then what is queued.   *)

ReadQuotaSent(p) ==
  /\ InvAt(p, "quota_sent")
  /\ inv' = [inv EXCEPT ![p].pc = "quota_queued",
               ![p].avail = CapOf(inv[p].cred) - SentToday(JobsCounted(inv[p].cred))]
  /\ UNCHANGED <<job, row, log, redacted, revoked, queue, clock, requested>>

ReadQuotaQueued(p) ==
  LET left == AtLeast0(inv[p].avail - Queued(JobsCounted(inv[p].cred))) IN
  /\ InvAt(p, "quota_queued")
  /\ IF left = 0 THEN Leave(p)
     ELSE inv' = [inv EXCEPT ![p].pc = "job_limit", ![p].avail = left]
  /\ UNCHANGED <<job, row, log, redacted, revoked, queue, clock, requested>>

(* remainingJobQuota: limit, sent today, queued; no limit, no bound.       *)

ReadJobLimit(p) ==
  /\ InvAt(p, "job_limit")
  /\ IF ~Exists(J(p)) THEN Leave(p)
     ELSE IF EffectiveLimit(J(p)) = 0 THEN InvGoto(p, "job_live")
     ELSE inv' = [inv EXCEPT ![p].pc = "job_sent", ![p].limit = EffectiveLimit(J(p))]
  /\ UNCHANGED <<job, row, log, redacted, revoked, queue, clock, requested>>

ReadJobSent(p) ==
  /\ InvAt(p, "job_sent")
  /\ inv' = [inv EXCEPT ![p].pc = "job_queued", ![p].limit = inv[p].limit - SentToday({J(p)})]
  /\ UNCHANGED <<job, row, log, redacted, revoked, queue, clock, requested>>

ReadJobQueued(p) ==
  LET left == AtLeast0(inv[p].limit - Queued({J(p)})) IN
  /\ InvAt(p, "job_queued")
  /\ IF left = 0 THEN Leave(p)
     ELSE inv' = [inv EXCEPT ![p].pc = "job_live", ![p].limit = 0,
                    ![p].avail = IF left < inv[p].avail THEN left ELSE inv[p].avail]
  /\ UNCHANGED <<job, row, log, redacted, revoked, queue, clock, requested>>

-----------------------------------------------------------------------------
(* enqueuePendingRecipientsForJob.                                         *)

\* The credential read here goes into every message of this pass.
ReadLiveJob(p) ==
  /\ InvAt(p, "job_live")
  /\ IF job[J(p)].status \notin Active THEN Leave(p)
     ELSE inv' = [inv EXCEPT ![p].pc = "select", ![p].cred = job[J(p)].cred]
  /\ UNCHANGED <<job, row, log, redacted, revoked, queue, clock, requested>>

SelectPending(p) ==
  /\ InvAt(p, "select")
  /\ inv' = [inv EXCEPT ![p].pc = "claim", ![p].todo = FirstPending(J(p), inv[p].avail), ![p].avail = 0]
  /\ UNCHANGED <<job, row, log, redacted, revoked, queue, clock, requested>>

\* Variant of Stamp: the time of the first claim, kept.
FirstStamp == IF clock = 0 THEN 1 ELSE clock

\* queuedAt = Date.now(), taken to be later at every claim.
Stamp == clock + 1

\* UPDATE ... SET status = 'queued', queued_at = now WHERE status = 'pending':
\* whoever changes the row has claimed it.
Claim(p) ==
  \E r \in inv[p].todo :
    /\ InvAt(p, "claim") /\ \A q \in inv[p].todo : r[2] <= q[2]
    /\ IF row[r].status = "pending"
       THEN /\ clock < MaxClock
            /\ clock' = Stamp
            /\ row' = [row EXCEPT ![r] = [status |-> "queued", queuedAt |-> Stamp]]
            /\ inv' = [inv EXCEPT ![p].pc = "push", ![p].gen = Stamp]
       ELSE /\ inv' = [inv EXCEPT ![p].todo = inv[p].todo \ {r}]
            /\ UNCHANGED <<clock, row>>
    /\ UNCHANGED <<job, log, redacted, revoked, queue, requested>>

\* The recipient that p has claimed: the first of its list.
Claimed(p) == CHOOSE r \in inv[p].todo : \A q \in inv[p].todo : r[2] <= q[2]

Pushed(p) ==
  {[gen |-> inv[p].gen, row |-> Claimed(p), cred |-> inv[p].cred, tries |-> 0, leased |-> FALSE]}

Push(p) ==
  /\ InvAt(p, "push")
  /\ queue' = queue \union Pushed(p)
  /\ inv' = [inv EXCEPT ![p].pc = "claim", ![p].gen = 0, ![p].pushed = TRUE,
                        ![p].todo = inv[p].todo \ {Claimed(p)}]
  /\ UNCHANGED <<job, row, log, redacted, revoked, clock, requested>>

\* send() throws, and the message may have been taken all the same.
PushFails(p) ==
  /\ InvAt(p, "push")
  /\ \/ "push" \in Faults /\ UNCHANGED queue
     \/ "push_taken" \in Faults /\ queue' = queue \union Pushed(p)
  /\ InvGoto(p, "release")
  /\ UNCHANGED <<job, row, log, redacted, revoked, clock, requested>>

\* Variant of Release: whatever the row is by now.
ReleaseAnyway(p) ==
  /\ InvAt(p, "release")
  /\ row' = [row EXCEPT ![Claimed(p)] = RowIs("pending")]
  /\ Leave(p)
  /\ UNCHANGED <<job, log, redacted, revoked, queue, clock, requested>>

\* The claim is undone, if it is still this one; the error goes to the caller.
Release(p) ==
  LET r == Claimed(p) IN
  /\ InvAt(p, "release")
  /\ row' = IF row[r].status = "queued" /\ row[r].queuedAt = inv[p].gen
            THEN [row EXCEPT ![r] = RowIs("pending")] ELSE row
  /\ Leave(p)
  /\ UNCHANGED <<job, log, redacted, revoked, queue, clock, requested>>

\* All claimed: a job with a message under way is no longer pending.
Promote(p) ==
  /\ InvAt(p, "claim") /\ inv[p].todo = {}
  /\ job' = IF inv[p].pushed /\ job[J(p)].status = "pending"
            THEN [job EXCEPT ![J(p)] = StatusSet(J(p), "sending", job[J(p)].finished)] ELSE job
  /\ Leave(p)
  /\ UNCHANGED <<row, log, redacted, revoked, queue, clock, requested>>

-----------------------------------------------------------------------------
(* updateSendJobRate and its actions: each reads the job, decides, and     *)
(* writes in a second statement or batch.                                  *)

CancelRead(p) ==
  \E j \in Jobs :
    /\ job[j].status \in Active
    /\ Start(p, "cancel", "cancel_write", j, InvIdle)
    /\ UNCHANGED <<job, row, log, redacted, revoked, queue, clock, requested>>

\* Variant of CancelledRows: what is queued is left to the consumer.
CancelledPending(S) == [r \in Rows |-> IF r[1] \in S /\ row[r].status = "pending" THEN RowIs("cancelled") ELSE row[r]]

\* Variant of CancelledRows: whoever has no failure.
CancelledUnfailed(S) == [r \in Rows |-> IF r[1] \in S /\ row[r].status # "bounce" THEN RowIs("cancelled") ELSE row[r]]

CancelledRows(S) ==
  [r \in Rows |-> IF r[1] \in S /\ row[r].status \in {"pending", "queued"} THEN RowIs("cancelled") ELSE row[r]]

CancelWrite(p) ==
  /\ InvAt(p, "cancel_write")
  /\ job' = [job EXCEPT ![J(p)] = StatusSet(J(p), "cancelled", TRUE)]
  /\ row' = CancelledRows({J(p)})
  /\ Leave(p)
  /\ UNCHANGED <<log, redacted, revoked, queue, clock, requested>>

Retryable(j) == job[j].status \in {"aborted", "cancelled"} \/ (Exists(j) /\ job[j].bounce > 0)

RetryRead(p) ==
  \E j \in Jobs, c \in Creds :
    /\ Retryable(j)
    /\ Start(p, "retry", "retry_write", j, [InvIdle EXCEPT !.cred = c])
    /\ UNCHANGED <<job, row, log, redacted, revoked, queue, clock, requested>>

RetryWrite(p) ==
  /\ InvAt(p, "retry_write")
  /\ row' = [r \in Rows |-> IF r[1] = J(p) /\ row[r].status \in {"bounce", "cancelled", "queued"}
                            THEN RowIs("pending") ELSE row[r]]
  /\ job' = IF ~Exists(J(p)) THEN job
            ELSE [job EXCEPT ![J(p)] = [StatusSet(J(p), "pending", FALSE) EXCEPT !.cred = inv[p].cred, !.bounce = 0]]
  /\ InvGoto(p, "quota_sent")
  /\ UNCHANGED <<log, redacted, revoked, queue, clock, requested>>

DeleteRead(p) ==
  \E j \in Jobs :
    /\ Exists(j) /\ job[j].status \notin Active
    /\ Start(p, "delete", "delete_write", j, InvIdle)
    /\ UNCHANGED <<job, row, log, redacted, revoked, queue, clock, requested>>

\* The recipients go with the job (ON DELETE CASCADE), its letter does not.
DeleteWrite(p) ==
  /\ InvAt(p, "delete_write")
  /\ log' = {l \in log : l.row[1] # J(p)}
  /\ job' = [job EXCEPT ![J(p)] = [NoJob EXCEPT !.status = "deleted"]]
  /\ row' = [r \in Rows |-> IF r[1] = J(p) THEN RowIs("absent") ELSE row[r]]
  /\ Leave(p)
  /\ UNCHANGED <<redacted, revoked, queue, clock, requested>>

RateRead(p) ==
  \E j \in Jobs, r \in Rates :
    /\ job[j].status \in Active
    /\ Start(p, "rate", "rate_write", j, [InvIdle EXCEPT !.cred = job[j].cred, !.rate = r])
    /\ UNCHANGED <<job, row, log, redacted, revoked, queue, clock, requested>>

RateWrite(p) ==
  /\ InvAt(p, "rate_write")
  /\ job' = IF Exists(J(p)) THEN [job EXCEPT ![J(p)].rate = inv[p].rate] ELSE job
  /\ switched' = switched \ {J(p)}
  /\ inv' = [inv EXCEPT ![p].pc = "quota_sent", ![p].rate = NoJob.rate]
  /\ UNCHANGED <<row, log, redacted, revoked, queue, clock, verified, mails, con>>

\* updateRemainingLetter writes a new letter body (subjects are not modelled).
EditRead(p) ==
  \E j \in Jobs :
    /\ job[j].status \in Active
    /\ Start(p, "edit", "edit_write", j, InvIdle)
    /\ UNCHANGED <<job, row, log, redacted, revoked, queue, clock, requested>>

EditWrite(p) ==
  /\ InvAt(p, "edit_write")
  /\ redacted' = redacted \ {J(p)}
  /\ Leave(p)
  /\ UNCHANGED <<job, row, log, revoked, queue, clock, requested>>

-----------------------------------------------------------------------------
(* deleteMailCredential: jobs and recipients in one batch with the         *)
(* revocation.                                                             *)

RevokeRead(p) ==
  \E c \in Creds :
    /\ c \notin revoked
    /\ Start(p, "revoke", "revoke_write", 1, [InvIdle EXCEPT !.cred = c])
    /\ UNCHANGED <<job, row, log, redacted, revoked, queue, clock, requested>>

RevokeWrite(p) ==
  LET mine == {j \in Jobs : Exists(j) /\ job[j].cred = inv[p].cred} IN
  /\ InvAt(p, "revoke_write")
  /\ job' = [j \in Jobs |-> IF j \in mine /\ job[j].status \in Active THEN StatusSet(j, "cancelled", TRUE) ELSE job[j]]
  /\ row' = CancelledRows(mine)
  /\ revoked' = revoked \union {inv[p].cred}
  /\ Leave(p)
  /\ UNCHANGED <<log, redacted, queue, clock, requested>>

-----------------------------------------------------------------------------
(* redactFinishedUserLetters: list the letters whose time is up, then      *)
(* redact them one batch each.                                             *)

RedactStart(p) ==
  LET due == {j \in Jobs : job[j].status \in Final /\ job[j].due /\ j \notin redacted} IN
  /\ due # {}
  /\ Start(p, "redact", "redact_write", 1, [InvIdle EXCEPT !.todoJobs = {<<j, NoCred>> : j \in due}])
  /\ UNCHANGED <<job, row, log, redacted, revoked, queue, clock, requested>>

RedactWrite(p) ==
  /\ InvAt(p, "redact_write")
  /\ \E x \in inv[p].todoJobs :
       /\ redacted' = redacted \union {x[1]}
       /\ inv' = [inv EXCEPT ![p] = IF inv[p].todoJobs = {x} THEN InvIdle
                                    ELSE [inv[p] EXCEPT !.todoJobs = inv[p].todoJobs \ {x}]]
  /\ UNCHANGED <<job, row, log, revoked, queue, clock, requested>>

-----------------------------------------------------------------------------
\* A statement fails: the cron pass survives it once it is at a job.
InvThrows(p) ==
  /\ "throw" \in Faults /\ ~InvAt(p, "idle")
  /\ inv' = [inv EXCEPT ![p] = IF inv[p].pc \in {"recover", "list"} THEN InvIdle ELSE Left(p)]
  /\ UNCHANGED <<job, row, log, redacted, revoked, queue, clock, requested>>

InvEvict(p) ==
  /\ "evict_request" \in Faults /\ ~InvAt(p, "idle")
  /\ inv' = [inv EXCEPT ![p] = InvIdle]
  /\ UNCHANGED <<job, row, log, redacted, revoked, queue, clock, requested>>

Begin(p) ==
  \/ CreateJob(p) \/ CronStart(p) \/ CancelRead(p) \/ RetryRead(p) \/ DeleteRead(p)
  \/ RateRead(p) \/ EditRead(p) \/ RevokeRead(p) \/ RedactStart(p)

Continue(p) ==
  \/ StageRecipients(p) \/ RecoverStale(p) \/ ListJobs(p) \/ NextJob(p)
  \/ ReadQuotaSent(p) \/ ReadQuotaQueued(p) \/ ReadJobLimit(p) \/ ReadJobSent(p) \/ ReadJobQueued(p)
  \/ ReadLiveJob(p) \/ SelectPending(p) \/ Claim(p) \/ Push(p) \/ PushFails(p) \/ Release(p) \/ Promote(p)
  \/ CancelWrite(p) \/ RetryWrite(p) \/ DeleteWrite(p) \/ RateWrite(p) \/ EditWrite(p)
  \/ RevokeWrite(p) \/ RedactWrite(p)
=============================================================================
