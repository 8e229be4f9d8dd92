---------------------------- MODULE QueueConsumer ----------------------------
(***************************************************************************)
(* app/src/send-queue.ts: one queue() invocation handles one message       *)
(* (max_batch_size is 1).  Each action is one D1 statement, one call to    *)
(* the rate limiter or one SMTP conversation, so whatever another          *)
(* invocation does can fall between any two of them.  con[c].pc names what *)
(* comes next; ack() and retry() only mark the message, and the mark takes *)
(* effect when the invocation ends.                                        *)
(***************************************************************************)
EXTENDS SendStore

At(c, p) == con[c].pc = p
Goto(c, p) == con' = [con EXCEPT ![c].pc = p]
MarkAck(c, p) == con' = [con EXCEPT ![c].pc = p, ![c].ack = "ack"]
MyJob(c) == con[c].msg.row[1]

consumed == <<row, log, switched, redacted, revoked, verified, clock, mails, inv>>

\* The end of an invocation settles its message: acknowledged, it is gone; to
\* be retried, it becomes deliverable again or, after MaxDeliveries, goes to
\* the dead-letter queue, which nothing reads.
Settled(c, how) ==
  LET mine == {m \in queue : m.gen = con[c].msg.gen} IN
  (queue \ mine) \union
    IF how = "ack" THEN {}
    ELSE {[m EXCEPT !.leased = FALSE] : m \in {x \in mine : x.tries < MaxDeliveries}}

Return(c, how) ==
  /\ queue' = Settled(c, how)
  /\ con' = [con EXCEPT ![c] = ConIdle]

-----------------------------------------------------------------------------
\* The queue hands a message to an idle consumer.
Deliver(c) ==
  /\ At(c, "idle")
  /\ \E m \in queue :
       /\ ~m.leased
       /\ queue' = (queue \ {m}) \union {[m EXCEPT !.leased = TRUE, !.tries = m.tries + 1]}
       /\ con' = [con EXCEPT ![c] = [ConIdle EXCEPT !.pc = "job",
                    !.msg = [gen |-> m.gen, row |-> m.row, cred |-> m.cred, tries |-> m.tries + 1]]]
  /\ UNCHANGED <<job, consumed>>

\* SELECT the job; a message of a job that is gone is acknowledged.
ReadJob(c) ==
  /\ At(c, "job")
  /\ \/ ~Exists(MyJob(c)) /\ Return(c, "ack")
     \/ /\ Exists(MyJob(c))
        /\ con' = [con EXCEPT ![c].pc = "credential", ![c].cred = job[MyJob(c)].cred]
        /\ UNCHANGED queue
  /\ UNCHANGED <<job, consumed>>

\* SELECT the job's credential where it is not revoked.
ReadCredential(c) ==
  /\ At(c, "credential")
  /\ IF con[c].cred \in revoked THEN MarkAck(c, "abort_gone") ELSE Goto(c, "staged")
  /\ UNCHANGED <<job, queue, consumed>>

\* markJobAborted: whatever the job's status is by now.
Aborted(j) == [job EXCEPT ![j] = StatusSet(j, "aborted", TRUE)]

AbortCredentialGone(c) ==
  /\ At(c, "abort_gone")
  /\ job' = Aborted(MyJob(c))
  /\ Return(c, "ack")
  /\ UNCHANGED consumed

\* The message must name the job's credential and be its recipient's current
\* attempt.
ReadStaged(c) ==
  /\ At(c, "staged")
  /\ IF con[c].msg.cred = con[c].cred /\ Current(con[c].msg)
     THEN Goto(c, "limit") ELSE MarkAck(c, "finish")
  /\ UNCHANGED <<job, queue, consumed>>

\* maySendQueuedRecipient, first read: the job's status and limit.
ReadLimit(c) ==
  /\ At(c, "limit")
  /\ IF job[MyJob(c)].status \notin Active THEN MarkAck(c, "finish")
     ELSE IF EffectiveLimit(MyJob(c)) = 0 THEN Goto(c, "slot")
     ELSE con' = [con EXCEPT ![c].pc = "count", ![c].avail = EffectiveLimit(MyJob(c))]
  /\ UNCHANGED <<job, queue, consumed>>

\* Second read: what is left of the limit today.
CountSent(c) ==
  /\ At(c, "count")
  /\ con' = [con EXCEPT ![c].pc = "window",
               ![c].avail = AtLeast0(con[c].avail - SentToday({MyJob(c)}))]
  /\ UNCHANGED <<job, queue, consumed>>

\* Third read: is the recipient among the first "avail" queued ones?
ReadWindow(c) ==
  /\ At(c, "window")
  /\ IF con[c].msg.row \in FirstQueued(MyJob(c), con[c].avail) THEN Goto(c, "slot") ELSE Goto(c, "demote")
  /\ UNCHANGED <<job, queue, consumed>>

\* If not, the recipient waits for another day, unless it was claimed anew.
Demote(c) ==
  /\ At(c, "demote")
  /\ row' = IF Current(con[c].msg) THEN [row EXCEPT ![con[c].msg.row] = RowIs("pending")] ELSE row
  /\ MarkAck(c, "finish")
  /\ UNCHANGED <<job, log, switched, redacted, revoked, verified, queue, clock, mails, inv>>

\* waitForSendSlot: granted, or four minutes were not enough.
AcquireSlot(c) ==
  /\ At(c, "slot")
  /\ \/ Goto(c, "current")
     \/ con' = [con EXCEPT ![c].pc = "finish", ![c].ack = "retry"]
  /\ UNCHANGED <<job, queue, consumed>>

\* Variant of ReadCurrent: drops the mail of a redacted letter and goes on.
SkipRedacted(c) ==
  /\ At(c, "current")
  /\ IF ~Current(con[c].msg) \/ MyJob(c) \in redacted THEN MarkAck(c, "finish") ELSE Goto(c, "send")
  /\ UNCHANGED <<job, queue, consumed>>

\* After the wait the attempt must still be current, and the letter there.
ReadCurrent(c) ==
  /\ At(c, "current")
  /\ IF ~Current(con[c].msg) THEN MarkAck(c, "finish")
     ELSE IF MyJob(c) \in redacted THEN MarkAck(c, "abort_redacted")
     ELSE Goto(c, "send")
  /\ UNCHANGED <<job, queue, consumed>>

AbortRedacted(c) ==
  /\ At(c, "abort_redacted")
  /\ job' = Aborted(MyJob(c))
  /\ con' = [con EXCEPT ![c].pc = "counters", ![c].aborted = TRUE]
  /\ UNCHANGED <<queue, consumed>>

-----------------------------------------------------------------------------
\* sendOneMail.  The server accepts the mail ...
Accepted(c) ==
  mails' = mails \union {[row |-> con[c].msg.row, gen |-> con[c].msg.gen, tries |-> con[c].msg.tries]}

\* Variant of SendOk: a 4xx after DATA, the mail accepted and retried.
SendOkThenRetry(c) ==
  /\ At(c, "send") /\ "ok" \in Outcomes
  /\ Accepted(c)
  /\ con' = [con EXCEPT ![c].pc = "counters", ![c].ack = "retry"]
  /\ UNCHANGED <<job, row, log, switched, redacted, revoked, verified, queue, clock, inv>>

SendOk(c) ==
  /\ At(c, "send") /\ "ok" \in Outcomes
  /\ Accepted(c)
  /\ con' = [con EXCEPT ![c].pc = "log", ![c].kind = "ok"]
  /\ UNCHANGED <<job, row, log, switched, redacted, revoked, verified, queue, clock, inv>>

\* ... or refuses the login, which is a fault of the account, ...
SendCredentialFailure(c) ==
  /\ At(c, "send") /\ "credential" \in Outcomes
  /\ Goto(c, "abort_blocked")
  /\ UNCHANGED <<job, queue, consumed>>

AbortBlocked(c) ==
  /\ At(c, "abort_blocked")
  /\ job' = Aborted(MyJob(c))
  /\ con' = [con EXCEPT ![c].pc = "counters", ![c].aborted = TRUE, ![c].ack = "ack"]
  /\ UNCHANGED <<queue, consumed>>

\* ... or answers 4xx: a retry while attempts are left ...
SendTransient(c) ==
  /\ At(c, "send") /\ "transient" \in Outcomes /\ con[c].msg.tries < TransientMax
  /\ con' = [con EXCEPT ![c].pc = "counters", ![c].ack = "retry"]
  /\ UNCHANGED <<job, queue, consumed>>

\* ... and a bounce otherwise, as for every other error ("dead": the server
\* says there is no such recipient).  A connection lost after DATA is such an
\* error too, although the server has taken the mail ("ambiguous").
BounceKinds(c) ==
  {k \in {"bounce", "dead"} :
     \/ k = "bounce" /\ "rejected" \in Outcomes
     \/ k = "bounce" /\ "transient" \in Outcomes /\ con[c].msg.tries >= TransientMax
     \/ k = "dead" /\ "unknown_user" \in Outcomes}

SendBounce(c) ==
  /\ At(c, "send")
  /\ \E k \in BounceKinds(c) :
       /\ con' = [con EXCEPT ![c].pc = "log", ![c].kind = k, ![c].nBounce = con[c].nBounce + 1]
       /\ \/ UNCHANGED mails
          \/ k = "bounce" /\ "ambiguous" \in Faults /\ Accepted(c)
  /\ UNCHANGED <<job, row, log, switched, redacted, revoked, verified, queue, clock, inv>>

-----------------------------------------------------------------------------
\* Variant of LogInsert: INSERT OR IGNORE, one entry per recipient.
LogOncePerRecipient(c) ==
  /\ At(c, "log") /\ Exists(MyJob(c))
  /\ log' = IF \E l \in log : l.row = con[c].msg.row THEN log
            ELSE log \union {[row |-> con[c].msg.row, gen |-> con[c].msg.gen, tries |-> con[c].msg.tries,
                              status |-> IF con[c].kind = "ok" THEN "ok" ELSE "bounce", today |-> TRUE]}
  /\ Goto(c, "mark")
  /\ UNCHANGED <<job, row, switched, redacted, revoked, verified, queue, clock, mails, inv>>

\* logSend, first statement.  send_log references send_jobs: with the job
\* gone the INSERT fails (LogFails).
LogInsert(c) ==
  /\ At(c, "log") /\ Exists(MyJob(c))
  /\ log' = log \union {[row |-> con[c].msg.row, gen |-> con[c].msg.gen, tries |-> con[c].msg.tries,
                         status |-> IF con[c].kind = "ok" THEN "ok" ELSE "bounce", today |-> TRUE]}
  /\ Goto(c, "mark")
  /\ UNCHANGED <<job, row, switched, redacted, revoked, verified, queue, clock, mails, inv>>

\* Variant of Counted: sentCount++ ahead of the try block.
CountsEveryAttempt(c) == [con EXCEPT ![c].pc = "counters", ![c].ack = "ack", ![c].nSent = 1]

\* Once logged, an accepted mail counts as sent, a bounce already counted.
Counted(c) == [con EXCEPT ![c].pc = "counters", ![c].ack = "ack",
                 ![c].nSent = IF con[c].kind = "ok" THEN 1 ELSE 0]

\* Variant of MarkRecipient: the kind of failure becomes the row's status.
MarkKind(c) ==
  /\ At(c, "mark")
  /\ row' = [row EXCEPT ![con[c].msg.row].status = con[c].kind]
  /\ IF con[c].kind = "bounce" THEN con' = Counted(c) ELSE Goto(c, "contact")
  /\ UNCHANGED <<job, log, switched, redacted, revoked, verified, queue, clock, mails, inv>>

\* Second statement: the recipient's row, whatever attempt it is at by now.
MarkRecipient(c) ==
  /\ At(c, "mark")
  /\ row' = IF row[con[c].msg.row].status = "absent" THEN row
            ELSE [row EXCEPT ![con[c].msg.row].status = IF con[c].kind = "ok" THEN "ok" ELSE "bounce"]
  /\ IF con[c].kind = "bounce" THEN con' = Counted(c) ELSE Goto(c, "contact")
  /\ UNCHANGED <<job, log, switched, redacted, revoked, verified, queue, clock, mails, inv>>

\* Third statement: the public register learns whether the address works.
VerifyContact(c) ==
  /\ At(c, "contact")
  /\ verified' = [verified EXCEPT ![con[c].msg.row[2]] = IF con[c].kind = "ok" THEN "valid" ELSE "dead"]
  /\ con' = Counted(c)
  /\ UNCHANGED <<job, row, log, switched, redacted, revoked, queue, clock, mails, inv>>

\* A statement of logSend fails.  For a mail that was sent, the catch clause
\* takes this for a bounce and logs that; while logging a bounce, the error
\* leaves the invocation (Throw).
LogFails(c) ==
  /\ con[c].pc \in {"log", "mark", "contact"} /\ con[c].kind = "ok"
  /\ "throw" \in Faults \/ (At(c, "log") /\ ~Exists(MyJob(c)))
  /\ con' = [con EXCEPT ![c].pc = "log", ![c].kind = "bounce", ![c].nBounce = con[c].nBounce + 1]
  /\ UNCHANGED <<job, queue, consumed>>

-----------------------------------------------------------------------------
\* Variant of UpdateCounters: writes back instead of adding.
OverwriteCounters(c) ==
  LET j == MyJob(c)
      s == IF con[c].aborted THEN "aborted" ELSE "sending" IN
  /\ At(c, "counters")
  /\ job' = IF ~Exists(j) THEN job
            ELSE [job EXCEPT ![j] = [StatusSet(j, s, job[j].finished) EXCEPT
                    !.sent = con[c].nSent, !.bounce = con[c].nBounce]]
  /\ Goto(c, "finish")
  /\ UNCHANGED <<queue, consumed>>

\* The job's counters; the status is set without looking at the one it has.
UpdateCounters(c) ==
  LET j == MyJob(c)
      s == IF con[c].aborted THEN "aborted" ELSE "sending" IN
  /\ At(c, "counters")
  /\ job' = IF ~Exists(j) THEN job
            ELSE [job EXCEPT ![j] = [StatusSet(j, s, job[j].finished) EXCEPT
                    !.sent = @ + con[c].nSent, !.bounce = @ + con[c].nBounce]]
  /\ Goto(c, "finish")
  /\ UNCHANGED <<queue, consumed>>

\* Variant of ReadFinish: "more than" instead of "at least".
FinishTooLate(c) ==
  LET j == MyJob(c) IN
  /\ At(c, "finish")
  /\ IF Exists(j) /\ job[j].status # "aborted" /\ job[j].sent + job[j].bounce > NEmails
     THEN Goto(c, "done") /\ UNCHANGED queue
     ELSE Return(c, con[c].ack)
  /\ UNCHANGED <<job, consumed>>

\* maybeFinishJob: read the counters, then set the job done.
ReadFinish(c) ==
  LET j == MyJob(c) IN
  /\ At(c, "finish")
  /\ IF Exists(j) /\ job[j].status # "aborted" /\ job[j].sent + job[j].bounce >= NEmails
     THEN Goto(c, "done") /\ UNCHANGED queue
     ELSE Return(c, con[c].ack)
  /\ UNCHANGED <<job, consumed>>

MarkDone(c) ==
  /\ At(c, "done")
  /\ job' = [job EXCEPT ![MyJob(c)] = StatusSet(MyJob(c), "done", TRUE)]
  /\ Return(c, con[c].ack)
  /\ UNCHANGED consumed

-----------------------------------------------------------------------------
\* A statement outside the try block, or one that logs a bounce, fails: the
\* message is retried unless it was marked before.
Throw(c) ==
  /\ con[c].pc \notin {"idle", "slot", "send"}
  /\ con[c].pc \in {"log", "mark", "contact"} => con[c].kind # "ok"
  /\ "throw" \in Faults \/ (At(c, "log") /\ ~Exists(MyJob(c)))
  /\ Return(c, IF con[c].ack = "ack" THEN "ack" ELSE "retry")
  /\ UNCHANGED <<job, consumed>>

\* The invocation is killed: none of its marks reaches the queue.
Evict(c) ==
  /\ "evict" \in Faults /\ ~At(c, "idle")
  /\ Return(c, "retry")
  /\ UNCHANGED <<job, consumed>>

\* The queue delivers at least once: a lease may lapse while it is held.
LeaseLapses ==
  /\ "redeliver" \in Faults
  /\ \E m \in queue :
       /\ m.leased /\ m.tries < MaxDeliveries
       /\ queue' = (queue \ {m}) \union {[m EXCEPT !.leased = FALSE]}
  /\ UNCHANGED <<job, con, consumed>>

Consume(c) ==
  \/ ReadJob(c) \/ ReadCredential(c) \/ AbortCredentialGone(c) \/ ReadStaged(c)
  \/ ReadLimit(c) \/ CountSent(c) \/ ReadWindow(c) \/ Demote(c) \/ AcquireSlot(c)
  \/ ReadCurrent(c) \/ AbortRedacted(c)
  \/ SendOk(c) \/ SendCredentialFailure(c) \/ AbortBlocked(c) \/ SendTransient(c) \/ SendBounce(c)
  \/ LogInsert(c) \/ MarkRecipient(c) \/ VerifyContact(c) \/ LogFails(c)
  \/ UpdateCounters(c) \/ ReadFinish(c) \/ MarkDone(c)
=============================================================================
