------------------------- MODULE SendPipelineProofs -------------------------
(***************************************************************************)
(* Theorems about the send pipeline for every number of jobs, recipients,  *)
(* consumers and invocations, every set of operations, outcomes and        *)
(* faults, and every bound.                                                *)
(*                                                                         *)
(* TypeOK is not inductive: that a message carries a credential depends on *)
(* the enqueuer having one, which depends on where it is; IInv adds that.  *)
(* The supersession of attempts then rests on two facts: no attempt is     *)
(* newer than the latest claim (GenOK), and the only step that makes a     *)
(* recipient queued is a claim newer than all before it (OnlyClaimsQueue). *)
(***************************************************************************)
EXTENDS SendPipeline, FiniteSetTheorems, TLAPS

-----------------------------------------------------------------------------
\* Where an invocation has no credential in hand: between jobs, and in the
\* operations that need none.
NoCredPc == {"idle", "recover", "list", "next", "cancel_write", "delete_write", "edit_write", "redact_write"}

\* A sound local state of an invocation: besides its type, a credential wherever
\* one is used next, and a recipient in hand while its message is being pushed.
InvGood(r) ==
  /\ r \in InvRec
  /\ r.pc \notin NoCredPc => r.cred \in Creds
  /\ r.op = "redact" => r.pc = "redact_write"
  /\ r.op # "redact" => \A x \in r.todoJobs : x[2] \in Creds
  /\ r.pc \in {"push", "release"} => \E e \in r.todo : \A q \in r.todo : e[2] <= q[2]

\* A job that has a row in send_jobs has a credential: it is created with one.
JobGood(r) == r \in JobRec /\ (r.status \in Active \union Final => r.cred \in Creds)

\* The inductive invariant, in four parts.  Job and invocation states are stated
\* by element: a bound record set for each would hide the conditions on it.
TablesOK ==
  /\ DOMAIN job = Jobs /\ job = [j \in Jobs |-> job[j]] /\ \A j \in Jobs : JobGood(job[j])
  /\ row \in [Rows -> RowRec]
  /\ log \subseteq LogRec /\ IsFiniteSet(log)
  /\ switched \subseteq Jobs /\ redacted \subseteq Jobs /\ revoked \subseteq Creds
  /\ verified \in [Emails -> {"none", "valid", "dead"}]

QueueOK == queue \subseteq Message /\ clock \in Nat /\ mails \subseteq MailRec

ConsOK == con \in [Consumers -> ConRec]

InvsOK ==
  /\ DOMAIN inv = Invocations /\ inv = [p \in Invocations |-> inv[p]]
  /\ \A p \in Invocations : InvGood(inv[p])

IInv == TablesOK /\ QueueOK /\ ConsOK /\ InvsOK

-----------------------------------------------------------------------------
(* Types of what the actions read.                                         *)

\* A recipient key is a job and an address.
LEMMA RowParts == ASSUME NEW r \in Rows PROVE r[1] \in Jobs /\ r[2] \in Emails
BY DEF Rows

\* The parts of a consumer's local state.
LEMMA ConType ==
  ASSUME ConsOK, NEW c \in Consumers
  PROVE /\ con[c] \in ConRec /\ MyJob(c) \in Jobs
        /\ con[c].msg.row \in Rows /\ con[c].msg.gen \in Nat /\ con[c].msg.tries \in Nat
        /\ con[c].msg.cred \in Creds \union {NoCred}
BY RowParts DEF ConsOK, ConRec, MyJob

\* Replacing one consumer's state by a well-typed one keeps all well-typed.
LEMMA ConStep ==
  ASSUME ConsOK, NEW c \in Consumers, NEW r \in ConRec, con' = [con EXCEPT ![c] = r]
  PROVE ConsOK'
BY DEF ConsOK

\* So does moving on, with the message marked or not.
LEMMA GotoStep ==
  ASSUME ConsOK, NEW c \in Consumers, NEW s \in ConPc, Goto(c, s) \/ MarkAck(c, s)
  PROVE ConsOK'
<1>1. con[c] \in ConRec BY ConType
<1>2. [con[c] EXCEPT !.pc = s] \in ConRec BY <1>1 DEF ConRec
<1>3. [con[c] EXCEPT !.pc = s, !.ack = "ack"] \in ConRec BY <1>1 DEF ConRec
<1>4. CASE Goto(c, s)
  <2>1. con' = [con EXCEPT ![c] = [con[c] EXCEPT !.pc = s]] BY <1>4 DEF Goto
  <2> QED BY <2>1, <1>2, ConStep
<1>5. CASE MarkAck(c, s)
  <2>1. con' = [con EXCEPT ![c] = [con[c] EXCEPT !.pc = s, !.ack = "ack"]] BY <1>5 DEF MarkAck
  <2> QED BY <2>1, <1>3, ConStep
<1> QED BY <1>4, <1>5

\* Setting a job's status, triggers included, leaves a sound job.
LEMMA StatusSetType ==
  ASSUME NEW j \in Jobs, JobGood(job[j]), NEW s \in Active \union Final, NEW fin \in BOOLEAN
  PROVE JobGood(StatusSet(j, s, fin))
BY DEF JobGood, StatusSet, JobRec, Exists, Active, Final, JobStatus

\* The effective daily limit of a sound job is a number.
LEMMA LimitType ==
  ASSUME NEW j \in Jobs, JobGood(job[j])
  PROVE EffectiveLimit(j) \in Nat
BY DEF JobGood, EffectiveLimit, JobRec, RateRec

\* The quota sums are numbers: the log and the recipients are finite.
LEMMA SentType ==
  ASSUME IsFiniteSet(log), NEW S
  PROVE SentToday(S) \in Nat
<1>1. OkToday(S) \subseteq log BY DEF OkToday
<1>2. IsFiniteSet(OkToday(S)) BY <1>1, FS_Subset
<1> QED BY <1>2, FS_CardinalityType DEF SentToday

\* Likewise for what is queued.
LEMMA QueuedType ==
  ASSUME NEW S
  PROVE Queued(S) \in Nat
<1>1. IsFiniteSet(Jobs) /\ IsFiniteSet(Emails) BY SizesAssumption, FS_Interval DEF Jobs, Emails
<1>2. IsFiniteSet(Rows) BY <1>1, FS_Product DEF Rows
<1>3. InStatus(S, "queued") \subseteq Rows BY DEF InStatus
<1>4. IsFiniteSet(InStatus(S, "queued")) BY <1>2, <1>3, FS_Subset
<1> QED BY <1>4, FS_CardinalityType DEF Queued

\* Replacing one invocation's state by a sound one keeps all sound.
LEMMA InvStep ==
  ASSUME InvsOK, NEW p \in Invocations, NEW r, InvGood(r), inv' = [inv EXCEPT ![p] = r]
  PROVE InvsOK'
BY DEF InvsOK

\* So does moving on with the credential in hand.
LEMMA InvGotoStep ==
  ASSUME InvsOK, NEW p \in Invocations, NEW s \in InvPc, inv[p].pc \notin NoCredPc, 
         s \notin {"push", "release", "redact_write"}, InvGoto(p, s)
  PROVE InvsOK'
<1>1. InvGood(inv[p]) BY DEF InvsOK
<1>2. InvGood([inv[p] EXCEPT !.pc = s]) BY <1>1 DEF InvGood, InvRec, NoCredPc
<1>3. inv' = [inv EXCEPT ![p] = [inv[p] EXCEPT !.pc = s]] BY DEF InvGoto
<1> QED BY <1>2, <1>3, InvStep

\* So does leaving a job: the cron pass keeps its list, with its credentials.
LEMMA LeaveStep ==
  ASSUME InvsOK, NEW p \in Invocations, Leave(p)
  PROVE InvsOK'
<1>1. InvGood(inv[p]) BY DEF InvsOK
<1>2. InvGood(InvIdle) BY SizesAssumption DEF InvGood, InvIdle, InvRec, InvPc, NoCredPc, NoJob, RateRec, Jobs
<1>3. CASE inv[p].op = "cron"
  <2>1. inv[p].todoJobs \subseteq Jobs \X (Creds \union {NoCred}) /\ \A x \in inv[p].todoJobs : x[2] \in Creds
    BY <1>1, <1>3 DEF InvGood, InvRec
  <2>2. InvIdle \in InvRec /\ InvIdle.todo = {} BY <1>2 DEF InvGood, InvIdle
  <2>3. [InvIdle EXCEPT !.pc = "next", !.op = "cron", !.todoJobs = inv[p].todoJobs] \in InvRec
    BY <2>1, <2>2 DEF InvRec, InvPc, AllOps
  <2>4. InvGood([InvIdle EXCEPT !.pc = "next", !.op = "cron", !.todoJobs = inv[p].todoJobs])
    BY <2>1, <2>2, <2>3 DEF InvGood, NoCredPc, InvRec
  <2> QED BY <1>3, <2>4, InvStep DEF Leave, Left
<1>4. CASE inv[p].op # "cron" BY <1>2, <1>4, InvStep DEF Leave, Left
<1> QED BY <1>3, <1>4

\* An idle consumer is well-typed.
LEMMA ConIdleType == ConIdle \in ConRec
BY SizesAssumption DEF ConIdle, NoDelivery, ConRec, ConPc, Rows, Jobs, Emails

\* The end of an invocation leaves well-typed consumers and messages.
LEMMA ReturnStep ==
  ASSUME IInv, NEW c \in Consumers, NEW how, Return(c, how)
  PROVE ConsOK' /\ queue' \subseteq Message
<1>2. ConsOK' BY ConIdleType, ConStep DEF IInv, Return
<1>3. \A m \in queue : [m EXCEPT !.leased = FALSE] \in Message BY DEF IInv, QueueOK, Message
<1>4. queue' \subseteq Message BY <1>3 DEF IInv, QueueOK, Return, Settled
<1> QED BY <1>2, <1>4

\* A step that changes nothing but the queue and the consumers.
LEMMA QuietStep ==
  ASSUME IInv, ConsOK', queue' \subseteq Message, UNCHANGED <<job, consumed>>
  PROVE IInv'
BY DEF IInv, TablesOK, QueueOK, InvsOK, consumed

-----------------------------------------------------------------------------
(* The inductive invariant survives every step of a consumer ...           *)

\* Steps that change no table: reads, outcomes that write nothing, failures.
LEMMA ConsumerReads ==
  ASSUME IInv, NEW c \in Consumers,
         \/ Deliver(c) \/ ReadJob(c) \/ ReadCredential(c) \/ ReadStaged(c) \/ ReadLimit(c) \/ CountSent(c)
         \/ ReadWindow(c) \/ AcquireSlot(c) \/ ReadCurrent(c) \/ SendCredentialFailure(c) \/ SendTransient(c)
         \/ LogFails(c) \/ ReadFinish(c) \/ Throw(c) \/ Evict(c)
  PROVE IInv'
<1>0. ConsOK /\ queue \subseteq Message BY DEF IInv, QueueOK
<1>1. con[c] \in ConRec /\ MyJob(c) \in Jobs BY <1>0, ConType
<1>2. JobGood(job[MyJob(c)]) BY <1>1 DEF IInv, TablesOK
<1>3. EffectiveLimit(MyJob(c)) \in Nat BY <1>1, <1>2, LimitType
<1> SUFFICES ConsOK' /\ queue' \subseteq Message /\ UNCHANGED <<job, consumed>> BY QuietStep
<1>4. CASE Deliver(c)
  <2>1. PICK m \in queue :
          /\ queue' = (queue \ {m}) \union {[m EXCEPT !.leased = TRUE, !.tries = m.tries + 1]}
          /\ con' = [con EXCEPT ![c] = [ConIdle EXCEPT !.pc = "job",
               !.msg = [gen |-> m.gen, row |-> m.row, cred |-> m.cred, tries |-> m.tries + 1]]]
    BY <1>4 DEF Deliver
  <2>2. m \in Message BY <1>0
  <2>3. PICK n \in Nat : n = m.tries + 1 BY <2>2 DEF Message
  <2>4. [m EXCEPT !.leased = TRUE, !.tries = n] \in Message BY <2>2 DEF Message
  <2>5. [gen |-> m.gen, row |-> m.row, cred |-> m.cred, tries |-> n]
          \in [gen : Nat, row : Rows, cred : Creds \union {NoCred}, tries : Nat]
    BY <2>2 DEF Message
  <2>6. [ConIdle EXCEPT !.pc = "job",
          !.msg = [gen |-> m.gen, row |-> m.row, cred |-> m.cred, tries |-> n]] \in ConRec
    BY <2>5, ConIdleType DEF ConRec, ConPc
  <2>7. ConsOK' BY <1>0, <2>1, <2>3, <2>6, ConStep
  <2> QED BY <1>0, <1>4, <2>1, <2>3, <2>4, <2>7 DEF Deliver
<1>5. CASE ReadJob(c)
  <2>1. CASE Return(c, "ack") BY <1>5, <2>1, ReturnStep DEF ReadJob
  <2>2. CASE con' = [con EXCEPT ![c].pc = "credential", ![c].cred = job[MyJob(c)].cred] /\ UNCHANGED queue
    <3>1. [con[c] EXCEPT !.pc = "credential", !.cred = job[MyJob(c)].cred] \in ConRec
      BY <1>1, <1>2 DEF ConRec, ConPc, JobGood, JobRec
    <3>2. con' = [con EXCEPT ![c] = [con[c] EXCEPT !.pc = "credential", !.cred = job[MyJob(c)].cred]]
      BY <2>2
    <3> QED BY <1>0, <1>5, <2>2, <3>1, <3>2, ConStep DEF ReadJob
  <2> QED BY <1>5, <2>1, <2>2 DEF ReadJob
<1>6. CASE ReadCredential(c) BY <1>0, <1>6, GotoStep DEF ReadCredential, ConPc
<1>7. CASE ReadStaged(c) BY <1>0, <1>7, GotoStep DEF ReadStaged, ConPc
<1>8. CASE ReadLimit(c)
  <2>1. CASE Goto(c, "slot") \/ MarkAck(c, "finish") BY <1>0, <1>8, <2>1, GotoStep DEF ReadLimit, ConPc
  <2>2. CASE con' = [con EXCEPT ![c].pc = "count", ![c].avail = EffectiveLimit(MyJob(c))]
    <3>1. [con[c] EXCEPT !.pc = "count", !.avail = EffectiveLimit(MyJob(c))] \in ConRec
      BY <1>1, <1>3 DEF ConRec, ConPc
    <3>2. con' = [con EXCEPT ![c] = [con[c] EXCEPT !.pc = "count", !.avail = EffectiveLimit(MyJob(c))]]
      BY <2>2
    <3> QED BY <1>0, <1>8, <3>1, <3>2, ConStep DEF ReadLimit
  <2> QED BY <1>8, <2>1, <2>2 DEF ReadLimit
<1>9. CASE CountSent(c)
  <2> DEFINE n == AtLeast0(con[c].avail - SentToday({MyJob(c)}))
  <2>1. n \in Nat BY <1>1, SentType DEF IInv, TablesOK, AtLeast0, ConRec
  <2>2. [con[c] EXCEPT !.pc = "window", !.avail = n] \in ConRec BY <1>1, <2>1 DEF ConRec, ConPc
  <2>3. con' = [con EXCEPT ![c] = [con[c] EXCEPT !.pc = "window", !.avail = n]] BY <1>9 DEF CountSent
  <2> QED BY <1>0, <1>9, <2>2, <2>3, ConStep DEF CountSent
<1>10. CASE ReadWindow(c) BY <1>0, <1>10, GotoStep DEF ReadWindow, ConPc
<1>11. CASE AcquireSlot(c)
  <2>1. CASE Goto(c, "current") BY <1>0, <1>11, <2>1, GotoStep DEF AcquireSlot, ConPc
  <2>2. CASE con' = [con EXCEPT ![c].pc = "finish", ![c].ack = "retry"]
    <3>1. [con[c] EXCEPT !.pc = "finish", !.ack = "retry"] \in ConRec BY <1>1 DEF ConRec, ConPc
    <3>2. con' = [con EXCEPT ![c] = [con[c] EXCEPT !.pc = "finish", !.ack = "retry"]] BY <2>2
    <3> QED BY <1>0, <1>11, <3>1, <3>2, ConStep DEF AcquireSlot
  <2> QED BY <1>11, <2>1, <2>2 DEF AcquireSlot
<1>12. CASE ReadCurrent(c) BY <1>0, <1>12, GotoStep DEF ReadCurrent, ConPc
<1>13. CASE SendCredentialFailure(c) BY <1>0, <1>13, GotoStep DEF SendCredentialFailure, ConPc
<1>14. CASE SendTransient(c)
  <2>1. [con[c] EXCEPT !.pc = "counters", !.ack = "retry"] \in ConRec BY <1>1 DEF ConRec, ConPc
  <2>2. con' = [con EXCEPT ![c] = [con[c] EXCEPT !.pc = "counters", !.ack = "retry"]]
    BY <1>14 DEF SendTransient
  <2> QED BY <1>0, <1>14, <2>1, <2>2, ConStep DEF SendTransient
<1>15. CASE LogFails(c)
  <2>1. PICK n \in Nat : n = con[c].nBounce + 1 BY <1>1 DEF ConRec
  <2>2. [con[c] EXCEPT !.pc = "log", !.kind = "bounce", !.nBounce = n] \in ConRec BY <1>1 DEF ConRec, ConPc
  <2>3. con' = [con EXCEPT ![c] = [con[c] EXCEPT !.pc = "log", !.kind = "bounce", !.nBounce = n]]
    BY <1>15, <2>1 DEF LogFails
  <2> QED BY <1>0, <1>15, <2>2, <2>3, ConStep DEF LogFails
<1>16. CASE ReadFinish(c)
  <2>1. CASE Goto(c, "done") /\ UNCHANGED queue BY <1>0, <1>16, <2>1, GotoStep DEF ReadFinish, ConPc
  <2>2. CASE Return(c, con[c].ack) BY <1>16, <2>2, ReturnStep DEF ReadFinish
  <2> QED BY <1>16, <2>1, <2>2 DEF ReadFinish
<1>17. CASE Throw(c) BY <1>17, ReturnStep DEF Throw
<1>18. CASE Evict(c) BY <1>18, ReturnStep DEF Evict
<1> QED BY <1>4, <1>5, <1>6, <1>7, <1>8, <1>9, <1>10, <1>11, <1>12, <1>13, <1>14, <1>15, <1>16, <1>17, <1>18

\* Steps that change one job.
LEMMA JobStep ==
  ASSUME IInv, NEW j \in Jobs, NEW r, JobGood(r), job' = [job EXCEPT ![j] = r],
         ConsOK', queue' \subseteq Message, UNCHANGED consumed
  PROVE IInv'
BY DEF IInv, TablesOK, QueueOK, InvsOK, consumed

\* Aborting a job, adding its counters, finishing it.
LEMMA ConsumerEndsJob ==
  ASSUME IInv, NEW c \in Consumers,
         AbortCredentialGone(c) \/ AbortRedacted(c) \/ AbortBlocked(c) \/ UpdateCounters(c) \/ MarkDone(c)
  PROVE IInv'
<1> DEFINE j == MyJob(c)
<1>0. ConsOK /\ queue \subseteq Message BY DEF IInv, QueueOK
<1>1. con[c] \in ConRec /\ j \in Jobs BY <1>0, ConType
<1>2. JobGood(job[j]) BY <1>1 DEF IInv, TablesOK
<1>3. JobGood(StatusSet(j, "aborted", TRUE)) /\ JobGood(StatusSet(j, "done", TRUE))
  BY <1>1, <1>2, StatusSetType DEF Active, Final
<1>4. CASE AbortCredentialGone(c)
  <2>1. job' = [job EXCEPT ![j] = StatusSet(j, "aborted", TRUE)] BY <1>4 DEF AbortCredentialGone, Aborted
  <2>2. ConsOK' /\ queue' \subseteq Message BY <1>4, ReturnStep DEF AbortCredentialGone
  <2> QED BY <1>1, <1>3, <1>4, <2>1, <2>2, JobStep DEF AbortCredentialGone
<1>5. CASE AbortRedacted(c)
  <2>1. job' = [job EXCEPT ![j] = StatusSet(j, "aborted", TRUE)] BY <1>5 DEF AbortRedacted, Aborted
  <2>2. [con[c] EXCEPT !.pc = "counters", !.aborted = TRUE] \in ConRec BY <1>1 DEF ConRec, ConPc
  <2>3. con' = [con EXCEPT ![c] = [con[c] EXCEPT !.pc = "counters", !.aborted = TRUE]]
    BY <1>5 DEF AbortRedacted
  <2>4. ConsOK' BY <1>0, <2>2, <2>3, ConStep
  <2> QED BY <1>0, <1>1, <1>3, <1>5, <2>1, <2>4, JobStep DEF AbortRedacted
<1>6. CASE AbortBlocked(c)
  <2>1. job' = [job EXCEPT ![j] = StatusSet(j, "aborted", TRUE)] BY <1>6 DEF AbortBlocked, Aborted
  <2>2. [con[c] EXCEPT !.pc = "counters", !.aborted = TRUE, !.ack = "ack"] \in ConRec
    BY <1>1 DEF ConRec, ConPc
  <2>3. con' = [con EXCEPT ![c] = [con[c] EXCEPT !.pc = "counters", !.aborted = TRUE, !.ack = "ack"]]
    BY <1>6 DEF AbortBlocked
  <2>4. ConsOK' BY <1>0, <2>2, <2>3, ConStep
  <2> QED BY <1>0, <1>1, <1>3, <1>6, <2>1, <2>4, JobStep DEF AbortBlocked
<1>7. CASE UpdateCounters(c)
  <2>1. ConsOK' BY <1>0, <1>7, GotoStep DEF UpdateCounters, ConPc
  <2>2. CASE ~Exists(j)
    <3>1. UNCHANGED job BY <1>7, <2>2 DEF UpdateCounters
    <3> QED BY <1>0, <1>7, <2>1, <3>1, QuietStep DEF UpdateCounters
  <2>3. CASE Exists(j)
    <3>1. PICK s \in Active \union Final : s = IF con[c].aborted THEN "aborted" ELSE "sending"
      BY DEF Active, Final
    <3>2. job[j].finished \in BOOLEAN BY <1>2 DEF JobGood, JobRec
    <3>3. PICK x : x = StatusSet(j, s, job[j].finished) OBVIOUS
    <3>4. JobGood(x) BY <1>1, <1>2, <3>2, <3>3, StatusSetType
    <3>5. PICK n \in Nat : n = x.sent + con[c].nSent BY <1>1, <3>4 DEF JobGood, JobRec, ConRec
    <3>6. PICK b \in Nat : b = x.bounce + con[c].nBounce BY <1>1, <3>4 DEF JobGood, JobRec, ConRec
    <3>7. JobGood([x EXCEPT !.sent = n, !.bounce = b]) BY <3>4 DEF JobGood, JobRec
    <3>8. job' = [job EXCEPT ![j] = [x EXCEPT !.sent = n, !.bounce = b]]
      BY <1>7, <2>3, <3>1, <3>3, <3>4, <3>5, <3>6 DEF UpdateCounters, JobGood, JobRec
    <3> QED BY <1>0, <1>1, <1>7, <2>1, <3>7, <3>8, JobStep DEF UpdateCounters
  <2> QED BY <2>2, <2>3
<1>8. CASE MarkDone(c)
  <2>1. job' = [job EXCEPT ![j] = StatusSet(j, "done", TRUE)] BY <1>8 DEF MarkDone
  <2>2. ConsOK' /\ queue' \subseteq Message BY <1>8, ReturnStep DEF MarkDone
  <2> QED BY <1>1, <1>3, <1>8, <2>1, <2>2, JobStep DEF MarkDone
<1> QED BY <1>4, <1>5, <1>6, <1>7, <1>8

\* Steps that record an outcome: the mail, its log entry, its recipient.
LEMMA ConsumerRecords ==
  ASSUME IInv, NEW c \in Consumers,
         \/ Demote(c) \/ SendOk(c) \/ SendBounce(c) \/ LogInsert(c) \/ MarkRecipient(c) \/ VerifyContact(c)
  PROVE IInv'
<1>0. ConsOK /\ queue \subseteq Message BY DEF IInv, QueueOK
<1>1. /\ con[c] \in ConRec /\ con[c].msg.row \in Rows /\ con[c].msg.gen \in Nat /\ con[c].msg.tries \in Nat
  BY <1>0, ConType
<1>2. con[c].msg.row[2] \in Emails BY <1>1, RowParts
<1>3. RowIs("pending") \in RowRec BY DEF RowIs, RowRec, RowStatus
<1>4. ASSUME Accepted(c) PROVE mails' \subseteq MailRec
  BY <1>1, <1>4 DEF Accepted, MailRec, IInv, QueueOK
<1>5. ASSUME con' = Counted(c) PROVE ConsOK'
  <2>1. PICK n \in Nat : n = IF con[c].kind = "ok" THEN 1 ELSE 0 OBVIOUS
  <2>2. [con[c] EXCEPT !.pc = "counters", !.ack = "ack", !.nSent = n] \in ConRec BY <1>1 DEF ConRec, ConPc
  <2>3. con' = [con EXCEPT ![c] = [con[c] EXCEPT !.pc = "counters", !.ack = "ack", !.nSent = n]]
    BY <1>5, <2>1 DEF Counted
  <2> QED BY <1>0, <2>2, <2>3, ConStep
<1>6. CASE Demote(c)
  <2>1. ConsOK' BY <1>0, <1>6, GotoStep DEF Demote, ConPc
  <2>2. row' \in [Rows -> RowRec] BY <1>1, <1>3, <1>6 DEF Demote, IInv, TablesOK
  <2> QED BY <1>6, <2>1, <2>2 DEF Demote, IInv, TablesOK, QueueOK, InvsOK
<1>7. CASE SendOk(c)
  <2>1. [con[c] EXCEPT !.pc = "log", !.kind = "ok"] \in ConRec BY <1>1 DEF ConRec, ConPc
  <2>2. con' = [con EXCEPT ![c] = [con[c] EXCEPT !.pc = "log", !.kind = "ok"]] BY <1>7 DEF SendOk
  <2>3. ConsOK' BY <1>0, <2>1, <2>2, ConStep
  <2>4. mails' \subseteq MailRec BY <1>4, <1>7 DEF SendOk
  <2> QED BY <1>7, <2>3, <2>4 DEF SendOk, IInv, TablesOK, QueueOK, InvsOK
<1>8. CASE SendBounce(c)
  <2>1. PICK k \in BounceKinds(c) :
          /\ con' = [con EXCEPT ![c].pc = "log", ![c].kind = k, ![c].nBounce = con[c].nBounce + 1]
          /\ UNCHANGED mails \/ Accepted(c)
    BY <1>8 DEF SendBounce
  <2>2. k \in {"bounce", "dead"} BY DEF BounceKinds
  <2>3. PICK n \in Nat : n = con[c].nBounce + 1 BY <1>1 DEF ConRec
  <2>4. [con[c] EXCEPT !.pc = "log", !.kind = k, !.nBounce = n] \in ConRec BY <1>1, <2>2 DEF ConRec, ConPc
  <2>5. con' = [con EXCEPT ![c] = [con[c] EXCEPT !.pc = "log", !.kind = k, !.nBounce = n]] BY <2>1, <2>3
  <2>6. ConsOK' BY <1>0, <2>4, <2>5, ConStep
  <2>7. mails' \subseteq MailRec BY <1>4, <2>1 DEF IInv, QueueOK
  <2> QED BY <1>8, <2>6, <2>7 DEF SendBounce, IInv, TablesOK, QueueOK, InvsOK
<1>9. CASE LogInsert(c)
  <2>1. PICK l \in LogRec : log' = log \union {l}
    <3>1. PICK l : l = [row |-> con[c].msg.row, gen |-> con[c].msg.gen, tries |-> con[c].msg.tries,
                        status |-> IF con[c].kind = "ok" THEN "ok" ELSE "bounce", today |-> TRUE]
      OBVIOUS
    <3>2. l \in LogRec BY <1>1, <3>1 DEF LogRec
    <3> QED BY <1>9, <3>1, <3>2 DEF LogInsert
  <2>2. log' \subseteq LogRec /\ IsFiniteSet(log') BY <2>1, FS_AddElement DEF IInv, TablesOK
  <2>3. ConsOK' BY <1>0, <1>9, GotoStep DEF LogInsert, ConPc
  <2> QED BY <1>9, <2>2, <2>3 DEF LogInsert, IInv, TablesOK, QueueOK, InvsOK
<1>10. CASE MarkRecipient(c)
  <2>1. PICK s \in RowStatus : s = IF con[c].kind = "ok" THEN "ok" ELSE "bounce" BY DEF RowStatus
  <2>2. [row[con[c].msg.row] EXCEPT !.status = s] \in RowRec BY <1>1, <2>1 DEF IInv, TablesOK, RowRec
  <2>3. row' = row \/ row' = [row EXCEPT ![con[c].msg.row] = [row[con[c].msg.row] EXCEPT !.status = s]]
    BY <1>10, <2>1 DEF MarkRecipient
  <2>4. row' \in [Rows -> RowRec] BY <1>1, <2>2, <2>3 DEF IInv, TablesOK
  <2>5. ConsOK' BY <1>0, <1>5, <1>10, GotoStep DEF MarkRecipient, ConPc
  <2> QED BY <1>10, <2>4, <2>5 DEF MarkRecipient, IInv, TablesOK, QueueOK, InvsOK
<1>11. CASE VerifyContact(c)
  <2>1. verified' \in [Emails -> {"none", "valid", "dead"}] BY <1>2, <1>11 DEF VerifyContact, IInv, TablesOK
  <2>2. ConsOK' BY <1>5, <1>11 DEF VerifyContact
  <2> QED BY <1>11, <2>1, <2>2 DEF VerifyContact, IInv, TablesOK, QueueOK, InvsOK
<1> QED BY <1>6, <1>7, <1>8, <1>9, <1>10, <1>11

-----------------------------------------------------------------------------
(* ... and every step of a request or a cron pass.                         *)

\* Steps that change nothing but the invocation itself.
LEMMA RequestReadsStep ==
  ASSUME IInv, InvsOK', UNCHANGED <<job, row, log, redacted, revoked, queue, clock, requested>>
  PROVE IInv'
BY DEF IInv, TablesOK, QueueOK, ConsOK, requested

\* An idle invocation is sound.
LEMMA IdleGood == InvGood(InvIdle)
BY SizesAssumption DEF InvGood, InvIdle, InvRec, InvPc, NoCredPc, NoJob, RateRec, Jobs

\* Starting an operation with what it needs leaves a sound invocation.
LEMMA StartStep ==
  ASSUME InvsOK, NEW p \in Invocations, NEW op \in AllOps, NEW s \in InvPc, NEW j \in Jobs, NEW f,
         Start(p, op, s, j, f), InvGood(f), f.todo = {}, f.pc = "idle", f.op = "none",
         s \notin NoCredPc => f.cred \in Creds,
         s \notin {"push", "release"}, op # "redact", f.todoJobs = {}
  PROVE InvsOK'
<1>1. InvGood([f EXCEPT !.pc = s, !.op = op, !.job = j]) BY DEF InvGood, InvRec, AllOps
<1> QED BY <1>1, InvStep DEF Start

\* Every operation starts soundly.
LEMMA Begins ==
  ASSUME IInv, NEW p \in Invocations, Begin(p)
  PROVE IInv'
<1>0. InvsOK /\ InvGood(InvIdle) /\ 1 \in Jobs BY IdleGood, SizesAssumption DEF IInv, Jobs
<1>1. \A c \in Creds : InvGood([InvIdle EXCEPT !.cred = c])
  BY <1>0 DEF InvGood, InvRec, InvIdle, NoCredPc
<1>2. CASE CreateJob(p)
  <2>1. PICK j \in Jobs, c \in Creds, r \in Rates :
          /\ Start(p, "create", "stage", j, [InvIdle EXCEPT !.cred = c])
          /\ job' = [job EXCEPT ![j] = [NoJob EXCEPT !.status = "pending", !.cred = c, !.rate = r]]
          /\ UNCHANGED <<row, log, redacted, revoked, queue, clock, requested>>
    BY <1>2 DEF CreateJob
  <2>2. InvsOK'
    BY <1>0, <1>1, <2>1, StartStep DEF InvPc, AllOps, InvIdle
  <2>3. r \in RateRec BY RatesAssumption
  <2>4. JobGood([NoJob EXCEPT !.status = "pending", !.cred = c, !.rate = r])
    BY <2>3 DEF JobGood, JobRec, NoJob, JobStatus, Active, Final
  <2> QED BY <2>1, <2>2, <2>4 DEF IInv, TablesOK, QueueOK, ConsOK, requested
<1>3. CASE CronStart(p)
  <2>1. Start(p, "cron", "recover", 1, InvIdle) BY <1>3 DEF CronStart
  <2>2. "cron" \in AllOps /\ "recover" \in InvPc /\ "recover" \in NoCredPc BY DEF AllOps, InvPc, NoCredPc
  <2>3. InvIdle.todo = {} /\ InvIdle.pc = "idle" /\ InvIdle.op = "none" /\ InvIdle.todoJobs = {} BY DEF InvIdle
  <2>4. InvsOK' BY <1>0, <2>1, <2>2, <2>3, StartStep
  <2> QED BY <1>3, <2>4, RequestReadsStep DEF CronStart
<1>4. CASE CancelRead(p)
  <2>1. InvsOK' BY <1>0, <1>4, StartStep DEF CancelRead, InvPc, AllOps, InvIdle, NoCredPc
  <2> QED BY <1>4, <2>1, RequestReadsStep DEF CancelRead
<1>5. CASE RetryRead(p)
  <2>1. InvsOK' BY <1>0, <1>1, <1>5, StartStep DEF RetryRead, InvPc, AllOps, InvIdle
  <2> QED BY <1>5, <2>1, RequestReadsStep DEF RetryRead
<1>6. CASE DeleteRead(p)
  <2>1. InvsOK' BY <1>0, <1>6, StartStep DEF DeleteRead, InvPc, AllOps, InvIdle, NoCredPc
  <2> QED BY <1>6, <2>1, RequestReadsStep DEF DeleteRead
<1>7. CASE RateRead(p)
  <2>1. PICK j \in Jobs, r \in Rates :
          /\ job[j].status \in Active
          /\ Start(p, "rate", "rate_write", j, [InvIdle EXCEPT !.cred = job[j].cred, !.rate = r])
    BY <1>7 DEF RateRead
  <2>2. r \in RateRec /\ job[j].cred \in Creds BY <2>1, RatesAssumption DEF IInv, TablesOK, JobGood
  <2>3. PICK f : f = [InvIdle EXCEPT !.cred = job[j].cred, !.rate = r] OBVIOUS
  <2>4. InvGood(f) BY <1>0, <2>2, <2>3 DEF InvGood, InvRec, InvIdle, NoCredPc
  <2>5. f.todo = {} /\ f.pc = "idle" /\ f.op = "none" /\ f.todoJobs = {} /\ f.cred \in Creds
    BY <2>2, <2>3 DEF InvIdle
  <2>6. "rate" \in AllOps /\ "rate_write" \in InvPc BY DEF AllOps, InvPc
  <2>7. InvsOK' BY <1>0, <2>1, <2>3, <2>4, <2>5, <2>6, StartStep
  <2> QED BY <1>7, <2>7, RequestReadsStep DEF RateRead
<1>8. CASE EditRead(p)
  <2>1. InvsOK' BY <1>0, <1>8, StartStep DEF EditRead, InvPc, AllOps, InvIdle, NoCredPc
  <2> QED BY <1>8, <2>1, RequestReadsStep DEF EditRead
<1>9. CASE RevokeRead(p)
  <2>1. InvsOK' BY <1>0, <1>1, <1>9, StartStep DEF RevokeRead, InvPc, AllOps, InvIdle
  <2> QED BY <1>9, <2>1, RequestReadsStep DEF RevokeRead
<1>10. CASE RedactStart(p)
  <2> DEFINE T == {<<j, NoCred>> : j \in {i \in Jobs : job[i].status \in Final /\ job[i].due /\ i \notin redacted}}
  <2>1. T \subseteq Jobs \X (Creds \union {NoCred}) OBVIOUS
  <2>2. inv' = [inv EXCEPT ![p] = [InvIdle EXCEPT !.pc = "redact_write", !.op = "redact", !.job = 1, !.todoJobs = T]]
    BY <1>10 DEF RedactStart, Start, InvIdle
  <2> HIDE DEF T
  <2>3. [InvIdle EXCEPT !.pc = "redact_write", !.op = "redact", !.job = 1, !.todoJobs = T] \in InvRec
    BY <1>0, <2>1 DEF InvGood, InvRec, InvPc, AllOps
  <2>4. InvGood([InvIdle EXCEPT !.pc = "redact_write", !.op = "redact", !.job = 1, !.todoJobs = T])
    BY <2>3 DEF InvGood, NoCredPc, InvIdle
  <2>5. InvsOK' BY <1>0, <2>2, <2>4, InvStep
  <2> QED BY <1>10, <2>5, RequestReadsStep DEF RedactStart
<1> QED BY <1>2, <1>3, <1>4, <1>5, <1>6, <1>7, <1>8, <1>9, <1>10 DEF Begin

\* The recipient an invocation pushes or releases is one of its list.
LEMMA ClaimedIs ==
  ASSUME NEW p \in Invocations, InvGood(inv[p]), inv[p].pc \in {"push", "release"}
  PROVE Claimed(p) \in inv[p].todo /\ Claimed(p) \in Rows
BY DEF Claimed, InvGood, InvRec

\* The reads of the enqueue path: job list, quotas, live job, pending rows.
LEMMA EnqueueReads ==
  ASSUME IInv, NEW p \in Invocations,
         \/ ListJobs(p) \/ NextJob(p) \/ ReadQuotaSent(p) \/ ReadQuotaQueued(p) \/ ReadJobLimit(p)
         \/ ReadJobSent(p) \/ ReadJobQueued(p) \/ ReadLiveJob(p) \/ SelectPending(p)
  PROVE IInv'
<1>0. InvsOK /\ InvGood(inv[p]) /\ inv[p] \in InvRec /\ inv[p].job \in Jobs BY DEF IInv, InvsOK, InvGood, InvRec
<1>1. JobGood(job[J(p)]) /\ J(p) \in Jobs BY <1>0 DEF IInv, TablesOK, J
<1>2. IsFiniteSet(log) BY DEF IInv, TablesOK
<1> SUFFICES InvsOK' /\ UNCHANGED <<job, row, log, redacted, revoked, queue, clock, requested>>
  BY RequestReadsStep
<1>3. CASE ListJobs(p)
  <2>1. PICK T : T = {<<j, job[j].cred>> : j \in {i \in Jobs : job[i].status \in Active /\ InStatus({i}, "pending") # {}}}
    OBVIOUS
  <2>2. \A j \in Jobs : job[j].status \in Active => job[j].cred \in Creds BY DEF IInv, TablesOK, JobGood
  <2>7. T \subseteq Jobs \X Creds
    <3> SUFFICES ASSUME NEW x \in T PROVE x \in Jobs \X Creds OBVIOUS
    <3>1. PICK j \in Jobs : job[j].status \in Active /\ x = <<j, job[j].cred>> BY <2>1
    <3> QED BY <2>2, <3>1
  <2>8. T \subseteq Jobs \X (Creds \union {NoCred}) /\ \A x \in T : x[2] \in Creds BY <2>7
  <2>3. inv[p].op # "redact" BY <1>0, <1>3 DEF ListJobs, InvAt, InvGood
  <2>4. [inv[p] EXCEPT !.pc = "next", !.todoJobs = T] \in InvRec BY <1>0, <2>8 DEF InvRec, InvPc
  <2>5. InvGood([inv[p] EXCEPT !.pc = "next", !.todoJobs = T])
    BY <1>0, <2>8, <2>3, <2>4 DEF InvGood, InvRec, NoCredPc
  <2>6. inv' = [inv EXCEPT ![p] = [inv[p] EXCEPT !.pc = "next", !.todoJobs = T]] BY <1>3, <2>1 DEF ListJobs
  <2> QED BY <1>0, <1>3, <2>5, <2>6, InvStep DEF ListJobs
<1>4. CASE NextJob(p)
  <2>1. CASE inv' = [inv EXCEPT ![p] = InvIdle] BY <1>0, <1>4, <2>1, IdleGood, InvStep DEF NextJob
  <2>2. ASSUME NEW x \in inv[p].todoJobs,
               inv' = [inv EXCEPT ![p].pc = "quota_sent", ![p].job = x[1], ![p].cred = x[2],
                                  ![p].todoJobs = inv[p].todoJobs \ {x}]
        PROVE InvsOK'
    <3>1. inv[p].op # "redact" BY <1>0, <1>4 DEF NextJob, InvAt, InvGood
    <3>2. x[1] \in Jobs /\ x[2] \in Creds BY <1>0, <3>1 DEF InvGood, InvRec
    <3>3. PICK j \in Jobs, c \in Creds : j = x[1] /\ c = x[2] BY <3>2
    <3>9. PICK T : T = inv[p].todoJobs \ {x} OBVIOUS
    <3>4. PICK r : r = [inv[p] EXCEPT !.pc = "quota_sent", !.job = j, !.cred = c, !.todoJobs = T] OBVIOUS
    <3>5. T \subseteq inv[p].todoJobs BY <3>9
    <3>6. r \in InvRec BY <1>0, <3>4, <3>5 DEF InvRec, InvPc
    <3>7. InvGood(r) BY <1>0, <3>1, <3>4, <3>5, <3>6 DEF InvGood, InvRec, NoCredPc
    <3>8. inv' = [inv EXCEPT ![p] = r] BY <2>2, <3>3, <3>4, <3>9
    <3> QED BY <1>0, <3>7, <3>8, InvStep
  <2> QED BY <1>4, <2>1, <2>2 DEF NextJob
<1>5. CASE ReadQuotaSent(p)
  <2>1. inv[p].cred \in Creds BY <1>0, <1>5 DEF ReadQuotaSent, InvAt, InvGood, NoCredPc
  <2>2. CapOf(inv[p].cred) \in Nat BY <2>1, CredsAssumption DEF CapOf
  <2>3. PICK n \in Int : n = CapOf(inv[p].cred) - SentToday(JobsCounted(inv[p].cred))
    BY <1>2, <2>2, SentType
  <2>4. [inv[p] EXCEPT !.pc = "quota_queued", !.avail = n] \in InvRec BY <1>0 DEF InvRec, InvPc
  <2>5. InvGood([inv[p] EXCEPT !.pc = "quota_queued", !.avail = n])
    BY <1>0, <1>5, <2>1, <2>4 DEF InvGood, InvRec, NoCredPc, ReadQuotaSent, InvAt
  <2>6. inv' = [inv EXCEPT ![p] = [inv[p] EXCEPT !.pc = "quota_queued", !.avail = n]]
    BY <1>5, <2>3 DEF ReadQuotaSent
  <2> QED BY <1>0, <1>5, <2>5, <2>6, InvStep DEF ReadQuotaSent
<1>6. CASE ReadQuotaQueued(p)
  <2>1. PICK n \in Int : n = AtLeast0(inv[p].avail - Queued(JobsCounted(inv[p].cred)))
    BY <1>0, QueuedType DEF AtLeast0, InvRec
  <2>2. CASE Leave(p) BY <1>0, <1>6, <2>2, LeaveStep DEF ReadQuotaQueued
  <2>3. CASE inv' = [inv EXCEPT ![p].pc = "job_limit", ![p].avail = n]
    <3>1. [inv[p] EXCEPT !.pc = "job_limit", !.avail = n] \in InvRec BY <1>0 DEF InvRec, InvPc
    <3>2. InvGood([inv[p] EXCEPT !.pc = "job_limit", !.avail = n])
      BY <1>0, <1>6, <3>1 DEF InvGood, InvRec, NoCredPc, ReadQuotaQueued, InvAt
    <3>3. inv' = [inv EXCEPT ![p] = [inv[p] EXCEPT !.pc = "job_limit", !.avail = n]] BY <2>3
    <3> QED BY <1>0, <1>6, <3>2, <3>3, InvStep DEF ReadQuotaQueued
  <2> QED BY <1>6, <2>1, <2>2, <2>3 DEF ReadQuotaQueued
<1>7. CASE ReadJobLimit(p)
  <2>0. inv[p].pc \notin NoCredPc BY <1>7 DEF ReadJobLimit, InvAt, NoCredPc
  <2>1. CASE Leave(p) BY <1>0, <1>7, <2>1, LeaveStep DEF ReadJobLimit
  <2>2. CASE InvGoto(p, "job_live") BY <1>0, <1>7, <2>0, <2>2, InvGotoStep DEF ReadJobLimit, InvPc
  <2>3. CASE inv' = [inv EXCEPT ![p].pc = "job_sent", ![p].limit = EffectiveLimit(J(p))]
    <3>1. PICK n \in Int : n = EffectiveLimit(J(p)) BY <1>1, LimitType
    <3>2. [inv[p] EXCEPT !.pc = "job_sent", !.limit = n] \in InvRec BY <1>0 DEF InvRec, InvPc
    <3>3. InvGood([inv[p] EXCEPT !.pc = "job_sent", !.limit = n])
      BY <1>0, <1>7, <3>2 DEF InvGood, InvRec, NoCredPc, ReadJobLimit, InvAt
    <3>4. inv' = [inv EXCEPT ![p] = [inv[p] EXCEPT !.pc = "job_sent", !.limit = n]] BY <2>3, <3>1
    <3> QED BY <1>0, <1>7, <3>3, <3>4, InvStep DEF ReadJobLimit
  <2> QED BY <1>7, <2>1, <2>2, <2>3 DEF ReadJobLimit
<1>8. CASE ReadJobSent(p)
  <2>1. PICK n \in Int : n = inv[p].limit - SentToday({J(p)}) BY <1>0, <1>2, SentType DEF InvRec
  <2>2. [inv[p] EXCEPT !.pc = "job_queued", !.limit = n] \in InvRec BY <1>0 DEF InvRec, InvPc
  <2>3. InvGood([inv[p] EXCEPT !.pc = "job_queued", !.limit = n])
    BY <1>0, <1>8, <2>2 DEF InvGood, InvRec, NoCredPc, ReadJobSent, InvAt
  <2>4. inv' = [inv EXCEPT ![p] = [inv[p] EXCEPT !.pc = "job_queued", !.limit = n]]
    BY <1>8, <2>1 DEF ReadJobSent
  <2> QED BY <1>0, <1>8, <2>3, <2>4, InvStep DEF ReadJobSent
<1>9. CASE ReadJobQueued(p)
  <2>1. PICK n \in Int : n = AtLeast0(inv[p].limit - Queued({J(p)}))
    <3>1. inv[p].limit \in Int BY <1>0 DEF InvRec
    <3> QED BY <3>1, QueuedType DEF AtLeast0
  <2>2. PICK m \in Int : m = IF n < inv[p].avail THEN n ELSE inv[p].avail BY <1>0 DEF InvRec
  <2>3. CASE Leave(p) BY <1>0, <1>9, <2>3, LeaveStep DEF ReadJobQueued
  <2>4. CASE inv' = [inv EXCEPT ![p].pc = "job_live", ![p].limit = 0, ![p].avail = m]
    <3>0. PICK z \in Int : z = 0 OBVIOUS
    <3>1. [inv[p] EXCEPT !.pc = "job_live", !.limit = z, !.avail = m] \in InvRec BY <1>0 DEF InvRec, InvPc
    <3>2. InvGood([inv[p] EXCEPT !.pc = "job_live", !.limit = z, !.avail = m])
      BY <1>0, <1>9, <3>1 DEF InvGood, InvRec, NoCredPc, ReadJobQueued, InvAt
    <3>3. inv' = [inv EXCEPT ![p] = [inv[p] EXCEPT !.pc = "job_live", !.limit = z, !.avail = m]] BY <2>4, <3>0
    <3> QED BY <1>0, <1>9, <3>2, <3>3, InvStep DEF ReadJobQueued
  <2> QED BY <1>9, <2>1, <2>2, <2>3, <2>4 DEF ReadJobQueued
<1>10. CASE ReadLiveJob(p)
  <2>1. CASE Leave(p) BY <1>0, <1>10, <2>1, LeaveStep DEF ReadLiveJob
  <2>2. CASE job[J(p)].status \in Active /\ inv' = [inv EXCEPT ![p].pc = "select", ![p].cred = job[J(p)].cred]
    <3>1. PICK c \in Creds : c = job[J(p)].cred BY <1>1, <2>2 DEF JobGood
    <3>2. [inv[p] EXCEPT !.pc = "select", !.cred = c] \in InvRec BY <1>0 DEF InvRec, InvPc
    <3>3. InvGood([inv[p] EXCEPT !.pc = "select", !.cred = c])
      BY <1>0, <1>10, <3>2 DEF InvGood, InvRec, NoCredPc, ReadLiveJob, InvAt
    <3>4. inv' = [inv EXCEPT ![p] = [inv[p] EXCEPT !.pc = "select", !.cred = c]] BY <2>2, <3>1
    <3> QED BY <1>0, <1>10, <3>3, <3>4, InvStep DEF ReadLiveJob
  <2> QED BY <1>10, <2>1, <2>2 DEF ReadLiveJob
<1>11. CASE SelectPending(p)
  <2>1. PICK T \in SUBSET Rows : T = FirstPending(J(p), inv[p].avail) BY DEF FirstPending, InStatus
  <2>0. PICK z \in Int : z = 0 OBVIOUS
  <2>2. [inv[p] EXCEPT !.pc = "claim", !.todo = T, !.avail = z] \in InvRec BY <1>0 DEF InvRec, InvPc
  <2>3. InvGood([inv[p] EXCEPT !.pc = "claim", !.todo = T, !.avail = z])
    BY <1>0, <1>11, <2>2 DEF InvGood, InvRec, NoCredPc, SelectPending, InvAt
  <2>4. inv' = [inv EXCEPT ![p] = [inv[p] EXCEPT !.pc = "claim", !.todo = T, !.avail = z]]
    BY <1>11, <2>0, <2>1 DEF SelectPending
  <2> QED BY <1>0, <1>11, <2>3, <2>4, InvStep DEF SelectPending
<1> QED BY <1>3, <1>4, <1>5, <1>6, <1>7, <1>8, <1>9, <1>10, <1>11

\* Staging, recovery, claim, push, release and promotion.
LEMMA ClaimSteps ==
  ASSUME IInv, NEW p \in Invocations,
         \/ StageRecipients(p) \/ RecoverStale(p) \/ Claim(p) \/ Push(p) \/ PushFails(p) \/ Release(p) \/ Promote(p)
  PROVE IInv'
<1>0. InvsOK /\ InvGood(inv[p]) /\ inv[p] \in InvRec /\ inv[p].job \in Jobs BY DEF IInv, InvsOK, InvGood, InvRec
<1>1. JobGood(job[J(p)]) /\ J(p) \in Jobs BY <1>0 DEF IInv, TablesOK, J
<1>2. row \in [Rows -> RowRec] /\ clock \in Nat /\ queue \subseteq Message BY DEF IInv, TablesOK, QueueOK
<1>3. RowIs("pending") \in RowRec BY DEF RowIs, RowRec, RowStatus
<1>4. ASSUME inv[p].pc = "push" PROVE Pushed(p) \subseteq Message
  <2>1. Claimed(p) \in Rows /\ inv[p].gen \in Nat /\ inv[p].cred \in Creds
    BY <1>0, <1>4, ClaimedIs DEF InvGood, InvRec, NoCredPc
  <2> QED BY <2>1 DEF Pushed, Message
<1>5. CASE StageRecipients(p)
  <2>1. row' \in [Rows -> RowRec] BY <1>2, <1>3, <1>5 DEF StageRecipients
  <2>2. InvsOK' BY <1>0, <1>5, LeaveStep, InvGotoStep DEF StageRecipients, InvAt, InvPc, NoCredPc
  <2> QED BY <1>5, <2>1, <2>2 DEF StageRecipients, IInv, TablesOK, QueueOK, ConsOK, requested
<1>6. CASE RecoverStale(p)
  <2>1. PICK t : RecoverUpTo(p, t) BY <1>6 DEF RecoverStale
  <2>2. row' \in [Rows -> RowRec] BY <1>2, <1>3, <2>1 DEF RecoverUpTo
  <2>3. InvGood([inv[p] EXCEPT !.pc = "list"])
    BY <1>0, <2>1 DEF InvGood, InvRec, InvPc, NoCredPc, RecoverUpTo, InvAt
  <2>4. inv' = [inv EXCEPT ![p] = [inv[p] EXCEPT !.pc = "list"]] BY <2>1 DEF RecoverUpTo, InvGoto
  <2>5. InvsOK' BY <1>0, <2>3, <2>4, InvStep
  <2> QED BY <2>1, <2>2, <2>5 DEF RecoverUpTo, IInv, TablesOK, QueueOK, ConsOK, requested
<1>7. CASE Claim(p)
  <2>1. PICK r \in inv[p].todo :
          /\ InvAt(p, "claim") /\ \A q \in inv[p].todo : r[2] <= q[2]
          /\ IF row[r].status = "pending"
             THEN /\ clock' = Stamp
                  /\ row' = [row EXCEPT ![r] = [status |-> "queued", queuedAt |-> Stamp]]
                  /\ inv' = [inv EXCEPT ![p].pc = "push", ![p].gen = Stamp]
             ELSE /\ inv' = [inv EXCEPT ![p].todo = inv[p].todo \ {r}]
                  /\ UNCHANGED <<clock, row>>
          /\ UNCHANGED <<job, log, redacted, revoked, queue, requested>>
    BY <1>7 DEF Claim
  <2>2. inv[p].op # "redact" /\ inv[p].cred \in Creds BY <1>0, <2>1 DEF InvGood, InvAt, NoCredPc
  <2>3. r \in Rows BY <1>0 DEF InvRec
  <2>4. CASE row[r].status = "pending"
    <3>1. PICK n \in Nat : n = Stamp BY <1>2 DEF Stamp
    <3>2. [inv[p] EXCEPT !.pc = "push", !.gen = n] \in InvRec BY <1>0 DEF InvRec, InvPc
    <3>3. InvGood([inv[p] EXCEPT !.pc = "push", !.gen = n])
      BY <1>0, <2>1, <2>2, <3>2 DEF InvGood, InvRec, NoCredPc
    <3>4. inv' = [inv EXCEPT ![p] = [inv[p] EXCEPT !.pc = "push", !.gen = n]] BY <2>1, <2>4, <3>1
    <3>5. InvsOK' BY <1>0, <3>3, <3>4, InvStep
    <3>6. [status |-> "queued", queuedAt |-> n] \in RowRec BY DEF RowRec, RowStatus
    <3>7. row' \in [Rows -> RowRec] /\ clock' \in Nat BY <1>2, <2>1, <2>3, <2>4, <3>1, <3>6
    <3> QED BY <2>1, <3>5, <3>7 DEF IInv, TablesOK, QueueOK, ConsOK, requested
  <2>5. CASE row[r].status # "pending"
    <3>1. PICK T : T = inv[p].todo \ {r} OBVIOUS
    <3>2. T \subseteq Rows BY <1>0, <3>1 DEF InvRec
    <3>3. [inv[p] EXCEPT !.todo = T] \in InvRec BY <1>0, <3>2 DEF InvRec
    <3>4. InvGood([inv[p] EXCEPT !.todo = T])
      BY <1>0, <2>1, <2>2, <3>3 DEF InvGood, InvRec, InvAt, NoCredPc
    <3>5. inv' = [inv EXCEPT ![p] = [inv[p] EXCEPT !.todo = T]] BY <2>1, <2>5, <3>1
    <3>6. InvsOK' BY <1>0, <3>4, <3>5, InvStep
    <3> QED BY <2>1, <2>5, <3>6 DEF IInv, TablesOK, QueueOK, ConsOK, requested
  <2> QED BY <2>4, <2>5
<1>8. CASE Push(p)
  <2>1. PICK T : T = inv[p].todo \ {Claimed(p)} OBVIOUS
  <2>2. T \subseteq Rows BY <1>0, <2>1 DEF InvRec
  <2>3. PICK z \in Nat : z = 0 OBVIOUS
  <2>4. PICK r : r = [inv[p] EXCEPT !.pc = "claim", !.gen = z, !.pushed = TRUE, !.todo = T] OBVIOUS
  <2>5. r \in InvRec BY <1>0, <2>2, <2>4 DEF InvRec, InvPc
  <2>6. InvGood(r) BY <1>0, <1>8, <2>4, <2>5 DEF InvGood, InvRec, NoCredPc, Push, InvAt
  <2>7. inv' = [inv EXCEPT ![p] = r] BY <1>8, <2>1, <2>3, <2>4 DEF Push
  <2>8. InvsOK' BY <1>0, <2>6, <2>7, InvStep
  <2>9. queue' \subseteq Message BY <1>2, <1>4, <1>8 DEF Push, InvAt
  <2> QED BY <1>8, <2>8, <2>9 DEF Push, IInv, TablesOK, QueueOK, ConsOK, requested
<1>9. CASE PushFails(p)
  <2>1. queue' \subseteq Message BY <1>2, <1>4, <1>9 DEF PushFails, InvAt
  <2>2. InvGood([inv[p] EXCEPT !.pc = "release"])
    BY <1>0, <1>9 DEF InvGood, InvRec, InvPc, NoCredPc, PushFails, InvAt
  <2>3. inv' = [inv EXCEPT ![p] = [inv[p] EXCEPT !.pc = "release"]] BY <1>9 DEF PushFails, InvGoto
  <2>4. InvsOK' BY <1>0, <2>2, <2>3, InvStep
  <2> QED BY <1>9, <2>1, <2>4 DEF PushFails, IInv, TablesOK, QueueOK, ConsOK, requested
<1>10. CASE Release(p)
  <2>1. Claimed(p) \in Rows BY <1>0, <1>10, ClaimedIs DEF Release, InvAt
  <2>2. row' \in [Rows -> RowRec] BY <1>2, <1>3, <1>10, <2>1 DEF Release
  <2>3. InvsOK' BY <1>0, <1>10, LeaveStep DEF Release
  <2> QED BY <1>10, <2>2, <2>3 DEF Release, IInv, TablesOK, QueueOK, ConsOK, requested
<1>11. CASE Promote(p)
  <2>1. InvsOK' BY <1>0, <1>11, LeaveStep DEF Promote
  <2>2. CASE UNCHANGED job BY <1>11, <2>1, <2>2, RequestReadsStep DEF Promote
  <2>3. CASE job' = [job EXCEPT ![J(p)] = StatusSet(J(p), "sending", job[J(p)].finished)]
    <3>1. job[J(p)].finished \in BOOLEAN BY <1>1 DEF JobGood, JobRec
    <3>2. JobGood(StatusSet(J(p), "sending", job[J(p)].finished)) BY <1>1, <3>1, StatusSetType DEF Active, Final
    <3> QED BY <1>1, <1>11, <2>1, <2>3, <3>2 DEF Promote, IInv, TablesOK, QueueOK, ConsOK, requested
  <2> QED BY <1>11, <2>2, <2>3 DEF Promote
<1> QED BY <1>5, <1>6, <1>7, <1>8, <1>9, <1>10, <1>11

\* The second statements of the user's actions, redaction, and failures.
LEMMA RequestWrites ==
  ASSUME IInv, NEW p \in Invocations,
         \/ CancelWrite(p) \/ RetryWrite(p) \/ DeleteWrite(p) \/ RateWrite(p) \/ EditWrite(p)
         \/ RevokeWrite(p) \/ RedactWrite(p) \/ InvThrows(p) \/ InvEvict(p)
  PROVE IInv'
<1>0. InvsOK /\ InvGood(inv[p]) /\ inv[p] \in InvRec /\ inv[p].job \in Jobs BY DEF IInv, InvsOK, InvGood, InvRec
<1>1. JobGood(job[J(p)]) /\ J(p) \in Jobs BY <1>0 DEF IInv, TablesOK, J
<1>2. row \in [Rows -> RowRec] /\ \A j \in Jobs : JobGood(job[j]) BY DEF IInv, TablesOK
<1>3. RowIs("pending") \in RowRec /\ RowIs("cancelled") \in RowRec /\ RowIs("absent") \in RowRec
  BY DEF RowIs, RowRec, RowStatus
<1>4. \A j \in Jobs : JobGood(StatusSet(j, "cancelled", TRUE)) /\ JobGood(StatusSet(j, "pending", FALSE))
  BY <1>2, StatusSetType DEF Active, Final
<1>5. \A S : CancelledRows(S) \in [Rows -> RowRec] BY <1>2, <1>3 DEF CancelledRows
<1>6. CASE CancelWrite(p)
  <2>1. InvsOK' BY <1>0, <1>6, LeaveStep DEF CancelWrite
  <2> QED BY <1>1, <1>4, <1>5, <1>6, <2>1 DEF CancelWrite, IInv, TablesOK, QueueOK, ConsOK, requested
<1>7. CASE RetryWrite(p)
  <2>1. inv[p].pc \notin NoCredPc /\ inv[p].cred \in Creds BY <1>0, <1>7 DEF RetryWrite, InvAt, InvGood, NoCredPc
  <2>2. InvsOK' BY <1>0, <1>7, <2>1, InvGotoStep DEF RetryWrite, InvPc
  <2>3. row' \in [Rows -> RowRec] BY <1>2, <1>3, <1>7 DEF RetryWrite
  <2>4. CASE UNCHANGED job
    BY <1>7, <2>2, <2>3, <2>4 DEF RetryWrite, IInv, TablesOK, QueueOK, ConsOK, requested
  <2>5. CASE job' = [job EXCEPT ![J(p)] = [StatusSet(J(p), "pending", FALSE) EXCEPT !.cred = inv[p].cred, !.bounce = 0]]
    <3>0. PICK z \in Nat : z = 0 OBVIOUS
    <3>1. PICK r : r = StatusSet(J(p), "pending", FALSE) OBVIOUS
    <3>2. JobGood([r EXCEPT !.cred = inv[p].cred, !.bounce = z]) BY <1>1, <1>4, <2>1, <3>1 DEF JobGood, JobRec
    <3>3. job' = [job EXCEPT ![J(p)] = [r EXCEPT !.cred = inv[p].cred, !.bounce = z]] BY <2>5, <3>0, <3>1
    <3> QED BY <1>1, <1>7, <2>2, <2>3, <3>2, <3>3 DEF RetryWrite, IInv, TablesOK, QueueOK, ConsOK, requested
  <2> QED BY <1>7, <2>4, <2>5 DEF RetryWrite
<1>8. CASE DeleteWrite(p)
  <2>1. InvsOK' BY <1>0, <1>8, LeaveStep DEF DeleteWrite
  <2>2. row' \in [Rows -> RowRec] BY <1>2, <1>3, <1>8 DEF DeleteWrite
  <2>3. log' \subseteq log BY <1>8 DEF DeleteWrite
  <2>4. log' \subseteq LogRec /\ IsFiniteSet(log') BY <2>3, FS_Subset DEF IInv, TablesOK
  <2>5. JobGood([NoJob EXCEPT !.status = "deleted"])
    BY DEF JobGood, JobRec, NoJob, JobStatus, Active, Final, RateRec
  <2> QED BY <1>1, <1>8, <2>1, <2>2, <2>4, <2>5 DEF DeleteWrite, IInv, TablesOK, QueueOK, ConsOK, requested
<1>9. CASE RateWrite(p)
  <2>1. PICK q \in RateRec : q = NoJob.rate BY DEF NoJob, RateRec
  <2>2. [inv[p] EXCEPT !.pc = "quota_sent", !.rate = q] \in InvRec BY <1>0 DEF InvRec, InvPc
  <2>3. InvGood([inv[p] EXCEPT !.pc = "quota_sent", !.rate = q])
    BY <1>0, <1>9, <2>2 DEF InvGood, InvRec, NoCredPc, RateWrite, InvAt
  <2>4. inv' = [inv EXCEPT ![p] = [inv[p] EXCEPT !.pc = "quota_sent", !.rate = q]]
    BY <1>9, <2>1 DEF RateWrite
  <2>5. InvsOK' BY <1>0, <2>3, <2>4, InvStep
  <2>6. JobGood([job[J(p)] EXCEPT !.rate = inv[p].rate]) BY <1>0, <1>1 DEF JobGood, JobRec, InvRec
  <2>7. job' = job \/ job' = [job EXCEPT ![J(p)] = [job[J(p)] EXCEPT !.rate = inv[p].rate]]
    BY <1>9 DEF RateWrite
  <2>8. switched' \subseteq Jobs BY <1>9 DEF RateWrite, IInv, TablesOK
  <2>9. CASE UNCHANGED job
    BY <1>9, <2>5, <2>8, <2>9 DEF RateWrite, IInv, TablesOK, QueueOK, ConsOK
  <2>10. CASE job' = [job EXCEPT ![J(p)] = [job[J(p)] EXCEPT !.rate = inv[p].rate]]
    BY <1>1, <1>9, <2>5, <2>6, <2>8, <2>10 DEF RateWrite, IInv, TablesOK, QueueOK, ConsOK
  <2> QED BY <2>7, <2>9, <2>10
<1>10. CASE EditWrite(p)
  <2>1. InvsOK' BY <1>0, <1>10, LeaveStep DEF EditWrite
  <2> QED BY <1>10, <2>1 DEF EditWrite, IInv, TablesOK, QueueOK, ConsOK, requested
<1>11. CASE RevokeWrite(p)
  <2>1. inv[p].cred \in Creds BY <1>0, <1>11 DEF RevokeWrite, InvAt, InvGood, NoCredPc
  <2>2. InvsOK' BY <1>0, <1>11, LeaveStep DEF RevokeWrite
  <2>3. DOMAIN job' = Jobs /\ job' = [j \in Jobs |-> job'[j]] /\ \A j \in Jobs : JobGood(job'[j])
    BY <1>2, <1>4, <1>11 DEF RevokeWrite
  <2>4. row' \in [Rows -> RowRec] /\ revoked' \subseteq Creds
    BY <1>5, <1>11, <2>1 DEF RevokeWrite, IInv, TablesOK
  <2> QED BY <1>11, <2>2, <2>3, <2>4 DEF RevokeWrite, IInv, TablesOK, QueueOK, ConsOK, requested
<1>12. CASE RedactWrite(p)
  <2>1. PICK x \in inv[p].todoJobs :
          /\ redacted' = redacted \union {x[1]}
          /\ inv' = [inv EXCEPT ![p] = IF inv[p].todoJobs = {x} THEN InvIdle
                                       ELSE [inv[p] EXCEPT !.todoJobs = inv[p].todoJobs \ {x}]]
    BY <1>12 DEF RedactWrite
  <2>2. PICK T : T = inv[p].todoJobs \ {x} OBVIOUS
  <2>3. [inv[p] EXCEPT !.todoJobs = T] \in InvRec BY <1>0, <2>2 DEF InvRec
  <2>4. InvGood([inv[p] EXCEPT !.todoJobs = T])
    BY <1>0, <1>12, <2>2, <2>3 DEF InvGood, InvRec, NoCredPc, RedactWrite, InvAt
  <2>5. InvsOK' BY <1>0, <2>1, <2>2, <2>4, IdleGood, InvStep
  <2>6. redacted' \subseteq Jobs BY <1>0, <2>1 DEF InvRec, IInv, TablesOK
  <2> QED BY <1>12, <2>5, <2>6 DEF RedactWrite, IInv, TablesOK, QueueOK, ConsOK, requested
<1>13. CASE InvThrows(p)
  <2>1. inv' = [inv EXCEPT ![p] = InvIdle] \/ Leave(p) BY <1>13 DEF InvThrows, Leave
  <2>2. InvsOK' BY <1>0, <2>1, IdleGood, InvStep, LeaveStep
  <2> QED BY <1>13, <2>2, RequestReadsStep DEF InvThrows
<1>14. CASE InvEvict(p)
  <2>1. InvsOK' BY <1>0, <1>14, IdleGood, InvStep DEF InvEvict
  <2> QED BY <1>14, <2>1, RequestReadsStep DEF InvEvict
<1> QED BY <1>6, <1>7, <1>8, <1>9, <1>10, <1>11, <1>12, <1>13, <1>14

\* Time passing and redelivery.
LEMMA EnvironmentSteps ==
  ASSUME IInv, LeaseLapses \/ NewDay \/ \E j \in Jobs : LimitSwitches(j)
  PROVE IInv'
<1>1. CASE LeaseLapses
  <2>1. \A m \in queue : [m EXCEPT !.leased = FALSE] \in Message BY DEF IInv, QueueOK, Message
  <2>2. queue' \subseteq Message BY <1>1, <2>1 DEF LeaseLapses, IInv, QueueOK
  <2> QED BY <1>1, <2>2 DEF LeaseLapses, consumed, IInv, TablesOK, QueueOK, ConsOK, InvsOK
<1>2. CASE NewDay
  <2>1. \A l \in log : [l EXCEPT !.today = FALSE] \in LogRec BY DEF IInv, TablesOK, LogRec
  <2>2. log' \subseteq LogRec BY <1>2, <2>1 DEF NewDay
  <2>3. IsFiniteSet(log')
    <3> DEFINE older(l) == [l EXCEPT !.today = FALSE]
    <3>1. IsFiniteSet(log) BY DEF IInv, TablesOK
    <3>2. IsFiniteSet({older(l) : l \in log})
      <4>1. PICK f : f = [l \in log |-> older(l)] OBVIOUS
      <4>2. {older(l) : l \in log} = {f[l] : l \in log} BY <4>1
      <4>3. f \in Surjection(log, {older(l) : l \in log}) BY <4>1 DEF Surjection
      <4> QED BY <3>1, <4>3, FS_Surjection
    <3> QED BY <1>2, <3>2 DEF NewDay
  <2> QED BY <1>2, <2>2, <2>3 DEF NewDay, IInv, TablesOK, QueueOK, ConsOK, InvsOK
<1>3. CASE \E j \in Jobs : LimitSwitches(j)
  BY <1>3 DEF LimitSwitches, IInv, TablesOK, QueueOK, ConsOK, InvsOK
<1> QED BY <1>1, <1>2, <1>3

-----------------------------------------------------------------------------
\* The empty account satisfies the invariant ...
LEMMA IInvInit == Init => IInv
<1> SUFFICES ASSUME Init PROVE IInv OBVIOUS
<1>1. JobGood(NoJob) BY DEF JobGood, NoJob, JobRec, JobStatus, Active, Final, RateRec
<1>2. RowIs("absent") \in RowRec BY DEF RowIs, RowRec, RowStatus
<1>3. TablesOK BY <1>1, <1>2, FS_EmptySet DEF Init, TablesOK
<1>4. QueueOK BY DEF Init, QueueOK
<1>5. ConsOK BY ConIdleType DEF Init, ConsOK
<1>6. InvsOK BY IdleGood DEF Init, InvsOK
<1> QED BY <1>3, <1>4, <1>5, <1>6 DEF IInv

\* ... and every step keeps it.
LEMMA IInvStep == IInv /\ [Next]_vars => IInv'
<1> SUFFICES ASSUME IInv, [Next]_vars PROVE IInv' OBVIOUS
<1>1. ASSUME NEW c \in Consumers, Deliver(c) \/ Consume(c) \/ Throw(c) \/ Evict(c) PROVE IInv'
  BY <1>1, ConsumerReads, ConsumerEndsJob, ConsumerRecords DEF Consume
<1>2. ASSUME NEW p \in Invocations, Begin(p) \/ Continue(p) \/ InvThrows(p) \/ InvEvict(p) PROVE IInv'
  BY <1>2, Begins, EnqueueReads, ClaimSteps, RequestWrites DEF Continue
<1>3. CASE LeaseLapses \/ NewDay \/ \E j \in Jobs : LimitSwitches(j) BY <1>3, EnvironmentSteps
<1>4. CASE UNCHANGED vars BY <1>4 DEF vars, IInv, TablesOK, QueueOK, ConsOK, InvsOK
<1> QED BY <1>1, <1>2, <1>3, <1>4 DEF Next

\* The inductive invariant always holds: in every reachable state of the tables,
\* the queue, the consumers (send-queue.ts) and the invocations (send.ts), each
\* message names a credential and each pushed message has a claimed recipient.
THEOREM Invariance == Spec => []IInv
BY IInvInit, IInvStep, PTL DEF Spec

\* It implies the type invariant.
LEMMA IInvTypeOK == IInv => TypeOK
<1> SUFFICES ASSUME IInv PROVE TypeOK OBVIOUS
<1>1. job \in [Jobs -> JobRec] BY DEF IInv, TablesOK, JobGood
<1>2. inv \in [Invocations -> InvRec] BY DEF IInv, InvsOK, InvGood
<1> QED BY <1>1, <1>2 DEF IInv, TablesOK, QueueOK, ConsOK, TypeOK

\* Every table, message and local state always has its type (the schema of
\* 0000_current_baseline.sql and the locals of send.ts and send-queue.ts).
THEOREM TypeCorrect == Spec => []TypeOK
BY Invariance, IInvTypeOK, PTL

-----------------------------------------------------------------------------
\* No attempt, in the queue, at a consumer or about to be pushed, carries a
\* queued_at later than the latest claim.
GenOK ==
  /\ \A m \in queue : m.gen <= clock
  /\ \A c \in Consumers : con[c].msg.gen <= clock
  /\ \A p \in Invocations : inv[p].gen <= clock

\* A step that makes a recipient queued, or queued again, stamps it later than
\* every claim before (send.ts:236-242 is the only statement that does).
OnlyClaimsQueue ==
  \A r \in Rows : row'[r].status = "queued" => row'[r] = row[r] \/ row'[r].queuedAt > clock

\* No consumer step invents a generation, ...
LEMMA ConsumerGen ==
  ASSUME IInv, GenOK, NEW c \in Consumers, Deliver(c) \/ Consume(c) \/ Throw(c) \/ Evict(c)
  PROVE GenOK'
<1>1. clock' = clock /\ inv' = inv
  BY DEF Deliver, Consume, Throw, Evict, ReadJob, ReadCredential, AbortCredentialGone, ReadStaged, ReadLimit,
         CountSent, ReadWindow, Demote, AcquireSlot, ReadCurrent, AbortRedacted, SendOk, SendCredentialFailure,
         AbortBlocked, SendTransient, SendBounce, LogInsert, MarkRecipient, VerifyContact, LogFails,
         UpdateCounters, ReadFinish, MarkDone, consumed
<1>2. clock \in Nat /\ \A m \in queue : m \in Message BY DEF IInv, QueueOK
<1>3. \A d \in Consumers : con[d] \in ConRec BY DEF IInv, ConsOK
<1>4. ConIdle.msg.gen = 0 BY DEF ConIdle, NoDelivery
<1>5. ASSUME NEW how, Return(c, how) PROVE GenOK'
  <2>1. \A m \in queue' : m.gen <= clock BY <1>2, <1>5 DEF Return, Settled, GenOK, Message
  <2>2. \A d \in Consumers : con'[d].msg.gen <= clock BY <1>2, <1>4, <1>5 DEF Return, GenOK, IInv, ConsOK
  <2> QED BY <1>1, <2>1, <2>2 DEF GenOK
<1>6. ASSUME con'[c].msg = con[c].msg, \A d \in Consumers \ {c} : con'[d] = con[d], UNCHANGED queue
      PROVE GenOK'
  BY <1>1, <1>6 DEF GenOK
<1>7. ASSUME NEW s, Goto(c, s) \/ MarkAck(c, s)
      PROVE con'[c].msg = con[c].msg /\ \A d \in Consumers \ {c} : con'[d] = con[d]
  BY <1>3, <1>7 DEF Goto, MarkAck, ConRec, IInv, ConsOK
<1>8. CASE Deliver(c)
  <2>1. PICK m \in queue :
          /\ queue' = (queue \ {m}) \union {[m EXCEPT !.leased = TRUE, !.tries = m.tries + 1]}
          /\ con' = [con EXCEPT ![c] = [ConIdle EXCEPT !.pc = "job",
               !.msg = [gen |-> m.gen, row |-> m.row, cred |-> m.cred, tries |-> m.tries + 1]]]
    BY <1>8 DEF Deliver
  <2>2. \A x \in queue' : x.gen <= clock BY <1>2, <2>1 DEF GenOK, Message
  <2>3. con'[c].msg.gen = m.gen BY <2>1 DEF IInv, ConsOK, ConIdle
  <2>4. \A d \in Consumers \ {c} : con'[d] = con[d] BY <2>1 DEF IInv, ConsOK
  <2> QED BY <1>1, <2>1, <2>2, <2>3, <2>4 DEF GenOK
<1>9. CASE ReadJob(c)
  <2>1. CASE Return(c, "ack") BY <1>5, <2>1
  <2>2. CASE con' = [con EXCEPT ![c].pc = "credential", ![c].cred = job[MyJob(c)].cred] /\ UNCHANGED queue
    BY <1>3, <1>6, <2>2 DEF ConRec, IInv, ConsOK
  <2> QED BY <1>9, <2>1, <2>2 DEF ReadJob
<1>10. CASE ReadCredential(c) BY <1>6, <1>7, <1>10 DEF ReadCredential
<1>11. CASE AbortCredentialGone(c) BY <1>5, <1>11 DEF AbortCredentialGone
<1>12. CASE ReadStaged(c) BY <1>6, <1>7, <1>12 DEF ReadStaged
<1>13. CASE ReadLimit(c)
  <2>1. CASE con' = [con EXCEPT ![c].pc = "count", ![c].avail = EffectiveLimit(MyJob(c))]
    BY <1>3, <1>6, <1>13, <2>1 DEF ReadLimit, ConRec, IInv, ConsOK
  <2> QED BY <1>6, <1>7, <1>13, <2>1 DEF ReadLimit
<1>14. CASE CountSent(c) BY <1>3, <1>6, <1>14 DEF CountSent, ConRec, IInv, ConsOK
<1>15. CASE ReadWindow(c) BY <1>6, <1>7, <1>15 DEF ReadWindow
<1>16. CASE Demote(c) BY <1>6, <1>7, <1>16 DEF Demote
<1>17. CASE AcquireSlot(c)
  <2>1. CASE con' = [con EXCEPT ![c].pc = "finish", ![c].ack = "retry"]
    BY <1>3, <1>6, <1>17, <2>1 DEF AcquireSlot, ConRec, IInv, ConsOK
  <2> QED BY <1>6, <1>7, <1>17, <2>1 DEF AcquireSlot
<1>18. CASE ReadCurrent(c) BY <1>6, <1>7, <1>18 DEF ReadCurrent
<1>19. CASE AbortRedacted(c) BY <1>3, <1>6, <1>19 DEF AbortRedacted, ConRec, IInv, ConsOK
<1>20. CASE SendOk(c) BY <1>3, <1>6, <1>20 DEF SendOk, ConRec, IInv, ConsOK
<1>21. CASE SendCredentialFailure(c) BY <1>6, <1>7, <1>21 DEF SendCredentialFailure
<1>22. CASE AbortBlocked(c) BY <1>3, <1>6, <1>22 DEF AbortBlocked, ConRec, IInv, ConsOK
<1>23. CASE SendTransient(c) BY <1>3, <1>6, <1>23 DEF SendTransient, ConRec, IInv, ConsOK
<1>24. CASE SendBounce(c) BY <1>3, <1>6, <1>24 DEF SendBounce, ConRec, IInv, ConsOK
<1>25. CASE LogInsert(c) BY <1>6, <1>7, <1>25 DEF LogInsert
<1>26. CASE MarkRecipient(c) \/ VerifyContact(c)
  <2>1. CASE con' = Counted(c)
    BY <1>3, <1>6, <1>26, <2>1 DEF MarkRecipient, VerifyContact, Counted, ConRec, IInv, ConsOK
  <2> QED BY <1>6, <1>7, <1>26, <2>1 DEF MarkRecipient, VerifyContact
<1>27. CASE LogFails(c) BY <1>3, <1>6, <1>27 DEF LogFails, ConRec, IInv, ConsOK
<1>28. CASE UpdateCounters(c) BY <1>6, <1>7, <1>28 DEF UpdateCounters
<1>29. CASE ReadFinish(c) BY <1>5, <1>6, <1>7, <1>29 DEF ReadFinish
<1>30. CASE MarkDone(c) BY <1>5, <1>30 DEF MarkDone
<1>31. CASE Throw(c) \/ Evict(c) BY <1>5, <1>31 DEF Throw, Evict
<1> QED
  BY <1>8, <1>9, <1>10, <1>11, <1>12, <1>13, <1>14, <1>15, <1>16, <1>17, <1>18, <1>19, <1>20, <1>21, <1>22,
     <1>23, <1>24, <1>25, <1>26, <1>27, <1>28, <1>29, <1>30, <1>31 DEF Consume

\* ... nor queues a recipient.
LEMMA ConsumerRow ==
  ASSUME IInv, NEW c \in Consumers, Deliver(c) \/ Consume(c) \/ Throw(c) \/ Evict(c)
  PROVE OnlyClaimsQueue
<1>1. row \in [Rows -> RowRec] /\ con[c].msg.row \in Rows BY ConType DEF IInv, TablesOK
<1>2. RowIs("pending").status # "queued" BY DEF RowIs
<1>3. CASE Demote(c) BY <1>1, <1>2, <1>3 DEF Demote, OnlyClaimsQueue
<1>4. CASE MarkRecipient(c) BY <1>1, <1>4 DEF MarkRecipient, OnlyClaimsQueue, RowRec
<1>5. CASE UNCHANGED row BY <1>5 DEF OnlyClaimsQueue
<1> QED
  BY <1>3, <1>4, <1>5
  DEF Deliver, Consume, Throw, Evict, ReadJob, ReadCredential, AbortCredentialGone, ReadStaged, ReadLimit,
      CountSent, ReadWindow, AcquireSlot, ReadCurrent, AbortRedacted, SendOk, SendCredentialFailure,
      AbortBlocked, SendTransient, SendBounce, LogInsert, VerifyContact, LogFails,
      UpdateCounters, ReadFinish, MarkDone, consumed

\* A request makes a generation only by claiming, which moves the clock, ...
LEMMA RequestGen ==
  ASSUME IInv, GenOK, NEW p \in Invocations, Begin(p) \/ Continue(p) \/ InvThrows(p) \/ InvEvict(p)
  PROVE GenOK'
<1>1. con' = con
  BY DEF Begin, Continue, InvThrows, InvEvict, CreateJob, CronStart, CancelRead, RetryRead, DeleteRead,
         RateRead, EditRead, RevokeRead, RedactStart, StageRecipients, RecoverStale, RecoverUpTo, ListJobs,
         NextJob, ReadQuotaSent, ReadQuotaQueued, ReadJobLimit, ReadJobSent, ReadJobQueued, ReadLiveJob,
         SelectPending, Claim, Push, PushFails, Release, Promote, CancelWrite, RetryWrite, DeleteWrite,
         RateWrite, EditWrite, RevokeWrite, RedactWrite, requested
<1>2. clock \in Nat /\ \A c \in Consumers : con[c] \in ConRec BY DEF IInv, QueueOK, ConsOK
<1>3. InvIdle.gen = 0 /\ \A q \in Invocations : inv[q] \in InvRec BY DEF InvIdle, IInv, InvsOK, InvGood
<1>4. ASSUME \A q \in Invocations \ {p} : inv'[q] = inv[q], inv'[p].gen \in {inv[p].gen, 0},
             UNCHANGED <<queue, clock>>
      PROVE GenOK'
  BY <1>1, <1>2, <1>4 DEF GenOK
<1>5. ASSUME Leave(p) \/ (\E s : InvGoto(p, s)) \/ inv' = [inv EXCEPT ![p] = InvIdle]
      PROVE (\A q \in Invocations \ {p} : inv'[q] = inv[q]) /\ inv'[p].gen \in {inv[p].gen, 0}
  <2>1. Left(p).gen = 0 BY DEF Left, InvIdle
  <2>2. CASE Leave(p) BY <2>1, <2>2 DEF Leave, IInv, InvsOK
  <2>3. CASE \E s : InvGoto(p, s) BY <1>3, <2>3 DEF InvGoto, InvRec, IInv, InvsOK
  <2>4. CASE inv' = [inv EXCEPT ![p] = InvIdle] BY <1>3, <2>4 DEF IInv, InvsOK
  <2> QED BY <1>5, <2>2, <2>3, <2>4
<1>6. CASE Begin(p)
  <2>1. ASSUME NEW op, NEW s, NEW j, NEW f \in InvRec, f.gen = 0, Start(p, op, s, j, f), UNCHANGED <<queue, clock>>
        PROVE GenOK'
    <3>1. PICK r : r = [f EXCEPT !.pc = s, !.op = op, !.job = j] OBVIOUS
    <3>2. r.gen = 0 BY <2>1, <3>1 DEF InvRec
    <3>3. inv' = [inv EXCEPT ![p] = r] BY <2>1, <3>1 DEF Start
    <3> QED BY <1>4, <2>1, <3>2, <3>3 DEF IInv, InvsOK
  <2>2. InvIdle \in InvRec BY IdleGood DEF InvGood
  <2>3. \A c \in Creds : [InvIdle EXCEPT !.cred = c] \in InvRec /\ [InvIdle EXCEPT !.cred = c].gen = 0
    BY <2>2 DEF InvRec, InvIdle
  <2>4. CASE CreateJob(p) BY <2>1, <2>3, <2>4 DEF CreateJob
  <2>5. CASE CronStart(p) \/ CancelRead(p) \/ DeleteRead(p) \/ EditRead(p)
    BY <1>3, <2>1, <2>2, <2>5 DEF CronStart, CancelRead, DeleteRead, EditRead
  <2>6. CASE RetryRead(p) \/ RevokeRead(p) BY <2>1, <2>3, <2>6 DEF RetryRead, RevokeRead
  <2>7. CASE RateRead(p)
    <3>1. PICK j \in Jobs, r \in Rates :
            /\ job[j].status \in Active
            /\ Start(p, "rate", "rate_write", j, [InvIdle EXCEPT !.cred = job[j].cred, !.rate = r])
      BY <2>7 DEF RateRead
    <3>2. r \in RateRec /\ job[j].cred \in Creds BY <3>1, RatesAssumption DEF IInv, TablesOK, JobGood
    <3>3. PICK f : f = [InvIdle EXCEPT !.cred = job[j].cred, !.rate = r] OBVIOUS
    <3>4. f \in InvRec /\ f.gen = 0 BY <2>2, <3>2, <3>3 DEF InvRec, InvIdle
    <3> QED BY <2>1, <2>7, <3>1, <3>3, <3>4 DEF RateRead
  <2>8. CASE RedactStart(p)
    <3>1. PICK T, f : f = [InvIdle EXCEPT !.todoJobs = T] /\ Start(p, "redact", "redact_write", 1, f)
      BY <2>8 DEF RedactStart
    <3>2. PICK r : r = [f EXCEPT !.pc = "redact_write", !.op = "redact", !.job = 1] OBVIOUS
    <3>3. r.gen = 0 BY <3>1, <3>2 DEF InvIdle
    <3>4. inv' = [inv EXCEPT ![p] = r] BY <3>1, <3>2 DEF Start
    <3> QED BY <1>4, <2>8, <3>3, <3>4 DEF RedactStart, IInv, InvsOK
  <2> QED BY <1>6, <2>4, <2>5, <2>6, <2>7, <2>8 DEF Begin
<1>7. CASE StageRecipients(p) BY <1>4, <1>5, <1>7 DEF StageRecipients
<1>8. CASE RecoverStale(p) BY <1>4, <1>5, <1>8 DEF RecoverStale, RecoverUpTo
<1>9. CASE ListJobs(p) BY <1>3, <1>4, <1>9 DEF ListJobs, InvRec, IInv, InvsOK
<1>10. CASE NextJob(p)
  <2>1. CASE inv' = [inv EXCEPT ![p] = InvIdle] BY <1>4, <1>5, <1>10, <2>1 DEF NextJob
  <2>2. CASE \E j, c, T : inv' = [inv EXCEPT ![p].pc = "quota_sent", ![p].job = j, ![p].cred = c, ![p].todoJobs = T]
    <3>1. PICK j, c, T : inv' = [inv EXCEPT ![p].pc = "quota_sent", ![p].job = j, ![p].cred = c, ![p].todoJobs = T]
      BY <2>2
    <3>2. PICK f : f = [inv[p] EXCEPT !.pc = "quota_sent", !.job = j, !.cred = c, !.todoJobs = T] OBVIOUS
    <3>3. f.gen = inv[p].gen BY <1>3, <3>2 DEF InvRec
    <3>4. inv' = [inv EXCEPT ![p] = f] BY <3>1, <3>2
    <3> QED BY <1>4, <1>10, <3>3, <3>4 DEF NextJob, IInv, InvsOK
  <2> QED BY <1>10, <2>1, <2>2 DEF NextJob
<1>11. CASE ReadQuotaSent(p) BY <1>3, <1>4, <1>11 DEF ReadQuotaSent, InvRec, IInv, InvsOK
<1>12. CASE ReadQuotaQueued(p)
  <2>1. CASE Leave(p) BY <1>4, <1>5, <1>12, <2>1 DEF ReadQuotaQueued
  <2> QED BY <1>3, <1>4, <1>12, <2>1 DEF ReadQuotaQueued, InvRec, IInv, InvsOK
<1>13. CASE ReadJobLimit(p)
  <2>1. CASE Leave(p) \/ InvGoto(p, "job_live") BY <1>4, <1>5, <1>13, <2>1 DEF ReadJobLimit
  <2> QED BY <1>3, <1>4, <1>13, <2>1 DEF ReadJobLimit, InvRec, IInv, InvsOK
<1>14. CASE ReadJobSent(p) BY <1>3, <1>4, <1>14 DEF ReadJobSent, InvRec, IInv, InvsOK
<1>15. CASE ReadJobQueued(p)
  <2>1. CASE Leave(p) BY <1>4, <1>5, <1>15, <2>1 DEF ReadJobQueued
  <2> QED BY <1>3, <1>4, <1>15, <2>1 DEF ReadJobQueued, InvRec, IInv, InvsOK
<1>16. CASE ReadLiveJob(p)
  <2>1. CASE Leave(p) BY <1>4, <1>5, <1>16, <2>1 DEF ReadLiveJob
  <2> QED BY <1>3, <1>4, <1>16, <2>1 DEF ReadLiveJob, InvRec, IInv, InvsOK
<1>17. CASE SelectPending(p) BY <1>3, <1>4, <1>17 DEF SelectPending, InvRec, IInv, InvsOK
<1>18. CASE Claim(p)
  <2>1. CASE clock' = Stamp /\ inv' = [inv EXCEPT ![p].pc = "push", ![p].gen = Stamp] /\ UNCHANGED queue
    <3>1. clock' = clock + 1 /\ clock' \in Nat BY <1>2, <2>1 DEF Stamp
    <3>2. \A m \in queue' : m.gen <= clock' BY <1>2, <2>1, <3>1 DEF GenOK, IInv, QueueOK, Message
    <3>3. \A c \in Consumers : con'[c].msg.gen <= clock' BY <1>1, <1>2, <3>1 DEF GenOK, ConRec
    <3>4. inv'[p].gen = clock' /\ \A q \in Invocations \ {p} : inv'[q] = inv[q]
      BY <1>3, <2>1 DEF InvRec, IInv, InvsOK
    <3>5. \A q \in Invocations : inv'[q].gen <= clock' BY <1>2, <1>3, <3>1, <3>4 DEF GenOK, InvRec
    <3> QED BY <3>2, <3>3, <3>5 DEF GenOK
  <2>2. CASE \E r : inv' = [inv EXCEPT ![p].todo = inv[p].todo \ {r}] /\ UNCHANGED <<clock, queue>>
    BY <1>3, <1>4, <2>2 DEF InvRec, IInv, InvsOK
  <2> QED BY <1>18, <2>1, <2>2 DEF Claim
<1>19. ASSUME \A m \in queue' : m \in queue \/ m \in Pushed(p), clock' = clock,
              \A q \in Invocations \ {p} : inv'[q] = inv[q], inv'[p].gen \in {inv[p].gen, 0}
       PROVE GenOK'
  <2>1. \A m \in Pushed(p) : m.gen = inv[p].gen BY DEF Pushed
  <2>2. \A m \in queue' : m.gen <= clock' BY <1>19, <2>1 DEF GenOK
  <2> QED BY <1>1, <1>2, <1>19, <2>2 DEF GenOK
<1>20. CASE Push(p)
  <2>1. (\A q \in Invocations \ {p} : inv'[q] = inv[q]) /\ inv'[p].gen = 0
    BY <1>3, <1>20 DEF Push, InvRec, IInv, InvsOK
  <2> QED BY <1>19, <1>20, <2>1 DEF Push
<1>21. CASE PushFails(p) BY <1>5, <1>19, <1>21 DEF PushFails
<1>22. CASE Release(p) \/ Promote(p) BY <1>4, <1>5, <1>22 DEF Release, Promote
<1>23. CASE CancelWrite(p) \/ RetryWrite(p) \/ DeleteWrite(p) \/ EditWrite(p) \/ RevokeWrite(p)
  BY <1>4, <1>5, <1>23 DEF CancelWrite, RetryWrite, DeleteWrite, EditWrite, RevokeWrite
<1>24. CASE RateWrite(p) BY <1>3, <1>4, <1>24 DEF RateWrite, InvRec, IInv, InvsOK
<1>25. CASE RedactWrite(p)
  <2>1. CASE inv' = [inv EXCEPT ![p] = InvIdle] BY <1>4, <1>5, <1>25, <2>1 DEF RedactWrite
  <2>2. CASE \E T : inv' = [inv EXCEPT ![p] = [inv[p] EXCEPT !.todoJobs = T]]
    BY <1>3, <1>4, <1>25, <2>2 DEF RedactWrite, InvRec, IInv, InvsOK
  <2> QED BY <1>25, <2>1, <2>2 DEF RedactWrite
<1>26. CASE InvThrows(p) \/ InvEvict(p) BY <1>3, <1>4, <1>5, <1>26 DEF InvThrows, InvEvict, Leave
<1> QED
  BY <1>6, <1>7, <1>8, <1>9, <1>10, <1>11, <1>12, <1>13, <1>14, <1>15, <1>16, <1>17, <1>18, <1>20, <1>21,
     <1>22, <1>23, <1>24, <1>25, <1>26 DEF Continue

\* ... and queues a recipient only by claiming it.
LEMMA RequestRow ==
  ASSUME IInv, NEW p \in Invocations, Begin(p) \/ Continue(p) \/ InvThrows(p) \/ InvEvict(p)
  PROVE OnlyClaimsQueue
<1>1. row \in [Rows -> RowRec] /\ clock \in Nat BY DEF IInv, TablesOK, QueueOK
<1>2. \A s \in RowStatus \ {"queued"} : RowIs(s).status # "queued" BY DEF RowIs
<1>3. CASE UNCHANGED row BY <1>3 DEF OnlyClaimsQueue
<1>4. ASSUME row' \in [Rows -> RowRec], \A r \in Rows : row'[r] = row[r] \/ row'[r].status # "queued"
      PROVE OnlyClaimsQueue
  BY <1>4 DEF OnlyClaimsQueue
<1>5. CASE StageRecipients(p) BY <1>3, <1>5 DEF StageRecipients, OnlyClaimsQueue, RowIs
<1>6. CASE RecoverStale(p) BY <1>6 DEF RecoverStale, RecoverUpTo, OnlyClaimsQueue, RowIs
<1>7. CASE Claim(p)
  <2>1. PICK r \in inv[p].todo :
          \/ row' = [row EXCEPT ![r] = [status |-> "queued", queuedAt |-> Stamp]]
          \/ UNCHANGED row
    BY <1>7 DEF Claim
  <2>2. Stamp > clock BY <1>1 DEF Stamp
  <2> QED BY <1>1, <2>1, <2>2 DEF OnlyClaimsQueue
<1>8. CASE Release(p) BY <1>1, <1>8 DEF Release, OnlyClaimsQueue, RowIs
<1>9. CASE CancelWrite(p) \/ RevokeWrite(p)
  <2>1. PICK S : row' = CancelledRows(S) BY <1>9 DEF CancelWrite, RevokeWrite
  <2> QED BY <2>1 DEF CancelledRows, OnlyClaimsQueue, RowIs
<1>10. CASE RetryWrite(p) BY <1>10 DEF RetryWrite, OnlyClaimsQueue, RowIs
<1>11. CASE DeleteWrite(p) BY <1>11 DEF DeleteWrite, OnlyClaimsQueue, RowIs
<1> QED
  BY <1>3, <1>5, <1>6, <1>7, <1>8, <1>9, <1>10, <1>11
  DEF Begin, Continue, InvThrows, InvEvict, CreateJob, CronStart, CancelRead, RetryRead, DeleteRead,
      RateRead, EditRead, RevokeRead, RedactStart, ListJobs, NextJob, ReadQuotaSent, ReadQuotaQueued,
      ReadJobLimit, ReadJobSent, ReadJobQueued, ReadLiveJob, SelectPending, Push, PushFails, Promote,
      RateWrite, EditWrite, RedactWrite

\* Time and redelivery do neither.
LEMMA EnvironmentGen ==
  ASSUME IInv, GenOK, LeaseLapses \/ NewDay \/ \E j \in Jobs : LimitSwitches(j)
  PROVE GenOK' /\ OnlyClaimsQueue
<1>1. \A m \in queue : m \in Message BY DEF IInv, QueueOK
<1>2. CASE LeaseLapses
  BY <1>1, <1>2 DEF LeaseLapses, consumed, GenOK, OnlyClaimsQueue, Message
<1>3. CASE NewDay \/ \E j \in Jobs : LimitSwitches(j)
  BY <1>3 DEF NewDay, LimitSwitches, GenOK, OnlyClaimsQueue
<1> QED BY <1>2, <1>3

\* Initially there is no attempt.
LEMMA GenInit == Init => GenOK
BY DEF Init, GenOK, ConIdle, NoDelivery, InvIdle

\* Together: every step keeps GenOK and is an OnlyClaimsQueue step.
LEMMA GenStep ==
  ASSUME IInv, GenOK, [Next]_vars
  PROVE GenOK' /\ OnlyClaimsQueue
<1>1. ASSUME NEW c \in Consumers, Deliver(c) \/ Consume(c) \/ Throw(c) \/ Evict(c) PROVE GenOK' /\ OnlyClaimsQueue
  BY <1>1, ConsumerGen, ConsumerRow
<1>2. ASSUME NEW p \in Invocations, Begin(p) \/ Continue(p) \/ InvThrows(p) \/ InvEvict(p)
      PROVE GenOK' /\ OnlyClaimsQueue
  BY <1>2, RequestGen, RequestRow
<1>3. CASE LeaseLapses \/ NewDay \/ \E j \in Jobs : LimitSwitches(j) BY <1>3, EnvironmentGen
<1>4. CASE UNCHANGED vars BY <1>4 DEF vars, GenOK, OnlyClaimsQueue
<1> QED BY <1>1, <1>2, <1>3, <1>4 DEF Next

\* An attempt that is no longer its recipient's current one never becomes it
\* again, whatever is redelivered, reordered, retried, recovered or restarted:
\* the consumer's checks of queued_at (send-queue.ts:41-45) reject it for good.
THEOREM Supersession == Spec => SupersededForever
<1> DEFINE Step == \A m \in Attempts : ~Current(m) => ~Current(m)'
<1>1. ASSUME IInv, GenOK, [Next]_vars PROVE Step
  <2> SUFFICES ASSUME NEW m \in Attempts, ~Current(m), Current(m)' PROVE FALSE OBVIOUS
  <2>1. OnlyClaimsQueue BY <1>1, GenStep
  <2>2. m.row \in Rows /\ m.gen \in Nat /\ m.gen <= clock
    BY <1>1, ConType DEF Attempts, GenOK, IInv, QueueOK, Message
  <2>3. row'[m.row].status = "queued" /\ row'[m.row].queuedAt = m.gen BY DEF Current
  <2>4. row'[m.row] # row[m.row] BY <2>3 DEF Current
  <2>5. m.gen > clock BY <2>1, <2>2, <2>3, <2>4 DEF OnlyClaimsQueue
  <2>6. clock \in Nat BY <1>1 DEF IInv, QueueOK
  <2> QED BY <2>2, <2>5, <2>6
<1>2. Spec => [](IInv /\ GenOK)
  <2>1. Init => IInv /\ GenOK BY IInvInit, GenInit
  <2>2. IInv /\ GenOK /\ [Next]_vars => (IInv /\ GenOK)' BY IInvStep, GenStep
  <2> QED BY <2>1, <2>2, PTL DEF Spec
<1>3. IInv /\ GenOK /\ [Next]_vars => [Step]_vars BY <1>1
<1> QED BY <1>2, <1>3, PTL DEF Spec, SupersededForever

-----------------------------------------------------------------------------
(***************************************************************************)
(* Safety under every fault the model has: what is cancelled stays         *)
(* cancelled, no mail leaves through a revoked credential, and no early    *)
(* return gives a waiting recipient up.                                    *)
(***************************************************************************)

\* Recipients are staged for jobs that exist, and go with them.
RowsOK == \A r \in Rows : row[r].status # "absent" => Exists(r[1])

\* Where a consumer has read the job, and where it has found the credential.
Read == ConPc \ {"idle", "job"}
Served == {"staged", "limit", "count", "window", "demote", "slot", "current"}

\* While its attempt is the current one, a consumer has the credential the job
\* has, and one that was revoked since leaves it no current attempt.
CredOK(c) ==
  /\ con[c].pc \in Read /\ Current(con[c].msg) => job[MyJob(c)].cred = con[c].cred
  /\ con[c].pc \in Served /\ con[c].cred \in revoked => ~Current(con[c].msg)
  /\ con[c].pc = "contact" => ~Current(con[c].msg)

CredsInv == RowsOK /\ \A c \in Consumers : CredOK(c)

-----------------------------------------------------------------------------
(* What the steps of a consumer do.                                        *)

\* Setting a status keeps everything else that matters here.
LEMMA StatusKeeps ==
  ASSUME NEW j \in Jobs, JobGood(job[j]), NEW s \in Active \union Final, NEW fin \in BOOLEAN
  PROVE  LET r == StatusSet(j, s, fin) IN
         /\ JobGood(r) /\ r.cred = job[j].cred /\ r.sent = job[j].sent /\ r.bounce = job[j].bounce
         /\ r.status = IF Exists(j) THEN s ELSE job[j].status
<1>1. JobGood(StatusSet(j, s, fin))
  BY StatusSetType
<1>2. job[j] \in JobRec
  BY DEF JobGood
<1> QED BY <1>1, <1>2 DEF StatusSet, JobRec

\* What no step but a few does to jobs.
JobsKept ==
  \A j \in Jobs : /\ job'[j].cred = job[j].cred /\ (Exists(j)' <=> Exists(j))
                  /\ (job'[j].status = "none" <=> job[j].status = "none")

\* A consumer changes statuses and counters, of its own job.
LEMMA ConsumerJobs ==
  ASSUME IInv, NEW c \in Consumers, Deliver(c) \/ Consume(c) \/ Throw(c) \/ Evict(c)
  PROVE  /\ JobsKept /\ UNCHANGED <<clock, inv, revoked, redacted>>
         /\ \A j \in Jobs : job'[j].sent = job[j].sent \/ (UpdateCounters(c) /\ j = MyJob(c))
         /\ UpdateCounters(c) /\ Exists(MyJob(c)) => job'[MyJob(c)].sent = job[MyJob(c)].sent + con[c].nSent
<1> DEFINE k == MyJob(c)
<1>1. k \in Jobs /\ JobGood(job[k]) /\ con[c] \in ConRec
  BY ConType DEF IInv, TablesOK
<1>2. UNCHANGED <<clock, inv, revoked, redacted>>
  BY DEF Deliver, Consume, Throw, Evict, ReadJob, ReadCredential, AbortCredentialGone, ReadStaged, ReadLimit,
         CountSent, ReadWindow, Demote, AcquireSlot, ReadCurrent, AbortRedacted, SendOk, SendCredentialFailure,
         AbortBlocked, SendTransient, SendBounce, LogInsert, MarkRecipient, VerifyContact, LogFails,
         UpdateCounters, ReadFinish, MarkDone, consumed
<1>3. ASSUME NEW r, job' = [job EXCEPT ![k] = r], r.cred = job[k].cred,
             r.status = job[k].status \/ (Exists(k) /\ r.status \in Active \union Final)
      PROVE  JobsKept /\ \A j \in Jobs \ {k} : job'[j] = job[j]
  <2>1. \A j \in Jobs : job'[j] = IF j = k THEN r ELSE job[j]
    BY <1>3 DEF IInv, TablesOK
  <2>2. \A j \in Jobs : Exists(j)' <=> job'[j].status \in Active \union Final
    BY DEF Exists
  <2> QED BY <1>1, <1>3, <2>1, <2>2 DEF JobsKept, Exists, Active, Final
<1>4. ASSUME NEW s \in Active \union Final, NEW fin \in BOOLEAN, job' = [job EXCEPT ![k] = StatusSet(k, s, fin)]
      PROVE  JobsKept /\ \A j \in Jobs : job'[j].sent = job[j].sent
  <2>1. PICK r : r = StatusSet(k, s, fin)
    OBVIOUS
  <2>2. r.cred = job[k].cred /\ r.sent = job[k].sent /\ r.status = IF Exists(k) THEN s ELSE job[k].status
    BY <1>1, <2>1, StatusKeeps
  <2>3. JobsKept /\ \A j \in Jobs \ {k} : job'[j] = job[j]
    BY <1>3, <1>4, <2>1, <2>2
  <2>4. job'[k] = r
    BY <1>1, <1>4, <2>1 DEF IInv, TablesOK
  <2> QED BY <2>2, <2>3, <2>4
<1>5. CASE AbortCredentialGone(c) \/ AbortRedacted(c) \/ AbortBlocked(c)
  <2>1. job' = [job EXCEPT ![k] = StatusSet(k, "aborted", TRUE)]
    BY <1>5 DEF AbortCredentialGone, AbortRedacted, AbortBlocked, Aborted
  <2>2. "aborted" \in Active \union Final
    BY DEF Final
  <2>3. ~UpdateCounters(c)
    BY <1>5 DEF AbortCredentialGone, AbortRedacted, AbortBlocked, UpdateCounters, At
  <2> QED BY <1>2, <1>4, <2>1, <2>2, <2>3
<1>6. CASE MarkDone(c)
  <2>1. job' = [job EXCEPT ![k] = StatusSet(k, "done", TRUE)]
    BY <1>6 DEF MarkDone
  <2>2. "done" \in Active \union Final
    BY DEF Final
  <2>3. ~UpdateCounters(c)
    BY <1>6 DEF MarkDone, UpdateCounters, At
  <2> QED BY <1>2, <1>4, <2>1, <2>2, <2>3
<1>7. CASE UpdateCounters(c)
  <2>1. PICK s \in Active \union Final : s = IF con[c].aborted THEN "aborted" ELSE "sending"
    BY DEF Active, Final
  <2>2. job[k].finished \in BOOLEAN /\ job[k].sent \in Nat /\ job[k].bounce \in Nat /\ con[c].nSent \in Nat /\ con[c].nBounce \in Nat
    BY <1>1 DEF JobGood, JobRec, ConRec
  <2>3. PICK r : r = StatusSet(k, s, job[k].finished)
    OBVIOUS
  <2>4. /\ r \in JobRec /\ r.cred = job[k].cred /\ r.sent = job[k].sent /\ r.bounce = job[k].bounce
        /\ r.status = IF Exists(k) THEN s ELSE job[k].status
    BY <1>1, <2>2, <2>3, StatusKeeps DEF JobGood
  <2>5. PICK n \in Nat : n = r.sent + con[c].nSent
    BY <2>2, <2>4
  <2>6. PICK b \in Nat : b = r.bounce + con[c].nBounce
    BY <2>2, <2>4
  <2>7. PICK x : x = [r EXCEPT !.sent = n, !.bounce = b]
    OBVIOUS
  <2>8. x.cred = job[k].cred /\ x.status = r.status /\ x.sent = n
    BY <2>4, <2>7 DEF JobRec
  <2>9. CASE Exists(k)
    <3>1. job' = [job EXCEPT ![k] = [StatusSet(k, s, job[k].finished) EXCEPT !.sent = @ + con[c].nSent, !.bounce = @ + con[c].nBounce]]
      BY <1>7, <2>1, <2>9 DEF UpdateCounters
    <3>2. job' = [job EXCEPT ![k] = x]
      BY <2>3, <2>5, <2>6, <2>7, <3>1
    <3>3. JobsKept /\ \A j \in Jobs \ {k} : job'[j] = job[j]
      BY <1>3, <2>4, <2>8, <2>9, <3>2
    <3>4. job'[k] = x
      BY <1>1, <3>2 DEF IInv, TablesOK
    <3> QED BY <1>2, <1>7, <2>4, <2>5, <2>8, <3>3, <3>4
  <2>10. CASE ~Exists(k)
    <3>1. job' = job
      BY <1>7, <2>10 DEF UpdateCounters
    <3> QED BY <1>2, <2>10, <3>1 DEF JobsKept, Exists
  <2> QED BY <2>9, <2>10
<1>8. CASE UNCHANGED job /\ ~UpdateCounters(c)
  BY <1>2, <1>8 DEF JobsKept, Exists
<1>9. \/ AbortCredentialGone(c) \/ AbortRedacted(c) \/ AbortBlocked(c) \/ MarkDone(c) \/ UpdateCounters(c)
      \/ UNCHANGED job
  BY DEF Deliver, Consume, Throw, Evict, ReadJob, ReadCredential, ReadStaged, ReadLimit,
         CountSent, ReadWindow, Demote, AcquireSlot, ReadCurrent, SendOk, SendCredentialFailure,
         SendTransient, SendBounce, LogInsert, MarkRecipient, VerifyContact, LogFails, ReadFinish
<1> QED BY <1>5, <1>6, <1>7, <1>8, <1>9

\* What a message says about its recipient's row survives a step only with the row.
LEMMA StillCurrent ==
  ASSUME IInv, GenOK, OnlyClaimsQueue, NEW c \in Consumers, con'[c].msg = con[c].msg, Current(con[c].msg)'
  PROVE  Current(con[c].msg) /\ row'[con[c].msg.row] = row[con[c].msg.row]
<1>1. con[c].msg.row \in Rows /\ con[c].msg.gen \in Nat /\ con[c].msg.gen <= clock /\ clock \in Nat
  BY ConType DEF IInv, QueueOK, GenOK
<1>2. row'[con[c].msg.row].status = "queued" /\ row'[con[c].msg.row].queuedAt = con[c].msg.gen
  BY DEF Current
<1>3. row'[con[c].msg.row] = row[con[c].msg.row] \/ con[c].msg.gen > clock
  BY <1>1, <1>2 DEF OnlyClaimsQueue
<1> QED BY <1>1, <1>2, <1>3 DEF Current

\* What invocations leave alone: consumers, and the credential of every
\* recipient they leave queued, which they do not revoke either.
QueuedKeeps ==
  \A r \in Rows : row'[r].status = "queued" /\ row'[r] = row[r] =>
    /\ job'[r[1]].cred = job[r[1]].cred
    /\ job[r[1]].cred \in revoked' => job[r[1]].cred \in revoked

LEMMA RequestKeepsCreds ==
  ASSUME IInv, RowsOK, NEW p \in Invocations, Begin(p) \/ Continue(p) \/ InvThrows(p) \/ InvEvict(p)
  PROVE  con' = con /\ QueuedKeeps
<1>1. con' = con
  BY DEF Begin, Continue, InvThrows, InvEvict, CreateJob, CronStart, CancelRead, RetryRead, DeleteRead,
         RateRead, EditRead, RevokeRead, RedactStart, StageRecipients, RecoverStale, RecoverUpTo, ListJobs,
         NextJob, ReadQuotaSent, ReadQuotaQueued, ReadJobLimit, ReadJobSent, ReadJobQueued, ReadLiveJob,
         SelectPending, Claim, Push, PushFails, Release, Promote, CancelWrite, RetryWrite, DeleteWrite,
         RateWrite, EditWrite, RevokeWrite, RedactWrite, requested
<1>2. /\ \A j \in Jobs : JobGood(job[j]) /\ job[j] \in JobRec
      /\ DOMAIN job = Jobs /\ job = [j \in Jobs |-> job[j]] /\ InvGood(inv[p]) /\ J(p) \in Jobs
  BY DEF IInv, TablesOK, InvsOK, InvGood, InvRec, J, JobGood
<1>3. ASSUME \A j \in Jobs : job'[j].cred = job[j].cred, revoked' = revoked PROVE QueuedKeeps
  BY <1>3, RowParts DEF QueuedKeeps
<1>4. ASSUME NEW j \in Jobs, NEW s \in Active \union Final, NEW fin \in BOOLEAN,
             job' = [job EXCEPT ![j] = StatusSet(j, s, fin)] \/ UNCHANGED job
      PROVE  \A i \in Jobs : job'[i].cred = job[i].cred
  <2>1. PICK r : r = StatusSet(j, s, fin)
    OBVIOUS
  <2>2. r.cred = job[j].cred
    BY <1>2, <2>1, StatusKeeps
  <2> QED BY <1>2, <1>4, <2>1, <2>2
<1>5. CASE CreateJob(p)
  <2>1. PICK j, r : j \in Jobs /\ job[j].status = "none" /\ job' = [job EXCEPT ![j] = r]
    BY <1>5 DEF CreateJob
  <2>2. row' = row /\ revoked' = revoked
    BY <1>5 DEF CreateJob
  <2>3. ~Exists(j)
    BY <2>1 DEF Exists, Active, Final
  <2>4. \A q \in Rows : row[q].status = "queued" => q[1] # j
    BY <2>3 DEF RowsOK
  <2> QED BY <1>1, <1>2, <2>1, <2>2, <2>4, RowParts DEF QueuedKeeps
<1>6. CASE RetryWrite(p)
  <2>1. \A r \in Rows : row'[r].status = "queued" => r[1] # J(p)
    BY <1>6 DEF RetryWrite, RowIs
  <2>2. revoked' = revoked /\ \A j \in Jobs \ {J(p)} : job'[j] = job[j]
    BY <1>2, <1>6 DEF RetryWrite
  <2> QED BY <1>1, <2>1, <2>2, RowParts DEF QueuedKeeps
<1>7. CASE DeleteWrite(p)
  <2>1. \A r \in Rows : row'[r].status = "queued" => r[1] # J(p)
    BY <1>7 DEF DeleteWrite, RowIs
  <2>2. revoked' = revoked /\ \A j \in Jobs \ {J(p)} : job'[j] = job[j]
    BY <1>2, <1>7 DEF DeleteWrite
  <2> QED BY <1>1, <2>1, <2>2, RowParts DEF QueuedKeeps
<1>8. CASE RevokeWrite(p)
  <2> DEFINE mine == {j \in Jobs : Exists(j) /\ job[j].cred = inv[p].cred}
  <2>1. /\ row' = CancelledRows(mine) /\ revoked' = revoked \union {inv[p].cred}
        /\ job' = [j \in Jobs |-> IF j \in mine /\ job[j].status \in Active THEN StatusSet(j, "cancelled", TRUE) ELSE job[j]]
    BY <1>8 DEF RevokeWrite
  <2>2. \A j \in Jobs : job'[j].cred = job[j].cred
    <3> SUFFICES ASSUME NEW j \in Jobs PROVE job'[j].cred = job[j].cred
      OBVIOUS
    <3>1. "cancelled" \in Active \union Final /\ TRUE \in BOOLEAN
      BY DEF Final
    <3>2. PICK r : r = StatusSet(j, "cancelled", TRUE)
      OBVIOUS
    <3>3. r.cred = job[j].cred
      BY <1>2, <3>1, <3>2, StatusKeeps
    <3> QED BY <2>1, <3>2, <3>3
  <2>3. \A r \in Rows : row'[r].status = "queued" => row[r].status = "queued" /\ r[1] \notin mine
    BY <2>1 DEF CancelledRows, RowIs
  <2>4. \A r \in Rows : row'[r].status = "queued" => Exists(r[1]) /\ job[r[1]].cred # inv[p].cred
    BY <2>3, RowParts DEF RowsOK
  <2> QED BY <1>1, <2>1, <2>2, <2>4, RowParts DEF QueuedKeeps
<1>9. CASE CancelWrite(p)
  <2>1. "cancelled" \in Active \union Final /\ TRUE \in BOOLEAN
    BY DEF Final
  <2>2. \A i \in Jobs : job'[i].cred = job[i].cred
    BY <1>2, <1>4, <1>9, <2>1 DEF CancelWrite
  <2> QED BY <1>1, <1>3, <1>9, <2>2 DEF CancelWrite
<1>10. CASE Promote(p)
  <2>1. "sending" \in Active \union Final /\ job[J(p)].finished \in BOOLEAN
    BY <1>2 DEF Active, JobRec
  <2>2. \A i \in Jobs : job'[i].cred = job[i].cred
    BY <1>2, <1>4, <1>10, <2>1 DEF Promote
  <2> QED BY <1>1, <1>3, <1>10, <2>2 DEF Promote
<1>11. CASE RateWrite(p)
  <2>1. \A i \in Jobs : job'[i].cred = job[i].cred
    BY <1>2, <1>11 DEF RateWrite, JobRec
  <2> QED BY <1>1, <1>3, <1>11, <2>1 DEF RateWrite
<1>12. CASE UNCHANGED <<job, revoked>>
  BY <1>1, <1>3, <1>12
<1> QED
  BY <1>5, <1>6, <1>7, <1>8, <1>9, <1>10, <1>11, <1>12
  DEF Begin, Continue, InvThrows, InvEvict, CronStart, CancelRead, RetryRead, DeleteRead,
      RateRead, EditRead, RevokeRead, RedactStart, StageRecipients, RecoverStale, RecoverUpTo, ListJobs,
      NextJob, ReadQuotaSent, ReadQuotaQueued, ReadJobLimit, ReadJobSent, ReadJobQueued, ReadLiveJob,
      SelectPending, Claim, Push, PushFails, Release, EditWrite, RedactWrite

\* Recipients are staged for jobs that exist and go with them.
LEMMA RequestRows ==
  ASSUME IInv, RowsOK, NEW p \in Invocations, Begin(p) \/ Continue(p) \/ InvThrows(p) \/ InvEvict(p)
  PROVE  RowsOK'
<1>1. /\ \A j \in Jobs : JobGood(job[j]) /\ job[j] \in JobRec
      /\ DOMAIN job = Jobs /\ job = [j \in Jobs |-> job[j]] /\ InvGood(inv[p]) /\ J(p) \in Jobs
      /\ row \in [Rows -> RowRec]
  BY DEF IInv, TablesOK, InvsOK, InvGood, InvRec, J, JobGood
<1>2. \A j \in Jobs : Exists(j)' <=> job'[j].status \in Active \union Final
  BY DEF Exists
<1>3. ASSUME \A j \in Jobs : Exists(j) => Exists(j)',
             \A r \in Rows : row'[r].status # "absent" => row[r].status # "absent" \/ Exists(r[1])
      PROVE  RowsOK'
  BY <1>3, RowParts DEF RowsOK
<1>4. ASSUME UNCHANGED job PROVE \A j \in Jobs : Exists(j) => Exists(j)'
  BY <1>4 DEF Exists
<1>5. ASSUME NEW j \in Jobs, NEW s \in Active \union Final, NEW fin \in BOOLEAN,
             job' = [job EXCEPT ![j] = StatusSet(j, s, fin)] \/ UNCHANGED job
      PROVE  \A i \in Jobs : Exists(i) => Exists(i)'
  <2>1. PICK r : r = StatusSet(j, s, fin)
    OBVIOUS
  <2>2. r.status = IF Exists(j) THEN s ELSE job[j].status
    BY <1>1, <2>1, StatusKeeps
  <2> QED BY <1>1, <1>2, <1>5, <2>1, <2>2 DEF Exists
<1>6. CASE CreateJob(p)
  <2>1. PICK j, r : j \in Jobs /\ r.status = "pending" /\ job' = [job EXCEPT ![j] = r]
    BY <1>6 DEF CreateJob, NoJob
  <2>2. \A i \in Jobs : Exists(i) => Exists(i)'
    BY <1>1, <1>2, <2>1 DEF Exists, Active
  <2> QED BY <1>3, <1>6, <2>2 DEF CreateJob
<1>7. CASE StageRecipients(p)
  BY <1>3, <1>4, <1>7 DEF StageRecipients
<1>8. CASE RecoverStale(p)
  <2>1. \A r \in Rows : row'[r].status # "absent" => row[r].status # "absent"
    BY <1>8 DEF RecoverStale, RecoverUpTo, Stale
  <2> QED BY <1>3, <1>4, <1>8, <2>1 DEF RecoverStale, RecoverUpTo
<1>9. CASE Claim(p)
  <2>1. PICK r \in inv[p].todo :
          \/ row[r].status = "pending" /\ row' = [row EXCEPT ![r] = [status |-> "queued", queuedAt |-> Stamp]]
          \/ UNCHANGED row
    BY <1>9 DEF Claim
  <2>2. \A q \in Rows : row'[q].status # "absent" => row[q].status # "absent"
    BY <1>1, <2>1
  <2> QED BY <1>3, <1>4, <1>9, <2>2 DEF Claim
<1>10. CASE Release(p)
  <2>1. \A q \in Rows : row'[q].status # "absent" => row[q].status # "absent"
    BY <1>1, <1>10 DEF Release
  <2> QED BY <1>3, <1>4, <1>10, <2>1 DEF Release
<1>11. CASE CancelWrite(p)
  <2>1. "cancelled" \in Active \union Final /\ TRUE \in BOOLEAN
    BY DEF Final
  <2>2. \A i \in Jobs : Exists(i) => Exists(i)'
    BY <1>1, <1>5, <1>11, <2>1 DEF CancelWrite
  <2>3. \A q \in Rows : row'[q].status # "absent" => row[q].status # "absent"
    BY <1>11 DEF CancelWrite, CancelledRows
  <2> QED BY <1>3, <2>2, <2>3
<1>12. CASE RetryWrite(p)
  <2>1. \A q \in Rows : row'[q].status # "absent" => row[q].status # "absent"
    BY <1>12 DEF RetryWrite
  <2>2. CASE ~Exists(J(p))
    BY <1>3, <1>4, <1>12, <2>1, <2>2 DEF RetryWrite
  <2>3. CASE Exists(J(p))
    <3>1. PICK f \in BOOLEAN : f = FALSE
      OBVIOUS
    <3>2. PICK s \in Active \union Final : s = "pending"
      BY DEF Active
    <3>3. PICK r : r = StatusSet(J(p), s, f)
      OBVIOUS
    <3>4. r \in JobRec /\ r.status = "pending"
      BY <1>1, <2>3, <3>2, <3>3, StatusKeeps DEF JobGood
    <3>5. PICK x : x = [r EXCEPT !.cred = inv[p].cred, !.bounce = 0]
      OBVIOUS
    <3>6. x.status = "pending"
      BY <3>4, <3>5 DEF JobRec
    <3>7. job' = [job EXCEPT ![J(p)] = x]
      BY <1>12, <2>3, <3>1, <3>2, <3>3, <3>5 DEF RetryWrite
    <3>8. \A i \in Jobs : Exists(i) => Exists(i)'
      BY <1>1, <1>2, <3>6, <3>7 DEF Exists, Active
    <3> QED BY <1>3, <2>1, <3>8
  <2> QED BY <2>2, <2>3
<1>13. CASE DeleteWrite(p)
  <2>1. \A q \in Rows : row'[q].status # "absent" => row[q].status # "absent" /\ q[1] # J(p)
    BY <1>13 DEF DeleteWrite, RowIs
  <2>2. \A i \in Jobs \ {J(p)} : Exists(i) => Exists(i)'
    BY <1>1, <1>2, <1>13 DEF DeleteWrite, Exists
  <2> QED BY <2>1, <2>2, RowParts DEF RowsOK
<1>14. CASE RevokeWrite(p)
  <2> DEFINE mine == {j \in Jobs : Exists(j) /\ job[j].cred = inv[p].cred}
  <2>1. /\ row' = CancelledRows(mine)
        /\ job' = [j \in Jobs |-> IF j \in mine /\ job[j].status \in Active THEN StatusSet(j, "cancelled", TRUE) ELSE job[j]]
    BY <1>14 DEF RevokeWrite
  <2>2. \A j \in Jobs : Exists(j) => Exists(j)'
    <3> SUFFICES ASSUME NEW j \in Jobs, Exists(j) PROVE job'[j].status \in Active \union Final
      BY <1>2
    <3>1. "cancelled" \in Active \union Final /\ TRUE \in BOOLEAN
      BY DEF Final
    <3>2. PICK r : r = StatusSet(j, "cancelled", TRUE)
      OBVIOUS
    <3>3. r.status = "cancelled"
      BY <1>1, <3>1, <3>2, StatusKeeps
    <3> QED BY <2>1, <3>1, <3>2, <3>3 DEF Exists
  <2>3. \A q \in Rows : row'[q].status # "absent" => row[q].status # "absent"
    BY <2>1 DEF CancelledRows
  <2> QED BY <1>3, <2>2, <2>3
<1>15. CASE Promote(p)
  <2>1. "sending" \in Active \union Final /\ job[J(p)].finished \in BOOLEAN
    BY <1>1 DEF Active, JobRec
  <2>2. \A i \in Jobs : Exists(i) => Exists(i)'
    BY <1>1, <1>5, <1>15, <2>1 DEF Promote
  <2> QED BY <1>3, <1>15, <2>2 DEF Promote
<1>16. CASE RateWrite(p)
  <2>1. \A i \in Jobs : Exists(i) => Exists(i)'
    BY <1>1, <1>2, <1>16 DEF RateWrite, JobRec, Exists
  <2> QED BY <1>3, <1>16, <2>1 DEF RateWrite
<1>17. CASE UNCHANGED <<job, row>>
  BY <1>3, <1>4, <1>17
<1> QED
  BY <1>6, <1>7, <1>8, <1>9, <1>10, <1>11, <1>12, <1>13, <1>14, <1>15, <1>16, <1>17
  DEF Begin, Continue, InvThrows, InvEvict, CronStart, CancelRead, RetryRead, DeleteRead,
      RateRead, EditRead, RevokeRead, RedactStart, ListJobs, NextJob, ReadQuotaSent, ReadQuotaQueued,
      ReadJobLimit, ReadJobSent, ReadJobQueued, ReadLiveJob, SelectPending, Push, PushFails, EditWrite, RedactWrite

\* A consumer's steps, as far as the credential it reads and its mark go: it
\* leaves the message, or ends, or takes up another one.
Drops(c) == con'[c] = ConIdle
Takes(c) == con'[c].pc = "job" /\ con'[c].ack = "none"
Keeps(c) ==
  /\ con'[c].msg = con[c].msg /\ con'[c].cred = con[c].cred /\ con'[c].pc \in Read
  /\ con[c].pc \in Read
  /\ con'[c].pc \in Served => con[c].pc \in Served \/ (con[c].pc = "credential" /\ con[c].cred \notin revoked)
  /\ con'[c].pc = "contact" => ~Current(con[c].msg)'
  /\ con[c].pc = "current" /\ con'[c].pc = "send" => Current(con[c].msg)
  /\ con[c].ack # "ack" /\ con'[c].ack = "ack" =>
       \/ ~Current(con[c].msg)' \/ job'[MyJob(c)].status \notin Active
       \/ con'[c].pc \in {"abort_gone", "abort_redacted"} \/ con[c].msg.cred # con[c].cred
       \/ con[c].pc = "contact"
Reads(c) ==
  /\ con'[c].msg = con[c].msg /\ con'[c].pc = "credential" /\ con'[c].ack = con[c].ack
  /\ con'[c].cred = job[MyJob(c)].cred

LEMMA ConsumerMoves ==
  ASSUME IInv, NEW c \in Consumers, Deliver(c) \/ Consume(c) \/ Throw(c) \/ Evict(c)
  PROVE  /\ \A d \in Consumers \ {c} : con'[d] = con[d]
         /\ Drops(c) \/ Takes(c) \/ Keeps(c) \/ Reads(c)
<1> DEFINE Done == (\A d \in Consumers \ {c} : con'[d] = con[d]) /\ (Drops(c) \/ Takes(c) \/ Keeps(c) \/ Reads(c))
<1>1. /\ con \in [Consumers -> ConRec] /\ con[c] \in ConRec /\ ConsOK /\ row \in [Rows -> RowRec]
      /\ con[c].msg.row \in Rows /\ MyJob(c) \in Jobs
  BY ConType DEF IInv, ConsOK, TablesOK
<1>2. ASSUME NEW how, Return(c, how) PROVE Done
  <2>1. con' = [con EXCEPT ![c] = ConIdle]
    BY <1>2 DEF Return
  <2> QED BY <1>1, <2>1 DEF Drops
<1>4. ASSUME NEW s, con' = [con EXCEPT ![c].pc = s] \/ (\E n : con' = [con EXCEPT ![c].pc = s, ![c].avail = n])
      PROVE  /\ con'[c].msg = con[c].msg /\ con'[c].cred = con[c].cred /\ con'[c].pc = s
             /\ con'[c].ack = con[c].ack /\ \A d \in Consumers \ {c} : con'[d] = con[d]
  BY <1>1, <1>4 DEF ConRec
<1>5. ASSUME NEW s, con' = [con EXCEPT ![c].pc = s, ![c].ack = "ack"]
      PROVE  /\ con'[c].msg = con[c].msg /\ con'[c].cred = con[c].cred /\ con'[c].pc = s
             /\ con'[c].ack = "ack" /\ \A d \in Consumers \ {c} : con'[d] = con[d]
  BY <1>1, <1>5 DEF ConRec
<1>6. \A s \in {"credential", "abort_gone", "staged", "limit", "count", "window", "demote", "slot", "current",
                "abort_redacted", "send", "abort_blocked", "log", "mark", "contact", "counters", "finish", "done"} :
        s \in Read
  BY DEF Read, ConPc
<1>30. ASSUME NEW s \in Read \ {"contact", "send"}, con[c].pc \in Read, s \in Served => con[c].pc \in Served,
              Goto(c, s) \/ (\E n : con' = [con EXCEPT ![c].pc = s, ![c].avail = n])
       PROVE  Done
  <2>1. /\ con'[c].msg = con[c].msg /\ con'[c].cred = con[c].cred /\ con'[c].pc = s
        /\ con'[c].ack = con[c].ack /\ \A d \in Consumers \ {c} : con'[d] = con[d]
    BY <1>4, <1>30 DEF Goto
  <2>2. Keeps(c)
    BY <1>30, <2>1 DEF Keeps
  <2> QED BY <2>1, <2>2
<1>31. ASSUME NEW s \in Read \ {"contact", "send"}, con[c].pc \in Read, s \notin Served, MarkAck(c, s),
              \/ ~Current(con[c].msg)' \/ job'[MyJob(c)].status \notin Active
              \/ s \in {"abort_gone", "abort_redacted"} \/ con[c].msg.cred # con[c].cred
       PROVE  Done
  <2>1. /\ con'[c].msg = con[c].msg /\ con'[c].cred = con[c].cred /\ con'[c].pc = s
        /\ con'[c].ack = "ack" /\ \A d \in Consumers \ {c} : con'[d] = con[d]
    BY <1>5, <1>31 DEF MarkAck
  <2>2. Keeps(c)
    BY <1>31, <2>1 DEF Keeps
  <2> QED BY <2>1, <2>2
<1>32. /\ "finish" \in Read \ {"contact", "send"} /\ "finish" \notin Served
       /\ "abort_gone" \in Read \ {"contact", "send"} /\ "abort_gone" \notin Served
       /\ "abort_redacted" \in Read \ {"contact", "send"} /\ "abort_redacted" \notin Served
       /\ {"count", "window"} \subseteq Read \ {"contact", "send"} /\ {"limit", "count"} \subseteq Served
  BY DEF Read, ConPc, Served
<1>7. CASE Deliver(c)
  <2>1. PICK m \in queue : con' = [con EXCEPT ![c] = [ConIdle EXCEPT !.pc = "job",
                    !.msg = [gen |-> m.gen, row |-> m.row, cred |-> m.cred, tries |-> m.tries + 1]]]
    BY <1>7 DEF Deliver
  <2>2. PICK d : d = [gen |-> m.gen, row |-> m.row, cred |-> m.cred, tries |-> m.tries + 1]
    OBVIOUS
  <2>3. PICK r : r = [ConIdle EXCEPT !.pc = "job", !.msg = d]
    OBVIOUS
  <2>4. r.pc = "job" /\ r.ack = "none"
    BY <2>3 DEF ConIdle
  <2>5. con' = [con EXCEPT ![c] = r]
    BY <2>1, <2>2, <2>3
  <2> QED BY <1>1, <2>4, <2>5 DEF Takes
<1>8. CASE ReadJob(c)
  <2>1. CASE Return(c, "ack")
    BY <1>2, <2>1
  <2>2. CASE con' = [con EXCEPT ![c].pc = "credential", ![c].cred = job[MyJob(c)].cred]
    BY <1>1, <2>2 DEF ConRec, Reads
  <2> QED BY <1>8, <2>1, <2>2 DEF ReadJob
<1>9. CASE ReadCredential(c)
  <2>1. CASE MarkAck(c, "abort_gone")
    BY <1>6, <1>9, <1>31, <1>32, <2>1 DEF ReadCredential, At
  <2>2. CASE con[c].cred \notin revoked /\ Goto(c, "staged")
    BY <1>4, <1>6, <1>9, <2>2 DEF ReadCredential, At, Goto, Keeps
  <2> QED BY <1>9, <2>1, <2>2 DEF ReadCredential
<1>10. CASE ReadStaged(c)
  <2>1. CASE Goto(c, "limit")
    BY <1>4, <1>6, <1>10, <2>1 DEF ReadStaged, At, Goto, Keeps, Served
  <2>2. CASE (con[c].msg.cred # con[c].cred \/ ~Current(con[c].msg)) /\ MarkAck(c, "finish")
    <3>1. ~Current(con[c].msg) => ~Current(con[c].msg)'
      BY <1>5, <1>10, <2>2 DEF ReadStaged, consumed, Current, MarkAck
    <3> QED BY <1>6, <1>10, <1>31, <1>32, <2>2, <3>1 DEF ReadStaged, At
  <2> QED BY <1>10, <2>1, <2>2 DEF ReadStaged
<1>11. CASE ReadLimit(c)
  <2>1. CASE job[MyJob(c)].status \notin Active /\ MarkAck(c, "finish")
    <3>1. con[c].pc \in Read /\ job'[MyJob(c)].status \notin Active
      BY <1>6, <1>11, <2>1 DEF ReadLimit, At
    <3> QED BY <1>31, <1>32, <2>1, <3>1
  <2>2. CASE Goto(c, "slot")
    BY <1>4, <1>6, <1>11, <2>2 DEF ReadLimit, At, Goto, Keeps, Served
  <2>3. CASE \E n : con' = [con EXCEPT ![c].pc = "count", ![c].avail = n]
    <3>1. con[c].pc \in Read /\ con[c].pc \in Served
      BY <1>6, <1>11, <1>32 DEF ReadLimit, At
    <3>2. PICK s \in Read \ {"contact", "send"} : s = "count"
      BY <1>32
    <3>3. \E n : con' = [con EXCEPT ![c].pc = s, ![c].avail = n]
      BY <2>3, <3>2
    <3> QED BY <1>30, <3>1, <3>3
  <2> QED BY <1>11, <2>1, <2>2, <2>3 DEF ReadLimit
<1>12. CASE CountSent(c)
  <2>1. PICK n : con' = [con EXCEPT ![c].pc = "window", ![c].avail = n]
    BY <1>12 DEF CountSent
  <2>2. con[c].pc \in Read /\ con[c].pc \in Served
    BY <1>6, <1>12, <1>32 DEF CountSent, At
  <2>3. PICK s \in Read \ {"contact", "send"} : s = "window"
    BY <1>32
  <2>4. \E m : con' = [con EXCEPT ![c].pc = s, ![c].avail = m]
    BY <2>1, <2>3
  <2> QED BY <1>30, <2>2, <2>4
<1>13. CASE ReadWindow(c)
  BY <1>4, <1>6, <1>13 DEF ReadWindow, At, Goto, Keeps, Served
<1>14. CASE Demote(c)
  <2>1. con'[c].msg = con[c].msg
    BY <1>5, <1>14 DEF Demote, MarkAck
  <2>2. ~Current(con[c].msg)'
    BY <1>1, <1>14, <2>1 DEF Demote, Current, RowIs
  <2> QED BY <1>5, <1>6, <1>14, <2>2 DEF Demote, At, MarkAck, Keeps, Served
<1>15. CASE AcquireSlot(c)
  <2>1. CASE Goto(c, "current")
    BY <1>4, <1>6, <1>15, <2>1 DEF AcquireSlot, At, Goto, Keeps, Served
  <2>2. CASE con' = [con EXCEPT ![c].pc = "finish", ![c].ack = "retry"]
    BY <1>1, <1>6, <1>15, <2>2 DEF AcquireSlot, At, Keeps, Served, ConRec
  <2> QED BY <1>15, <2>1, <2>2 DEF AcquireSlot
<1>16. CASE ReadCurrent(c)
  <2>1. CASE ~Current(con[c].msg) /\ MarkAck(c, "finish")
    <3>1. ~Current(con[c].msg)'
      BY <1>5, <1>16, <2>1 DEF ReadCurrent, consumed, Current, MarkAck
    <3> QED BY <1>6, <1>16, <1>31, <1>32, <2>1, <3>1 DEF ReadCurrent, At
  <2>2. CASE MarkAck(c, "abort_redacted")
    BY <1>6, <1>16, <1>31, <1>32, <2>2 DEF ReadCurrent, At
  <2>3. CASE Current(con[c].msg) /\ Goto(c, "send")
    BY <1>4, <1>6, <1>16, <2>3 DEF ReadCurrent, At, Goto, Keeps, Served
  <2> QED BY <1>16, <2>1, <2>2, <2>3 DEF ReadCurrent
<1>17. CASE AbortRedacted(c)
  BY <1>1, <1>6, <1>17 DEF AbortRedacted, At, Keeps, Served, ConRec
<1>18. CASE SendOk(c) \/ SendTransient(c)
  BY <1>1, <1>6, <1>18 DEF SendOk, SendTransient, At, Keeps, Served, ConRec
<1>19. CASE SendBounce(c)
  <2>1. PICK k, n : con' = [con EXCEPT ![c].pc = "log", ![c].kind = k, ![c].nBounce = n]
    BY <1>19 DEF SendBounce
  <2> QED BY <1>1, <1>6, <1>19, <2>1 DEF SendBounce, At, Keeps, Served, ConRec
<1>20. CASE SendCredentialFailure(c)
  BY <1>4, <1>6, <1>20 DEF SendCredentialFailure, At, Goto, Keeps, Served
<1>21. CASE AbortBlocked(c)
  <2>1. "aborted" \in Active \union Final /\ TRUE \in BOOLEAN /\ "aborted" \notin Active
    BY DEF Active, Final
  <2>2. PICK r : r = StatusSet(MyJob(c), "aborted", TRUE)
    OBVIOUS
  <2>3. JobGood(job[MyJob(c)])
    BY <1>1 DEF IInv, TablesOK
  <2>4. r.status = IF Exists(MyJob(c)) THEN "aborted" ELSE job[MyJob(c)].status
    BY <1>1, <2>1, <2>2, <2>3, StatusKeeps
  <2>5. job'[MyJob(c)].status \notin Active
    BY <1>1, <1>21, <2>1, <2>2, <2>4 DEF AbortBlocked, Aborted, Exists, IInv, TablesOK
  <2> QED BY <1>1, <1>6, <1>21, <2>5 DEF AbortBlocked, At, Keeps, Served, ConRec
<1>22. CASE LogInsert(c)
  BY <1>4, <1>6, <1>22 DEF LogInsert, At, Goto, Keeps, Served
<1>23. ASSUME con' = Counted(c), con[c].pc \in Read, ~Current(con[c].msg)' \/ con[c].pc = "contact" PROVE Done
  <2>1. PICK n : n = IF con[c].kind = "ok" THEN 1 ELSE 0
    OBVIOUS
  <2>2. con' = [con EXCEPT ![c].pc = "counters", ![c].ack = "ack", ![c].nSent = n]
    BY <1>23, <2>1 DEF Counted
  <2> QED BY <1>1, <1>6, <1>23, <2>2 DEF Keeps, Served, ConRec
<1>24. CASE MarkRecipient(c)
  <2>1. con'[c].msg = con[c].msg
    BY <1>1, <1>4, <1>23, <1>24 DEF MarkRecipient, Goto, Counted, ConRec
  <2>2. ~Current(con[c].msg)'
    BY <1>1, <1>24, <2>1 DEF MarkRecipient, Current, RowRec
  <2>3. CASE con' = Counted(c)
    BY <1>6, <1>23, <1>24, <2>2, <2>3 DEF MarkRecipient, At
  <2>4. CASE Goto(c, "contact")
    BY <1>4, <1>6, <1>24, <2>2, <2>4 DEF MarkRecipient, At, Goto, Keeps, Served
  <2> QED BY <1>24, <2>3, <2>4 DEF MarkRecipient
<1>25. CASE VerifyContact(c)
  BY <1>6, <1>23, <1>25 DEF VerifyContact, At
<1>26. CASE LogFails(c)
  <2>1. PICK n : con' = [con EXCEPT ![c].pc = "log", ![c].kind = "bounce", ![c].nBounce = n]
    BY <1>26 DEF LogFails
  <2> QED BY <1>1, <1>6, <1>26, <2>1 DEF LogFails, Keeps, Served, ConRec
<1>27. CASE UpdateCounters(c)
  BY <1>4, <1>6, <1>27 DEF UpdateCounters, At, Goto, Keeps, Served
<1>28. CASE ReadFinish(c)
  <2>1. CASE Goto(c, "done")
    BY <1>4, <1>6, <1>28, <2>1 DEF ReadFinish, At, Goto, Keeps, Served
  <2> QED BY <1>2, <1>28, <2>1 DEF ReadFinish
<1>29. CASE AbortCredentialGone(c) \/ MarkDone(c) \/ Throw(c) \/ Evict(c)
  BY <1>2, <1>29 DEF AbortCredentialGone, MarkDone, Throw, Evict
<1> QED
  BY <1>7, <1>8, <1>9, <1>10, <1>11, <1>12, <1>13, <1>14, <1>15, <1>16, <1>17, <1>18, <1>19, <1>20,
     <1>21, <1>22, <1>24, <1>25, <1>26, <1>27, <1>28, <1>29 DEF Consume

-----------------------------------------------------------------------------
(* The credential a consumer works with.                                   *)

\* Nobody works at first.
LEMMA CredsInit == Init => CredsInv
<1> SUFFICES ASSUME Init PROVE CredsInv
  OBVIOUS
<1>1. \A r \in Rows : row[r].status = "absent"
  BY DEF Init, RowIs
<1>2. \A c \in Consumers : con[c].pc = "idle"
  BY DEF Init, ConIdle
<1>3. "idle" \notin Read /\ "idle" \notin Served
  BY DEF Read, Served
<1> QED BY <1>1, <1>2, <1>3 DEF CredsInv, RowsOK, CredOK

\* A consumer that a step leaves alone still works with the right credential.
LEMMA CredStays ==
  ASSUME IInv, GenOK, OnlyClaimsQueue, QueuedKeeps, NEW c \in Consumers, CredOK(c), con'[c] = con[c]
  PROVE  CredOK(c)'
<1>1. con'[c].msg = con[c].msg /\ con'[c].pc = con[c].pc /\ con'[c].cred = con[c].cred /\ MyJob(c)' = MyJob(c)
  BY DEF MyJob
<1>2. CASE ~Current(con[c].msg)'
  BY <1>1, <1>2 DEF CredOK
<1>3. CASE Current(con[c].msg)'
  <2>1. Current(con[c].msg) /\ row'[con[c].msg.row] = row[con[c].msg.row]
    BY <1>1, <1>3, StillCurrent
  <2>2. row'[con[c].msg.row].status = "queued" /\ con[c].msg.row \in Rows /\ MyJob(c) = con[c].msg.row[1]
    BY <2>1, ConType DEF Current, IInv, MyJob
  <2>3. /\ job'[MyJob(c)].cred = job[MyJob(c)].cred
        /\ job[MyJob(c)].cred \in revoked' => job[MyJob(c)].cred \in revoked
    BY <2>1, <2>2 DEF QueuedKeeps
  <2>4. con[c].pc # "contact"
    BY <2>1 DEF CredOK
  <2>5. con[c].pc \in Read => job'[MyJob(c)].cred = con[c].cred
    BY <2>1, <2>3 DEF CredOK
  <2>6. con[c].pc \in Served => con[c].cred \notin revoked'
    <3>1. Served \subseteq Read
      BY DEF Served, Read, ConPc
    <3> QED BY <2>1, <2>3, <3>1 DEF CredOK
  <2> QED BY <1>1, <2>4, <2>5, <2>6 DEF CredOK
<1> QED BY <1>2, <1>3

\* What a consumer keeps of the tables is what QueuedKeeps asks.
LEMMA ConsumerKeepsCreds ==
  ASSUME IInv, NEW c \in Consumers, Deliver(c) \/ Consume(c) \/ Throw(c) \/ Evict(c)
  PROVE  QueuedKeeps /\ JobsKept /\ revoked' = revoked
BY ConsumerJobs, RowParts DEF QueuedKeeps, JobsKept

\* No consumer stages a recipient or deletes a job.
LEMMA ConsumerRows ==
  ASSUME IInv, RowsOK, NEW c \in Consumers, Deliver(c) \/ Consume(c) \/ Throw(c) \/ Evict(c)
  PROVE  RowsOK'
<1>1. row \in [Rows -> RowRec] /\ con[c].msg.row \in Rows
  BY ConType DEF IInv, TablesOK
<1>2. \A r \in Rows : row'[r].status # "absent" => row[r].status # "absent"
  <2>1. CASE Demote(c)
    BY <1>1, <2>1 DEF Demote, Current
  <2>2. CASE MarkRecipient(c)
    BY <1>1, <2>2 DEF MarkRecipient
  <2>3. CASE UNCHANGED row
    BY <2>3
  <2> QED
    BY <2>1, <2>2, <2>3
    DEF Deliver, Consume, Throw, Evict, ReadJob, ReadCredential, AbortCredentialGone, ReadStaged, ReadLimit,
        CountSent, ReadWindow, AcquireSlot, ReadCurrent, AbortRedacted, SendOk, SendCredentialFailure,
        AbortBlocked, SendTransient, SendBounce, LogInsert, VerifyContact, LogFails,
        UpdateCounters, ReadFinish, MarkDone, consumed
<1>3. \A j \in Jobs : Exists(j)' <=> Exists(j)
  BY ConsumerJobs DEF JobsKept
<1> QED BY <1>2, <1>3, RowParts DEF RowsOK

\* The consumer that moves works with the credential its job has.
LEMMA CredMoves ==
  ASSUME IInv, GenOK, CredsInv, NEW c \in Consumers, Deliver(c) \/ Consume(c) \/ Throw(c) \/ Evict(c)
  PROVE  CredOK(c)'
<1>1. CredOK(c) /\ OnlyClaimsQueue /\ QueuedKeeps /\ JobsKept /\ revoked' = revoked
  BY ConsumerRow, ConsumerKeepsCreds DEF CredsInv
<1>2. {"idle", "job"} \cap Read = {} /\ Served \subseteq Read /\ "credential" \notin Served /\ "credential" # "contact"
  BY DEF Read, Served, ConPc
<1>3. CASE Drops(c)
  BY <1>2, <1>3 DEF Drops, ConIdle, CredOK
<1>4. CASE Takes(c)
  BY <1>2, <1>4 DEF Takes, CredOK
<1>5. CASE Reads(c)
  <2>1. job'[MyJob(c)].cred = con'[c].cred /\ MyJob(c)' = MyJob(c)
    BY <1>1, <1>5, ConType DEF Reads, JobsKept, MyJob, IInv
  <2> QED BY <1>2, <1>5, <2>1 DEF Reads, CredOK
<1>6. CASE Keeps(c)
  <2>1. con'[c].msg = con[c].msg /\ con'[c].cred = con[c].cred /\ MyJob(c)' = MyJob(c) /\ con[c].pc \in Read
    BY <1>6 DEF Keeps, MyJob
  <2>2. CASE ~Current(con[c].msg)'
    BY <2>1, <2>2 DEF CredOK
  <2>3. CASE Current(con[c].msg)'
    <3>1. Current(con[c].msg)
      BY <1>1, <2>1, <2>3, StillCurrent
    <3>2. job'[MyJob(c)].cred = con[c].cred
      BY <1>1, <2>1, <3>1, ConType DEF CredOK, JobsKept, IInv
    <3>3. con'[c].pc # "contact"
      BY <1>6, <2>3 DEF Keeps
    <3>4. con'[c].pc \in Served => con[c].cred \notin revoked
      BY <1>1, <1>6, <3>1 DEF Keeps, CredOK
    <3> QED BY <1>1, <2>1, <3>2, <3>3, <3>4 DEF CredOK
  <2> QED BY <2>2, <2>3
<1> QED BY <1>3, <1>4, <1>5, <1>6, ConsumerMoves

\* Time and redelivery touch none of this.
LEMMA EnvironmentCreds ==
  ASSUME IInv, CredsInv, LeaseLapses \/ NewDay \/ (\E j \in Jobs : LimitSwitches(j)) \/ UNCHANGED vars
  PROVE  CredsInv'
<1>1. UNCHANGED <<job, row, revoked, con>>
  BY DEF LeaseLapses, NewDay, LimitSwitches, vars, consumed
<1> QED BY <1>1 DEF CredsInv, RowsOK, CredOK, Current, Exists, MyJob

\* While its attempt is current, a consumer has the credential of its job.
LEMMA CredsStep == IInv /\ GenOK /\ CredsInv /\ [Next]_vars => CredsInv'
<1> SUFFICES ASSUME IInv, GenOK, CredsInv, [Next]_vars PROVE CredsInv'
  OBVIOUS
<1>1. ASSUME NEW c \in Consumers, Deliver(c) \/ Consume(c) \/ Throw(c) \/ Evict(c) PROVE CredsInv'
  <2>1. CredOK(c)' /\ RowsOK'
    BY <1>1, CredMoves, ConsumerRows DEF CredsInv
  <2>2. ASSUME NEW d \in Consumers \ {c} PROVE CredOK(d)'
    <3>1. con'[d] = con[d] /\ OnlyClaimsQueue /\ QueuedKeeps
      BY <1>1, ConsumerMoves, ConsumerRow, ConsumerKeepsCreds
    <3> QED BY <3>1, CredStays DEF CredsInv
  <2> QED BY <2>1, <2>2 DEF CredsInv
<1>2. ASSUME NEW p \in Invocations, Begin(p) \/ Continue(p) \/ InvThrows(p) \/ InvEvict(p) PROVE CredsInv'
  <2>1. con' = con /\ QueuedKeeps /\ RowsOK' /\ OnlyClaimsQueue
    BY <1>2, RequestKeepsCreds, RequestRows, RequestRow DEF CredsInv
  <2>2. ASSUME NEW c \in Consumers PROVE CredOK(c)'
    <3>1. con'[c] = con[c]
      BY <2>1
    <3> QED BY <2>1, <3>1, CredStays DEF CredsInv
  <2> QED BY <2>1, <2>2 DEF CredsInv
<1>3. CASE LeaseLapses \/ NewDay \/ (\E j \in Jobs : LimitSwitches(j)) \/ UNCHANGED vars
  BY <1>3, EnvironmentCreds
<1> QED BY <1>1, <1>2, <1>3 DEF Next

\* In every behaviour, whatever fails.
THEOREM CredsHold == Spec => [](IInv /\ GenOK /\ CredsInv)
<1>1. Init => IInv /\ GenOK /\ CredsInv
  BY IInvInit, GenInit, CredsInit
<1>2. IInv /\ GenOK /\ CredsInv /\ [Next]_vars => (IInv /\ GenOK /\ CredsInv)'
  BY IInvStep, GenStep, CredsStep
<1> QED BY <1>1, <1>2, PTL DEF Spec

\* No mail leaves through a credential that was revoked before the last check of
\* the recipient: that check finds the attempt cancelled (send-queue.ts:45,
\* mail-credentials.ts:177-181).
THEOREM RevokedIsNotUsed == Spec => RevokedNotUsed
<1> DEFINE Step == \A c \in Consumers : con[c].pc = "current" /\ con[c].pc' = "send" => con[c].cred \notin revoked
<1>1. ASSUME IInv, GenOK, CredsInv, [Next]_vars PROVE Step
  <2> SUFFICES ASSUME NEW c \in Consumers, con[c].pc = "current", con'[c].pc = "send" PROVE con[c].cred \notin revoked
    OBVIOUS
  <2>1. Current(con[c].msg) => con[c].cred \notin revoked
    BY <1>1 DEF CredsInv, CredOK, Served
  <2>2. con'[c] # con[c]
    OBVIOUS
  <2>3. ASSUME NEW d \in Consumers, Deliver(d) \/ Consume(d) \/ Throw(d) \/ Evict(d) PROVE Current(con[c].msg)
    <3>1. d = c
      BY <1>1, <2>2, <2>3, ConsumerMoves
    <3>2. Drops(c) \/ Takes(c) \/ Keeps(c) \/ Reads(c)
      BY <1>1, <2>3, <3>1, ConsumerMoves
    <3> QED BY <3>2 DEF Drops, ConIdle, Takes, Keeps, Reads
  <2>4. ASSUME NEW p \in Invocations, Begin(p) \/ Continue(p) \/ InvThrows(p) \/ InvEvict(p) PROVE FALSE
    BY <1>1, <2>2, <2>4, RequestKeepsCreds DEF CredsInv
  <2>5. ~(LeaseLapses \/ NewDay \/ (\E j \in Jobs : LimitSwitches(j)) \/ UNCHANGED vars)
    BY <2>2 DEF LeaseLapses, NewDay, LimitSwitches, vars
  <2> QED BY <1>1, <2>1, <2>3, <2>4, <2>5 DEF Next
<1>2. IInv /\ GenOK /\ CredsInv /\ [Next]_vars => [Step]_vars
  BY <1>1
<1> QED BY <1>2, CredsHold, PTL DEF Spec, RevokedNotUsed

\* No early return of processJobMessages gives up a recipient that still waits
\* for this attempt, while its job goes on and the message names the job's
\* credential (send-queue.ts:33-49).
THEOREM NothingGivenUp == Spec => AckedIsOver
<1> DEFINE Step ==
      \A c \in Consumers :
        con[c].ack # "ack" /\ con[c].ack' = "ack" =>
          \/ ~Current(con[c].msg)' \/ job[MyJob(c)].status' \notin Active
          \/ Aborting(c)' \/ con[c].msg.cred # con[c].cred
<1>1. ASSUME IInv, GenOK, CredsInv, [Next]_vars PROVE Step
  <2> SUFFICES ASSUME NEW c \in Consumers, con[c].ack # "ack", con'[c].ack = "ack"
               PROVE  \/ ~Current(con[c].msg)' \/ job[MyJob(c)].status' \notin Active
                      \/ Aborting(c)' \/ con[c].msg.cred # con[c].cred
    OBVIOUS
  <2>1. con'[c] # con[c]
    OBVIOUS
  <2>2. ASSUME NEW d \in Consumers, Deliver(d) \/ Consume(d) \/ Throw(d) \/ Evict(d)
        PROVE  \/ ~Current(con[c].msg)' \/ job[MyJob(c)].status' \notin Active
               \/ Aborting(c)' \/ con[c].msg.cred # con[c].cred
    <3>1. d = c
      BY <1>1, <2>1, <2>2, ConsumerMoves
    <3>2. Drops(c) \/ Takes(c) \/ Keeps(c) \/ Reads(c)
      BY <1>1, <2>2, <3>1, ConsumerMoves
    <3>3. Keeps(c)
      BY <3>2 DEF Drops, ConIdle, Takes, Reads
    <3>4. \/ ~Current(con[c].msg)' \/ job'[MyJob(c)].status \notin Active
          \/ con'[c].pc \in {"abort_gone", "abort_redacted"} \/ con[c].msg.cred # con[c].cred
          \/ con[c].pc = "contact"
      BY <3>3 DEF Keeps
    <3>5. con'[c].msg = con[c].msg /\ MyJob(c)' = MyJob(c)
      BY <3>3 DEF Keeps, MyJob
    <3>6. con[c].pc = "contact" => ~Current(con[c].msg)'
      <4>1. con[c].pc = "contact" => ~Current(con[c].msg)
        BY <1>1 DEF CredsInv, CredOK
      <4>2. OnlyClaimsQueue
        BY <1>1, GenStep
      <4> QED BY <1>1, <3>5, <4>1, <4>2, StillCurrent
    <3> QED BY <3>4, <3>5, <3>6 DEF Aborting
  <2>3. ASSUME NEW p \in Invocations, Begin(p) \/ Continue(p) \/ InvThrows(p) \/ InvEvict(p) PROVE FALSE
    BY <1>1, <2>1, <2>3, RequestKeepsCreds DEF CredsInv
  <2>4. ~(LeaseLapses \/ NewDay \/ (\E j \in Jobs : LimitSwitches(j)) \/ UNCHANGED vars)
    BY <2>1 DEF LeaseLapses, NewDay, LimitSwitches, vars
  <2> QED BY <1>1, <2>2, <2>3, <2>4 DEF Next
<1>2. IInv /\ GenOK /\ CredsInv /\ [Next]_vars => [Step]_vars
  BY <1>1
<1> QED BY <1>2, CredsHold, PTL DEF Spec, AckedIsOver

\* A cancelled recipient comes back only by a retry of its job, or through the
\* record of a mail that was under way when it was cancelled: no cron pass, no
\* release of a claim and no demotion revives it (send.ts:474, 297-321, 256).
THEOREM CancelledForGood == Spec => CancelledStays
<1> DEFINE Back(r) ==
             \/ row[r].status' \in {"ok", "bounce"} /\ \E c \in Consumers : PastCheck(c) /\ con[c].msg.row = r
             \/ \E p \in Invocations : InvAt(p, "retry_write") /\ J(p) = r[1]
             \/ job[r[1]].status' = "deleted"
           Step == \A r \in Rows : row[r].status = "cancelled" /\ row[r].status' # "cancelled" => Back(r)
<1>1. ASSUME IInv, [Next]_vars PROVE Step
  <2> SUFFICES ASSUME NEW r \in Rows, row[r].status = "cancelled", row'[r].status # "cancelled" PROVE Back(r)
    OBVIOUS
  <2>1. row \in [Rows -> RowRec] /\ row' # row /\ r[1] \in Jobs /\ DOMAIN job = Jobs
    BY <1>1, RowParts DEF IInv, TablesOK
  <2>2. ASSUME NEW c \in Consumers, Deliver(c) \/ Consume(c) \/ Throw(c) \/ Evict(c) PROVE Back(r)
    <3>1. con[c].msg.row \in Rows
      BY <1>1, ConType DEF IInv
    <3>2. CASE Demote(c)
      BY <2>1, <3>1, <3>2 DEF Demote, Current
    <3>3. CASE MarkRecipient(c)
      BY <2>1, <3>1, <3>3 DEF MarkRecipient, PastCheck, At, RowRec
    <3>4. Demote(c) \/ MarkRecipient(c)
      BY <2>1, <2>2
      DEF Deliver, Consume, Throw, Evict, ReadJob, ReadCredential, AbortCredentialGone, ReadStaged, ReadLimit,
          CountSent, ReadWindow, AcquireSlot, ReadCurrent, AbortRedacted, SendOk, SendCredentialFailure,
          AbortBlocked, SendTransient, SendBounce, LogInsert, VerifyContact, LogFails,
          UpdateCounters, ReadFinish, MarkDone, consumed
    <3> QED BY <3>2, <3>3, <3>4
  <2>3. ASSUME NEW p \in Invocations, Begin(p) \/ Continue(p) \/ InvThrows(p) \/ InvEvict(p) PROVE Back(r)
    <3>1. ~StageRecipients(p) /\ ~RecoverStale(p)
      BY <2>1 DEF StageRecipients, RecoverStale, RecoverUpTo, Stale
    <3>2. ~Claim(p) /\ ~Release(p)
      BY <2>1 DEF Claim, Release
    <3>3. ~CancelWrite(p) /\ ~RevokeWrite(p)
      BY <2>1 DEF CancelWrite, RevokeWrite, CancelledRows
    <3>4. CASE RetryWrite(p)
      BY <2>1, <3>4 DEF RetryWrite
    <3>5. CASE DeleteWrite(p)
      BY <2>1, <3>5 DEF DeleteWrite, NoJob
    <3>6. RetryWrite(p) \/ DeleteWrite(p)
      BY <2>1, <2>3, <3>1, <3>2, <3>3
      DEF Begin, Continue, InvThrows, InvEvict, CreateJob, CronStart, CancelRead, RetryRead, DeleteRead,
          RateRead, EditRead, RevokeRead, RedactStart, ListJobs, NextJob, ReadQuotaSent, ReadQuotaQueued,
          ReadJobLimit, ReadJobSent, ReadJobQueued, ReadLiveJob, SelectPending, Push, PushFails, Promote,
          RateWrite, EditWrite, RedactWrite
    <3> QED BY <3>4, <3>5, <3>6
  <2>4. ~(LeaseLapses \/ NewDay \/ (\E j \in Jobs : LimitSwitches(j)) \/ UNCHANGED vars)
    BY <2>1 DEF LeaseLapses, NewDay, LimitSwitches, vars, consumed
  <2> QED BY <1>1, <2>2, <2>3, <2>4 DEF Next
<1>2. IInv /\ [Next]_vars => [Step]_vars
  BY <1>1
<1> QED BY <1>2, Invariance, PTL DEF Spec, CancelledStays
=============================================================================
