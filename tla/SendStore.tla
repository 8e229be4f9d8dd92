------------------------------ MODULE SendStore ------------------------------
(***************************************************************************)
(* The state the send pipeline of one account lives in, and the SQL it     *)
(* runs: the D1 tables send_jobs, send_job_recipients, send_log, letters   *)
(* and mail_credentials, the Cloudflare queue SEND_QUEUE, and the local    *)
(* state of the Worker invocations that touch them.  A D1 statement and a  *)
(* D1 batch are atomic; everything between two of them can interleave.     *)
(*                                                                         *)
(* Jobs are numbered in created_at order and the recipients of a job in    *)
(* rowid order.  The number 0 stands for SQL NULL in limits, caps and      *)
(* queued_at, none of which the program can set to 0.                      *)
(***************************************************************************)
EXTENDS Integers, FiniteSets

CONSTANTS
  NJobs,          \* jobs the account may create
  NEmails,        \* recipients staged for each job
  Creds,          \* mail credentials of the account
  NoCred,         \* "no credential read yet"
  Cap,            \* daily_cap of each credential, 0 for NULL
  AccountCap,     \* accounts.daily_send_cap, used where Cap is 0
  Rates,          \* the job limits a user may choose: [daily, next]
  Consumers,      \* queue() invocations that may run at the same time
  Invocations,    \* fetch() and scheduled() invocations, likewise
  Ops,            \* which operations the environment may start
  Outcomes,       \* which answers the SMTP server may give
  Faults,         \* which faults the environment may inject
  TimelyRecovery, \* TRUE: no attempt is under way for STALE_QUEUED_MS
  MaxClock,       \* bound: how many times a recipient may be claimed
  MaxDeliveries,  \* deliveries of a message before it is dead-lettered
  TransientMax    \* TRANSIENT_SMTP_MAX_ATTEMPTS

Jobs == 1..NJobs
Emails == 1..NEmails
Rows == Jobs \X Emails            \* primary key of send_job_recipients

AllOps == {"create", "cron", "cancel", "retry", "rate", "delete", "edit", "revoke", "redact"}
AllOutcomes == {"ok", "transient", "rejected", "unknown_user", "credential"}
AllFaults == {"push", "push_taken", "throw", "evict", "evict_request", "redeliver", "ambiguous"}
RateRec == [daily : Nat, next : Nat]

ASSUME SizesAssumption == NJobs \in Nat \ {0} /\ NEmails \in Nat \ {0}
ASSUME CredsAssumption == NoCred \notin Creds /\ Creds # {} /\ Cap \in [Creds -> Nat] /\ AccountCap \in Nat
ASSUME RatesAssumption == Rates # {} /\ Rates \subseteq RateRec
ASSUME EnvironmentAssumption ==
  /\ Ops \subseteq AllOps /\ Outcomes \subseteq AllOutcomes /\ Faults \subseteq AllFaults
  /\ TimelyRecovery \in BOOLEAN
ASSUME BoundsAssumption == MaxClock \in Nat /\ MaxDeliveries \in Nat \ {0} /\ TransientMax \in Nat \ {0}

VARIABLES
  job,       \* send_jobs
  row,       \* send_job_recipients
  log,       \* send_log
  switched,  \* jobs whose limit_switch_at has passed
  redacted,  \* jobs whose letter holds the REDACTED marker
  revoked,   \* credentials with revoked_at set
  verified,  \* public_contacts.verification_status of each recipient
  queue,     \* messages the queue holds, leased to a consumer or not
  clock,     \* Date.now() at the latest claim
  mails,     \* history: the mails an SMTP server accepted
  con,       \* local state of the queue() invocations
  inv        \* local state of the fetch()/scheduled() invocations

tables == <<job, row, log, switched, redacted, revoked, verified>>
vars == <<job, row, log, switched, redacted, revoked, verified, queue, clock, mails, con, inv>>

-----------------------------------------------------------------------------
(* send_jobs.  "none" and "deleted": there is no row (not yet, no longer). *)

Active == {"pending", "sending"}
Final == {"done", "aborted", "cancelled"}
JobStatus == Active \union Final \union {"none", "deleted"}

JobRec == [status : JobStatus, cred : Creds \union {NoCred}, rate : RateRec,
           sent : Nat, bounce : Nat, finished : BOOLEAN, due : BOOLEAN]

NoJob == [status |-> "none", cred |-> NoCred, rate |-> [daily |-> 0, next |-> 0],
          sent |-> 0, bounce |-> 0, finished |-> FALSE, due |-> FALSE]

Exists(j) == job[j].status \in Active \union Final

\* The row of job j after an UPDATE that sets its status to s and leaves
\* finished_at null or not (fin), with what the two retention triggers then
\* do to content_delete_at ("due"); an UPDATE of a missing row changes nothing.
StatusSet(j, s, fin) ==
  IF ~Exists(j) THEN job[j]
  ELSE [job[j] EXCEPT !.status = s, !.finished = fin,
          !.due = \/ s \in Final /\ fin
                  \/ job[j].due /\ (s \in Active => s = job[j].status)]

EffectiveLimit(j) ==
  IF job[j].rate.next # 0 /\ j \in switched THEN job[j].rate.next ELSE job[j].rate.daily

-----------------------------------------------------------------------------
(* send_job_recipients: a claim stamps the row with a fresh queued_at, the *)
(* generation of the attempt that the message then carries.                *)

RowStatus == {"absent", "pending", "queued", "ok", "bounce", "cancelled"}
RowRec == [status : RowStatus, queuedAt : Nat]
RowIs(s) == [status |-> s, queuedAt |-> 0]

RowsOf(j) == {r \in Rows : r[1] = j}
InStatus(S, s) == {r \in Rows : r[1] \in S /\ row[r].status = s}

\* Variant of Current for mutation checks: any queued recipient will do.
AnyQueued(m) == row[m.row].status = "queued"

\* Is the attempt of message m the one its recipient now waits for?
Current(m) == row[m.row].status = "queued" /\ row[m.row].queuedAt = m.gen

\* ORDER BY rowid LIMIT n over the pending rows of a job
FirstPending(j, n) ==
  {r \in InStatus({j}, "pending") : Cardinality({q \in InStatus({j}, "pending") : q[2] < r[2]}) < n}

\* ORDER BY queued_at LIMIT n over the queued rows of a job
FirstQueued(j, n) ==
  {r \in InStatus({j}, "queued") :
     Cardinality({q \in InStatus({j}, "queued") : row[q].queuedAt < row[r].queuedAt}) < n}

-----------------------------------------------------------------------------
(* send_log and the sums the quotas are made of.  The log keys an entry by *)
(* the delivery that wrote it; "today" is sent_at >= the UTC midnight.     *)

LogRec == [row : Rows, gen : Nat, tries : Nat, status : {"ok", "bounce"}, today : BOOLEAN]

OkToday(S) == {l \in log : l.status = "ok" /\ l.today /\ l.row[1] \in S}
SentToday(S) == Cardinality(OkToday(S))
Queued(S) == Cardinality(InStatus(S, "queued"))

\* The jobs whose log and queued rows count against the quota of credential c:
\* those that name c now, or all of the account when c has no cap of its own.
JobsCounted(c) == {j \in Jobs : Exists(j) /\ (Cap[c] # 0 => job[j].cred = c)}
CapOf(c) == IF Cap[c] # 0 THEN Cap[c] ELSE AccountCap
AtLeast0(n) == IF n < 0 THEN 0 ELSE n

-----------------------------------------------------------------------------
(* The queue, and the local states.                                        *)

Delivery == [gen : Nat, row : Rows, cred : Creds, tries : Nat]
Message == [gen : Nat, row : Rows, cred : Creds, tries : Nat, leased : BOOLEAN]
NoDelivery == [gen |-> 0, row |-> <<1, 1>>, cred |-> NoCred, tries |-> 0]

ConIdle == [pc |-> "idle", msg |-> NoDelivery, cred |-> NoCred, avail |-> 0, kind |-> "none",
            nSent |-> 0, nBounce |-> 0, aborted |-> FALSE, ack |-> "none"]

InvIdle == [pc |-> "idle", op |-> "none", job |-> 1, cred |-> NoCred, rate |-> NoJob.rate,
            avail |-> 0, limit |-> 0, todoJobs |-> {}, todo |-> {}, gen |-> 0, pushed |-> FALSE]

Init ==
  /\ job = [j \in Jobs |-> NoJob]
  /\ row = [r \in Rows |-> RowIs("absent")]
  /\ log = {} /\ switched = {} /\ redacted = {} /\ revoked = {}
  /\ verified = [e \in Emails |-> "none"]
  /\ queue = {} /\ clock = 0 /\ mails = {}
  /\ con = [c \in Consumers |-> ConIdle]
  /\ inv = [p \in Invocations |-> InvIdle]

-----------------------------------------------------------------------------
(* What time alone changes.                                                *)

\* UTC midnight: nothing in send_log was sent today any more.
NewDay ==
  /\ \E l \in log : l.today
  /\ log' = {[l EXCEPT !.today = FALSE] : l \in log}
  /\ UNCHANGED <<job, row, switched, redacted, revoked, verified, queue, clock, mails, con, inv>>

\* limit_switch_at of a job passes.
LimitSwitches(j) ==
  /\ Exists(j) /\ job[j].rate.next # 0 /\ j \notin switched
  /\ switched' = switched \union {j}
  /\ UNCHANGED <<job, row, log, redacted, revoked, verified, queue, clock, mails, con, inv>>
=============================================================================
