# Politiker: TLA+ models and proofs

Politiker lets a registered user write one letter to many elected representatives and mails it to
each of them through the user's own mail account, a few at a time. These modules model the part of
the service where that can go wrong: what happens between "send" in the browser and the last mail.

## 1. Inventory

All of it runs on Cloudflare Workers. An invocation (`fetch()`, `scheduled()`, `queue()`) is
sequential code between `await`s; any number of invocations run at the same time, and none shares
memory with another. What they share is the D1 database (each statement, and each `batch`, is
atomic; nothing larger is), the queue `SEND_QUEUE`, one Durable Object per mail credential, the KV
store `SESSIONS` and the R2 bucket of attachments.

| component | source | state | operations | what is hard |
|---|---|---|---|---|
| send requests | `app/src/send.ts` | rows of `send_jobs`, `send_job_recipients` | create, cancel, retry, delete, change rate, edit letter | each reads, decides, writes in a later statement; all overlap with consumers and cron |
| enqueue path and cron | `app/src/send.ts` | the same, and the queue | recover stale rows, list jobs, quotas, claim, push | claim and push are not atomic; quotas are read in several statements |
| queue consumer | `app/src/send-queue.ts` | the same, `send_log`, `public_contacts` | one message: check, wait for a slot, send, log, count, finish | at-least-once delivery, long waits, ambiguous sends, late writes |
| rate limiter | `app/src/rate-limiter.ts`, callers in `send-queue.ts`, `secure-index.ts` | one token bucket per credential | acquire; wait and ask again | rounding, failing calls, a clock that falls back |
| mail credentials | `app/src/mail-credentials.ts`, `smtp-credential-test.ts` | `mail_credentials` | add, test, change password, re-cap, revoke | slow conversations between read and write, against revocation and sending |
| transport | `shared/smtp.ts`, `smtp-failure.ts`, `graph-mail.ts`, `resend.ts` | one conversation | connect, log in, send; classify the failure | lost answers; what a refusal means for recipient and account |
| letters | `app/src/index.ts`, `attachments.ts`, `letter-privacy.ts`, triggers in `infra/migrations` | letters, attachments in D1 and R2, `content_delete_at` | post, attach, encrypt, redact, erase | D1 and R2 fail separately; overlapping cron passes |
| recipients | `app/src/db.ts`, `recipient-*.ts`; `app/public/app-send.js`, `recipient-filter-groups.js` | filters and picks in the page | choose, filter, exclude, select on the server | one address with several rows; filters that outlive what they were for |
| address book | `app/src/private-contacts.ts`, `letter-intro-presets.ts` | private contacts, lists, presets | save, import, delete, list | answers of overlapping calls |
| accounts and sessions | `app/src/auth.ts`, `secure-index.ts`, `rate-limit.ts`, `oauth.ts`, `api-keys.ts`, `db.ts` | `accounts`, `oauth_identities`, `api_keys`, KV | register, login, reset, second factor, link, unlink, delete | check-then-act on two stores |
| the rest | feedback, visits, statistics, Turnstile, document parsing, other pages, scrapers, scripts | own tables or files | appending, parsing, I/O | little that interleaves |

A mail's way: a request **creates** a job and **stages** its recipients as `pending`. The request
itself, a later one, or the minute cron **claims** pending recipients (`queued`, with
`queued_at = Date.now()`) within three quotas and **pushes** one message per claim, carrying that
`queued_at`. A consumer checks that the message's `queued_at` is still the recipient's, waits for
the credential's slot, checks again, sends, writes `send_log` and the recipient's row (`ok` or
`bounce`), adds to the job's counters and, when they reach the total, sets the job `done`. Rows
that stay `queued` for two hours are released to be claimed again. A finished job's letter is
redacted some time later.

What makes it correct: a recipient is mailed once per job unless the user asks again; nobody is
forgotten; limits hold; what the user stopped stays stopped; a revoked credential is not used; the
counters tell the truth; every job ends, and then its letter goes. Around it: the mailing goes to
whom the user chose and nobody else; a mail account's secret is proven, used over encrypted
connections only, kept within its provider's rate, and gone when revoked; an account is one
person's, whatever requests overlap. `PROJECT.json` lists the hazards to these, line by line, with
the properties that watch them.

## 2. Modules

| module | models |
|---|---|
| `SendStore` | tables, queue, local states and the SQL expressions over them; time |
| `QueueConsumer` | `send-queue.ts` with `maySendQueuedRecipient`: one action per statement, slot request or SMTP conversation |
| `SendRequests` | `send.ts`, `deleteMailCredential`, `redactFinishedUserLetters`: likewise |
| `SendPipeline` | their composition: `Next`, `Spec`, `FairSpec`, and the properties |
| `MailDelivery` | what the pipeline promises each recipient; `SendPipeline` implements it |
| `RateLimiter` | the token bucket of a credential and those who ask it |
| `SmtpSession` | an SMTP conversation, command by command, and what its failure is taken for |
| `MailAccounts` | one mail credential and everyone who uses it; extends `SmtpSession` |
| `Letters` | letters, attachments, retention, erasure |
| `Accounts` | accounts, sessions, second factor, external logins, API keys, attempt counters |
| `RecipientSelection` | `getRecipientsForAreas` as functions on sets |
| `AddressBook` | private contacts, lists and presets, one operator per statement or batch |
| `Composer` | the recipients' page, its calls, and the selection of a mailing; composes the two |
| `MC...` | constant values for TLC, one per specification |
| `SendPipelineProofs` | types and supersession of the pipeline; what is stopped and what is kept |
| `SendCountProofs`, `SendOutcomeProofs` | counters and double mails; the refinement of `MailDelivery` and finished jobs; each extends the one before |
| `RateLimiterProofs`, `ComposerProofs`, `MailProofs`, `AccountsProofs`, `LettersProofs` | theorems and proofs, one module per specification |

The specifications meet at tables. `SendPipeline` sees of a credential that it is revoked, of a
letter that it is redacted, and of the slot that it is granted or not; `MailAccounts`, `Letters` and
`RateLimiter` show how that comes about. `Composer` ends where a job's recipients are staged.

The next two sections are about the pipeline, whose state is the largest; the other modules follow
the same conventions and are described after them.

### How state corresponds

`job[j]`, `row[<<j, e>>]` and `log` are the tables; a deleted job keeps the status `deleted`, so
that numbers are not reused. `due` is "`content_delete_at` is set"; both triggers are in
`StatusSet`, which every UPDATE of a job's status goes through. `switched` holds the jobs whose
`limit_switch_at` has passed, `redacted` those whose letter is the redaction marker (a letter
belongs to one job), `revoked` the credentials with `revoked_at`. `queue` holds a message until it
is acknowledged or dead-lettered, with `leased` while a consumer has it and `tries` for
`attempts`. `con[c]` and `inv[p]` are the local variables of an invocation; `pc` names its next
statement. `mails` is a history variable: every mail a server accepted.

`clock` is `Date.now()` at the latest claim. A claim takes the next value (`Stamp`): two claims are
taken to be at different times. Isolates whose clocks disagree by more than the time between two
claims of one recipient are outside the model.

`0` stands for SQL NULL in limits and `queued_at`; the program rejects or cannot produce 0 there.

### How actions correspond

An action is one D1 statement or batch, one queue call, one slot request or one SMTP conversation,
with the local computation up to the next. Early returns are disjuncts. `ack()` and `retry()` set
a mark that `Settled` turns into its effect at the end of the invocation; an invocation that is
killed (`Evict`) leaves no mark. The operations of a user begin with the read that decides whether
they are allowed (`CancelRead`, `RetryRead`, ...), so that the write (`CancelWrite`, ...) may find
another state.

The environment's part is in constants: `Ops` (which operations occur), `Outcomes` (SMTP answers),
`Faults`: `push` and `push_taken` (the push fails, the message lost or taken), `throw` (a statement
fails), `evict` and `evict_request` (an invocation is killed), `redeliver` (a lease lapses),
`ambiguous` (the connection is lost after the server took the mail).

`TimelyRecovery` states an assumption instead of modelling hours: with it, the recovery of stale
rows does not release an attempt a consumer is working on. The code's two hours
(`STALE_QUEUED_MS`) against four minutes' wait for a slot suggest it; nothing enforces it. It is
`TRUE` where a run is about double sending and `FALSE` elsewhere.

### The other specifications

**`MailDelivery`** has two functions of a recipient: the `phase` the user is shown, and how many
mails were `accepted`. Queue, claims and attempts are gone. The refinement mapping takes `phase`
from the row's status (`pending` and `queued` are both `waiting`) and `accepted` from `mails`. It
says of every behaviour without retries by the user, redelivery and deaths that at most one mail is
accepted, that `sent` and `failed` are honest, and that an outcome never changes. A mailing is staged
and deleted as a whole (`Stage`, `Delete`), cancelled alone or with all mailings of a credential
(`Cancel`), and a mail under way may still be accepted after either; after a cancellation its outcome is
shown, after a deletion (`gone`) nothing is.

**`RateLimiter`.** `bucket` is the object's `BucketState`, in units of a sixty-thousandth of a token
so that refills are whole numbers (the code's floating-point sums are taken to be exact). `time` is
what callers' clocks show; the object's clock may be `behind`, more so as it moves. A caller is
`waitForSendSlot`; `takeRateLimit`, which takes no for an answer, is one that waits at most 0 ms.

**`SmtpSession`** and **`MailAccounts`.** `conn[p]` is a conversation, `conn[p].at` the command whose
reply is awaited. The server may accept, refuse for now (4yz) or for good (5yz), or never answer;
after the last it may have taken the mail (`accepted`). `Classify` is `smtp-failure.ts`. `cred` is
one row of `mail_credentials`; `req[p]` holds what an operation read or was given; `proven` is a
history of passwords the server took. The provider's password changes at any moment.

**`Letters`.** `letter`, `row` and `job` are D1, `object` is R2; `route[l]` is the request that posts
letter `l`, `pass[c]` a cron invocation, `eraser` a `deleteAccount`. A job here is only finished,
retried and aged. `listed` is a history of objects that ever had a row: an object put by a route
that dies before its INSERT is in R2 for good, and no property speaks of it.

**`Accounts`.** One person with one address. Passwords and TOTP secrets are version numbers, and a
session envelope carries the pair it was written for (`credentialVersion`). `req[p].pc` names the
next D1 or KV call. `secureFetch` looks at the session and `handleRequest` looks again
(`StartWithSession`, `Authenticate`). What runs out (codes, links, sessions) is never used again,
which is one of the behaviours.

**`RecipientSelection`, `AddressBook`, `Composer`.** A row of `public_contacts` is a record with its
canonical role, party, committees and topic; the selection is sets of rows and addresses. The page's
variables have the names of `state` in the client (`once` is `oneTimeRecipients`). A click is one
synchronous handler, always followed by `renderAdvanced`, which forgets filters without an area
they apply to (`Organise`). A call is a write, sometimes a row read back, a fresh listing, and its
application; answers may overtake each other, and every call may fail. `Verdict` is what `logSend`
does to the register for an earlier mailing.

## 3. Runs

| run | instance | shows |
|---|---|---|
| `delivery` | 1 job, 2 recipients, 2 consumers, 1 invocation; lost pushes, cancellation, deletion | `TypeOK`, `OneMailPerClaim`, `OneMailPerRecipient`, `CountersMatchLog`, `DoneLeavesNobody`, `ImplementsMailDelivery` |
| `revoke` | 1 recipient, 2 credentials, 1 consumer, 2 invocations; retry, revocation, lost pushes | `SupersededForever`, `CancelledStays`, `RevokedNotUsed` |
| `redelivery` | 1 recipient, 2 consumers; every fault | `NeverOverstated` |
| `finish` | 2 recipients; cap 1 a day; limits none or 1, changed on the way; fair | `StagedJobFinishes` |
| `retention` | 1 recipient; cancel, retry, delete, edit, redact; lost pushes; fair | `AckedIsOver`, `WaitingMovesOn`, `RedactedJobEnds` |
| `rate` | a consumer and a request; 2 tokens, 2 a "minute" of 5 ms; drift 1 | `TypeOK`, `RateKept`, `LonerServed` |
| `accounts` | any 3 requests, 2 at a time, 1 provider, every registered state | `TypeOK`, `SecretProven`, `PasswordChangeRevokes`, `OneAccount`, `NoOrphans` |
| `mail` | any 3 operations, 2 at a time, 2 passwords; a provider with a quota, one without, Graph | `TypeOK`, `EncryptedOnly`, `RetryNeverDuplicates`, `OkMeansTaken`, `RevokedHoldsNothing`, `ProvenBeforeStored`, `CapWithinCeiling` |
| `letters` | a letter being posted, an old one, 1 file, 2 cron passes, batches of 1; fair | `TypeOK`, `RedactedLeavesNothing`, `JobHasAllFiles`, `RedactedStays`, `FinishedIsRedacted` |
| `recipients` | 3 branches, 5 rows of 2 people, 1 private address, 5 steps, 1 verdict | `TypeOK`, `NoStrangers`, `LocalFilterIsLocal`, `NeverDeadOrExcluded` |
| `limit_race` | 2 consumers, limit 1 | `WithinJobLimit` is violated |
| `cancel_undone` | 1 recipient | `CancelIsFinal` is violated |

No run checks for deadlock: a system with nothing to do rests, and at a bound on claims, requests,
steps or time it stops.

**Bounds of the pipeline.** One job, because jobs meet only in the quotas, which are sums; the
proofs cover any number. One recipient where the property is about one recipient's history, two
where recipients compete (limits, finishing). `MaxClock` bounds the claims: each run allows at least
one more than an undisturbed job needs (a second attempt of a recipient is where all supersession
begins). `MaxDeliveries` stands for 11 and `TransientMax` for 5: their order and the last step of
each are what the code tests. Two consumers and two invocations are enough for every pair of them
to overlap. Liveness runs have one consumer and one invocation: what they ask is whether work is
taken up again, not who takes it.

**Bounds of the others.** `rate`: a minute of 5 ms with 2 tokens makes every rounding occur (2.5 ms
a token); 8 ms are more than a refill and a wait; the theorem has no such bounds. `accounts` and
`mail`: three operations, because a hazard here is two that overlap and one that uses what they left;
two versions of a secret suffice to tell old from new, and `MaxAttempts` 1 makes every counter
reach its limit. `letters`: two letters and batches of one, so that a letter waits behind another
and the pass comes back; one file, since files are treated alike and one by one (two exceed the time
a run has), `MaxFiles` 1. `recipients`: the register has a member of parliament who
also sits in a municipal committee, and a committee chair who is an auditor and an editor too, so that
every address has several rows that the filters treat differently; 5 steps (a call counts two) are enough to choose areas, a role, take
the area away again and send, or to save, pick and send. The theorems about it have no bounds.

**Fairness of the pipeline** (`FairSpec`). Weak fairness of `Deliver` and `Consume`: the queue
delivers what it holds and the platform runs what it started. Weak fairness of `Continue` for a
started request. Strong fairness of `CronStart` and `RedactStart`: the trigger fires every minute,
although the one invocation of the model may be busy with a request at times; of
`RecoverUpTo(p, clock)`: a pass two hours after the last claim comes again and again. Weak fairness
of `NewDay`. No user action, no outcome and no fault is fair. The two properties that depend on new
claims hold "unless `clock = MaxClock`": the bound is part of the formula, not of the fairness.

**Fairness of `Letters`.** Weak fairness of time, and strong fairness of the steps of one of the two
chains of cron invocations: a trigger that fires every minute gets past calls that may fail, unless
they fail for ever. The other chain is not fair and may die or stand still anywhere. Nothing the
user does is fair.

**What the passing runs say.** `SupersededForever` is the pipeline's central promise: the check of
`queued_at` is safe because a generation never comes back. `OneMailPerClaim`, `OneMailPerRecipient`
and `ImplementsMailDelivery` add that, without evictions, redelivery and lost log entries, each
recipient gets at most one mail and an honest outcome. `CountersMatchLog` says that concurrent
increments are not lost, and `NeverOverstated` that under every fault `sent_count` errs in one
direction only. `DoneLeavesNobody`, `AckedIsOver`, `WaitingMovesOn`, `StagedJobFinishes` and
`RedactedJobEnds` are five ways of saying that nobody is forgotten: by the job, by the queue, by the
recovery, by the quotas, by retention. `AckedIsOver` looks at the moment a consumer decides to
acknowledge: the recipient no longer waits, the job is over, the consumer is about to abort it, or the
message names a credential the job no longer has. The last two are not the end of the recipient's wait:
an abort can be overwritten by another consumer's `status='sending'`, and a retry can name a
credential between the read and the claim of an enqueue pass, so that the messages of that claim name
the old one. Both are made good two hours later (`WaitingMovesOn`).

Around the pipeline: `RateKept` holds over every interval, also when the object's clock falls back
(the code then refills nothing, and sets its mark back, which costs time but never gives a token
away twice: what had flowed in was booked under the later clock), and `LonerServed` says the wait
the bucket names is enough for a caller who is alone. `SecretProven`, `PasswordChangeRevokes`, `OneAccount` and `NoOrphans` hold
because a confirmed secret is the one read before, because versions only grow, because a trigger
compares addresses, and because of foreign keys: in each case the mutant shows what happens without.
`RevokedHoldsNothing` and `ProvenBeforeStored` rest on the conditional UPDATEs after a conversation.
`RetryNeverDuplicates` rests on the choice to call a lost answer a bounce: such a mail may have been
taken and is then reported as failed, which is the price. `RedactedLeavesNothing` rests on the order
R2 first, D1 second, and on skipping a letter when R2 fails. `NoStrangers` rests on the page, not on
the server: for the server, roles without areas select the whole country.

**What the violated ones say.**

- `cancel_undone`: the consumer's final UPDATE sets `status='sending'` without looking
  (`send-queue.ts:51`). A job cancelled while a mail of it was under way comes back to life; if all
  its other recipients were cancelled it stays `sending`, and cannot be deleted until it is
  cancelled again.
- `limit_race`: `maySendQueuedRecipient` counts and looks at the window in two statements; two
  consumers of one job both count before either logs.

Also met while modelling, in TLC's traces or in the code: a retry decided on a read from before the job finished
leaves it `pending` with nothing to send and nobody to finish it; a retry between the read and the
write of `maybeFinishJob` leaves a `done` job with waiting recipients; an invocation that dies
before the counters are added leaves a served job that is never `done`, and its letter unredacted;
the outcome of a superseded attempt overwrites the newer state of the row (`send-queue.ts:58`); a
statement that fails between `message.ack()` and the abort (`send-queue.ts:47`) leaves a live job
whose recipient waits two hours; a mail logged between the two reads of a credential's quota is in
neither sum (`send.ts:182`); a finished job that is deleted takes its letter out of reach of
retention (`send.ts:512`); a session from before TOTP was enabled works again once it is disabled;
recipients chosen for one letter only stay chosen for the next (`letter-editor.js:194`). They are
in the list of hazards.

## 4. Proofs

All theorems hold for every value of the constants that satisfies the named assumptions of the
modules, so for any number of jobs, recipients, credentials, consumers, requests, letters or callers
and for every bound. Where a theorem needs more, it says so as a hypothesis.

**`SendPipelineProofs`**

- `Invariance`: `Spec => []IInv`
- `TypeCorrect`: `Spec => []TypeOK`
- `Supersession`: `Spec => SupersededForever`

`TypeOK` is not inductive. That a message names a credential depends on the enqueuing invocation
having read one, hence on where it is (`InvGood`), and on every existing job naming one
(`JobGood`); that the claimed recipient exists (`Claimed` is a `CHOOSE`) depends on the list having
a first element while its message is pushed; that the quota sums are numbers depends on the log
being finite. `IInv` adds these. Its proof has one lemma per group of actions that disturb the same
conjuncts, and one step per action in each.

`Supersession` adds `GenOK` (no attempt in the queue, at a consumer or in an invocation's hand is
later than `clock`) and an action lemma, `OnlyClaimsQueue` (a step that makes a row queued, or
changes a queued row, stamps it later than `clock`). An attempt that is not current could become so
only by a row that changes to carry its generation; that generation would be later than `clock`,
and no attempt is. It rests on the monotone clock described above, and on no bound.

`CredsHold`, `RevokedIsNotUsed`, `NothingGivenUp` and `CancelledForGood` also hold under every fault.
The invariant is `CredsInv`: while its attempt is current, a consumer that has read the job works with
the credential the job has, and one that was revoked since leaves it no current attempt. It is
inductive because of `Supersession`: whatever gives a job another credential (a retry) or revokes one
takes the recipients out of `queued` in the same batch, and an attempt that is not current never is
again. `RowsOK` (recipients are staged for jobs that exist, and go with them) is part of it.
`CancelledForGood` needs no invariant of its own, only that a release and a recovery look at the status.

**`SendCountProofs`**: how often, in three layers, each an invariant on top of the last.

- `CountInv`. A delivery is known by its attempt and the count of its deliveries (`Same`). A message is
  delivered more often than every delivery anybody knows of; no two consumers have the same; the log has
  at most one `ok` entry for each; an attempt still to be pushed is known nowhere (`KnownInv`). So an
  entry is new when it is written, and `Tally` follows: what is counted, with what is being counted, is
  paid for by entries of the log, exactly so while `Calm` (no statement fails, no consumer is killed).
  Hence `NoMailOverstated` under every fault, and `CountersAreExact` for `Calm`.
- `OnceInv`, for `Once` (no redelivery, no failing statement, no killed consumer). A message is held by
  one consumer and is not in the queue for another (`HeldOnce`), and whoever holds the message of an
  attempt that was mailed is past the sending, or finds the job gone (`MailOK`). Hence
  `OneMailForAClaim`, with lost pushes, pushes that were taken, retries, recovery, cancellation,
  deletion and ambiguous answers of the server.
- `SoleInv`, for `Once` and `NoRetry` (no retry by the user, no push that is reported as failed and was
  taken, timely recovery). A consumer past its last check has the recipient to itself until the outcome
  is in the row (`PassOK`), a mailed recipient is settled or about to be (`MailedOK`), and a claim is
  released only where its message was not taken (`ReleaseOK`). Hence `OneMailForARecipient`.

No hypothesis can be dropped. With one recipient, two consumers and three claims, TLC finds a second
mail for a recipient as soon as one of `redeliver`, `evict`, `throw`, `push_taken`, a retry or an untimely
recovery is allowed, a second mail for a claim with each of the first three, and a counter that disagrees
with the log with `evict` or `throw`. All hypotheses hold together in `delivery`.

**`SendOutcomeProofs`**: what comes of a recipient.

- `PipelineImplementsMailDelivery`, for `Once`, `NoRetry` and `Unambiguous` (no connection is lost
  between a mail that was taken and the answer). `SoleInv` says that there is one mail at most;
  `OutcomeInv` adds that it is the mail of the outcome: who is about to record `ok` has a mail in
  `mails`, who is about to record `bounce` has none (`HonestOK`), and the recipients of a job are staged
  together. All of it is collected in `Settling`. The mapping is proved group by group: a consumer's step
  is `Accept`, `Report` or a stutter (`ConsumerMaps`), a request's is `Stage`, `Cancel`, `Delete` or a
  stutter (`RequestMaps`), and the passing of time only a stutter. `ShownIsWhatHappened` is
  proved of `MailDelivery` and carried over along the refinement: who is shown as sent was mailed, and
  who is shown as failed was not.
- `DoneIsComplete` (`DoneLeavesNobody`), for `OneHolder` (no redelivery) and `NoRetry`; consumers may be
  killed, statements may fail, answers may be ambiguous. `SettledTally` is a sum: what the counters
  of a job have, with one for each consumer that has recorded an outcome and not added it yet (`Owes`),
  never exceeds the number of recipients with an outcome. An outcome that is written again after a
  failing statement (`LogFails`) moves neither side, and a killed consumer only lowers the left one. So a
  consumer that finds the counters at the total finds everyone settled, and `DoneOK` keeps it so until
  its UPDATE. `HoldInv` is what it needs of the others: no two consumers record an outcome for one
  recipient, and nobody takes an outcome back (`WorksOK`).

No hypothesis of the refinement can be dropped: TLC refutes it as soon as one of `redeliver`, `evict`,
`throw`, `push_taken`, `ambiguous`, a retry or an untimely recovery is allowed. Nor can one of
`DoneIsComplete`: with two recipients TLC finds a job that is done too early for each of `redeliver`,
`push_taken`, a retry and an untimely recovery.

**`RateLimiterProofs`**: `AccountInvariant` (`Spec => []IInv`), `RateAlwaysKept`, `TypesHold`
and `LonerAlwaysServed`. `RateKept` speaks of grants, and says nothing of what is left in the bucket; the inductive form is an account:
since any grant, the tokens given out, those in the bucket and those that have flowed in but are not
booked yet come from a full bucket and the time since. A grant moves a token from one side of the
account to the other, a refusal books the flow, a tick adds to both sides at most the same. The
arithmetic of products is stated in lemmas, as the solver needs it. `LonerServed` has an account of its
own (`AloneInv`): of a caller who has been alone since he began to wait, all that flowed in while he
waited, less what the object's clock may have lost (`Waited`), is still in the bucket or owed to it
(`Level`). Once his patience is over, that is a token.

**`ComposerProofs`**: `NoStrangersEver`, `LocalFilterStaysLocal`, `DeadAndExcludedNever` and `TypesHold`. The
invariant says that the page's filters and the payload taken from them never hold a role without an
area (`RolesNeedAreas`, which `Organise` restores after every click that can disturb it), and follows a
mailing through its two queries. `TypesHold` holds the foreign keys and the limits of the address book:
`AccountInv` pays in advance for every preset that was counted and is not inserted yet, and keeps ids that
were given out known to the calls and to the page, which may show an old listing.

**`MailProofs`**: all seven invariants of `MailAccounts`, from one inductive invariant with three parts.
`WireOK` is about a conversation: what its stage implies of encryption, of what it carries and of its
result. `LocalOK` is about an operation: what its conversation proved and what it holds at each step (a
password about to be stored is in `proven`; a token refresh works on a Graph credential). `RowOK` is what
the row promises. A late UPDATE after a revocation is the case where they meet: it changes nothing,
because it looks at the row again. `CapsHold` rests on arithmetic of the double rounding, which has
its own lemmas.

**`AccountsProofs`**: all five properties of `Accounts`. `TablesOK` is what the tables promise each
other, `SessionOK` what a session owes its account: its versions are no later than the account's, and
strictly earlier once a change of password left it behind; since versions only grow, it is never valid
again. `ReqOK` says what a request has in hand at each step (a secret about to be confirmed was proven; a
session about to be written carries versions that were read). `CountOK` bounds the attempts, each of
which is paid for by a request still under way or past. Writing it down showed an assumption that was
only implied: there is an id to give to the first account.

**`LettersProofs`**: types, `NothingLeft`, `NothingMissing` and `RedactedForever`. `RouteOK` says which files
a route has listed at each step, `LetterOK` what a letter owes: every listed file a row until it is
redacted, no object and no row afterwards, and a job only with everything that was asked for. `PassOK`
carries it through a cron pass that works on a list it read earlier: only letters whose route is over
are ever due, and a route that is over stays so, so nothing is added between the listing of the keys and
the batch, however passes overlap or die.

The proofs use the assumptions on constants, the hypotheses named above and nothing else.

Only model-checked: what holds under fairness (`StagedJobFinishes`, `WaitingMovesOn`, `RedactedJobEnds`,
`FinishedIsRedacted`), which is outside what the installed back ends prove. Every other property of a
passing run is a theorem.

## 5. What is not modelled

- **Pipeline**: subjects and intro texts; the order of the recipients; the bounce-rate stop, which
  needs ten messages in a batch and cannot be reached with `max_batch_size` 1; the LIMITs of 250
  recovered rows and 100 letters a pass; error reports.
- **Transport**: MIME and its encodings; how a reply is cut into packets (a reply that is cut
  between CR and LF hangs the client; its effect, an answer that never comes, is modelled).
- **Accounts**: the arithmetic of codes and hashes; how long codes, links and sessions last; the last
  administrator, which needs several persons; the exchange with an OAuth provider.
- **Recipients**: policy filters, which no page sends; role names in raw form; names beside addresses; the live
  count, which the page computes from metadata. The three SELECTs of a listing are taken as one, and
  clicks while a mailing is on its way are left out: its payload was taken at the click.
- **Address book**: names of contacts, texts of presets and their update.
- **Whole components**: feedback, visits, statistics and Turnstile (single statements and an outside
  service), document parsing (a conversion of files), crypto, HTML and input helpers (conversions of
  data the models abstract from), the other pages of the client, the contact scrapers and the build,
  release and verification scripts (batch programs around the service). `PROJECT.json` names each
  with the reason.

## 6. What is left

The pipeline came first because everything the service promises goes through it, then what it
depends on: rate, credentials, letters, accounts, recipients; then their proofs. Every safety property
that is checked is proved. What is left are the hazards without a property: the program does not
promise anything there that could be stated as kept, or the model abstracts from the part in question
(`PROJECT.json` says which, hazard by hazard). A change of the code at one of those lines is where a
property should be added first.
