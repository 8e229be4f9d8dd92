------------------------------- MODULE Letters -------------------------------
(***************************************************************************)
(* The content of letters: the send route that stores a letter and its     *)
(* attachments (index.ts, attachments.ts), the cron pass that encrypts old *)
(* ones and redacts finished ones (letter-privacy.ts), and the erasure of  *)
(* an account (db.ts).  D1, R2 and the invocations are separate: a step is *)
(* one D1 statement or batch or one R2 call, and any invocation may die    *)
(* between two.  Of a job there is only what retention looks at; time is   *)
(* counted in retention units since a job finished.                        *)
(***************************************************************************)
EXTENDS Integers, FiniteSets

CONSTANTS
  Letters,
  Posted,        \* bound: those a request may send; the others are old ones
  Files,         \* what may be attached
  Extracted,     \* those of mode "extract": their text becomes part of the body
  MaxFiles,      \* MAX_ATTACHMENT_COUNT; stands for the size limits too
  Passes,        \* cron invocations that may overlap
  BackfillBatch, \* BACKFILL_BATCH
  RedactBatch,   \* LIMIT of the retention pass
  DefaultKeep,   \* retention without a choice: 300000 ms
  Keeps          \* retentions one can choose, the default among them

ASSUME LettersAssumption ==
  /\ Posted \subseteq Letters /\ IsFiniteSet(Files) /\ Extracted \subseteq Files /\ MaxFiles \in Nat
  /\ BackfillBatch \in Nat \ {0} /\ RedactBatch \in Nat \ {0}
  /\ DefaultKeep \in Keeps /\ Keeps \subseteq Nat /\ \E k \in Keeps : \A i \in Keeps : i <= k

VARIABLES
  letter,  \* D1: letters
  row,     \* D1: letter_attachments, pairs of letter and file
  job,     \* D1: send_jobs, as far as retention goes
  object,  \* R2: objects, named like the rows
  route,   \* the request that sends each letter
  pass,    \* each cron invocation
  eraser,  \* the erasure of the account
  listed   \* history: objects that once had a row

vars == <<letter, row, job, object, route, pass, eraser, listed>>

NoLetter == [state |-> "none", body |-> "none", extracted |-> {}]
NoJob == [status |-> "none", keep |-> DefaultKeep, age |-> 0, intro |-> "none"]
NoRoute == [pc |-> "idle", want |-> {}, todo |-> {}]
PassIdle == [pc |-> "idle", todo |-> {}, keys |-> {}]

MaxKeep == CHOOSE k \in Keeps : \A i \in Keeps : i <= k
KeysOf(l) == {k \in row : k[1] = l}
Stored(l) == letter[l].state = "live"

\* Letters from before the encryption, with their job, or nothing yet.
Init ==
  /\ \E old \in {Letters, Letters \ Posted}, f \in SUBSET Files :
       /\ letter = [l \in Letters |-> IF l \in old THEN [state |-> "live", body |-> "plain", extracted |-> f \cap Extracted] ELSE NoLetter]
       /\ job = [l \in Letters |-> IF l \in old THEN [NoJob EXCEPT !.status = "final"] ELSE NoJob]
       /\ row = old \X f
       /\ route = [l \in Letters |-> IF l \in old THEN [NoRoute EXCEPT !.pc = "end", !.want = f] ELSE NoRoute]
  /\ object = row /\ listed = row
  /\ pass = [c \in Passes |-> PassIdle] /\ eraser = PassIdle

-----------------------------------------------------------------------------
(* POST /api/send.                                                         *)

RouteAt(l, s) == route[l].pc = s
RouteGoto(l, s) == route' = [route EXCEPT ![l].pc = s]

PostLetter(l) ==
  /\ RouteAt(l, "idle") /\ eraser.pc = "idle"
  /\ letter' = [letter EXCEPT ![l] = [NoLetter EXCEPT !.state = "live", !.body = "enc"]]
  /\ \E w \in SUBSET Files : route' = [route EXCEPT ![l] = [pc |-> IF w = {} THEN "job" ELSE "check", want |-> w, todo |-> w]]
  /\ UNCHANGED <<row, job, object, pass, eraser, listed>>

\* validateAttachmentBatch, with the letter stored already.
CheckBatch(l) ==
  /\ RouteAt(l, "check")
  /\ RouteGoto(l, IF Cardinality(route[l].want) <= MaxFiles THEN "put" ELSE "end")
  /\ UNCHANGED <<letter, row, job, object, pass, eraser, listed>>

\* Variant of RefuseFile: a file that cannot be used is left out.
SkipFile(l) ==
  /\ RouteAt(l, "put")
  /\ \E f \in route[l].todo :
       route' = [route EXCEPT ![l].todo = @ \ {f}, ![l].pc = IF route[l].todo = {f} THEN "body" ELSE "put"]
  /\ UNCHANGED <<letter, row, job, object, pass, eraser, listed>>

\* A wrong mode, length or file type ends the request.
RefuseFile(l) ==
  /\ RouteAt(l, "put")
  /\ RouteGoto(l, "end")
  /\ UNCHANGED <<letter, row, job, object, pass, eraser, listed>>

PutObject(l) ==
  /\ RouteAt(l, "put")
  /\ \E f \in route[l].todo :
       /\ object' = object \union {<<l, f>>}
       /\ route' = [route EXCEPT ![l].pc = "row", ![l].todo = @ \ {f}]
  /\ UNCHANGED <<letter, row, job, pass, eraser, listed>>

\* Variant of InsertRow: letter_attachments without its foreign key.
InsertOrphan(l) ==
  LET key == {k \in {<<l, f>> : f \in route[l].want \ route[l].todo} : k \notin listed} IN
  /\ RouteAt(l, "row")
  /\ row' = row \union key /\ listed' = listed \union key
  /\ RouteGoto(l, IF route[l].todo = {} THEN "body" ELSE "put")
  /\ UNCHANGED <<letter, job, object, pass, eraser>>

\* letter_attachments references letters.  The object just put is the one of
\* this letter that is neither to do nor listed.
InsertRow(l) ==
  LET key == {k \in {<<l, f>> : f \in route[l].want \ route[l].todo} : k \notin listed} IN
  /\ RouteAt(l, "row")
  /\ IF Stored(l)
     THEN /\ row' = row \union key /\ listed' = listed \union key
          /\ RouteGoto(l, IF route[l].todo = {} THEN "body" ELSE "put")
     ELSE RouteGoto(l, "end") /\ UNCHANGED <<row, listed>>
  /\ UNCHANGED <<letter, job, object, pass, eraser>>

UpdateBody(l) ==
  /\ RouteAt(l, "body")
  /\ letter' = IF Stored(l) THEN [letter EXCEPT ![l].body = "enc", ![l].extracted = route[l].want \cap Extracted] ELSE letter
  /\ RouteGoto(l, "job")
  /\ UNCHANGED <<row, job, object, pass, eraser, listed>>

\* createAndEnqueueSendJob refuses, or stores the job.
CreateJob(l) ==
  /\ RouteAt(l, "job")
  /\ \/ /\ Stored(l)
        /\ job' = [job EXCEPT ![l] = [NoJob EXCEPT !.status = "live", !.intro = "enc"]]
        /\ RouteGoto(l, "keep")
     \/ UNCHANGED job /\ RouteGoto(l, "end")
  /\ UNCHANGED <<letter, row, object, pass, eraser, listed>>

\* requestedRetentionMs is written when the job may have finished already.
WriteKeep(l) ==
  /\ RouteAt(l, "keep")
  /\ \E k \in Keeps : job' = IF job[l].status = "none" THEN job ELSE [job EXCEPT ![l].keep = k]
  /\ RouteGoto(l, "end")
  /\ UNCHANGED <<letter, row, object, pass, eraser, listed>>

RouteDies(l) ==
  /\ route[l].pc \notin {"idle", "end"} /\ RouteGoto(l, "end")
  /\ UNCHANGED <<letter, row, job, object, pass, eraser, listed>>

-----------------------------------------------------------------------------
(* The pipeline finishes the job, the owner retries it, time passes.       *)

Finish(l) ==
  /\ job[l].status = "live"
  /\ job' = [job EXCEPT ![l].status = "final", ![l].age = 0]
  /\ UNCHANGED <<letter, row, object, route, pass, eraser, listed>>

Retry(l) ==
  /\ job[l].status = "final"
  /\ job' = [job EXCEPT ![l].status = "live", ![l].age = 0]
  /\ UNCHANGED <<letter, row, object, route, pass, eraser, listed>>

Tick ==
  /\ \E l \in Letters : job[l].status = "final" /\ job[l].age < MaxKeep
  /\ job' = [l \in Letters |-> IF job[l].status = "final" /\ job[l].age < MaxKeep THEN [job[l] EXCEPT !.age = @ + 1] ELSE job[l]]
  /\ UNCHANGED <<letter, row, object, route, pass, eraser, listed>>

-----------------------------------------------------------------------------
(* scheduled(): protectStoredLetterData, then enforceLetterRetention.      *)

PassAt(c, s) == pass[c].pc = s
SomeOf(s, n) == {t \in SUBSET s : Cardinality(t) <= n /\ (Cardinality(t) = n \/ t = s)}

ListPlain(c) ==
  /\ PassAt(c, "idle")
  /\ \E t \in SomeOf({l \in Letters : Stored(l) /\ letter[l].body = "plain"}, BackfillBatch) :
       pass' = [pass EXCEPT ![c] = [PassIdle EXCEPT !.pc = IF t = {} THEN "list" ELSE "encrypt", !.todo = t]]
  /\ UNCHANGED <<letter, row, job, object, route, eraser, listed>>

\* Variant of Encrypt: UPDATE ... WHERE id = ? and nothing else.
EncryptAnyway(c) ==
  /\ PassAt(c, "encrypt")
  /\ \E l \in pass[c].todo :
       /\ letter' = IF Stored(l) THEN [letter EXCEPT ![l].body = "enc"] ELSE letter
       /\ pass' = [pass EXCEPT ![c].todo = @ \ {l}, ![c].pc = IF pass[c].todo = {l} THEN "list" ELSE "encrypt"]
  /\ UNCHANGED <<row, job, object, route, eraser, listed>>

Encrypt(c) ==
  /\ PassAt(c, "encrypt")
  /\ \E l \in pass[c].todo :
       /\ letter' = IF Stored(l) /\ letter[l].body = "plain" THEN [letter EXCEPT ![l].body = "enc"] ELSE letter
       /\ pass' = [pass EXCEPT ![c].todo = @ \ {l}, ![c].pc = IF pass[c].todo = {l} THEN "list" ELSE "encrypt"]
  /\ UNCHANGED <<row, job, object, route, eraser, listed>>

\* Variant of Due: only jobs that still have a text of their own to blank.
DueWithIntro(l) ==
  /\ Stored(l) /\ letter[l].body # "redacted" /\ job[l].intro = "enc"
  /\ job[l].status = "final" /\ job[l].age >= job[l].keep

Due(l) == Stored(l) /\ letter[l].body # "redacted" /\ job[l].status = "final" /\ job[l].age >= job[l].keep

ListDue(c) ==
  /\ PassAt(c, "list")
  /\ \E t \in SomeOf({l \in Letters : Due(l)}, RedactBatch) :
       pass' = [pass EXCEPT ![c] = [PassIdle EXCEPT !.pc = IF t = {} THEN "idle" ELSE "keys", !.todo = t]]
  /\ UNCHANGED <<letter, row, job, object, route, eraser, listed>>

\* The letter a pass is at.
Head(c) == CHOOSE l \in pass[c].todo : TRUE

\* On to the next letter; after the last one the pass is over.
NextLetter(c) ==
  LET rest == pass[c].todo \ {Head(c)} IN
  pass' = [pass EXCEPT ![c] = [PassIdle EXCEPT !.pc = IF rest = {} THEN "idle" ELSE "keys", !.todo = rest]]

ReadKeys(c) ==
  /\ PassAt(c, "keys")
  /\ pass' = [pass EXCEPT ![c].keys = KeysOf(Head(c)), ![c].pc = IF KeysOf(Head(c)) = {} THEN "batch" ELSE "r2"]
  /\ UNCHANGED <<letter, row, job, object, route, eraser, listed>>

DeleteObjects(c) ==
  /\ PassAt(c, "r2")
  /\ object' = object \ pass[c].keys
  /\ pass' = [pass EXCEPT ![c].pc = "batch"]
  /\ UNCHANGED <<letter, row, job, route, eraser, listed>>

\* Variant of DeleteFails: the letter is redacted without its objects.
RedactAfterFailure(c) ==
  /\ PassAt(c, "r2")
  /\ pass' = [pass EXCEPT ![c].pc = "batch"]
  /\ UNCHANGED <<letter, row, job, object, route, eraser, listed>>

\* R2 fails, with some of the objects gone: the letter keeps its rows.
DeleteFails(c) ==
  /\ PassAt(c, "r2")
  /\ \E some \in SUBSET pass[c].keys : object' = object \ some
  /\ NextLetter(c)
  /\ UNCHANGED <<letter, row, job, route, eraser, listed>>

Redact(c) ==
  LET l == Head(c) IN
  /\ PassAt(c, "batch")
  /\ row' = row \ KeysOf(l)
  /\ letter' = IF Stored(l) THEN [letter EXCEPT ![l].body = "redacted"] ELSE letter
  /\ job' = IF job[l].intro # "none" THEN [job EXCEPT ![l].intro = "redacted"] ELSE job
  /\ NextLetter(c)
  /\ UNCHANGED <<object, route, eraser, listed>>

PassDies(c) ==
  /\ ~PassAt(c, "idle") /\ pass' = [pass EXCEPT ![c] = PassIdle]
  /\ UNCHANGED <<letter, row, job, object, route, eraser, listed>>

-----------------------------------------------------------------------------
(* deleteAccount: the keys, then the batch, then R2 as far as it goes.     *)

EraseKeys ==
  /\ eraser.pc = "idle"
  /\ eraser' = [PassIdle EXCEPT !.pc = "batch", !.keys = row]
  /\ UNCHANGED <<letter, row, job, object, route, pass, listed>>

EraseBatch ==
  /\ eraser.pc = "batch"
  /\ row' = {} /\ letter' = [l \in Letters |-> NoLetter] /\ job' = [l \in Letters |-> NoJob]
  /\ eraser' = [eraser EXCEPT !.pc = "r2"]
  /\ UNCHANGED <<object, route, pass, listed>>

EraseObjects ==
  /\ eraser.pc = "r2"
  /\ \E some \in {eraser.keys, {}} : object' = object \ some
  /\ eraser' = [PassIdle EXCEPT !.pc = "end"]
  /\ UNCHANGED <<letter, row, job, route, pass, listed>>

-----------------------------------------------------------------------------
Route(l) ==
  \/ PostLetter(l) \/ CheckBatch(l) \/ RefuseFile(l) \/ PutObject(l) \/ InsertRow(l) \/ UpdateBody(l)
  \/ CreateJob(l) \/ WriteKeep(l) \/ RouteDies(l)

PassSteps(c) == ListPlain(c) \/ Encrypt(c) \/ ListDue(c) \/ ReadKeys(c) \/ DeleteObjects(c) \/ Redact(c)

Next ==
  \/ \E l \in Letters : Route(l) \/ Finish(l) \/ Retry(l)
  \/ \E c \in Passes : PassSteps(c) \/ DeleteFails(c) \/ PassDies(c)
  \/ Tick \/ EraseKeys \/ EraseBatch \/ EraseObjects

\* The cron trigger comes back every minute and time goes on; a call that may
\* fail does not fail for ever, in one of the chains of invocations at least.
FairPass == CHOOSE c \in Passes : TRUE

Fairness ==
  /\ WF_vars(Tick)
  /\ SF_vars(ListPlain(FairPass)) /\ SF_vars(Encrypt(FairPass)) /\ SF_vars(ListDue(FairPass))
  /\ SF_vars(ReadKeys(FairPass)) /\ SF_vars(DeleteObjects(FairPass)) /\ SF_vars(Redact(FairPass))

Spec == Init /\ [][Next]_vars /\ Fairness

-----------------------------------------------------------------------------
Bodies == {"none", "plain", "enc", "redacted"}
LetterRec == [state : {"none", "live"}, body : Bodies, extracted : SUBSET Extracted]
JobRec == [status : {"none", "live", "final"}, keep : Keeps, age : 0..MaxKeep, intro : Bodies]
RouteRec == [pc : {"idle", "check", "put", "row", "body", "job", "keep", "end"}, want : SUBSET Files, todo : SUBSET Files]
PassRec == [pc : {"idle", "encrypt", "list", "keys", "r2", "batch"}, todo : SUBSET Letters, keys : SUBSET (Letters \X Files)]

\* Tables, objects and the locals of route, pass and erasure; a row always has
\* its letter.
TypeOK ==
  /\ letter \in [Letters -> LetterRec] /\ job \in [Letters -> JobRec]
  /\ row \subseteq listed /\ listed \subseteq Letters \X Files /\ object \subseteq Letters \X Files
  /\ \A k \in row : Stored(k[1])
  /\ route \in [Letters -> RouteRec] /\ pass \in [Passes -> PassRec]

\* Once redacted, the text of a letter never comes back: not from an
\* encryption pass that read it before (letter-privacy.ts:21-26), nor from
\* the route that is still storing it.
RedactedStays ==
  [][\A l \in Letters : letter[l].body = "redacted" => letter'[l].body \in {"redacted", "none"}]_vars

\* A redacted letter has left nothing behind: no object that had a row and no
\* intro text (letter-privacy.ts:28-42).
RedactedLeavesNothing ==
  \A l \in Letters : letter[l].body = "redacted" =>
    /\ KeysOf(l) = {} /\ ~ \E f \in Files : <<l, f>> \in object \cap listed
    /\ job[l].intro \in {"none", "redacted"}

\* What is sent is what was asked for: a job's letter has every file its sender
\* attached, as a row or as text (index.ts:149-158, attachments.ts:26-58).
JobHasAllFiles ==
  \A l \in Letters : job[l].status # "none" /\ letter[l].body # "redacted" =>
    KeysOf(l) = {l} \X route[l].want /\ letter[l].extracted = route[l].want \cap Extracted

\* The content of a finished job does go, unless the job is taken up again,
\* however R2 fails in between and whatever letters wait besides it
\* (letter-privacy.ts:28-42).
FinishedIsRedacted ==
  \A l \in Letters : (job[l].status = "final" ~> job[l].status # "final" \/ letter[l].body = "redacted")
=============================================================================
