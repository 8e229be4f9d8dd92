---------------------------- MODULE MailDelivery ----------------------------
(***************************************************************************)
(* What the send pipeline promises the recipients of a mailing that nobody *)
(* retries: each is mailed at most once, is reported as sent only when a   *)
(* server took the mail and as failed only when none did, and keeps the    *)
(* outcome that was reported.  Queue, claims, attempts and quotas do not   *)
(* appear.                                                                 *)
(***************************************************************************)
EXTENDS Naturals

CONSTANTS
  Recipients,     \* every recipient of every mailing
  MailingOf(_)    \* the mailing a recipient belongs to

VARIABLES
  phase,          \* what the user is shown for each recipient
  accepted        \* how many mails to each recipient a server has taken

Phases == {"none", "waiting", "sent", "failed", "cancelled", "gone"}

Init == phase = [r \in Recipients |-> "none"] /\ accepted = [r \in Recipients |-> 0]

\* A mailing takes in all its recipients at once, ...
Stage(r) ==
  /\ phase[r] = "none"
  /\ phase' = [q \in Recipients |-> IF MailingOf(q) = MailingOf(r) THEN "waiting" ELSE phase[q]]
  /\ UNCHANGED accepted

\* ... is cancelled for all that still wait, alone or with every other mailing
\* of a credential that is revoked, ...
Cancel(S) ==
  /\ phase' = [q \in Recipients |->
                 IF MailingOf(q) \in {MailingOf(s) : s \in S} /\ phase[q] = "waiting" THEN "cancelled" ELSE phase[q]]
  /\ UNCHANGED accepted

\* ... and is deleted with all that was shown of it.
Delete(r) ==
  /\ phase' = [q \in Recipients |-> IF MailingOf(q) = MailingOf(r) THEN "gone" ELSE phase[q]]
  /\ UNCHANGED accepted

\* An attempt that is under way when its mailing is cancelled or deleted runs to
\* its end, ...
Accept(r) ==
  /\ phase[r] \in {"waiting", "cancelled", "gone"} /\ accepted[r] = 0
  /\ accepted' = [accepted EXCEPT ![r] = 1]
  /\ UNCHANGED phase

\* ... and its outcome is shown unless the mailing is deleted.
Report(r) ==
  /\ phase[r] \in {"waiting", "cancelled"}
  /\ phase' = [phase EXCEPT ![r] = IF accepted[r] = 1 THEN "sent" ELSE "failed"]
  /\ UNCHANGED accepted

Next ==
  \/ \E r \in Recipients : Stage(r) \/ Delete(r) \/ Accept(r) \/ Report(r)
  \/ \E S \in SUBSET Recipients : Cancel(S)

Spec == Init /\ [][Next]_<<phase, accepted>>
=============================================================================
