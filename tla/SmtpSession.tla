----------------------------- MODULE SmtpSession -----------------------------
(***************************************************************************)
(* The SMTP client of shared/smtp.ts and what shared/smtp-failure.ts makes *)
(* of its errors.  A step is a command and the wait for its reply; the     *)
(* server answers as it likes, or its reply never comes ("lost"): the      *)
(* connection closes, or readSmtpResponse waits for a line it does not     *)
(* recognise, and the server may or may not have carried out the command.  *)
(* The QUIT at the end changes nothing here.                               *)
(***************************************************************************)
CONSTANTS
  Talkers,   \* who may hold a conversation
  Secrets,   \* passwords (and tokens) that may be tried
  NoSecret

ASSUME SecretAssumption == Secrets # {} /\ NoSecret \notin Secrets

VARIABLES
  conn,   \* one conversation per talker
  real,   \* the password the server takes at the moment
  proven  \* history: passwords the server took once

smtp == <<conn, real, proven>>

NoConn == [at |-> "none", direct |-> FALSE, tls |-> FALSE, pw |-> NoSecret, mail |-> FALSE,
           accepted |-> FALSE, result |-> "none"]

Open(p, direct, pw, mail) ==
  conn' = [conn EXCEPT ![p] = [NoConn EXCEPT !.at = "greet", !.direct = direct, !.tls = direct, !.pw = pw, !.mail = mail]]

\* What follows a reply the client can go on with.
AfterHello(k) == IF k.direct THEN "auth" ELSE "starttls"
NextStage(k) ==
  CASE k.at = "greet" -> "ehlo"      [] k.at = "ehlo" -> AfterHello(k)
    [] k.at = "starttls" -> "hello"  [] k.at = "hello" -> "auth"
    [] k.at = "auth" -> "user"       [] k.at = "user" -> "pass"
    [] k.at = "pass" -> IF k.mail THEN "from" ELSE "end"
    [] k.at = "from" -> "rcpt"       [] k.at = "rcpt" -> "data"
    [] k.at = "data" -> "body"       [] k.at = "body" -> "end"

Hello == {"ehlo", "hello"}
Login == {"auth", "user", "pass"}
Talking(p) == conn[p].at \in {"greet", "starttls", "from", "rcpt", "data", "body"} \union Hello \union Login

End(p, result, accepted) ==
  conn' = [conn EXCEPT ![p].at = "end", ![p].result = result, ![p].accepted = accepted]

\* The expected code, or any code to EHLO.  Only the password in force logs in.
GoesOn(p) ==
  LET k == conn[p]
      s == NextStage(k) IN
  /\ Talking(p) /\ (k.at = "pass" => k.pw = real)
  /\ IF s = "end" THEN End(p, "ok", k.at = "body")
     ELSE conn' = [conn EXCEPT ![p].at = s, ![p].tls = @ \/ k.at = "starttls"]
  /\ proven' = IF k.at = "pass" THEN proven \union {k.pw} ELSE proven
  /\ UNCHANGED real

\* Variant of Classify: an answer that never came is worth another try.
ClassifyLostAsTransient(stage, reply) ==
  CASE stage \in Login /\ reply # "lost" -> {"credential"}
    [] reply \in {"tmp", "lost"} -> {"transient"}
    [] OTHER -> {"bounce"}

\* isMailCredentialFailure, isTransientSmtpFailure, isPermanentRecipient...
Classify(stage, reply) ==
  CASE stage \in Login /\ reply # "lost" -> {"credential"}
    [] stage \notin Login /\ reply = "tmp" -> {"transient"}
    [] stage = "rcpt" /\ reply = "perm" -> {"bounce", "dead"}
    [] OTHER -> {"bounce"}

\* Variant of Refused: a server without STARTTLS is talked to all the same.
RefusedButClear(p) ==
  LET k == conn[p] IN
  /\ Talking(p) /\ k.at \notin Hello
  /\ \E reply \in {"tmp", "perm"} : \E result \in Classify(k.at, reply) :
       IF k.at = "starttls" THEN conn' = [conn EXCEPT ![p].at = "hello"] ELSE End(p, result, FALSE)
  /\ UNCHANGED <<real, proven>>

\* Another code than the one the stage expects.
Refused(p) ==
  LET k == conn[p] IN
  /\ Talking(p) /\ k.at \notin Hello
  /\ \E reply \in {"tmp", "perm"} : \E result \in Classify(k.at, reply) : End(p, result, FALSE)
  /\ UNCHANGED <<real, proven>>

Lost(p) ==
  LET k == conn[p] IN
  /\ Talking(p)
  /\ \E result \in Classify(k.at, "lost") : End(p, result, FALSE) \/ (k.at = "body" /\ End(p, result, TRUE))
  /\ UNCHANGED <<real, proven>>

\* The provider's password changes.
ChangePassword ==
  /\ real' \in Secrets \ {real}
  /\ UNCHANGED <<conn, proven>>
=============================================================================
