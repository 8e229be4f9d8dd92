--------------------------- MODULE MCSendPipeline ---------------------------
(* Values of the constants of SendPipeline that a cfg cannot write.        *)
EXTENDS SendPipeline, TLC

CONSTANTS credA, credB

NoCap == [c \in {credA, credB} |-> 0]
CapOne1 == [c \in {credA} |-> 1]
NoCap1 == [c \in {credA} |-> 0]

\* Consumers and invocations are interchangeable, and so are credentials with
\* the same cap.  Only for runs without a liveness property.
Symmetry == Permutations(Consumers) \union Permutations(Invocations) \union Permutations(Creds)

Unlimited == {[daily |-> 0, next |-> 0]}
OnePerDay == {[daily |-> 1, next |-> 0]}
FreeOrOneThenTwo == Unlimited \union {[daily |-> 1, next |-> 2]}
=============================================================================
