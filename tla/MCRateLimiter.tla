--------------------------- MODULE MCRateLimiter ---------------------------
(* A consumer that waits and a request that does not.                      *)
EXTENDS RateLimiter, TLC

CONSTANTS consumer, request

MaxWait == [c \in {consumer, request} |-> IF c = request THEN 0 ELSE 4]
=============================================================================
