---------------------------- MODULE MCWireAttempt ----------------------------
(* Two reads of one method, each with a resend: an instance of WireAttempt. *)
EXTENDS WireAttempt

CONSTANTS a1, a2

TwoReads == [a \in {a1, a2} |-> "read"]
Budgets == [k \in Kinds |-> IF k = "write" THEN 1 ELSE 2]
=============================================================================
