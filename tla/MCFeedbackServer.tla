-------------------------- MODULE MCFeedbackServer --------------------------
(* A small instance of FeedbackServer for TLC. *)
EXTENDS FeedbackServer, TLC

CONSTANTS m1, m2, n1, n2, n3, ip

AllFromOne == [m \in Message |-> ip]

\* The nonces are interchangeable.
AnyNonce == Permutations(Nonce)
=============================================================================
