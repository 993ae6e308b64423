----------------------------- MODULE MCAutoReview ----------------------------
(* Model-checking instances of AutoReview: two approvals.                  *)
EXTENDS AutoReview, TLC

CONSTANTS j1, j2

MCPair == {j1, j2}
=============================================================================
