----------------------------- MODULE MCApprovals -----------------------------
(* Model-checking instance of Approvals: one approval of a child and two   *)
(* of the root, which differ in what they offer.                           *)
EXTENDS Approvals

CONSTANTS guided, odd, empty

MCApps == {guided, odd, empty}
MCChild == {guided}
MCOddChild == {odd}
\* Scoped grants and a rejection that accepts guidance; no reject-like choice; no
\* choice at all.
MCOffers == [a \in Apps |-> CASE a = guided -> {"once", "always", "guided"}
                              [] a = odd    -> {"once", "other"}
                              [] a = empty  -> {}]
\* Policy answers the second requirement of the child approval.
MCPolicy == {[a |-> guided, stage |-> 2]}
=============================================================================
