--------------------------- MODULE MCAgentIssues ---------------------------
(* The instance of AgentIssues that TLC checks: a source that is read by     *)
(* hand, or by an adapter, which fails or proposes something to review.      *)
EXTENDS AgentIssues, TLC

CONSTANTS failure, manual, review, adapter, byHand

MCKind == [i \in Issues |->
    CASE i = failure -> "failure" [] i = manual -> "manual" [] OTHER -> "review"]

MCConfigOf == [i \in Issues |-> IF i = manual THEN byHand ELSE adapter]

Symmetry == Permutations(Values)
=============================================================================
