--------------------------- MODULE MCImportEvents ---------------------------
(* The instance of ImportEvents that TLC checks: one configuration.          *)
EXTENDS ImportEvents, TLC

CONSTANTS failure, manual, review, adapter, byHand

MCKind == [i \in Issues |->
    CASE i = failure -> "failure" [] i = manual -> "manual" [] OTHER -> "review"]

MCSameConfig == [i \in Issues |-> adapter]

Symmetry == Permutations(Drains)
=============================================================================
