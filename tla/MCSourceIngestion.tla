------------------------ MODULE MCSourceIngestion ------------------------
(* The instances of SourceIngestion that TLC checks. *)
EXTENDS SourceIngestion, TLC

Symmetry == Permutations(Workers)
==========================================================================
