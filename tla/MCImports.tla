------------------------------ MODULE MCImports ------------------------------
(***************************************************************************)
(* The instance that TLC checks of what is published without a reviewer:   *)
(* what the checks of the sources find (SourceIngestion) and what the      *)
(* enrichment finds out about the artists (ArtistEnrichment).  They share  *)
(* no variable: a behaviour here is a behaviour of one of them, "part"     *)
(* says of which, and the other stays as it began.                         *)
(***************************************************************************)
EXTENDS SourceIngestion, ArtistEnrichment, TLC

CONSTANTS a1, a2, m1, m2, i1

VARIABLES part

(* Two artists, the second one added later; MusicBrainz may name the same  *)
(* candidate for both, and an import has named another one before.         *)
MCOrder == <<a1, a2>>
MCEarly == {a1}
MCProtected == {<<a1, "identity">>}
MCRelations == [a \in {a1} |-> {{[spotify |-> i1, mb |-> m2]}}]
Found(n, id) == [count |-> n, size |-> 1, ids |-> {id}]
MCAnswers == [a \in Artists |-> {Found(1, m1)} \cup IF a = a1 THEN {Found(2, m2)} ELSE {}]
MCPayloads == {Imported([NothingFound EXCEPT ![a1] = m2], {})}

Symmetry == Permutations(Workers)

PartsInit ==
    /\ part \in {"sources", "artists"}
    /\ Init /\ EnrichmentInit
    /\ part # "sources" => /\ page = [c \in Configs |-> 0] /\ catalog = 0
                           /\ \A s \in Sources : row[s].config = CHOOSE c \in Configs : TRUE

PartsNext ==
    \/ part = "sources" /\ Next /\ UNCHANGED <<part, enrichmentVars>>
    \/ part = "artists" /\ EnrichmentNext /\ UNCHANGED <<part, vars>>

PartsSpec == PartsInit /\ [][PartsNext]_<<part, vars, enrichmentVars>>
=============================================================================
