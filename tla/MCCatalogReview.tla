-------------------------- MODULE MCCatalogReview --------------------------
(***************************************************************************)
(* The instance that TLC checks of what reaches the catalogue and how it is *)
(* reviewed: the requests of one check (SourceFetch), what is made of a    *)
(* page (SourceEvaluation), the candidates put up for review (ReviewQueue), *)
(* what the import agent decides about the rest (AgentIssues), the         *)
(* publications and approvals (CatalogReview) and the festivals that       *)
(* visitors submit (Submissions).  Each hands the next a value and nothing *)
(* else, so they share no variable: a behaviour here is a behaviour of one *)
(* of them, "part" says of which, and the others stay as they began.       *)
(***************************************************************************)
EXTENDS CatalogReview, SourceFetch, SourceEvaluation, AgentIssues, Queues

CONSTANTS a1, a2, x, y, z,                                  \* CatalogReview
    article1, article2, article3,                           \* SourceFetch
    failure, manual, review, adapter, byHand                \* AgentIssues

\* Two artists and one that falls on the slug of the first.
MCSlug == [a \in Artists |-> IF a = a2 THEN 2 ELSE 1]

MCCatalogs ==
    {[city |-> x, officialUrl |-> x, known |-> {a1},
      entries |-> [a \in Artists |->
          IF a = a1 THEN [Entry("LINEUP", 0) EXCEPT !.status = s] ELSE Absent]]
        : s \in {"ANNOUNCED", "CANCELLED"}}

MCPages == {[lineup |-> <<a1, a2>>, additive |-> TRUE, explicitOnly |-> FALSE],
            [city |-> y, lineup |-> <<a2>>, additive |-> FALSE, explicitOnly |-> TRUE]}

MCDraftValues == [k \in Kinds |->
    CASE k = "FESTIVAL" -> {[city |-> y, lineup |-> <<a2>>], [headliners |-> <<a2>>]}
      [] k = "LINK"     -> {[officialUrl |-> y]}
      [] k = "PLAYLIST" -> {}]

MCFacts == {[city |-> z, headliners |-> <<a1>>, lineup |-> <<a2>>],
            [city |-> y, headliners |-> <<>>, lineup |-> <<a2>>]}

\* A source that is read by hand, or by an adapter which fails or proposes what to review.
MCKind == [i \in Issues |->
    CASE i = failure -> "failure" [] i = manual -> "manual" [] OTHER -> "review"]

MCConfigOf == [i \in Issues |-> IF i = manual THEN byHand ELSE adapter]

MCArticles == <<article1, article2, article3>>

ASSUME AgentAssumption

VARIABLE part

PartsInit ==
    /\ part \in {"review", "fetch", "evaluation", "queue", "submission", "agent"}
    /\ Init /\ (part # "review" => catalog = CHOOSE c \in Catalogs : TRUE)
    /\ FetchInit /\ (part # "fetch" => site = "listing")
    /\ EvaluationInit /\ (part # "evaluation" => family = "generic"
                                                  /\ current = CHOOSE c \in Editions : TRUE)
    /\ QueueInit /\ (part # "queue" => polled.manual)
    /\ SubmissionInit
    /\ AgentInit /\ (part # "agent" => source.config = byHand
                                        /\ edition.value = CHOOSE v \in Values : TRUE)

PartsNext ==
    \/ part = "review" /\ Next
       /\ UNCHANGED <<part, fetchVars, evaluationVars, queueVars, submissionVars, agentVars>>
    \/ part = "fetch" /\ FetchNext
       /\ UNCHANGED <<part, vars, evaluationVars, queueVars, submissionVars, agentVars>>
    \/ part = "evaluation" /\ EvaluationNext
       /\ UNCHANGED <<part, vars, fetchVars, queueVars, submissionVars, agentVars>>
    \/ part = "queue" /\ QueueNext
       /\ UNCHANGED <<part, vars, fetchVars, evaluationVars, submissionVars, agentVars>>
    \/ part = "submission" /\ SubmissionNext
       /\ UNCHANGED <<part, vars, fetchVars, evaluationVars, queueVars, agentVars>>
    \/ part = "agent" /\ AgentNext
       /\ UNCHANGED <<part, vars, fetchVars, evaluationVars, queueVars, submissionVars>>

PartsSpec ==
    PartsInit
    /\ [][PartsNext]_<<part, vars, fetchVars, evaluationVars, queueVars, submissionVars, agentVars>>
=============================================================================
