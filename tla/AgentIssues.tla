----------------------------- MODULE AgentIssues -----------------------------
(***************************************************************************)
(* The import agent's work on one festival source: cases that need a       *)
(* decision (lib/ingestion/agent-issues.ts) and the parser repairs that    *)
(* corrections leave behind (lib/ingestion/parser-repairs.ts).  A case and *)
(* a repair are rows of OperationalState with a lease; its token is a      *)
(* capability that an agent keeps in a file and may present late, twice,   *)
(* or from two processes.  The importer checks the source under a lease of *)
(* its own (SourceIngestion) and changes what the agents decide about.     *)
(*                                                                         *)
(* An issue is identified by what was observed under which configuration,  *)
(* so one that comes back has the row it had before.                       *)
(***************************************************************************)
EXTENDS Naturals, Sequences, FiniteSets

CONSTANTS
    Issues,      \* the fingerprints that inspectSource can return
    Kind,        \* [Issues -> {"failure", "manual", "review"}]
    ConfigOf,    \* the configuration an issue was observed under
    Feedback,    \* issues whose candidate has warnings, diffs or asks for review
    Configs,     \* parser, strategies and URL of the source
    Values,      \* values of the facts that agents and importer publish
    MaxChecks,   \* bound on the importer's attempts
    MaxClaims,   \* bound on the capabilities handed out
    MaxEdits,    \* bound on publications by importer and administrators
    MaxWork,     \* bound on checks, capabilities and publications together
    None         \* SQL NULL and "nothing"

\* What the constants are taken to be.
AgentAssumption ==
    /\ Kind \in [Issues -> {"failure", "manual", "review"}]
    /\ ConfigOf \in [Issues -> Configs]
    /\ Feedback \subseteq Issues
    /\ {MaxChecks, MaxClaims, MaxEdits, MaxWork} \subseteq Nat
    /\ None \notin Issues \cup Configs \cup Values \cup Nat

VARIABLES
    source,    \* the FestivalSource row and what inspectSource finds about it
    edition,   \* the edition: the published value and its updatedAt
    state,     \* [Issues -> Case]: the rows ingestion-agent-<issue>
    repair,    \* [Issues -> Repair]: the rows parser-repair-<source, issue>
    claims,    \* every capability ever handed out; its index is the token
    checks, edits

agentVars == <<source, edition, state, repair, claims, checks, edits>>

Tokens == 1..MaxClaims

Spare == Len(claims) + checks + edits < MaxWork

\* check is the stage of the importer's check: claimed, attempt persisted (read, failed),
\* change published; "late" if its lease has run out before the attempt.  wait: nextRunAt is
\* in the future; failing: consecutiveFailures > 0; success: the attempt of the last success
\* (lastSuccessAt); attempt 0: none under this configuration.
Source == [config : Configs, issue : Issues \cup {None}, attempt : 0..MaxChecks,
           check : {"none", "late", "claimed", "read", "failed", "published"},
           failing : BOOLEAN, success : 0..MaxChecks, wait : BOOLEAN]

Decisions ==
    [action : {"apply"}, facts : Values \cup {None}, reconfigure : BOOLEAN] \cup
    [action : {"dismiss", "retry", "needs_user"}, facts : {None}, reconfigure : {FALSE}]

\* retry names the retryAt (0: NULL), wait says that it lies in the future; receipt is the
\* capability and the decision of the stored answer.
Case == [status : {"new", "retry", "resolved", "needs_user"}, attempts : 0..MaxClaims,
         token : Tokens \cup {None}, live : BOOLEAN,
         retry : 0..(2 * MaxClaims + 1), wait : BOOLEAN,
         receipt : {None} \cup [token : Tokens, decision : Decisions]]

Repair == [status : {"none", "pending", "retry", "completed"},
           token : Tokens \cup {None}, live : BOOLEAN, retry : 0..MaxClaims, wait : BOOLEAN,
           receipt : {None} \cup [token : Tokens, result : {"completed", "retry"}]]

\* seen and used are history: the facts and configuration at the time of the claim, and
\* how often the capability has settled something.
Claim == [of : {"issue", "repair"}, issue : Issues,
          snapshot : Configs \X (0..MaxChecks) \X Nat,
          seen : Values \X Configs, used : Nat]

ByHand(c) == \E i \in Issues : ConfigOf[i] = c /\ Kind[i] = "manual"

\* What inspectSource finds of a source without an attempt under its configuration:
\* nothing until the next check, unless it is read by hand.
Unchecked(c, failing) ==
    IF ByHand(c)
    THEN {i \in Issues :
             ConfigOf[i] = c /\ Kind[i] = IF failing THEN "failure" ELSE "manual"}
    ELSE {None}

AgentInit ==
    /\ \E c \in Configs : \E i \in Unchecked(c, FALSE) :
          source = [config |-> c, issue |-> i, attempt |-> 0, failing |-> FALSE,
                    success |-> 0, check |-> "none", wait |-> FALSE]
    /\ \E v \in Values : edition = [value |-> v, version |-> 0]
    /\ state = [i \in Issues |-> [status |-> "new", attempts |-> 0, token |-> None,
                                  live |-> FALSE, retry |-> 0, wait |-> FALSE,
                                  receipt |-> None]]
    /\ repair = [i \in Issues |-> [status |-> "none", token |-> None, live |-> FALSE,
                                   retry |-> 0, wait |-> FALSE, receipt |-> None]]
    /\ claims = <<>>
    /\ checks = 0
    /\ edits = 0

-----------------------------------------------------------------------------
(* The importer and the administrators.                                    *)

\* The importer's lease on the source; see SourceIngestion.
Leased == source.check \in {"claimed", "read", "failed", "published"}

SourceClaim ==
    /\ ~Leased /\ ~source.wait /\ checks < MaxChecks /\ Spare
    /\ source' = [source EXCEPT !.check = "claimed"]
    /\ checks' = checks + 1
    /\ UNCHANGED <<edition, state, repair, claims, edits>>

Found(failed) ==
    {i \in Issues : ConfigOf[i] = source.config /\ (Kind[i] = "failure" <=> failed)}

\* persistAttempt, with what inspectSource makes of it: a failure while the source counts
\* failures, whatever this attempt was.  Nothing fences an attempt that comes late.
Persist(i) ==
    /\ source.check \in {"claimed", "late"}
    /\ \E failed \in BOOLEAN :
          /\ IF failed \/ source.failing THEN i \in Found(TRUE)
                                        ELSE i \in Found(FALSE) \cup {None}
          /\ source' = [source EXCEPT
                !.issue = i, !.attempt = checks,
                !.check = IF @ = "late" THEN "none" ELSE IF failed THEN "failed" ELSE "read"]
    /\ UNCHANGED <<edition, state, repair, claims, checks, edits>>

\* A change that needs no review.
SourcePublish(v) ==
    /\ source.check = "read" /\ v # edition.value
    /\ edits < MaxEdits /\ Spare
    /\ edits' = edits + 1
    /\ source.issue # None => Kind[source.issue] # "review"
    /\ source' = [source EXCEPT !.check = "published"]
    /\ edition' = [value |-> v, version |-> edition.version + 1]
    /\ UNCHANGED <<state, repair, claims, checks>>

\* Completion of a check whose attempt did not fail.
SourceSucceeds ==
    /\ source.check \in {"read", "published"}
    /\ \E i \in IF source.failing THEN Found(FALSE) \cup {None} ELSE {source.issue} :
          source' = [source EXCEPT !.issue = i, !.check = "none", !.failing = FALSE,
                                   !.success = checks, !.wait = TRUE]
    /\ UNCHANGED <<edition, state, repair, claims, checks, edits>>

\* The attempt failed, or something before or after it did.
SourceFails ==
    /\ Leased
    /\ \E i \in Found(TRUE) :
          source' = [source EXCEPT !.issue = i, !.check = "none", !.failing = TRUE,
                                   !.wait = TRUE]
    /\ UNCHANGED <<edition, state, repair, claims, checks, edits>>

\* The lease runs out, or is given back with a backoff by a worker that stops.
SourceLapse ==
    /\ Leased
    /\ \/ source' = [source EXCEPT !.check = IF @ = "claimed" THEN "late" ELSE "none"]
       \/ source' = [source EXCEPT !.check = "none", !.wait = TRUE]
    /\ UNCHANGED <<edition, state, repair, claims, checks, edits>>

SourceDue ==
    /\ source.wait
    /\ source' = [source EXCEPT !.wait = FALSE]
    /\ UNCHANGED <<edition, state, repair, claims, checks, edits>>

AdminPublish(v) ==
    /\ edits < MaxEdits /\ Spare /\ v # edition.value
    /\ edits' = edits + 1
    /\ edition' = [value |-> v, version |-> edition.version + 1]
    /\ UNCHANGED <<source, state, repair, claims, checks>>

-----------------------------------------------------------------------------
(* Cases.                                                                  *)

\* What a decision is made about: configuration, attempt and catalogue.
Premises == <<source.config, source.attempt, edition.version>>

Handle(kind, i) == [of |-> kind, issue |-> i, snapshot |-> Premises,
                    seen |-> <<edition.value, source.config>>, used |-> 0]

Free(r) == (r.token = None \/ ~r.live) /\ ~r.wait

\* A resolved case is refused after the update, which rolls it back; a manual source is
\* reconsidered.
ClaimIssue(i) ==
    LET token == Len(claims) + 1
    IN  /\ token \in Tokens /\ Spare
        /\ source.issue = i /\ ~Leased
        /\ Free(state[i]) /\ state[i].status # "needs_user"
        /\ state[i].status = "resolved" => Kind[i] = "manual"
        /\ state' = [state EXCEPT ![i].token = token, ![i].live = TRUE]
        /\ claims' = Append(claims, Handle("issue", i))
        /\ UNCHANGED <<source, edition, repair, checks, edits>>

\* Any capability may be presented at any time, in any process.
Presented(kind, i) ==
    {t \in DOMAIN claims : claims[t].of = kind /\ claims[t].issue = i}

\* The token is enough: an expired lease that nobody has taken over is released too.
ReleaseIssue(i, t) ==
    /\ t \in Presented("issue", i) /\ state[i].token = t
    /\ state' = [state EXCEPT ![i].token = None, ![i].live = FALSE]
    /\ UNCHANGED <<source, edition, repair, claims, checks, edits>>

\* The owner's answer reopens the case and replaces its payload, receipt included.
ResumeIssue(i) ==
    /\ source.issue = i
    /\ state[i].status = "needs_user" /\ state[i].token = None
    /\ state' = [state EXCEPT
          ![i].status = "retry", ![i].retry = 2 * state[i].attempts + 1,
          ![i].wait = FALSE, ![i].receipt = None]
    /\ UNCHANGED <<source, edition, repair, claims, checks, edits>>

ChangedFacts(d) == d.facts # None /\ d.facts # edition.value

\* A correction, or a proposal rejected with a reason.
Corrects(i, d) ==
    /\ d.action \in {"apply", "dismiss"}
    /\ ChangedFacts(d) \/ d.reconfigure \/ i \in Feedback

RetryFailure(i, d) == d.action = "apply" /\ Kind[i] = "failure" /\ ~d.reconfigure

Settles(i, d) ==
    IF d.action = "needs_user" THEN "needs_user"
    ELSE IF d.action = "retry" \/ RetryFailure(i, d) THEN "retry"
    ELSE "resolved"

Revisited(i, d) ==
    \/ d.action = "retry" \/ RetryFailure(i, d)
    \/ Kind[i] = "manual" /\ ~d.reconfigure

Decided(i, t, d) ==
    LET n == state[i].attempts + 1
    IN  [status |-> Settles(i, d), attempts |-> n, token |-> None, live |-> FALSE,
         retry |-> IF Revisited(i, d) THEN 2 * n ELSE 0, wait |-> Revisited(i, d),
         receipt |-> [token |-> t, decision |-> d]]

\* Attempts from before a new configuration do not count.
Rebind(c, wait) ==
    /\ c # source.config
    /\ \E i \in Unchecked(c, source.failing) :
          source' = [source EXCEPT !.config = c, !.issue = i, !.attempt = 0, !.wait = wait]

\* The binding, or else the disposition of the reviewed candidate.
BindOrDispose(i, d) ==
    IF d.reconfigure
    THEN \E c \in Configs : Rebind(c, FALSE)
    ELSE source' = [source EXCEPT
            !.issue = IF Kind[i] = "review" /\ d.action \in {"apply", "dismiss"}
                      THEN None ELSE @]

EnqueueParserRepairMutant(i) == repair' = [repair EXCEPT ![i].status = "pending"]

\* A repair of the same issue is not enqueued again, whatever has become of it.
EnqueueParserRepair(i) ==
    repair' = [repair EXCEPT ![i].status = IF @ = "none" THEN "pending" ELSE @]

EntitledMutant(i, t) ==
    /\ state[i].token = t /\ state[i].live
    /\ source.issue = i
    /\ ~Leased

\* The capability is held, nothing it was claimed for has changed, no check is running.
Entitled(i, t) ==
    /\ state[i].token = t /\ state[i].live
    /\ source.issue = i /\ claims[t].snapshot = Premises
    /\ ~Leased

\* The first decision of a capability; presented again it only returns the receipt.
ResolveIssue(i, t, d) ==
    /\ t \in Presented("issue", i)
    /\ state[i].receipt # [token |-> t, decision |-> d]
    /\ Entitled(i, t)
    /\ edition' = IF ChangedFacts(d)
                  THEN [value |-> d.facts, version |-> edition.version + 1] ELSE edition
    /\ BindOrDispose(i, d)
    /\ IF Corrects(i, d) THEN EnqueueParserRepair(i) ELSE UNCHANGED repair
    /\ state' = [state EXCEPT ![i] = Decided(i, t, d)]
    /\ claims' = [claims EXCEPT ![t].used = @ + 1]
    /\ UNCHANGED <<checks, edits>>

LapseIssue(i) ==
    /\ state[i].live
    /\ state' = [state EXCEPT ![i].live = FALSE]
    /\ UNCHANGED <<source, edition, repair, claims, checks, edits>>

DueIssue(i) ==
    /\ state[i].wait
    /\ state' = [state EXCEPT ![i].wait = FALSE]
    /\ UNCHANGED <<source, edition, repair, claims, checks, edits>>

-----------------------------------------------------------------------------
(* Parser repairs.                                                         *)

ClaimRepairMutant(i) ==
    LET token == Len(claims) + 1
    IN  /\ token \in Tokens /\ Spare
        /\ repair[i].status \in {"pending", "retry"} /\ ~repair[i].wait
        /\ repair' = [repair EXCEPT ![i].token = token, ![i].live = TRUE]
        /\ claims' = Append(claims, Handle("repair", i))
        /\ UNCHANGED <<source, edition, state, checks, edits>>

ClaimRepair(i) ==
    LET token == Len(claims) + 1
    IN  /\ token \in Tokens /\ Spare
        /\ repair[i].status \in {"pending", "retry"} /\ Free(repair[i])
        /\ repair' = [repair EXCEPT ![i].token = token, ![i].live = TRUE]
        /\ claims' = Append(claims, Handle("repair", i))
        /\ UNCHANGED <<source, edition, state, checks, edits>>

HoldsRepair(i, t) ==
    /\ t \in Presented("repair", i)
    /\ repair[i].token = t /\ repair[i].live

\* Finished or to be retried in an hour; the same result again only returns the receipt.
FinishRepair(i, t, result) ==
    /\ repair[i].receipt # [token |-> t, result |-> result]
    /\ HoldsRepair(i, t)
    /\ repair' = [repair EXCEPT
          ![i] = [status |-> result, token |-> None, live |-> FALSE,
                  retry |-> IF result = "retry" THEN t ELSE 0, wait |-> result = "retry",
                  receipt |-> [token |-> t, result |-> result]]]
    /\ claims' = [claims EXCEPT ![t].used = @ + 1]
    /\ UNCHANGED <<source, edition, state, checks, edits>>

\* Both activate a deployed adapter for the source as the repair found it: one keeps the
\* schedule, the other asks for a check but leaves a failing source to its backoff.
ConfigureRepair(i, t) ==
    /\ HoldsRepair(i, t)
    /\ ~Leased /\ source.config = ConfigOf[i]
    /\ \E c \in Configs :
          /\ ~ByHand(c)
          /\ \/ Rebind(c, source.wait)
             \/ ~source.failing /\ Rebind(c, FALSE)
    /\ UNCHANGED <<edition, state, repair, claims, checks, edits>>

LapseRepair(i) ==
    /\ repair[i].live
    /\ repair' = [repair EXCEPT ![i].live = FALSE]
    /\ UNCHANGED <<source, edition, state, claims, checks, edits>>

DueRepair(i) ==
    /\ repair[i].wait
    /\ repair' = [repair EXCEPT ![i].wait = FALSE]
    /\ UNCHANGED <<source, edition, state, claims, checks, edits>>

-----------------------------------------------------------------------------
Importer ==
    \/ SourceClaim \/ SourceSucceeds \/ SourceFails \/ SourceLapse \/ SourceDue
    \/ \E i \in Issues \cup {None} : Persist(i)
    \/ \E v \in Values : SourcePublish(v)

IssueStep(i) ==
    \/ ClaimIssue(i) \/ ResumeIssue(i)
    \/ \E t \in Tokens : ReleaseIssue(i, t)
    \/ \E t \in Tokens, d \in Decisions : ResolveIssue(i, t, d)

RepairStep(i) ==
    \/ ClaimRepair(i)
    \/ \E t \in Tokens, result \in {"completed", "retry"} : FinishRepair(i, t, result)
    \/ \E t \in Tokens : ConfigureRepair(i, t)

Clock(i) == LapseIssue(i) \/ DueIssue(i) \/ LapseRepair(i) \/ DueRepair(i)

AgentNext ==
    \/ Importer
    \/ \E v \in Values : AdminPublish(v)
    \/ \E i \in Issues : IssueStep(i) \/ RepairStep(i) \/ Clock(i)

AgentSpec == AgentInit /\ [][AgentNext]_agentVars

-----------------------------------------------------------------------------
(* Properties.                                                             *)

\* Type invariant.
AgentTypeOK ==
    /\ source \in Source
    /\ edition \in [value : Values, version : Nat]
    /\ state \in [Issues -> Case]
    /\ repair \in [Issues -> Repair]
    /\ claims \in Seq(Claim) /\ Len(claims) <= MaxClaims
    /\ checks \in 0..MaxChecks
    /\ edits \in 0..MaxEdits

\* A capability settles its case or repair once, however often, by whomever and with
\* whatever decision it is presented (resolveAgentIssue and finishParserRepair answer a
\* replay from the receipt and refuse the rest).
SettledOnce == \A t \in DOMAIN claims : claims[t].used <= 1

\* t settles its issue in this step.
Uses(t) == t \in DOMAIN claims /\ claims'[t].used > claims[t].used

\* A decision changes the facts and the source that its agent saw at the claim, not what
\* a check, an administrator, a repair or another agent has made of them since.
NoLostUpdate ==
    [][\A t \in Tokens :
          Uses(t) /\ claims[t].of = "issue" =>
              claims[t].seen = <<edition.value, source.config>>]_agentVars

\* Nobody takes over a case or a repair while its lease is live.
NoTakeover ==
    [][\A i \in Issues :
          /\ state[i].live => state'[i].token \in {state[i].token, None}
          /\ repair[i].live => repair'[i].token \in {repair[i].token, None}]_agentVars

\* What is closed stays closed: a proposal that was decided is not decided again when it
\* is observed again, and a completed repair is not reopened by late results.
ClosedStays ==
    [][\A i \in Issues :
          /\ state[i].status = "resolved" /\ Kind[i] # "manual" =>
                state'[i].status = "resolved"
          /\ repair[i].status = "completed" => repair'[i].status = "completed"]_agentVars

\* What was decided is decided: no capability settles anything twice, and nothing that is
\* closed is opened by it, by a late result or by what is observed again.
DecidedOnce == [](AgentTypeOK /\ SettledOnce) /\ ClosedStays

\* While the importer checks the source, no agent changes it, the facts about it or what it
\* is to be asked about: decisions and activations wait for its lease.
ImporterUndisturbed ==
    [][Leased /\ edits' = edits /\ source'.check = source.check =>
          source'.config = source.config /\ source'.issue = source.issue
          /\ edition' = edition]_agentVars

\* Whoever has a lease is left alone: an agent with its case or repair by the other agents
\* (claimAgentIssue, claimParserRepair), the importer with its source by all of them.
LeasesRespected == NoTakeover /\ ImporterUndisturbed

\* What the comment on candidateFeedback in agent-issues.ts says: actual corrections
\* still enqueue a repair.  A correction leaves a repair behind that is not finished.
CorrectionIsQueued ==
    [][\A t \in Tokens :
          /\ Uses(t) /\ claims[t].of = "issue"
          /\ edition' # edition
          => repair'[claims[t].issue].status # "completed"]_agentVars
=============================================================================
