--------------------------- MODULE SourceIngestion ---------------------------
(***************************************************************************)
(* How a festival's web sources are checked: the lease of a FestivalSource *)
(* row (lib/ingestion/lease.ts), the due worker that claims one, fetches   *)
(* it and settles it (scripts/ingest-festivals.mjs --db-due), and the      *)
(* fenced publication of what it saw (publishIngestionResult), for the     *)
(* sources of one festival and one field of its current edition.           *)
(*                                                                         *)
(* Times are abstract: a lease is live until Lapse, a source is due again  *)
(* from BecomeDue on, a streak of failures is 21 days long from Age on.    *)
(* updatedAt, which fences edits, is only ever compared with the value the *)
(* claim returned: revision names the claim that wrote it last.            *)
(***************************************************************************)
EXTENDS Naturals, FiniteSets

CONSTANTS
    Sources,        \* rows of FestivalSource, of one festival
    Workers,        \* worker processes; a process that ends is replaced
    Configs,        \* what a source can be configured to read
    Values,         \* values of the field
    Reviewed,       \* values that a worker may not publish without review
    MaxFailures,    \* consecutiveFailures beyond the last step of the ladder
    MaxFaults,      \* bound on deaths, errors, lost answers, stalls longer than a lease
    MaxChanges,     \* bound on page changes, edits and admin publications
    LostAcks,       \* may the answer to a committed statement get lost?
    None            \* SQL NULL and "nothing"

ASSUME IngestionAssumption ==
    /\ Reviewed \subseteq Values
    /\ MaxFailures \in Nat \ {0}
    /\ MaxFaults \in Nat
    /\ MaxChanges \in Nat
    /\ LostAcks \in BOOLEAN
    /\ None \notin Sources \cup Workers \cup Configs \cup Values

VARIABLES
    row,        \* [Sources -> Row]: the FestivalSource rows
    page,       \* [Configs -> Values]: what the web site shows
    catalog,    \* the published value
    worker,     \* [Workers -> Worker]
    fetched,    \* pairs of workers that hold an observation, the earlier first
    faults, changes

vars == <<row, page, catalog, worker, fetched, faults, changes>>

\* owner and live are leaseOwner and leaseExpiresAt > now; due is nextRunAt <= now;
\* long is failureStartedAt <= now - 21 days; deprecated is deprecatedAt # NULL.
Row == [owner : Workers \cup {None}, live : BOOLEAN, revision : Workers \cup {None},
        enabled : BOOLEAN, config : Configs, due : BOOLEAN,
        failures : 0..MaxFailures, long : BOOLEAN, deprecated : BOOLEAN]

Pcs == {"idle", "mark", "claim", "setup", "configure", "fetch", "publish",
        "sample", "complete", "release"}

\* snapshot is the catalogue read at the start, seen the fetched value, lost the
\* heartbeat's flag, committed publicationCommitted, inTime the outcome of the lease's
\* expiry against the sampled clock.  overtaken, published and settled record what
\* really happened: a later observation was published, the publication and the
\* completion of this worker are committed.
Worker == [pc : Pcs, source : Sources \cup {None}, snapshot : Values \cup {None},
           config : Configs \cup {None}, seen : Values \cup {None}, lost : BOOLEAN,
           committed : BOOLEAN, success : BOOLEAN, recovering : BOOLEAN, inTime : BOOLEAN,
           overtaken : BOOLEAN, published : BOOLEAN, settled : BOOLEAN]

Fresh == [pc |-> "idle", source |-> None, snapshot |-> None, config |-> None, seen |-> None,
          lost |-> FALSE, committed |-> FALSE, success |-> FALSE, recovering |-> FALSE,
          inTime |-> FALSE, overtaken |-> FALSE, published |-> FALSE, settled |-> FALSE]

Init ==
    /\ \E c \in Configs :
          row = [s \in Sources |->
                   [owner |-> None, live |-> FALSE, revision |-> None, enabled |-> TRUE,
                    config |-> c, due |-> TRUE, failures |-> 0, long |-> FALSE,
                    deprecated |-> FALSE]]
    /\ catalog \in Values
    /\ page = [c \in Configs |-> catalog]
    /\ worker = [w \in Workers |-> Fresh]
    /\ fetched = {}
    /\ faults = 0
    /\ changes = 0

-----------------------------------------------------------------------------
\* A definition named "...Mutant" is the next one with a plausible bug: no action
\* uses it, and the property it is paired with in PROJECT.json fails when it takes
\* that definition's place.

rowVars == <<row, page, catalog>>

Goes(w, pc) == worker' = [worker EXCEPT ![w].pc = pc]

\* The process ends; another one may take its name.
Ends(w) ==
    /\ worker' = [worker EXCEPT ![w] = Fresh]
    /\ fetched' = {e \in fetched : w \notin {e[1], e[2]}}

Fault == faults < MaxFaults /\ faults' = faults + 1

\* The owner alone is compared.
OwnsMutant(w) ==
    LET r == row[worker[w].source] IN r.owner = w /\ r.enabled

\* Owner, revision and enabled: what every fenced statement compares.
Owns(w) ==
    LET r == row[worker[w].source] IN r.owner = w /\ r.enabled /\ r.revision = w

\* The claim is settled as a failure.
RecoversMutant(w) ==
    worker' = [worker EXCEPT ![w] = [worker[w] EXCEPT
                  !.pc = "sample", !.recovering = TRUE, !.success = FALSE]]

\* The catch block: the claim is settled as a failure, unless it has published.
Recovers(w) ==
    worker' = [worker EXCEPT ![w] = [worker[w] EXCEPT
                  !.pc = "sample", !.recovering = TRUE, !.success = worker[w].committed]]

-----------------------------------------------------------------------------
(* Claiming *)

\* The process starts: readCatalog, long before the claim.
Start(w) ==
    /\ worker[w].pc = "idle"
    /\ worker' = [worker EXCEPT ![w] = [Fresh EXCEPT !.pc = "mark", !.snapshot = catalog]]
    /\ UNCHANGED <<rowVars, fetched, faults, changes>>

\* markDeprecatedSources, the first statement of a claim.
Mark(w) ==
    /\ worker[w].pc = "mark"
    /\ row' = [s \in Sources |->
          IF row[s].enabled /\ ~row[s].deprecated /\ row[s].failures > 0 /\ row[s].long /\ ~row[s].live
          THEN [row[s] EXCEPT !.deprecated = TRUE, !.revision = None] ELSE row[s]]
    /\ Goes(w, "claim")
    /\ UNCHANGED <<page, catalog, fetched, faults, changes>>

Due(s) == row[s].enabled /\ row[s].due /\ ~row[s].live

\* claimDueSources: of the due sources one is taken; its revision is the claim's fence.
Claim(w, s) ==
    /\ worker[w].pc = "claim"
    /\ Due(s)
    /\ row' = [row EXCEPT ![s] = [row[s] EXCEPT !.owner = w, !.live = TRUE, !.revision = w]]
    /\ worker' = [worker EXCEPT ![w] = [worker[w] EXCEPT !.pc = "setup", !.source = s]]
    /\ UNCHANGED <<page, catalog, fetched, faults, changes>>

NothingDue(w) ==
    /\ worker[w].pc = "claim"
    /\ \A s \in Sources : ~Due(s)
    /\ Ends(w)
    /\ UNCHANGED <<rowVars, faults, changes>>

-----------------------------------------------------------------------------
(* One check of a source *)

\* The row is read again: "Claimed source was edited after claim".
Setup(w) ==
    /\ worker[w].pc = "setup"
    /\ IF row[worker[w].source].revision = w THEN Goes(w, "configure") ELSE Recovers(w)
    /\ UNCHANGED <<rowVars, fetched, faults, changes>>

\* listConfiguredSources reads the row once more, without comparing revisions.
Configure(w) ==
    /\ worker[w].pc = "configure"
    /\ worker' = [worker EXCEPT ![w] = [worker[w] EXCEPT
                     !.pc = "fetch", !.config = row[worker[w].source].config]]
    /\ UNCHANGED <<rowVars, fetched, faults, changes>>

Holders == {v \in Workers : <<v, v>> \in fetched}

\* The page is fetched, compared with the snapshot, and the attempt is persisted.
Fetch(w) ==
    LET v == page[worker[w].config] IN
    /\ worker[w].pc = "fetch"
    /\ worker' = [worker EXCEPT ![w] = [worker[w] EXCEPT !.seen = v, !.success = TRUE,
                     !.pc = IF v # worker[w].snapshot /\ v \notin Reviewed THEN "publish" ELSE "sample"]]
    /\ fetched' = fetched \cup {<<u, w>> : u \in Holders \cup {w}}
    /\ UNCHANGED <<rowVars, faults, changes>>

\* The fetch fails: the failed attempt is persisted and the claim settled as a failure.
FetchFails(w) ==
    /\ worker[w].pc = "fetch"
    /\ Fault
    /\ Goes(w, "sample")
    /\ UNCHANGED <<rowVars, fetched, changes>>

\* A worker that still has an older observation of the source than w.
Overtakes(w, v) ==
    /\ worker[v].source = worker[w].source
    /\ v # w /\ <<v, w>> \in fetched

\* The lease is only checked by assertActive, before the transaction.
PublishMutant(w) ==
    LET me == worker[w]
        moves == catalog = me.snapshot
    IN  /\ me.pc = "publish"
        /\ IF me.lost \/ catalog \notin {me.snapshot, me.seen}
           THEN Recovers(w) /\ UNCHANGED catalog
           ELSE /\ catalog' = me.seen
                /\ worker' = [v \in Workers |->
                      IF v = w THEN [me EXCEPT !.pc = "sample", !.published = moves, !.committed = moves]
                      ELSE [worker[v] EXCEPT !.overtaken =
                               worker[v].overtaken \/ (moves /\ Overtakes(w, v))]]
        /\ UNCHANGED <<row, page, fetched, faults, changes>>

\* publishIngestionResult, after assertActive: the lease is checked and the row locked,
\* and the field is only moved from the value the change was computed from.
Publish(w) ==
    LET me == worker[w]
        moves == catalog = me.snapshot
    IN  /\ me.pc = "publish"
        /\ IF me.lost \/ ~Owns(w) \/ ~row[me.source].live \/ catalog \notin {me.snapshot, me.seen}
           THEN Recovers(w) /\ UNCHANGED <<catalog, faults>>
           ELSE /\ catalog' = me.seen
                /\ \E acked \in {TRUE, ~LostAcks} :
                      /\ IF acked THEN UNCHANGED faults ELSE Fault
                      /\ worker' = [v \in Workers |->
                            IF v = w
                            THEN [me EXCEPT !.pc = "sample", !.published = moves,
                                            !.committed = moves /\ acked,
                                            !.recovering = ~acked, !.success = acked]
                            ELSE [worker[v] EXCEPT !.overtaken =
                                     worker[v].overtaken \/ (moves /\ Overtakes(w, v))]]
        /\ UNCHANGED <<row, page, fetched, changes>>

-----------------------------------------------------------------------------
(* Settling the claim *)

\* The heartbeat is stopped, and the clock is read for completeSourceLease.
Sample(w) ==
    /\ worker[w].pc = "sample"
    /\ IF worker[w].lost /\ ~worker[w].recovering THEN Recovers(w)
       ELSE worker' = [worker EXCEPT ![w] = [worker[w] EXCEPT
                          !.pc = "complete", !.inTime = row[worker[w].source].live]]
    /\ UNCHANGED <<rowVars, fetched, faults, changes>>

\* Failures beyond the last step of the ladder of delays count like the last.
Failed(n) == IF n < MaxFailures THEN n + 1 ELSE n

\* A success leaves deprecatedAt as it is.
SettledMutant(r, success) ==
    [r EXCEPT !.owner = None, !.live = FALSE, !.revision = None, !.due = FALSE,
              !.failures = IF success THEN 0 ELSE Failed(r.failures),
              !.long = ~success /\ r.failures > 0 /\ r.long,
              !.deprecated = r.deprecated \/ (~success /\ r.failures > 0 /\ r.long)]

\* A success clears the streak of failures, the first failure starts one; a streak
\* of 21 days deprecates the source.
Settled(r, success) ==
    [r EXCEPT !.owner = None, !.live = FALSE, !.revision = None, !.due = FALSE,
              !.failures = IF success THEN 0 ELSE Failed(r.failures),
              !.long = ~success /\ r.failures > 0 /\ r.long,
              !.deprecated = ~success /\ (r.deprecated \/ (r.failures > 0 /\ r.long))]

\* After a completion that did not happen or whose answer was lost.
Unsettled(w) == IF worker[w].recovering THEN Goes(w, "release") ELSE Recovers(w)

\* The answer to a completion is lost: the worker settles again, then releases.
AnswerLost(w) ==
    /\ LostAcks
    /\ Fault
    /\ worker' = [worker EXCEPT ![w] = [worker[w] EXCEPT !.settled = TRUE,
          !.success = IF worker[w].recovering THEN worker[w].success ELSE worker[w].committed,
          !.recovering = TRUE,
          !.pc = IF worker[w].recovering THEN "release" ELSE "sample"]]
    /\ UNCHANGED fetched

\* completeSourceLease.
Complete(w) ==
    LET s == worker[w].source IN
    /\ worker[w].pc = "complete"
    /\ IF Owns(w) /\ worker[w].inTime
       THEN /\ row' = [row EXCEPT ![s] = Settled(row[s], worker[w].success)]
            /\ (Ends(w) /\ UNCHANGED faults) \/ AnswerLost(w)
       ELSE Unsettled(w) /\ UNCHANGED <<row, fetched, faults>>
    /\ UNCHANGED <<page, catalog, changes>>

\* releaseOwnedSourceLease: the owner is compared, and the schedule is left alone.
Release(w) ==
    LET s == worker[w].source IN
    /\ worker[w].pc = "release"
    /\ row' = IF row[s].owner = w
              THEN [row EXCEPT ![s] = [row[s] EXCEPT !.owner = None, !.live = FALSE]] ELSE row
    /\ Ends(w)
    /\ UNCHANGED <<page, catalog, faults, changes>>

-----------------------------------------------------------------------------
(* Faults *)

\* A renewal finds its lease gone, or fails, or the lifetime is over.
HeartbeatFails(w) ==
    /\ worker[w].pc \in {"setup", "configure", "fetch", "publish"}
    /\ ~worker[w].lost
    /\ \/ (~Owns(w) \/ ~row[worker[w].source].live) /\ UNCHANGED faults
       \/ Fault
    /\ worker' = [worker EXCEPT ![w].lost = TRUE]
    /\ UNCHANGED <<rowVars, fetched, changes>>

\* An exception anywhere in the process, the database's included.
Error(w) ==
    /\ Fault
    /\ \/ /\ worker[w].pc \in {"mark", "claim", "release"} \* nothing claimed, or nothing left to try
          /\ Ends(w)
       \/ /\ worker[w].pc \in {"setup", "configure", "fetch", "publish", "sample", "complete"}
          /\ Unsettled(w)
          /\ UNCHANGED fetched
    /\ UNCHANGED <<rowVars, changes>>

Die(w) ==
    /\ worker[w].pc # "idle"
    /\ Fault
    /\ Ends(w)
    /\ UNCHANGED <<rowVars, changes>>

\* A lease lapses after its holder has died, or while its holder is stalled.
Lapse(s) ==
    /\ row[s].live
    /\ IF \E w \in Workers : worker[w].pc # "idle" /\ worker[w].source = s /\ row[s].owner = w
       THEN Fault ELSE UNCHANGED faults
    /\ row' = [row EXCEPT ![s].live = FALSE]
    /\ UNCHANGED <<page, catalog, worker, fetched, changes>>

-----------------------------------------------------------------------------
(* Time and the rest of the world *)

BecomeDue(s) ==
    /\ ~row[s].due
    /\ row' = [row EXCEPT ![s].due = TRUE]
    /\ UNCHANGED <<page, catalog, worker, fetched, faults, changes>>

Age(s) ==
    /\ row[s].failures > 0 /\ ~row[s].long
    /\ row' = [row EXCEPT ![s].long = TRUE]
    /\ UNCHANGED <<page, catalog, worker, fetched, faults, changes>>

Change == changes < MaxChanges /\ changes' = changes + 1

PageChanges(c) ==
    /\ Change
    /\ \E v \in Values \ {page[c]} : page' = [page EXCEPT ![c] = v]
    /\ UNCHANGED <<row, catalog, worker, fetched, faults>>

\* resolveAgentIssue and configureParserRepairSource point a source elsewhere and make
\* it due; they refuse while a worker has it.
Reconfigure(s) ==
    /\ Change
    /\ row[s].enabled /\ ~row[s].live
    /\ \E c \in Configs \ {row[s].config} :
          row' = [row EXCEPT ![s] = [row[s] EXCEPT !.config = c, !.due = TRUE, !.revision = None]]
    /\ UNCHANGED <<page, catalog, worker, fetched, faults>>

\* An operator edits the row directly, at any time.
OperatorEdit(s) ==
    /\ Change
    /\ \/ \E c \in Configs \ {row[s].config} :
             row' = [row EXCEPT ![s] = [row[s] EXCEPT !.config = c, !.revision = None]]
       \/ row' = [row EXCEPT ![s] = [row[s] EXCEPT !.enabled = ~row[s].enabled, !.revision = None]]
    /\ UNCHANGED <<page, catalog, worker, fetched, faults>>

\* publishAdminFestivalChange moves the field whatever it was.
AdminPublish ==
    /\ Change
    /\ \E v \in Values \ {catalog} : catalog' = v
    /\ UNCHANGED <<row, page, worker, fetched, faults>>

Step(w) ==
    \/ Start(w) \/ Mark(w) \/ (\E s \in Sources : Claim(w, s)) \/ NothingDue(w)
    \/ Setup(w) \/ Configure(w) \/ Fetch(w) \/ Publish(w)
    \/ Sample(w) \/ Complete(w) \/ Release(w)

Next ==
    \/ \E w \in Workers : Step(w) \/ FetchFails(w) \/ HeartbeatFails(w) \/ Error(w) \/ Die(w)
    \/ \E s \in Sources : Lapse(s) \/ BecomeDue(s) \/ Age(s) \/ Reconfigure(s) \/ OperatorEdit(s)
    \/ \E c \in Configs : PageChanges(c)
    \/ AdminPublish

Spec == Init /\ [][Next]_vars

-----------------------------------------------------------------------------
(* Properties *)

\* Every variable has its type.
TypeOK ==
    /\ row \in [Sources -> Row]
    /\ page \in [Configs -> Values]
    /\ catalog \in Values
    /\ worker \in [Workers -> Worker]
    /\ fetched \subseteq Workers \X Workers
    /\ faults \in 0..MaxFaults
    /\ changes \in 0..MaxChanges

Publishes(w) == ~worker[w].published /\ worker'[w].published

\* The step settles the claim of w.
Settles(w) ==
    LET s == worker[w].source IN
    worker[w].pc = "complete" /\ worker'[w] # worker[w] /\ row'[s] # row[s]

\* What a source published is never replaced by what an earlier fetch of the same
\* source saw: a worker whose lease was taken over may wake up at any time and still
\* hold its observation (publishIngestionResult's fence).
ObservationsInOrder == [][\A w \in Workers : Publishes(w) => ~worker[w].overtaken]_vars

\* A worker only publishes, and only settles, under the configuration it has read:
\* an edit between the claim, the two reads of the row, the fetch and the
\* acknowledgement is never published over nor has its schedule overwritten.
ConfigurationFenced ==
    [][\A w \in Workers : Publishes(w) \/ (Settles(w) /\ worker[w].config # None)
          => worker[w].config = row[worker[w].source].config]_vars

\* "A committed publication must never be converted into a parser backoff retry"
\* (scripts/ingest-festivals.mjs:219).
PublishedIsSuccess ==
    [][\A w \in Workers : Settles(w) /\ worker[w].published => worker[w].success]_vars

\* One claim moves the schedule and the failure count at most once, although a
\* completion is tried again when it fails or its answer is lost (recoverSourceLease);
\* and a publication that its worker has seen committed is settled as a success, whatever
\* fails after it: the heartbeat, the acknowledgement, its answer (the catch block).
SettledRight ==
    [][\A w \in Workers : Settles(w) =>
         ~worker[w].settled /\ (worker[w].committed => worker[w].success)]_vars

\* A source is deprecated only in an unbroken streak of failures of 21 days; the
\* check that succeeds ends both, and what is swept meanwhile cannot revive it.
DeprecatedWhileFailing ==
    \A s \in Sources : row[s].deprecated => row[s].failures > 0 /\ row[s].long

\* Both of it: rows are well-formed, and deprecated for a reason.
RowsSound == TypeOK /\ DeprecatedWhileFailing

\* A source waits for a check.
Overdue == \E s \in Sources : row[s].due /\ row[s].enabled

\* The catalogue does not say what the page of a source says without need of a review.
Behind ==
    \E s \in Sources :
        LET published == page[row[s].config] IN
        row[s].enabled /\ published \notin Reviewed /\ catalog # published
=============================================================================
