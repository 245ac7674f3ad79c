---------------------------- MODULE ReviewQueue ----------------------------
(* The export of cases for review (lib/ingestion/review-queue.mjs) over the  *)
(* history it reads: one source, checked again and again by the due          *)
(* scheduler (scripts/ingest-festivals.mjs with lib/ingestion/lease.ts) or   *)
(* by a run without a lease, and edited by operators.  Attempts keep the     *)
(* requested address but not the configuration they were made with, so the   *)
(* export has to tell from timestamps whether a candidate is still current.  *)
(*                                                                           *)
(* Leases do not expire here: SourceIngestion has them.  Every action takes  *)
(* place at an instant of its own: two timestamps of the same millisecond    *)
(* are left out.                                                             *)
EXTENDS Naturals, FiniteSets

CONSTANTS Workers,       \* processes that check the source
          Contents,      \* the meaningful contents of a page
          Urls, Years,
          MaxQueued,     \* bound on attempts
          MaxNow,        \* bound on the clock
          Blank          \* no worker, no candidate

Placeholder == "placeholder"   \* neither evidence nor diffs

\* What is assumed of the constants.
ASSUME QueueAssumption ==
    /\ Placeholder \notin Contents
    /\ Blank \notin Workers \cup Contents \cup {Placeholder}
    /\ {MaxQueued, MaxNow} \subseteq Nat

VARIABLES polled,      \* the row of FestivalSource
          worker,      \* what a worker does, with the row it read
          recorded,    \* IngestionAttempt with its candidate
          now

queueVars == <<polled, worker, recorded, now>>

Idle == [at |-> "idle"]

\* The row: address, edition, adapter and whether it is used; read by hand or not; lease.
SourceRow(url, year, parser, enabled, manual, leasedBy, updatedAt, lastAttemptAt) ==
    [url |-> url, year |-> year, parser |-> parser, enabled |-> enabled, manual |-> manual,
     leasedBy |-> leasedBy, updatedAt |-> updatedAt, lastAttemptAt |-> lastAttemptAt]

\* The row as it is configured, with another lease and other timestamps.
WithLease(leasedBy, updatedAt, lastAttemptAt) ==
    SourceRow(polled.url, polled.year, polled.parser, polled.enabled, polled.manual,
        leasedBy, updatedAt, lastAttemptAt)

QueueInit ==
    /\ \E manual \in BOOLEAN :
          polled = SourceRow(CHOOSE u \in Urls : TRUE, CHOOSE y \in Years : TRUE, 0, TRUE, manual,
                       Blank, 0, 0)
    /\ worker = [w \in Workers |-> Idle]
    /\ recorded = {}
    /\ now = 1

Instant == now < MaxNow /\ now' = now + 1
Step(w, s) == worker' = [worker EXCEPT ![w] = s]

(* --- Checking the source --------------------------------------------------*)

(* claimDueSources stamps updatedAt; line 84 rejects an edit since then and  *)
(* the configuration is read.                                                *)
ClaimSource(w) ==
    /\ Instant
    /\ worker[w] = Idle
    /\ polled.enabled
    /\ polled.leasedBy = Blank
    /\ polled' = WithLease(w, now, polled.lastAttemptAt)
    /\ Step(w, [at |-> "read", conf |-> polled', leased |-> TRUE])
    /\ UNCHANGED recorded

(* A run for one festival reads the configuration and takes no lease. *)
Select(w) ==
    /\ Instant
    /\ worker[w] = Idle
    /\ polled.enabled
    /\ Step(w, [at |-> "read", conf |-> polled, leased |-> FALSE])
    /\ UNCHANGED <<polled, recorded>>

(* startedAt is taken after the run was created in the database. *)
Start(w) ==
    /\ Instant
    /\ worker[w].at = "read"
    /\ Step(w, [at |-> "started", conf |-> worker[w].conf, from |-> polled,
                leased |-> worker[w].leased, started |-> now])
    /\ UNCHANGED <<polled, recorded>>

(* persistAttempt with what was found: a candidate to review, or an attempt  *)
(* without one (failed, unchanged or published).  from is history.           *)
PersistAttempt(w) ==
    /\ Instant
    /\ worker[w].at = "started"
    /\ Cardinality(recorded) < MaxQueued
    /\ \E found \in Contents \cup {Placeholder, Blank} :
          LET a == [id |-> Cardinality(recorded), url |-> worker[w].conf.url,
                    year |-> worker[w].conf.year, found |-> found,
                    pending |-> found # Blank, started |-> worker[w].started,
                    ended |-> now, from |-> worker[w].from]
          IN recorded' = recorded \cup {a}
    /\ Step(w, IF worker[w].leased
                 THEN [at |-> "persisted", conf |-> worker[w].conf,
                       started |-> worker[w].started]
                 ELSE Idle)
    /\ UNCHANGED polled

(* Mutant: the completion is fenced by its owner alone. *)
FencedMutant(w) == polled.leasedBy = w

(* The completion demands the owner and the updatedAt of the claim. *)
Fenced(w) ==
    /\ polled.leasedBy = w
    /\ polled.updatedAt = worker[w].conf.updatedAt
    /\ polled.enabled

(* completeSourceLease, or the release of the worker's own lease. *)
Complete(w) ==
    /\ Instant
    /\ worker[w].at = "persisted"
    /\ Step(w, Idle)
    /\ polled' = IF Fenced(w)
                   THEN WithLease(Blank, now, now)
                   ELSE WithLease(IF polled.leasedBy = w THEN Blank ELSE polled.leasedBy,
                               polled.updatedAt, polled.lastAttemptAt)
    /\ UNCHANGED recorded

(* --- What operators and reviewers do --------------------------------------*)

Edit ==
    /\ Instant
    /\ \E u \in Urls, y \in Years, p \in {0, 1}, e \in BOOLEAN :
          polled' = SourceRow(u, y, p, e, polled.manual, polled.leasedBy, now, polled.lastAttemptAt)
    /\ UNCHANGED <<worker, recorded>>

Disposed(a) ==
    [id |-> a.id, url |-> a.url, year |-> a.year, found |-> a.found, pending |-> FALSE,
     started |-> a.started, ended |-> a.ended, from |-> a.from]

(* The candidate is published, superseded or rejected. *)
DecideCandidate(a) ==
    /\ Instant
    /\ a.pending
    /\ recorded' = (recorded \ {a}) \cup {Disposed(a)}
    /\ UNCHANGED <<polled, worker>>

QueueNext ==
    \/ \E w \in Workers : \/ ClaimSource(w)
                          \/ Select(w)
                          \/ Start(w)
                          \/ PersistAttempt(w)
                          \/ Complete(w)
    \/ Edit
    \/ \E a \in recorded : DecideCandidate(a)

QueueSpec == QueueInit /\ [][QueueNext]_queueVars

(* --- The export -----------------------------------------------------------*)

Newer(a, b) == \/ a.started > b.started
               \/ a.started = b.started /\ a.ended > b.ended

(* The newest of a set of attempts by start, then by end. *)
Latest(set) == CHOOSE a \in set : \A b \in set \ {a} : Newer(a, b)

PendingAt(url) == {a \in recorded : a.pending /\ a.url = url}
LatestAt(url) == Latest({a \in recorded : a.url = url})

(* A completion of this attempt also moved updatedAt: no edit. *)
Acknowledged(a) ==
    /\ polled.updatedAt = polled.lastAttemptAt
    /\ polled.lastAttemptAt >= a.ended
    /\ LatestAt(a.url) = a

(* staleReasons *)
Stale(a) ==
    \/ LatestAt(a.url) # a
    \/ polled.url # a.url
    \/ ~polled.enabled
    \/ polled.updatedAt > a.started /\ ~Acknowledged(a)
    \/ a.year # polled.year

(* One case for each meaningful content of an address: its newest candidate, *)
(* with the number of repeats that it stands for.                            *)
SameContent(url, c) == {a \in PendingAt(url) : a.found = c}
Groups == {SameContent(u, c) : u \in Urls, c \in Contents} \ {{}}
CaseOf(same) ==
    [attempt |-> Latest(same), suppressed |-> Cardinality(same) - 1,
     actionable |-> polled.enabled /\ ~Stale(Latest(same))]
Candidates == {CaseOf(same) : same \in Groups}

(* A source without meaningful candidate, a manual one, and one whose latest *)
(* attempt is a placeholder, is to be verified.                              *)
ToVerify(url) ==
    /\ (polled.url = url /\ polled.enabled /\ polled.manual) \/ PendingAt(url) # {}
    /\ \/ polled.url = url /\ polled.enabled /\ polled.manual
       \/ \A a \in PendingAt(url) : a.found = Placeholder
       \/ LatestAt(url) \in PendingAt(url) /\ LatestAt(url).found = Placeholder

(* ---- Properties -------------------------------------------------------- *)

Configuration(s) == <<s.url, s.year, s.parser, s.enabled>>

(* No operator edit since an actionable candidate's attempt began is hidden  *)
(* by the completion that moves the same timestamp: the attempt is the       *)
(* latest, and the source is configured as it was when the attempt began.    *)
ActionableIsFresh ==
    \A c \in Candidates : c.actionable =>
        /\ \A a \in recorded : a.url = c.attempt.url => a.started <= c.attempt.started
        /\ Configuration(c.attempt.from) = Configuration(polled)

(* Nothing pending is dropped or put up twice: each pending attempt makes    *)
(* its source one to verify or is in the one case of its content, which is   *)
(* about the newest of them and counts them all; and of the cases of an      *)
(* address at most one is actionable.                                        *)
NothingDropped ==
    \A u \in Urls :
        LET cases == {c \in Candidates : c.attempt.url = u} IN
        /\ \A a \in PendingAt(u) : a.found # Placeholder =>
              \E c \in cases : c.attempt.found = a.found /\ ~Newer(a, c.attempt)
        /\ \A c, d \in cases : c.attempt.found = d.attempt.found => c = d
        /\ \A c \in cases : c.suppressed + 1 = Cardinality(SameContent(u, c.attempt.found))
        /\ cases = {} /\ PendingAt(u) # {} => ToVerify(u)
        /\ Cardinality({c \in cases : c.actionable}) <= 1
=============================================================================
