-------------------------- MODULE PlaylistCutover --------------------------
(***************************************************************************)
(* The playlist refresh before and after its cutover.  Until an operator   *)
(* writes the activation receipt ("mode" below), four entry points drive   *)
(* the old provider script: the internal route (which also claims and      *)
(* settles rows of CatalogPlaylistRefresh, without leases), the timer's    *)
(* dispatcher, the direct YouTube transfer, and the new timer, which must  *)
(* refuse.  Afterwards they either refuse or run the leased database       *)
(* worker (PlaylistQueue).  They exclude each other through one host lock, *)
(* taken without waiting and dropped by the system when its holder dies;   *)
(* each reads the receipt only once it holds the lock.                     *)
(*                                                                         *)
(* The provider script is a child process.  It outlives a parent that is   *)
(* killed, and a parent that gives up on it by timeout, and then runs on   *)
(* without any lock ("orphans").                                           *)
(***************************************************************************)
EXTENDS Naturals, FiniteSets

CONSTANTS
    CutoverJobs,           \* publications that may each queue one refresh
    Festivals,
    FestivalOf,     \* [CutoverJobs -> Festivals]
    Routes, Timers, DbTimers, Direct,   \* processes by entry point
    Skips,          \* festivals whose exported line-up has no eligible act
    Requests,       \* the "festivals" of a request; {} asks for all
    MaxRows,        \* bound: rows queued
    MaxClaims,    \* bound: claims of one row
    MaxOrphans,     \* bound: children that outlive their parents, in all
    Null

Procs == Routes \cup Timers \cup DbTimers \cup Direct

VARIABLES
    rows,       \* CatalogPlaylistRefresh, one row a job (or Null)
    mode,       \* the receipt: "legacy" while there is none
    lock,       \* processes holding refresh.lock
    proc,       \* the processes
    orphans,    \* children without a parent: what each exported
    lost,       \* ... and how many there have been
    expected,   \* the rows whose hash the last preview printed, or Null
    reports,    \* festivals with a report, which the status is built from
    status,     \* festivals in playlist-status.json
    built       \* jobs whose publication some finished build included

cutoverVars == <<rows, mode, lock, proc, orphans, lost, expected, reports, status, built>>

Idle == [at |-> "idle", seen |-> Null, scope |-> {}, ids |-> {}, export |-> {}]

Queued == {j \in CutoverJobs : rows[j] # Null}
Row(state, n, lease, retry) ==
    [state |-> state, attempts |-> n, lease |-> lease, retry |-> retry, old |-> FALSE]

Rows == [state : {"PENDING", "RUNNING", "FAILED", "SUCCEEDED"}, attempts : 0 .. MaxClaims,
         lease : {Null, "live", "lapsed"}, retry : BOOLEAN, old : BOOLEAN]

Process == [at : {"idle", "locked", "ready", "claimed", "child", "done", "working"},
            seen : {Null, "legacy", "database"}, scope : SUBSET Festivals,
            ids : SUBSET CutoverJobs, export : SUBSET CutoverJobs]

\* What the instances of this module assume of its constants.
CutoverAssumption ==
    /\ FestivalOf \in [CutoverJobs -> Festivals]
    /\ Requests \subseteq SUBSET Festivals /\ Skips \subseteq Festivals
    /\ MaxClaims \in Nat /\ MaxOrphans \in Nat /\ MaxRows \in Nat
    /\ Null \notin Rows \cup {"legacy", "database", "live", "lapsed"}

CutoverTypeOK ==
    /\ rows \in [CutoverJobs -> Rows \cup {Null}]
    /\ mode \in {"legacy", "database"} /\ lock \subseteq Procs
    /\ proc \in [Procs -> Process]
    /\ orphans \subseteq SUBSET CutoverJobs /\ lost \in 0 .. MaxOrphans
    /\ status \subseteq reports /\ reports \subseteq Festivals /\ built \subseteq CutoverJobs

CutoverInit ==
    /\ rows = [j \in CutoverJobs |-> Null] /\ mode = "legacy" /\ lock = {}
    /\ proc = [p \in Procs |-> Idle]
    /\ orphans = {} /\ lost = 0 /\ expected = Null
    /\ reports = {} /\ status = {} /\ built = {}

\* A publication that changed the line-up queues its refresh; a festival's
\* publications are numbered in their order.
Enqueue(j) ==
    /\ \A k \in CutoverJobs : k < j /\ FestivalOf[k] = FestivalOf[j] => k \in Queued
    /\ rows[j] = Null /\ Cardinality(Queued) < MaxRows
    /\ rows' = [rows EXCEPT ![j] = Row("PENDING", 0, Null, FALSE)]
    /\ UNCHANGED <<mode, lock, proc, orphans, lost, expected, reports, status, built>>

----------------------------------------------------------------------------
(* The lock and the receipt. *)

Free == lock = {}

Lock(p, scope) ==
    /\ proc[p].at = "idle" /\ Free
    /\ p \in Routes \/ scope = {}
    /\ lock' = lock \cup {p}
    /\ proc' = [proc EXCEPT ![p] = [Idle EXCEPT !.at = "locked", !.scope = scope]]
    /\ UNCHANGED <<rows, mode, orphans, lost, expected, reports, status, built>>

ReadMode(p) ==
    /\ proc[p].at = "locked"
    /\ proc' = [proc EXCEPT ![p].at = "ready", ![p].seen = mode]
    /\ UNCHANGED <<rows, mode, lock, orphans, lost, expected, reports, status, built>>

Leave(p) == lock' = lock \ {p} /\ proc' = [proc EXCEPT ![p] = Idle]

\* With the receipt the route only reports the queue and the direct transfer
\* refuses; without it the new timer refuses.
Refuse(p) ==
    /\ proc[p].at = "ready"
    /\ \/ proc[p].seen = "database" /\ p \in Routes \cup Direct
       \/ proc[p].seen = "legacy" /\ p \in DbTimers
    /\ Leave(p)
    /\ UNCHANGED <<rows, mode, orphans, lost, expected, reports, status, built>>

----------------------------------------------------------------------------
(* The old route: claim, run the script, read its status file, settle. *)

InScope(p, j) == proc[p].scope = {} \/ FestivalOf[j] \in proc[p].scope

Claimable(r) == r.state \in {"PENDING", "FAILED"} \/ (r.state = "RUNNING" /\ r.old)

\* The update sets neither lease nor retryAt.
ClaimPending(p) ==
    /\ p \in Routes /\ proc[p].at = "ready" /\ proc[p].seen = "legacy"
    /\ LET ids == {j \in Queued : Claimable(rows[j]) /\ InScope(p, j)} IN
       /\ \A j \in ids : rows[j].attempts < MaxClaims
       /\ rows' = [j \in CutoverJobs |-> IF j \in ids
                     THEN [rows[j] EXCEPT !.state = "RUNNING", !.attempts = @ + 1, !.old = FALSE]
                     ELSE rows[j]]
       /\ proc' = [proc EXCEPT ![p].at = "claimed", ![p].ids = ids]
    /\ UNCHANGED <<mode, lock, orphans, lost, expected, reports, status, built>>

\* The child exports the catalogue first: what is published by then is in it.
Spawn(p) ==
    /\ \/ p \in Routes /\ proc[p].at = "claimed"
       \/ p \in Timers \cup Direct /\ proc[p].at = "ready" /\ proc[p].seen = "legacy"
    /\ proc' = [proc EXCEPT ![p].at = "child", ![p].export = IF p \in Direct THEN {} ELSE Queued]
    /\ UNCHANGED <<rows, mode, lock, orphans, lost, expected, reports, status, built>>

\* The festivals the script builds: those asked for that have an eligible act.
Eligible(scope) == (IF scope = {} THEN Festivals ELSE scope) \ Skips

\* The script builds one festival after the other and stops at the first
\* failure; only after all of them is the status file built, from all reports.
Built(p, done) ==
    /\ reports' = reports \cup done
    /\ built' = built \cup {j \in proc[p].export : FestivalOf[j] \in done}

ChildEnds(p, done) ==
    /\ proc[p].at = "child" /\ p \notin Direct
    /\ done = Eligible(proc[p].scope) /\ Built(p, done)
    /\ status' = status \cup reports'
    /\ IF p \in Routes
       THEN proc' = [proc EXCEPT ![p].at = "done"] /\ UNCHANGED lock
       ELSE Leave(p)
    /\ UNCHANGED <<rows, mode, orphans, lost, expected>>

DirectEnds(p) ==
    /\ proc[p].at = "child" /\ p \in Direct
    /\ Leave(p)
    /\ UNCHANGED <<rows, mode, orphans, lost, expected, reports, status, built>>

(* Mutant: settle every unfinished row of the request, not those claimed. *)
SettledMutant(p) == {j \in Queued : InScope(p, j) /\ rows[j].state \in {"PENDING", "RUNNING"}}

Settled(p) == {j \in proc[p].ids : rows[j].state = "RUNNING"}

Settle(p, state) ==
    /\ rows' = [j \in CutoverJobs |->
                  IF j \in Settled(p) THEN [rows[j] EXCEPT !.state = state] ELSE rows[j]]
    /\ Leave(p)

\* Every festival asked for (or, asked for all, every one in the file) must
\* have a status; its binding and the claimed rows are written together.
Succeed(p) ==
    /\ p \in Routes /\ proc[p].at = "done"
    /\ proc[p].scope \subseteq status
    /\ Settle(p, "SUCCEEDED")
    /\ UNCHANGED <<mode, orphans, lost, expected, reports, status, built>>

\* The script failed after some of the festivals, the status lacks one, an
\* edition is ambiguous or the transaction fails.
FailClaimed(p, done) ==
    /\ \/ proc[p].at = "child" /\ done \subseteq Eligible(proc[p].scope) /\ Built(p, done)
       \/ proc[p].at = "done" /\ done = {} /\ UNCHANGED <<reports, built>>
    /\ Settle(p, "FAILED")
    /\ UNCHANGED <<mode, orphans, lost, expected, status>>

\* The timeout kills the shell, not what the shell started.
TimeOut(p) ==
    /\ proc[p].at = "child" /\ lost < MaxOrphans
    /\ orphans' = orphans \cup {proc[p].export} /\ lost' = lost + 1
    /\ Settle(p, "FAILED")
    /\ UNCHANGED <<mode, expected, reports, status, built>>

OrphanEnds(export, done) ==
    /\ export \in orphans
    /\ orphans' = orphans \ {export}
    /\ reports' = reports \cup done /\ status' = status \cup done
    /\ built' = built \cup {j \in export : FestivalOf[j] \in done}
    /\ UNCHANGED <<rows, mode, lock, proc, lost, expected>>

----------------------------------------------------------------------------
(* The database worker, one claim at a time (PlaylistQueue has its detail). *)

Workable(r) ==
    \/ r.state = "PENDING"
    \/ r.state = "FAILED" /\ r.retry
    \/ r.state = "RUNNING" /\ r.lease = "lapsed"

Work(p, j) ==
    /\ p \in Timers \cup DbTimers /\ proc[p].at = "ready" /\ proc[p].seen = "database"
    /\ j \in Queued /\ Workable(rows[j]) /\ rows[j].attempts < MaxClaims
    /\ \A k \in Queued \ {j} : FestivalOf[k] = FestivalOf[j] => rows[k].state # "RUNNING"
    /\ rows' = [rows EXCEPT ![j] = Row("RUNNING", rows[j].attempts + 1, "live", FALSE)]
    /\ proc' = [proc EXCEPT ![p].at = "working", ![p].ids = {j}]
    /\ UNCHANGED <<mode, lock, orphans, lost, expected, reports, status, built>>

Worked(p, ok) ==
    /\ proc[p].at = "working"
    /\ LET j == CHOOSE k \in proc[p].ids : TRUE IN
       /\ rows' = [rows EXCEPT ![j] =
                     Row(IF ok THEN "SUCCEEDED" ELSE "FAILED", rows[j].attempts, Null, ~ok)]
       /\ built' = IF ok THEN built \cup {j} ELSE built
    /\ Leave(p)
    /\ UNCHANGED <<mode, orphans, lost, expected, reports, status>>

NoWork(p) ==
    /\ p \in Timers \cup DbTimers /\ proc[p].at = "ready" /\ proc[p].seen = "database"
    /\ Leave(p)
    /\ UNCHANGED <<rows, mode, orphans, lost, expected, reports, status, built>>

----------------------------------------------------------------------------
(* Crashes, time and the operator. *)

\* The lock goes with the process; rows stay RUNNING, the child goes on.
Crash(p) ==
    /\ proc[p].at # "idle" /\ lost < MaxOrphans
    /\ orphans' = IF proc[p].at = "child" THEN orphans \cup {proc[p].export} ELSE orphans
    /\ lost' = lost + 1
    /\ rows' = [j \in CutoverJobs |-> IF j \in proc[p].ids /\ proc[p].at = "working"
                               THEN [rows[j] EXCEPT !.lease = "lapsed"] ELSE rows[j]]
    /\ Leave(p)
    /\ UNCHANGED <<mode, expected, reports, status, built>>

\* Three hours pass, longer than any run may take.
Age(j) ==
    /\ j \in Queued /\ rows[j].state = "RUNNING" /\ ~rows[j].old
    /\ \A p \in Procs : j \notin proc[p].ids
    /\ rows' = [rows EXCEPT ![j].old = TRUE]
    /\ UNCHANGED <<mode, lock, proc, orphans, lost, expected, reports, status, built>>

Stranded(r) ==
    \/ r.state = "FAILED" /\ ~r.retry
    \/ r.state = "RUNNING" /\ r.lease = Null

\* The operator settles rows the old route left behind, after reading back.
Reconcile(j) ==
    /\ mode = "legacy" /\ Free
    /\ j \in Queued /\ Stranded(rows[j])
    /\ rows' = [rows EXCEPT ![j] = Row("PENDING", rows[j].attempts, Null, FALSE)]
    /\ UNCHANGED <<mode, lock, proc, orphans, lost, expected, reports, status, built>>

(* Mutant: the audit looks only at rows that are running or leased. *)
BlockedMutant(r) == r.state = "RUNNING" \/ r.lease # Null

Blocked(r) == r.state = "RUNNING" \/ r.lease # Null \/ (r.state = "FAILED" /\ ~r.retry)

Hash == {<<j, rows[j].state, rows[j].attempts>> : j \in Queued}

\* The preview prints the hash of all rows, under the lock.  The operator has
\* no use for that of a queue the audit refuses: no later one equals it.
Preview ==
    /\ Free /\ mode = "legacy" /\ \A j \in Queued : ~Blocked(rows[j])
    /\ expected' = Hash
    /\ UNCHANGED <<rows, mode, lock, proc, orphans, lost, reports, status, built>>

\* The operator attests that no old process tree is left.
Drained == orphans = {}

Activate ==
    /\ Free /\ Drained
    /\ mode = "legacy" /\ expected # Null
    /\ \A j \in Queued : ~Blocked(rows[j])
    /\ expected = Hash
    /\ mode' = "database" /\ expected' = Null
    /\ UNCHANGED <<rows, lock, proc, orphans, lost, reports, status, built>>

CutoverNext ==
    \/ \E j \in CutoverJobs : Enqueue(j) \/ Age(j) \/ Reconcile(j)
    \/ \E p \in Procs :
         \/ \E scope \in Requests : Lock(p, scope)
         \/ ReadMode(p) \/ Refuse(p) \/ ClaimPending(p) \/ Spawn(p) \/ DirectEnds(p)
         \/ \E done \in SUBSET Festivals : ChildEnds(p, done) \/ FailClaimed(p, done)
         \/ Succeed(p) \/ TimeOut(p) \/ Crash(p) \/ NoWork(p)
         \/ \E j \in CutoverJobs : Work(p, j)
         \/ \E ok \in BOOLEAN : Worked(p, ok)
    \/ \E export \in orphans, done \in SUBSET (Festivals \ Skips) : OrphanEnds(export, done)
    \/ Preview \/ Activate

CutoverSpec == CutoverInit /\ [][CutoverNext]_cutoverVars

----------------------------------------------------------------------------
\* Once the receipt is written, every row that is not finished is one the
\* database worker will take up again: the old route, which leaves failed
\* rows without a retry time and running rows without a lease, has left
\* none behind and leaves none later.
NoneStranded == mode = "database" => \A j \in Queued : ~Stranded(rows[j])

\* Once the receipt is written no old provider script runs, be it under a
\* process that had read "no receipt" before.
LegacyEnded ==
    mode = "database" =>
      orphans = {} /\ \A p \in Procs : proc[p].at # "child" /\ proc[p].seen # "legacy"

\* Both of it, of well-formed rows.
NothingStranded == CutoverTypeOK /\ NoneStranded /\ LegacyEnded

\* A row is marked succeeded only if some run that exported the catalogue
\* after the row's publication has built its festival's playlist.  Except
\* for a festival the script skips: a run that asks for all of them settles
\* its row too, although no playlist was built from it.
SucceededIsBuilt ==
    [][\A j \in CutoverJobs :
         rows'[j] # Null /\ rows'[j].state = "SUCCEEDED" =>
             j \in built' \/ FestivalOf[j] \in Skips]_cutoverVars
=============================================================================
