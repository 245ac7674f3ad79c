---------------------------- MODULE PlaylistQueue ----------------------------
(***************************************************************************)
(* The durable playlist queue of lib/catalog/playlist-queue.ts: the rows   *)
(* of "CatalogPlaylistRefresh", and the transactions that claim, renew and *)
(* settle them under one PostgreSQL advisory lock per festival.            *)
(*                                                                         *)
(* A row holds deadlines (leaseExpiresAt, startedAt + two hours, retryAt)  *)
(* that the code only ever compares with the DATABASE clock, so a row here *)
(* keeps the time LEFT to each deadline, in ticks of that clock: 0 is      *)
(* "reached" (<= now).  Tick lets one tick pass for every row.             *)
(*                                                                         *)
(* A session runs one database transaction at a time; its stage says which *)
(* statement it has reached, and between two stages the clock and the      *)
(* other sessions move.  Any session may use any handle ever issued: the   *)
(* worker, its renewal timer, its guard subprocesses and the orphans of a  *)
(* dead worker all hold copies of a claim and present them at any time.    *)
(***************************************************************************)
EXTENDS Naturals, FiniteSets

CONSTANTS
    Festivals,      \* festival slugs
    Jobs,           \* rows of the queue, one per lineup publication
    FestivalOf,     \* [Jobs -> Festivals]: the slug of a job's publication
    Owners,         \* lease owners (the random UUID of a worker run)
    Sessions,       \* database sessions
    None,           \* SQL NULL, and "nobody"
    Ttl,            \* lease length given by a claim or a renewal
    MaxLifetime,    \* MAX_LEASE_LIFETIME_MS: two hours from startedAt
    RetryBase,      \* the 60 s of the first backoff
    RetryCap,       \* the 24 h the backoff is capped at
    MaxAttempts     \* bound on the attempts of one job

ASSUME QueueAssumption ==
    /\ IsFiniteSet(Jobs)
    /\ FestivalOf \in [Jobs -> Festivals]
    /\ None \notin Festivals \cup Jobs \cup Owners \cup Sessions
    /\ Ttl \in Nat \ {0}
    /\ MaxLifetime \in Nat
    /\ Ttl <= MaxLifetime
    /\ RetryBase \in Nat
    /\ RetryCap \in Nat
    /\ MaxAttempts \in Nat

VARIABLES
    row,        \* [Jobs -> Row]: the table
    handles,    \* every PlaylistLease a claim has returned
    festLock,   \* [Festivals -> Sessions or None]: pg_advisory_xact_lock
    txn         \* [Sessions -> Txn]: the transaction each session is in

vars == <<row, handles, festLock, txn>>

Statuses == {"ABSENT", "PENDING", "RUNNING", "SUCCEEDED", "FAILED"}
Kinds == {"renew", "succeed", "fail", "pause"}
Stages == {"idle", "claiming", "claimLocked", "claimSelected", "opLocked", "opChecked"}

Row == [status : Statuses, attempts : Nat, leaseOwner : Owners \cup {None},
        leaseLeft : Nat, lifeLeft : Nat, retryLeft : Nat, requestedAt : Nat]
Handle == [job : Jobs, owner : Owners, attempts : Nat]
Candidate == [festival : Festivals, at : Nat]

\* cands, festival and job are where a claim stands; owner, job and attempts are
\* the handle an operation presents, and kind is the operation.
Txn == [stage : Stages, cands : SUBSET Candidate, festival : Festivals \cup {None},
        job : Jobs \cup {None}, owner : Owners \cup {None}, attempts : Nat,
        kind : Kinds \cup {None}]

AbsentRow == [status |-> "ABSENT", attempts |-> 0, leaseOwner |-> None,
              leaseLeft |-> 0, lifeLeft |-> 0, retryLeft |-> 0, requestedAt |-> 0]

Idle == [stage |-> "idle", cands |-> {}, festival |-> None, job |-> None,
         owner |-> None, attempts |-> 0, kind |-> None]

-----------------------------------------------------------------------------
\* The conditions of the WHERE clauses.  A definition named "...Mutant" is the
\* next one with a plausible bug: no action uses it, and the property it is paired
\* with in PROJECT.json fails when it takes that definition's place.

Less(m, n) == IF m <= n THEN m ELSE n
More(m, n) == IF m <= n THEN n ELSE m

\* leaseExpiresAt <= now, or startedAt + two hours <= now
Lapsed(r) == r.leaseLeft = 0 \/ r.lifeLeft = 0

Live(r) == r.status = "RUNNING" /\ ~Lapsed(r)

\* A sibling whose lease has lapsed is forgotten.
NoRunningSiblingMutant(j) ==
    \A k \in Jobs \ {j} : FestivalOf[k] = FestivalOf[j] => ~Live(row[k])

NoRunningSibling(j) ==
    \A k \in Jobs \ {j} : FestivalOf[k] = FestivalOf[j] => row[k].status # "RUNNING"

\* The lease is compared with the time of the next tick.
ClaimableEarlyMutant(r) == \/ r.status = "PENDING"
                           \/ r.status = "FAILED" /\ r.retryLeft = 0
                           \/ r.status = "RUNNING" /\ (r.leaseLeft <= 1 \/ r.lifeLeft <= 1)

\* retryAt is not compared with the clock.
ClaimableNoBackoffMutant(r) == \/ r.status \in {"PENDING", "FAILED"}
                               \/ r.status = "RUNNING" /\ Lapsed(r)

\* The job of a dead worker is never reclaimed.
ClaimableNoReclaimMutant(r) == \/ r.status = "PENDING"
                               \/ r.status = "FAILED" /\ r.retryLeft = 0

Claimable(r) == \/ r.status = "PENDING"
                \/ r.status = "FAILED" /\ r.retryLeft = 0
                \/ r.status = "RUNNING" /\ Lapsed(r)

\* MaxAttempts bounds the model; the code has no such limit.
Eligible(j) == /\ Claimable(row[j])
               /\ NoRunningSibling(j)
               /\ row[j].attempts < MaxAttempts

EligibleOf(f) == {j \in Jobs : FestivalOf[j] = f /\ Eligible(j)}

\* ORDER BY "requestedAt" LIMIT 1
Oldest(js) == {j \in js : \A k \in js : row[j].requestedAt <= row[k].requestedAt}

\* The attempt is not part of the fence.
HoldsLeaseMutant(job, owner, attempts) ==
    Live(row[job]) /\ row[job].leaseOwner = owner /\ NoRunningSibling(job)

\* requirePlaylistLease
HoldsLease(job, owner, attempts) ==
    /\ Live(row[job])
    /\ row[job].leaseOwner = owner
    /\ row[job].attempts = attempts
    /\ NoRunningSibling(job)

\* 2 ** min(11, attempts - 1): the doublings of the backoff
Doubling == <<1, 2, 4, 8, 16, 32, 64, 128, 256, 512, 1024, 2048>>

RetryDelay(attempts) == Less(RetryCap, RetryBase * Doubling[Less(12, More(1, attempts))])

-----------------------------------------------------------------------------
Init ==
    /\ row = [j \in Jobs |-> AbsentRow]
    /\ handles = {}
    /\ festLock = [f \in Festivals |-> None]
    /\ txn = [s \in Sessions |-> Idle]

\* COMMIT or ROLLBACK: every advisory lock the transaction took is released.
End(s) ==
    /\ txn' = [txn EXCEPT ![s] = Idle]
    /\ festLock' = [f \in Festivals |-> IF festLock[f] = s THEN None ELSE festLock[f]]

\* A lineup publication inserts its row, once (publicationId is unique).
Enqueue(j) ==
    /\ row[j].status = "ABSENT"
    /\ row' = [row EXCEPT ![j].status = "PENDING",
                          ![j].requestedAt =
                              1 + Cardinality({k \in Jobs : row[k].status # "ABSENT"})]
    /\ UNCHANGED <<handles, festLock, txn>>

\* The first SELECT of a claim: for every festival with an eligible job, the
\* oldest one.  No lock is held, so the list may be stale when it is used.
ClaimScan(s, o) ==
    /\ txn[s].stage = "idle"
    /\ \E j \in Jobs : Eligible(j)
    /\ txn' = [txn EXCEPT ![s] =
                 [Idle EXCEPT !.stage = "claiming", !.owner = o,
                    !.cands = {c \in {[festival |-> FestivalOf[j], at |-> row[j].requestedAt] : j \in Jobs} :
                                 \E j \in Oldest(EligibleOf(c.festival)) : c.at = row[j].requestedAt}]]
    /\ UNCHANGED <<row, handles, festLock>>

\* pg_try_advisory_xact_lock on the next candidate; a busy festival is skipped.
ClaimTry(s) ==
    /\ txn[s].stage = "claiming"
    /\ \E c \in txn[s].cands :
         /\ \A d \in txn[s].cands : c.at <= d.at
         /\ \/ /\ festLock[c.festival] = None
               /\ festLock' = [festLock EXCEPT ![c.festival] = s]
               /\ txn' = [txn EXCEPT ![s].stage = "claimLocked", ![s].festival = c.festival,
                                     ![s].cands = @ \ {c}]
            \/ /\ festLock[c.festival] # None
               /\ txn' = [txn EXCEPT ![s].cands = @ \ {c}]
               /\ UNCHANGED festLock
    /\ UNCHANGED <<row, handles>>

\* The second SELECT, under the festival lock and with a new snapshot.  When
\* nothing is left to claim the lock is kept and the next candidate is tried.
ClaimSelect(s) ==
    /\ txn[s].stage = "claimLocked"
    /\ \/ /\ EligibleOf(txn[s].festival) = {}
          /\ txn' = [txn EXCEPT ![s] = [@ EXCEPT !.stage = "claiming", !.festival = None]]
       \/ \E j \in Oldest(EligibleOf(txn[s].festival)) :
             txn' = [txn EXCEPT ![s] = [@ EXCEPT !.stage = "claimSelected", !.job = j]]
    /\ UNCHANGED <<row, handles, festLock>>

\* The UPDATE of the selected row and the COMMIT.
ClaimUpdate(s) ==
    /\ txn[s].stage = "claimSelected"
    /\ LET j == txn[s].job
           o == txn[s].owner
       IN  /\ row' = [row EXCEPT ![j] = [row[j] EXCEPT
                                !.status = "RUNNING", !.attempts = @ + 1, !.leaseOwner = o,
                                !.leaseLeft = Ttl, !.lifeLeft = MaxLifetime, !.retryLeft = 0]]
           /\ handles' = handles \cup {[job |-> j, owner |-> o, attempts |-> row[j].attempts + 1]}
    /\ End(s)

\* The scan is exhausted: { claim: null }.
ClaimNothing(s) ==
    /\ txn[s].stage = "claiming"
    /\ txn[s].cands = {}
    /\ End(s)
    /\ UNCHANGED <<row, handles>>

\* lockPlaylistLease: wait for the festival lock ...
OpLock(s, h, k) ==
    /\ txn[s].stage = "idle"
    /\ festLock[FestivalOf[h.job]] = None
    /\ festLock' = [festLock EXCEPT ![FestivalOf[h.job]] = s]
    /\ txn' = [txn EXCEPT ![s] = [Idle EXCEPT !.stage = "opLocked", !.job = h.job,
                                    !.owner = h.owner, !.attempts = h.attempts, !.kind = k]]
    /\ UNCHANGED <<row, handles>>

\* ... then require the lease; PlaylistLeaseLostError rolls back.
OpCheck(s) ==
    /\ txn[s].stage = "opLocked"
    /\ IF HoldsLease(txn[s].job, txn[s].owner, txn[s].attempts)
         THEN txn' = [txn EXCEPT ![s].stage = "opChecked"] /\ UNCHANGED festLock
         ELSE End(s)
    /\ UNCHANGED <<row, handles>>

\* The update does not check the deadlines again.
WriteMutant(s, r) ==
    /\ txn[s].stage = "opChecked"
    /\ row' = [row EXCEPT ![txn[s].job] = r]
    /\ End(s)
    /\ UNCHANGED handles

\* The UPDATE names the job by id alone and re-checks only the two deadlines.
Write(s, r) ==
    /\ txn[s].stage = "opChecked"
    /\ IF Lapsed(row[txn[s].job]) THEN UNCHANGED row
                                  ELSE row' = [row EXCEPT ![txn[s].job] = r]
    /\ End(s)
    /\ UNCHANGED handles

Settled(r, status, delay) ==
    [r EXCEPT !.status = status, !.leaseOwner = None, !.leaseLeft = 0,
              !.lifeLeft = 0, !.retryLeft = delay]

\* renewPlaylistRefreshLease
Renew(s) ==
    /\ txn[s].kind = "renew"
    /\ Write(s, [row[txn[s].job] EXCEPT !.leaseLeft = Less(row[txn[s].job].lifeLeft, More(@, Ttl))])

\* commitPlaylistRefresh, and finishPlaylistRefresh with SUCCEEDED
Succeed(s) ==
    /\ txn[s].kind = "succeed"
    /\ Write(s, Settled(row[txn[s].job], "SUCCEEDED", 0))

\* finishPlaylistRefresh with FAILED, after an ordinary failure ("fail") or at a
\* quota or read-back checkpoint ("pause")
Fail(s) ==
    /\ txn[s].kind \in {"fail", "pause"}
    /\ Write(s, Settled(row[txn[s].job], "FAILED",
                        IF txn[s].kind = "pause" THEN RetryBase ELSE RetryDelay(txn[s].attempts)))

\* The connection is lost, the callback throws, or the process dies.
Abort(s) ==
    /\ txn[s].stage # "idle"
    /\ End(s)
    /\ UNCHANGED <<row, handles>>

Down(n) == IF n = 0 THEN 0 ELSE n - 1

Tick ==
    /\ \E j \in Jobs : row[j].leaseLeft + row[j].lifeLeft + row[j].retryLeft > 0
    /\ row' = [j \in Jobs |-> [row[j] EXCEPT !.leaseLeft = Down(@), !.lifeLeft = Down(@),
                                             !.retryLeft = Down(@)]]
    /\ UNCHANGED <<handles, festLock, txn>>

Next ==
    \/ \E j \in Jobs : Enqueue(j)
    \/ \E s \in Sessions, o \in Owners : ClaimScan(s, o)
    \/ \E s \in Sessions, h \in handles, k \in Kinds : OpLock(s, h, k)
    \/ \E s \in Sessions : \/ ClaimTry(s) \/ ClaimSelect(s) \/ ClaimUpdate(s) \/ ClaimNothing(s)
                           \/ OpCheck(s) \/ Renew(s) \/ Succeed(s) \/ Fail(s) \/ Abort(s)
    \/ Tick

Spec == Init /\ [][Next]_vars

-----------------------------------------------------------------------------
(* Properties *)

\* Every variable has its type.
TypeOK ==
    /\ row \in [Jobs -> Row]
    /\ handles \subseteq Handle
    /\ festLock \in [Festivals -> Sessions \cup {None}]
    /\ txn \in [Sessions -> Txn]

\* A festival never has two RUNNING jobs, although candidates are listed before
\* the festival lock is taken and the row is updated a statement after it was
\* selected (claimPlaylistRefresh).
OneRunningPerFestival ==
    \A j, k \in Jobs :
        row[j].status = "RUNNING" /\ row[k].status = "RUNNING" /\ FestivalOf[j] = FestivalOf[k]
            => j = k

\* (job, attempts) is a fencing token: two claims never return the same one, and
\* the row is never behind a token that was handed out.
TokensUnique ==
    /\ \A g, h \in handles : g.job = h.job /\ g.attempts = h.attempts => g = h
    /\ \A h \in handles : h.attempts <= row[h.job].attempts

\* Renewals never carry a lease past two hours from the start of its attempt,
\* and only a RUNNING row has a lease (renewPlaylistRefreshLease, finish, commit).
LeaseBounded ==
    \A j \in Jobs :
        /\ row[j].leaseLeft <= row[j].lifeLeft
        /\ row[j].leaseOwner # None <=> row[j].status = "RUNNING"

\* The write of an operation, which names its job by id alone, still lands on the
\* attempt that was checked: nothing but the clock moves between the two.
CheckedStillHeld ==
    \A s \in Sessions :
        txn[s].stage = "opChecked" =>
            /\ row[txn[s].job].status = "RUNNING"
            /\ row[txn[s].job].leaseOwner = txn[s].owner
            /\ row[txn[s].job].attempts = txn[s].attempts
            /\ NoRunningSibling(txn[s].job)

\* The UPDATE of a claim, which names its job by id alone, still finds a job that
\* may be claimed: it was selected one statement earlier.
SelectedStillClaimable ==
    \A s \in Sessions :
        txn[s].stage = "claimSelected" =>
            Claimable(row[txn[s].job]) /\ NoRunningSibling(txn[s].job)

\* Which locks a transaction holds and which of its fields are set, by stage.
LocksHeldBy(s) ==
    /\ txn[s].stage \in {"claiming", "claimLocked", "claimSelected"} => txn[s].owner \in Owners
    /\ txn[s].stage \in {"claimLocked", "claimSelected"} =>
          txn[s].festival \in Festivals /\ festLock[txn[s].festival] = s
    /\ txn[s].stage = "claimSelected" =>
          txn[s].job \in Jobs /\ FestivalOf[txn[s].job] = txn[s].festival
    /\ txn[s].stage \in {"opLocked", "opChecked"} =>
          /\ [job |-> txn[s].job, owner |-> txn[s].owner, attempts |-> txn[s].attempts] \in handles
          /\ txn[s].kind \in Kinds
          /\ festLock[FestivalOf[txn[s].job]] = s

LocksHeld == \A s \in Sessions : LocksHeldBy(s)

\* The attempt a row is RUNNING under was handed to its owner by a claim.
RunningWasClaimed ==
    \A j \in Jobs : row[j].status = "RUNNING" =>
        [job |-> j, owner |-> row[j].leaseOwner, attempts |-> row[j].attempts] \in handles

\* The inductive invariant behind the properties above.
IInv == /\ TypeOK /\ LocksHeld /\ RunningWasClaimed /\ TokensUnique /\ LeaseBounded
        /\ SelectedStillClaimable /\ CheckedStillHeld /\ OneRunningPerFestival

\* A live attempt is never taken from its holder: while the lease runs, no step
\* of anyone starts another attempt or changes the owner of the job.
AttemptKept(j) ==
    Live(row[j]) => /\ row'[j].attempts = row[j].attempts
                    /\ row'[j].leaseOwner \in {row[j].leaseOwner, None}

LiveAttemptKept == [][\A j \in Jobs : AttemptKept(j)]_vars

\* A RUNNING job is settled only before its deadlines, and only by a session that
\* presents the token of the current attempt: no stale worker ever completes or
\* fails the attempt of another (commitPlaylistRefresh, finishPlaylistRefresh).
HolderSettles(j) ==
    row[j].status = "RUNNING" /\ row'[j].status # "RUNNING" =>
        /\ ~Lapsed(row[j])
        /\ \E s \in Sessions :
              /\ txn[s].job = j /\ txn'[s].stage = "idle"
              /\ txn[s].kind \in {"succeed", "fail", "pause"}
              /\ txn[s].owner = row[j].leaseOwner
              /\ txn[s].attempts = row[j].attempts

SettledByHolder == [][\A j \in Jobs : HolderSettles(j)]_vars

\* A job that FAILED is not claimed again before its backoff has passed, and a
\* job that SUCCEEDED never is.
BackoffKept(j) ==
    /\ row[j].status = "SUCCEEDED" => row'[j] = row[j]
    /\ row[j].status = "FAILED" /\ row'[j].status # "FAILED" =>
          row[j].retryLeft = 0 /\ row'[j].status = "RUNNING"

BackoffRespected == [][\A j \in Jobs : BackoffKept(j)]_vars
-----------------------------------------------------------------------------
(* Refinement: the queue implements PlaylistExclusion *)

RunningOf(f) == {j \in Jobs : FestivalOf[j] = f /\ row[j].status = "RUNNING"}

Exclusion == INSTANCE PlaylistExclusion WITH
    NoJob <- None,
    holder <- [f \in Festivals |-> IF RunningOf(f) = {} THEN None ELSE CHOOSE j \in RunningOf(f) : TRUE],
    live <- [f \in Festivals |-> \E j \in RunningOf(f) : Live(row[j])],
    attempts <- [j \in Jobs |-> row[j].attempts],
    done <- {j \in Jobs : row[j].status = "SUCCEEDED"}

\* Read as a lock per festival, the table only ever changes as the abstract
\* exclusion allows: exclusive holds, no preemption of a live hold, a lapsed hold
\* resumed only by its own job, success irrevocable.
ImplementsExclusion == Exclusion!Spec

-----------------------------------------------------------------------------
(* Liveness *)

Step(s) == \/ ClaimTry(s) \/ ClaimSelect(s) \/ ClaimUpdate(s) \/ ClaimNothing(s)
           \/ OpCheck(s) \/ Renew(s) \/ Succeed(s) \/ Fail(s)

\* Time passes, an open transaction ends, and the worker timer keeps starting
\* scans; a claim is not cut off by a failure every single time.  Nothing is
\* assumed of the worker that holds a lease: it may renew, settle or die.
Fairness ==
    /\ WF_vars(Tick)
    /\ \A s \in Sessions :
          /\ WF_vars(Step(s) \/ Abort(s))
          /\ SF_vars(\E o \in Owners : ClaimScan(s, o))
          /\ SF_vars(ClaimTry(s)) /\ SF_vars(ClaimSelect(s)) /\ SF_vars(ClaimUpdate(s))

\* A worker whose lease is lost stops (runPlaylistWorker sets lost and aborts, and
\* its guard process fails), so a dead handle is not presented for ever.
DeadHandlesStop ==
    <>[][\A h \in handles : HoldsLease(h.job, h.owner, h.attempts) \/
            ~ \E s \in Sessions, k \in Kinds : OpLock(s, h, k)]_vars

FairSpec == Spec /\ Fairness /\ DeadHandlesStop

\* The bound on attempts strands a festival whose RUNNING job may not be claimed
\* again; the code would reclaim it.
AtBound(j) == \E k \in Jobs : /\ FestivalOf[k] = FestivalOf[j]
                              /\ row[k].status = "RUNNING" /\ row[k].attempts = MaxAttempts

\* No job holds its festival forever: a RUNNING attempt ends by its worker or is
\* reclaimed once it lapses, however often its lease is renewed (up to the bound).
AttemptEnds ==
    \A j \in Jobs : \A a \in 1..(MaxAttempts - 1) :
        row[j].status = "RUNNING" /\ row[j].attempts = a
            ~> ~(row[j].status = "RUNNING" /\ row[j].attempts = a) \/ AtBound(j)

\* No job waits forever behind another of its festival: a PENDING job is claimed,
\* whatever happens to the attempts of its siblings.
PendingIsClaimed ==
    \A j \in Jobs : row[j].status = "PENDING" ~> row[j].status # "PENDING" \/ AtBound(j)

\* Neither an attempt nor a job that waits for one stands still.
QueueMoves == AttemptEnds /\ PendingIsClaimed
=============================================================================
