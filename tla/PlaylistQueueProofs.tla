------------------------- MODULE PlaylistQueueProofs -------------------------
(***************************************************************************)
(* Proofs about PlaylistQueue for every set of festivals, jobs, owners and *)
(* sessions.  The argument: a festival's rows change only under its        *)
(* advisory lock or by the clock, so what a transaction read under the     *)
(* lock (LocksHeld) is still true when it writes (SelectedStillClaimable,  *)
(* CheckedStillHeld); a claim therefore adds a RUNNING row only where none *)
(* is (OneRunningPerFestival).  The last part shows the refinement.        *)
(***************************************************************************)
EXTENDS PlaylistQueue, FiniteSetTheorems, TLAPS

USE QueueAssumption

LEMMA LessMore ==
    ASSUME NEW m \in Nat, NEW n \in Nat
    PROVE  /\ Less(m, n) \in Nat /\ Less(m, n) <= m /\ Less(m, n) <= n
           /\ More(m, n) \in Nat /\ m <= More(m, n) /\ n <= More(m, n)
  BY DEF Less, More

\* The backoff of a failure is a number of ticks, whatever the attempt.
LEMMA RetryDelayType ==
    ASSUME NEW a \in Nat
    PROVE  RetryDelay(a) \in Nat /\ RetryDelay(a) <= RetryCap
<1> DEFINE i == Less(12, More(1, a))
<1>1. i \in 1..12
  BY DEF Less, More
<1>2. Doubling[i] \in Nat
  BY <1>1 DEF Doubling
<1>3. RetryBase * Doubling[i] \in Nat
  BY <1>2
<1> HIDE DEF i
<1>4. RetryDelay(a) = Less(RetryCap, RetryBase * Doubling[i])
  BY DEF RetryDelay, i
<1> QED BY <1>3, <1>4, LessMore

-----------------------------------------------------------------------------
\* The inductive invariant holds initially.
LEMMA InitInv == Init => IInv
<1> SUFFICES ASSUME Init PROVE IInv
  OBVIOUS
<1>1. TypeOK
  BY DEF Init, TypeOK, AbsentRow, Idle, Row, Txn, Statuses, Stages
<1>2. LocksHeld /\ SelectedStillClaimable /\ CheckedStillHeld
  BY DEF Init, Idle, LocksHeld, LocksHeldBy, SelectedStillClaimable, CheckedStillHeld
<1>3. RunningWasClaimed /\ TokensUnique /\ LeaseBounded /\ OneRunningPerFestival
  BY DEF Init, AbsentRow, RunningWasClaimed, TokensUnique, LeaseBounded, OneRunningPerFestival
<1> QED BY <1>1, <1>2, <1>3 DEF IInv

\* Facts about the table alone survive every step that leaves the table alone.
LEMMA TableKept ==
    ASSUME IInv, UNCHANGED <<row, handles>>
    PROVE  RunningWasClaimed' /\ TokensUnique' /\ LeaseBounded' /\ OneRunningPerFestival'
  BY DEF IInv, RunningWasClaimed, TokensUnique, LeaseBounded, OneRunningPerFestival

\* The end of a transaction disturbs no other transaction.
LEMMA EndKeeps ==
    ASSUME TypeOK, LocksHeld, NEW s \in Sessions, End(s), handles \subseteq handles'
    PROVE  /\ txn' \in [Sessions -> Txn]
           /\ festLock' \in [Festivals -> Sessions \cup {None}]
           /\ LocksHeld'
           /\ txn'[s].stage = "idle"
           /\ \A t \in Sessions \ {s} : txn'[t] = txn[t]
<1>1. txn' \in [Sessions -> Txn] /\ txn'[s] = Idle /\ \A t \in Sessions \ {s} : txn'[t] = txn[t]
  BY DEF TypeOK, End, Idle, Txn, Stages
<1>2. festLock' \in [Festivals -> Sessions \cup {None}]
  BY DEF TypeOK, End
<1>3. \A f \in Festivals : \A t \in Sessions \ {s} : festLock[f] = t => festLock'[f] = t
  BY DEF TypeOK, End
<1>4. \A h \in handles : FestivalOf[h.job] \in Festivals
  BY DEF TypeOK, Handle
<1>5. LocksHeld'
  <2> SUFFICES ASSUME NEW t \in Sessions PROVE LocksHeldBy(t)'
    BY DEF LocksHeld
  <2>1. CASE t = s
    BY <1>1, <2>1 DEF LocksHeldBy, Idle
  <2>2. CASE t # s
    BY <1>1, <1>3, <1>4, <2>2 DEF LocksHeld, LocksHeldBy, TypeOK, Handle
  <2> QED BY <2>1, <2>2
<1> QED BY <1>1, <1>2, <1>5 DEF Idle

-----------------------------------------------------------------------------
\* A step of one session that leaves the table alone preserves the invariant if
\* it takes no lock from another session and its own new stage is justified.
LEMMA SessionMoves ==
    ASSUME IInv, NEW s \in Sessions, UNCHANGED <<row, handles>>,
           txn' \in [Sessions -> Txn],
           \A t \in Sessions \ {s} : txn'[t] = txn[t],
           festLock' \in [Festivals -> Sessions \cup {None}],
           \A f \in Festivals : \A t \in Sessions \ {s} : festLock[f] = t => festLock'[f] = t,
           LocksHeldBy(s)',
           txn'[s].stage = "claimSelected" =>
              Claimable(row[txn'[s].job]) /\ NoRunningSibling(txn'[s].job),
           txn'[s].stage = "opChecked" =>
              HoldsLease(txn'[s].job, txn'[s].owner, txn'[s].attempts)
    PROVE  IInv'
<1>1. TypeOK'
  BY DEF IInv, TypeOK
<1>2. LocksHeld'
  <2> SUFFICES ASSUME NEW t \in Sessions, t # s PROVE LocksHeldBy(t)'
    BY DEF LocksHeld
  <2>1. LocksHeldBy(t) /\ txn'[t] = txn[t]
    BY DEF IInv, LocksHeld
  <2>2. \A h \in handles : FestivalOf[h.job] \in Festivals
    BY DEF IInv, TypeOK, Handle
  <2> QED BY <2>1, <2>2 DEF LocksHeldBy
<1>3. SelectedStillClaimable'
  <2> SUFFICES ASSUME NEW t \in Sessions, txn'[t].stage = "claimSelected"
               PROVE  Claimable(row[txn'[t].job]) /\ NoRunningSibling(txn'[t].job)
    BY DEF SelectedStillClaimable, NoRunningSibling
  <2>1. CASE t = s
    BY <2>1
  <2>2. CASE t # s
    BY <2>2 DEF IInv, SelectedStillClaimable
  <2> QED BY <2>1, <2>2
<1>4. CheckedStillHeld'
  <2> SUFFICES ASSUME NEW t \in Sessions, txn'[t].stage = "opChecked"
               PROVE  /\ row[txn'[t].job].status = "RUNNING"
                      /\ row[txn'[t].job].leaseOwner = txn'[t].owner
                      /\ row[txn'[t].job].attempts = txn'[t].attempts
                      /\ NoRunningSibling(txn'[t].job)
    BY DEF CheckedStillHeld, NoRunningSibling
  <2>1. CASE t = s
    BY <2>1 DEF HoldsLease, Live
  <2>2. CASE t # s
    BY <2>2 DEF IInv, CheckedStillHeld
  <2> QED BY <2>1, <2>2
<1> QED BY <1>1, <1>2, <1>3, <1>4, TableKept DEF IInv

\* A transaction that ends without a write preserves the invariant.
LEMMA EndInv ==
    ASSUME IInv, NEW s \in Sessions, End(s), UNCHANGED <<row, handles>>
    PROVE  IInv'
<1>1. TypeOK /\ LocksHeld
  BY DEF IInv
<1>2. \A f \in Festivals : \A t \in Sessions \ {s} : festLock[f] = t => festLock'[f] = t
  BY DEF End
<1>3. /\ txn' \in [Sessions -> Txn] /\ txn'[s].stage = "idle" /\ LocksHeld'
      /\ festLock' \in [Festivals -> Sessions \cup {None}]
      /\ \A t \in Sessions \ {s} : txn'[t] = txn[t]
  BY <1>1, EndKeeps
<1>4. LocksHeldBy(s)'
  BY <1>3 DEF LocksHeld
<1> QED BY <1>2, <1>3, <1>4, SessionMoves

\* The write of a session reaches only a job of a festival it has locked, so the
\* selections and checks of the other sessions stand.
LEMMA LockedWrite ==
    ASSUME IInv, NEW s \in Sessions, NEW j \in Jobs, NEW r \in Row,
           festLock[FestivalOf[j]] = s,
           row' = [row EXCEPT ![j] = r], End(s),
           handles \subseteq handles', handles' \subseteq Handle
    PROVE  TypeOK' /\ LocksHeld' /\ SelectedStillClaimable' /\ CheckedStillHeld'
<1>1. /\ txn' \in [Sessions -> Txn] /\ txn'[s].stage = "idle" /\ LocksHeld'
      /\ festLock' \in [Festivals -> Sessions \cup {None}]
      /\ \A t \in Sessions \ {s} : txn'[t] = txn[t]
  BY EndKeeps DEF IInv
<1>2. TypeOK'
  BY <1>1 DEF IInv, TypeOK
<1>3. ASSUME NEW t \in Sessions \ {s}, txn[t].stage \in {"claimSelected", "opChecked"}
      PROVE  /\ row'[txn[t].job] = row[txn[t].job]
             /\ NoRunningSibling(txn[t].job) => NoRunningSibling(txn[t].job)'
  <2>1. LocksHeldBy(t)
    BY DEF IInv, LocksHeld
  <2>2. txn[t].job \in Jobs /\ festLock[FestivalOf[txn[t].job]] = t
    BY <1>3, <2>1 DEF LocksHeldBy, IInv, TypeOK, Handle
  <2>3. FestivalOf[txn[t].job] # FestivalOf[j]
    BY <2>2
  <2> QED BY <1>1, <2>2, <2>3 DEF NoRunningSibling, IInv, TypeOK
<1>4. SelectedStillClaimable'
  BY <1>1, <1>3 DEF IInv, SelectedStillClaimable, Claimable, Lapsed
<1>5. CheckedStillHeld'
  BY <1>1, <1>3 DEF IInv, CheckedStillHeld
<1> QED BY <1>1, <1>2, <1>4, <1>5

-----------------------------------------------------------------------------
\* One lemma per operation.

LEMMA EnqueueInv == ASSUME IInv, NEW j \in Jobs, Enqueue(j) PROVE IInv'
<1>1. /\ row \in [Jobs -> Row] /\ row[j].status = "ABSENT"
      /\ UNCHANGED <<handles, festLock, txn>>
  BY DEF Enqueue, IInv, TypeOK
<1>2. 1 + Cardinality({k \in Jobs : row[k].status # "ABSENT"}) \in Nat
  BY FS_Subset, FS_CardinalityType
<1> DEFINE n == 1 + Cardinality({k \in Jobs : row[k].status # "ABSENT"})
           r == [row[j] EXCEPT !.status = "PENDING", !.requestedAt = n]
<1>3. /\ row' = [row EXCEPT ![j] = r] /\ r \in Row
      /\ r.status = "PENDING" /\ r.attempts = row[j].attempts /\ r.leaseLeft = row[j].leaseLeft
      /\ r.lifeLeft = row[j].lifeLeft /\ r.leaseOwner = row[j].leaseOwner
  BY <1>1, <1>2 DEF Enqueue, Row, Statuses
<1> HIDE DEF n, r
<1>4. TypeOK'
  BY <1>1, <1>3 DEF IInv, TypeOK
<1>5. LocksHeld'
  BY <1>1 DEF IInv, LocksHeld, LocksHeldBy
<1>6. \A k \in Jobs : NoRunningSibling(k) => NoRunningSibling(k)'
  BY <1>1, <1>3 DEF NoRunningSibling
<1>7. SelectedStillClaimable'
  <2> SUFFICES ASSUME NEW s \in Sessions, txn[s].stage = "claimSelected"
               PROVE  Claimable(row'[txn[s].job]) /\ NoRunningSibling(txn[s].job)'
    BY <1>1 DEF SelectedStillClaimable
  <2>1. Claimable(row[txn[s].job]) /\ NoRunningSibling(txn[s].job) /\ txn[s].job \in Jobs
    BY DEF IInv, SelectedStillClaimable, LocksHeld, LocksHeldBy
  <2>2. txn[s].job # j
    BY <1>1, <2>1 DEF Claimable
  <2> QED BY <1>1, <1>3, <1>6, <2>1, <2>2 DEF NoRunningSibling
<1>8. CheckedStillHeld'
  <2> SUFFICES ASSUME NEW s \in Sessions, txn[s].stage = "opChecked"
               PROVE  /\ row'[txn[s].job] = row[txn[s].job]
                      /\ NoRunningSibling(txn[s].job)'
    BY <1>1 DEF IInv, CheckedStillHeld
  <2>1. row[txn[s].job].status = "RUNNING" /\ NoRunningSibling(txn[s].job)
    BY DEF IInv, CheckedStillHeld
  <2>2. txn[s].job \in Jobs
    BY DEF IInv, LocksHeld, LocksHeldBy, TypeOK, Handle
  <2> QED BY <1>1, <1>3, <1>6, <2>1, <2>2 DEF NoRunningSibling
<1>9. RunningWasClaimed' /\ OneRunningPerFestival'
  BY <1>1, <1>3 DEF IInv, RunningWasClaimed, OneRunningPerFestival
<1>10. TokensUnique' /\ LeaseBounded'
  BY <1>1, <1>3 DEF IInv, TokensUnique, LeaseBounded, TypeOK, Handle
<1> QED BY <1>4, <1>5, <1>7, <1>8, <1>9, <1>10 DEF IInv

LEMMA ClaimScanInv == ASSUME IInv, NEW s \in Sessions, NEW o \in Owners, ClaimScan(s, o) PROVE IInv'
<1> DEFINE cs == {c \in {[festival |-> FestivalOf[j], at |-> row[j].requestedAt] : j \in Jobs} :
                     \E j \in Oldest(EligibleOf(c.festival)) : c.at = row[j].requestedAt}
<1>1. cs \in SUBSET Candidate
  BY DEF IInv, TypeOK, Row, Candidate
<1>2. /\ txn' = [txn EXCEPT ![s] = [Idle EXCEPT !.stage = "claiming", !.owner = o, !.cands = cs]]
      /\ UNCHANGED <<row, handles, festLock>>
  BY DEF ClaimScan
<1> HIDE DEF cs
<1>3. /\ txn' \in [Sessions -> Txn] /\ txn'[s].stage = "claiming" /\ txn'[s].owner = o
      /\ \A t \in Sessions \ {s} : txn'[t] = txn[t]
  BY <1>1, <1>2 DEF IInv, TypeOK, Txn, Idle, Stages
<1>4. LocksHeldBy(s)'
  BY <1>3 DEF LocksHeldBy
<1> QED BY <1>2, <1>3, <1>4, SessionMoves DEF IInv, TypeOK

LEMMA ClaimTryInv == ASSUME IInv, NEW s \in Sessions, ClaimTry(s) PROVE IInv'
<1>1. PICK c \in txn[s].cands :
         \/ /\ festLock[c.festival] = None
            /\ festLock' = [festLock EXCEPT ![c.festival] = s]
            /\ txn' = [txn EXCEPT ![s].stage = "claimLocked", ![s].festival = c.festival,
                                  ![s].cands = @ \ {c}]
         \/ /\ festLock[c.festival] # None
            /\ txn' = [txn EXCEPT ![s].cands = @ \ {c}]
            /\ UNCHANGED festLock
  BY DEF ClaimTry
<1>2. c \in Candidate /\ c.festival \in Festivals
  BY DEF IInv, TypeOK, Txn, Candidate
<1>3. txn[s].stage = "claiming" /\ UNCHANGED <<row, handles>> /\ txn[s].owner \in Owners
  BY DEF ClaimTry, IInv, LocksHeld, LocksHeldBy
<1>4. /\ txn' \in [Sessions -> Txn] /\ \A t \in Sessions \ {s} : txn'[t] = txn[t]
      /\ festLock' \in [Festivals -> Sessions \cup {None}]
      /\ \A f \in Festivals : \A t \in Sessions \ {s} : festLock[f] = t => festLock'[f] = t
  BY <1>1, <1>2, <1>3 DEF IInv, TypeOK, Txn, Stages
<1>5. txn'[s].stage \in {"claiming", "claimLocked"} /\ LocksHeldBy(s)'
  BY <1>1, <1>2, <1>3 DEF IInv, TypeOK, Txn, LocksHeldBy
<1> QED BY <1>3, <1>4, <1>5, SessionMoves

LEMMA ClaimSelectInv == ASSUME IInv, NEW s \in Sessions, ClaimSelect(s) PROVE IInv'
<1>1. /\ txn[s].stage = "claimLocked" /\ UNCHANGED <<row, handles, festLock>>
      /\ LocksHeldBy(s) /\ txn \in [Sessions -> Txn]
  BY DEF ClaimSelect, IInv, LocksHeld, TypeOK
<1>2. CASE txn' = [txn EXCEPT ![s] = [@ EXCEPT !.stage = "claiming", !.festival = None]]
  <2>1. /\ txn' \in [Sessions -> Txn] /\ \A t \in Sessions \ {s} : txn'[t] = txn[t]
        /\ txn'[s].stage = "claiming" /\ txn'[s].owner = txn[s].owner
    <3>1. [txn[s] EXCEPT !.stage = "claiming", !.festival = None] \in Txn
      BY <1>1 DEF Txn, Stages
    <3> QED BY <1>1, <1>2, <3>1 DEF Txn
  <2>2. LocksHeldBy(s)'
    BY <1>1, <2>1 DEF LocksHeldBy
  <2> QED BY <1>1, <2>1, <2>2, SessionMoves DEF IInv, TypeOK
<1>3. ASSUME NEW j \in Oldest(EligibleOf(txn[s].festival)),
             txn' = [txn EXCEPT ![s] = [@ EXCEPT !.stage = "claimSelected", !.job = j]]
      PROVE  IInv'
  <2>1. j \in Jobs /\ FestivalOf[j] = txn[s].festival /\ Claimable(row[j]) /\ NoRunningSibling(j)
    BY DEF Oldest, EligibleOf, Eligible
  <2>2. /\ txn' \in [Sessions -> Txn] /\ \A t \in Sessions \ {s} : txn'[t] = txn[t]
        /\ txn'[s].stage = "claimSelected" /\ txn'[s].owner = txn[s].owner
        /\ txn'[s].job = j /\ txn'[s].festival = txn[s].festival
    <3>1. [txn[s] EXCEPT !.stage = "claimSelected", !.job = j] \in Txn
      BY <1>1, <2>1 DEF Txn, Stages
    <3> QED BY <1>1, <1>3, <3>1 DEF Txn
  <2>3. LocksHeldBy(s)'
    BY <1>1, <2>1, <2>2 DEF LocksHeldBy
  <2> QED BY <1>1, <2>1, <2>2, <2>3, SessionMoves DEF IInv, TypeOK
<1> QED BY <1>2, <1>3 DEF ClaimSelect

LEMMA OpLockInv ==
    ASSUME IInv, NEW s \in Sessions, NEW h \in handles, NEW k \in Kinds, OpLock(s, h, k)
    PROVE  IInv'
<1>1. h \in Handle /\ FestivalOf[h.job] \in Festivals
  BY DEF IInv, TypeOK, Handle
<1>2. /\ festLock[FestivalOf[h.job]] = None
      /\ festLock' = [festLock EXCEPT ![FestivalOf[h.job]] = s]
      /\ txn' = [txn EXCEPT ![s] = [Idle EXCEPT !.stage = "opLocked", !.job = h.job,
                                      !.owner = h.owner, !.attempts = h.attempts, !.kind = k]]
      /\ UNCHANGED <<row, handles>>
  BY DEF OpLock
<1>3. /\ txn' \in [Sessions -> Txn] /\ \A t \in Sessions \ {s} : txn'[t] = txn[t]
      /\ txn'[s].stage = "opLocked" /\ txn'[s].job = h.job /\ txn'[s].owner = h.owner
      /\ txn'[s].attempts = h.attempts /\ txn'[s].kind = k
  BY <1>1, <1>2 DEF IInv, TypeOK, Txn, Idle, Handle, Stages
<1>4. /\ festLock' \in [Festivals -> Sessions \cup {None}] /\ festLock'[FestivalOf[h.job]] = s
      /\ \A f \in Festivals : \A t \in Sessions \ {s} : festLock[f] = t => festLock'[f] = t
  BY <1>1, <1>2 DEF IInv, TypeOK
<1>5. h = [job |-> h.job, owner |-> h.owner, attempts |-> h.attempts]
  BY <1>1 DEF Handle
<1>6. LocksHeldBy(s)'
  BY <1>2, <1>3, <1>4, <1>5 DEF LocksHeldBy
<1> QED BY <1>2, <1>3, <1>4, <1>6, SessionMoves

LEMMA OpCheckInv == ASSUME IInv, NEW s \in Sessions, OpCheck(s) PROVE IInv'
<1>1. CASE ~HoldsLease(txn[s].job, txn[s].owner, txn[s].attempts)
  BY <1>1, EndInv DEF OpCheck
<1>2. CASE HoldsLease(txn[s].job, txn[s].owner, txn[s].attempts)
  <2>1. /\ txn[s].stage = "opLocked" /\ UNCHANGED <<row, handles, festLock>>
        /\ txn' = [txn EXCEPT ![s].stage = "opChecked"]
        /\ LocksHeldBy(s) /\ txn \in [Sessions -> Txn]
    BY <1>2 DEF OpCheck, IInv, LocksHeld, TypeOK
  <2>2. /\ txn' \in [Sessions -> Txn] /\ \A t \in Sessions \ {s} : txn'[t] = txn[t]
        /\ txn'[s].stage = "opChecked" /\ txn'[s].job = txn[s].job
        /\ txn'[s].owner = txn[s].owner /\ txn'[s].attempts = txn[s].attempts
        /\ txn'[s].kind = txn[s].kind
    BY <2>1 DEF Txn, Stages
  <2>3. LocksHeldBy(s)'
    BY <2>1, <2>2 DEF LocksHeldBy
  <2> QED BY <1>2, <2>1, <2>2, <2>3, SessionMoves DEF IInv, TypeOK
<1> QED BY <1>1, <1>2

\* The update of a claim: the festival has no other RUNNING job, so it may have
\* this one, and the token is new because it is larger than any of the job's.
LEMMA ClaimUpdateInv == ASSUME IInv, NEW s \in Sessions, ClaimUpdate(s) PROVE IInv'
<1> DEFINE j == txn[s].job
           o == txn[s].owner
           r == [row[j] EXCEPT !.status = "RUNNING", !.attempts = @ + 1, !.leaseOwner = o,
                               !.leaseLeft = Ttl, !.lifeLeft = MaxLifetime, !.retryLeft = 0]
           g == [job |-> j, owner |-> o, attempts |-> row[j].attempts + 1]
<1>1. /\ txn[s].stage = "claimSelected" /\ row' = [row EXCEPT ![j] = r]
      /\ handles' = handles \cup {g} /\ End(s)
  BY Zenon DEF ClaimUpdate
<1>2. j \in Jobs /\ o \in Owners /\ festLock[FestivalOf[j]] = s /\ row[j] \in Row
  BY <1>1 DEF IInv, LocksHeld, LocksHeldBy, TypeOK
<1>3. NoRunningSibling(j)
  BY <1>1 DEF IInv, SelectedStillClaimable
<1>4. /\ r \in Row /\ r.status = "RUNNING" /\ r.leaseOwner = o /\ o # None
      /\ r.attempts = row[j].attempts + 1 /\ r.leaseLeft <= r.lifeLeft
  <2> HIDE DEF j, o
  <2>1. row[j].attempts + 1 \in Nat /\ o # None
    BY <1>2 DEF Row
  <2>2. r \in Row
    BY <1>2, <2>1 DEF Row, Statuses
  <2> QED BY <1>2, <2>1, <2>2 DEF Row
<1>5. /\ g \in Handle /\ g.job = j /\ g.attempts = r.attempts
      /\ g = [job |-> j, owner |-> r.leaseOwner, attempts |-> r.attempts]
  BY <1>2, <1>4 DEF Handle, Row
<1>6. row[j].attempts \in Nat
  BY <1>2 DEF Row
<1> HIDE DEF j, o, r, g
<1>7. TypeOK' /\ LocksHeld' /\ SelectedStillClaimable' /\ CheckedStillHeld'
  BY <1>1, <1>2, <1>4, <1>5, LockedWrite DEF IInv, TypeOK
<1>8. RunningWasClaimed'
  BY <1>1, <1>4, <1>5, <1>2 DEF IInv, RunningWasClaimed, TypeOK
<1>9. TokensUnique'
  BY <1>1, <1>2, <1>4, <1>5, <1>6 DEF IInv, TokensUnique, TypeOK, Handle
<1>10. LeaseBounded'
  BY <1>1, <1>2, <1>4 DEF IInv, LeaseBounded, TypeOK
<1>11. OneRunningPerFestival'
  BY <1>1, <1>2, <1>3, <1>4 DEF IInv, OneRunningPerFestival, NoRunningSibling, TypeOK
<1> QED BY <1>7, <1>8, <1>9, <1>10, <1>11 DEF IInv

\* An operation writes a row that keeps the attempt, and keeps the holder exactly
\* if it keeps the job RUNNING.
LEMMA WriteInv ==
    ASSUME IInv, NEW s \in Sessions, NEW r \in Row, Write(s, r),
           r.attempts = row[txn[s].job].attempts,
           r.leaseLeft <= r.lifeLeft,
           \/ r.status = "RUNNING" /\ r.leaseOwner = row[txn[s].job].leaseOwner
           \/ r.status # "RUNNING" /\ r.leaseOwner = None
    PROVE  IInv'
<1> DEFINE j == txn[s].job
<1>1. txn[s].stage = "opChecked" /\ End(s) /\ UNCHANGED handles
  BY DEF Write
<1>2. /\ j \in Jobs /\ festLock[FestivalOf[j]] = s
      /\ row[j].status = "RUNNING" /\ NoRunningSibling(j)
  BY <1>1 DEF IInv, LocksHeld, LocksHeldBy, TypeOK, Handle, CheckedStillHeld
<1>3. CASE UNCHANGED row
  BY <1>1, <1>3, EndInv
<1>4. CASE row' = [row EXCEPT ![j] = r]
  <2> HIDE DEF j
  <2>1. TypeOK' /\ LocksHeld' /\ SelectedStillClaimable' /\ CheckedStillHeld'
    BY <1>1, <1>2, <1>4, LockedWrite DEF IInv, TypeOK
  <2>2. row[j].leaseOwner # None /\ r.attempts = row[j].attempts
    BY <1>2 DEF IInv, LeaseBounded, j
  <2>3. \/ r.status = "RUNNING" /\ r.leaseOwner = row[j].leaseOwner
        \/ r.status # "RUNNING" /\ r.leaseOwner = None
    BY DEF j
  <2>4. RunningWasClaimed' /\ OneRunningPerFestival'
    BY <1>1, <1>2, <1>4, <2>2, <2>3 DEF IInv, RunningWasClaimed, OneRunningPerFestival, TypeOK
  <2>5. TokensUnique'
    BY <1>1, <1>4, <2>2 DEF IInv, TokensUnique, TypeOK, Handle
  <2>6. LeaseBounded'
    BY <1>2, <1>4, <2>2, <2>3 DEF IInv, LeaseBounded, TypeOK
  <2> QED BY <2>1, <2>4, <2>5, <2>6 DEF IInv
<1> QED BY <1>3, <1>4 DEF Write

\* The row an operation starts from, and what LocksHeld says of its transaction.
LEMMA CheckedRow ==
    ASSUME IInv, NEW s \in Sessions, txn[s].stage = "opChecked"
    PROVE  /\ txn[s].job \in Jobs /\ row[txn[s].job] \in Row
           /\ row[txn[s].job].status = "RUNNING" /\ txn[s].attempts \in Nat
           /\ row[txn[s].job].leaseLeft <= row[txn[s].job].lifeLeft
<1>1. txn[s].job \in Jobs /\ txn[s].attempts \in Nat
  BY DEF IInv, LocksHeld, LocksHeldBy, TypeOK, Handle, Txn
<1> QED BY <1>1 DEF IInv, TypeOK, CheckedStillHeld, LeaseBounded

LEMMA RenewInv == ASSUME IInv, NEW s \in Sessions, Renew(s) PROVE IInv'
<1> DEFINE q == row[txn[s].job]
           n == Less(q.lifeLeft, More(q.leaseLeft, Ttl))
           r == [q EXCEPT !.leaseLeft = n]
<1>1. Write(s, r) /\ txn[s].stage = "opChecked"
  BY DEF Renew, Write
<1>2. q \in Row /\ q.status = "RUNNING"
  BY <1>1, CheckedRow
<1>3. q.lifeLeft \in Nat /\ q.leaseLeft \in Nat /\ Ttl \in Nat
  BY <1>2 DEF Row
<1> HIDE DEF q
<1>4. n \in Nat /\ n <= q.lifeLeft
  BY <1>3, LessMore
<1> HIDE DEF n
<1>5. r \in Row /\ r.attempts = q.attempts /\ r.leaseLeft <= r.lifeLeft
      /\ r.status = "RUNNING" /\ r.leaseOwner = q.leaseOwner
  BY <1>2, <1>4 DEF Row
<1> QED BY <1>1, <1>5, WriteInv DEF q

\* Settling a row ends its attempt and its lease.
LEMMA SettledRow ==
    ASSUME NEW q \in Row, NEW status \in {"SUCCEEDED", "FAILED"}, NEW delay \in Nat
    PROVE  LET r == Settled(q, status, delay)
           IN  /\ r \in Row /\ r.attempts = q.attempts /\ r.leaseLeft <= r.lifeLeft
               /\ r.status # "RUNNING" /\ r.leaseOwner = None
<1>1. Settled(q, status, delay) = [q EXCEPT !.status = status, !.leaseOwner = None,
                      !.leaseLeft = 0, !.lifeLeft = 0, !.retryLeft = delay]
  BY Zenon DEF Settled
<1>2. status \in Statuses /\ status # "RUNNING"
  BY DEF Statuses
<1> DEFINE r == Settled(q, status, delay)
<1>3. r \in Row
  <2>1. [q EXCEPT !.status = status, !.leaseOwner = None, !.leaseLeft = 0, !.lifeLeft = 0,
                  !.retryLeft = delay] \in Row
    BY <1>2, delay \in Nat DEF Row
  <2> QED BY <1>1, <2>1
<1>4. /\ r.attempts = q.attempts /\ r.leaseLeft = 0 /\ r.lifeLeft = 0
      /\ r.status = status /\ r.leaseOwner = None
  BY <1>1 DEF Row
<1> HIDE DEF r
<1>5. r.leaseLeft <= r.lifeLeft
  BY <1>4
<1> QED BY <1>2, <1>3, <1>4, <1>5 DEF r

LEMMA SucceedInv == ASSUME IInv, NEW s \in Sessions, Succeed(s) PROVE IInv'
<1>1. /\ Write(s, Settled(row[txn[s].job], "SUCCEEDED", 0))
      /\ txn[s].stage = "opChecked" /\ row[txn[s].job] \in Row
  BY CheckedRow DEF Succeed, Write
<1> QED BY <1>1, SettledRow, WriteInv

LEMMA FailInv == ASSUME IInv, NEW s \in Sessions, Fail(s) PROVE IInv'
<1> DEFINE d == IF txn[s].kind = "pause" THEN RetryBase ELSE RetryDelay(txn[s].attempts)
<1>1. /\ Write(s, Settled(row[txn[s].job], "FAILED", d))
      /\ txn[s].stage = "opChecked" /\ row[txn[s].job] \in Row /\ txn[s].attempts \in Nat
  BY CheckedRow DEF Fail, Write
<1>2. d \in Nat
  BY <1>1, RetryDelayType
<1> QED BY <1>1, <1>2, SettledRow, WriteInv

\* Time only shortens what is left, so it lets a job be claimed but never makes a
\* claimable one unclaimable.
LEMMA TickInv == ASSUME IInv, Tick PROVE IInv'
<1>1. /\ UNCHANGED <<handles, festLock, txn>> /\ row \in [Jobs -> Row]
      /\ row' = [j \in Jobs |-> [row[j] EXCEPT !.leaseLeft = Down(@), !.lifeLeft = Down(@),
                                               !.retryLeft = Down(@)]]
  BY DEF Tick, IInv, TypeOK
<1>2. \A n \in Nat : Down(n) \in Nat /\ (n = 0 => Down(n) = 0)
  BY DEF Down
<1>3. ASSUME NEW j \in Jobs
      PROVE  /\ row'[j] \in Row
             /\ row'[j].status = row[j].status /\ row'[j].leaseOwner = row[j].leaseOwner
             /\ row'[j].attempts = row[j].attempts
             /\ Claimable(row[j]) => Claimable(row'[j])
             /\ row[j].leaseLeft <= row[j].lifeLeft => row'[j].leaseLeft <= row'[j].lifeLeft
  <2>1. /\ row[j] \in Row /\ row'[j] = [row[j] EXCEPT !.leaseLeft = Down(@), !.lifeLeft = Down(@),
                                               !.retryLeft = Down(@)]
    BY <1>1
  <2>2. /\ row'[j] \in Row /\ row'[j].status = row[j].status
        /\ row'[j].leaseOwner = row[j].leaseOwner /\ row'[j].attempts = row[j].attempts
    BY <1>2, <2>1 DEF Row
  <2>3. Claimable(row[j]) => Claimable(row'[j])
    BY <1>2, <2>1 DEF Row, Claimable, Lapsed
  <2>4. row[j].leaseLeft <= row[j].lifeLeft => row'[j].leaseLeft <= row'[j].lifeLeft
    BY <2>1 DEF Row, Down
  <2> QED BY <2>2, <2>3, <2>4
<1>4. row' \in [Jobs -> Row]
  BY <1>1, <1>3
<1>5. TypeOK' /\ LocksHeld'
  BY <1>1, <1>4 DEF IInv, TypeOK, LocksHeld, LocksHeldBy
<1>6. \A j \in Jobs : NoRunningSibling(j) => NoRunningSibling(j)'
  BY <1>3 DEF NoRunningSibling
<1>7. \A s \in Sessions : txn[s].stage \in {"claimSelected", "opChecked"} => txn[s].job \in Jobs
  BY DEF IInv, LocksHeld, LocksHeldBy, TypeOK, Handle
<1>8. SelectedStillClaimable'
  <2> SUFFICES ASSUME NEW s \in Sessions, txn[s].stage = "claimSelected"
               PROVE  Claimable(row'[txn[s].job]) /\ NoRunningSibling(txn[s].job)'
    BY <1>1 DEF SelectedStillClaimable
  <2>1. txn[s].job \in Jobs /\ Claimable(row[txn[s].job]) /\ NoRunningSibling(txn[s].job)
    BY <1>7 DEF IInv, SelectedStillClaimable
  <2>2. \A k \in Jobs \ {txn[s].job} : FestivalOf[k] = FestivalOf[txn[s].job] => row'[k].status # "RUNNING"
    BY <1>3, <2>1 DEF NoRunningSibling
  <2> QED BY <1>1, <1>3, <2>1, <2>2 DEF NoRunningSibling
<1>9. CheckedStillHeld'
  <2> SUFFICES ASSUME NEW s \in Sessions, txn[s].stage = "opChecked"
               PROVE  /\ row'[txn[s].job].status = row[txn[s].job].status
                      /\ row'[txn[s].job].leaseOwner = row[txn[s].job].leaseOwner
                      /\ row'[txn[s].job].attempts = row[txn[s].job].attempts
                      /\ NoRunningSibling(txn[s].job)'
    BY <1>1 DEF IInv, CheckedStillHeld
  <2>1. txn[s].job \in Jobs /\ NoRunningSibling(txn[s].job)
    BY <1>7 DEF IInv, CheckedStillHeld
  <2>2. \A k \in Jobs \ {txn[s].job} : FestivalOf[k] = FestivalOf[txn[s].job] => row'[k].status # "RUNNING"
    BY <1>3, <2>1 DEF NoRunningSibling
  <2> QED BY <1>1, <1>3, <2>1, <2>2 DEF NoRunningSibling
<1>10. RunningWasClaimed' /\ OneRunningPerFestival'
  <2>1. handles' = handles
    BY <1>1
  <2>2. RunningWasClaimed'
    BY <1>3, <2>1 DEF IInv, RunningWasClaimed
  <2>3. OneRunningPerFestival'
    BY <1>3 DEF IInv, OneRunningPerFestival
  <2> QED BY <2>2, <2>3
<1>11. LeaseBounded'
  BY <1>1, <1>3 DEF IInv, LeaseBounded
<1>12. TokensUnique'
  BY <1>1, <1>3 DEF IInv, TokensUnique, TypeOK, Handle
<1> QED BY <1>5, <1>8, <1>9, <1>10, <1>11, <1>12 DEF IInv

LEMMA NextInv == IInv /\ [Next]_vars => IInv'
<1> SUFFICES ASSUME IInv, [Next]_vars PROVE IInv'
  OBVIOUS
<1>1. CASE \E j \in Jobs : Enqueue(j)
  BY <1>1, EnqueueInv
<1>2. CASE \E s \in Sessions, o \in Owners : ClaimScan(s, o)
  BY <1>2, ClaimScanInv
<1>3. CASE \E s \in Sessions, h \in handles, k \in Kinds : OpLock(s, h, k)
  BY <1>3, OpLockInv
<1>4. ASSUME NEW s \in Sessions,
             \/ ClaimTry(s) \/ ClaimSelect(s) \/ ClaimUpdate(s) \/ ClaimNothing(s)
             \/ OpCheck(s) \/ Renew(s) \/ Succeed(s) \/ Fail(s) \/ Abort(s)
      PROVE  IInv'
  <2>1. CASE ClaimNothing(s) \/ Abort(s)
    BY <2>1, EndInv DEF ClaimNothing, Abort
  <2>2. CASE ClaimTry(s) \/ ClaimSelect(s) \/ ClaimUpdate(s) \/ OpCheck(s)
    BY <2>2, ClaimTryInv, ClaimSelectInv, ClaimUpdateInv, OpCheckInv
  <2>3. CASE Renew(s) \/ Succeed(s) \/ Fail(s)
    BY <2>3, RenewInv, SucceedInv, FailInv
  <2> QED BY <1>4, <2>1, <2>2, <2>3
<1>5. CASE Tick
  BY <1>5, TickInv
<1>6. CASE UNCHANGED vars
  <2>1. /\ TypeOK' /\ LocksHeld' /\ SelectedStillClaimable' /\ CheckedStillHeld'
    BY <1>6 DEF vars, IInv, TypeOK, LocksHeld, LocksHeldBy, SelectedStillClaimable,
                CheckedStillHeld, NoRunningSibling
  <2> QED BY <1>6, <2>1, TableKept DEF vars, IInv
<1> QED BY <1>1, <1>2, <1>3, <1>4, <1>5, <1>6 DEF Next

\* The invariant behind everything below: what a transaction has read under the
\* festival lock stays true until it ends.
THEOREM Inductive == Spec => []IInv
  BY InitInv, NextInv, PTL DEF Spec

\* Every variable keeps its type, for every number of jobs, workers and sessions.
THEOREM Typed == Spec => []TypeOK
<1>1. IInv => TypeOK
  BY DEF IInv
<1> QED BY <1>1, Inductive, PTL

\* No festival ever has two RUNNING jobs: claimPlaylistRefresh excludes.
THEOREM Exclusive == Spec => []OneRunningPerFestival
<1>1. IInv => OneRunningPerFestival
  BY DEF IInv
<1> QED BY <1>1, Inductive, PTL

\* The pair (job, attempts) that claimPlaylistRefresh returns is a fencing token.
THEOREM Fencing == Spec => []TokensUnique
<1>1. IInv => TokensUnique
  BY DEF IInv
<1> QED BY <1>1, Inductive, PTL

\* Renewals never extend a lease past two hours from the start of its attempt.
THEOREM Bounded == Spec => []LeaseBounded
<1>1. IInv => LeaseBounded
  BY DEF IInv
<1> QED BY <1>1, Inductive, PTL

\* The updates of renew, commit and finish, which name the job by id alone, land
\* on the attempt that requirePlaylistLease checked.
THEOREM Checked == Spec => []CheckedStillHeld
<1>1. IInv => CheckedStillHeld
  BY DEF IInv
<1> QED BY <1>1, Inductive, PTL

-----------------------------------------------------------------------------
\* Action properties: every way a row can change.

\* Renew, Succeed and Fail touch one row, of a live attempt that the session holds.
LEMMA WriteRow ==
    ASSUME IInv, NEW s \in Sessions, NEW j \in Jobs, Renew(s) \/ Succeed(s) \/ Fail(s),
           row'[j] # row[j]
    PROVE  /\ j = txn[s].job /\ ~Lapsed(row[j]) /\ row[j].status = "RUNNING"
           /\ txn[s].owner = row[j].leaseOwner /\ txn[s].attempts = row[j].attempts
           /\ row'[j].attempts = row[j].attempts
           /\ txn'[s].stage = "idle"
           /\ row'[j].leaseOwner \in {row[j].leaseOwner, None}
           /\ row'[j].status # "RUNNING" => txn[s].kind \in {"succeed", "fail", "pause"}
<1>1. PICK r : Write(s, r) /\ \/ Renew(s) /\ r = [row[txn[s].job] EXCEPT !.leaseLeft =
                                    Less(row[txn[s].job].lifeLeft, More(@, Ttl))]
                              \/ Succeed(s) /\ r = Settled(row[txn[s].job], "SUCCEEDED", 0)
                              \/ Fail(s) /\ \E d : r = Settled(row[txn[s].job], "FAILED", d)
  BY Zenon DEF Renew, Succeed, Fail
<1>2. /\ txn[s].stage = "opChecked" /\ End(s) /\ txn[s].job \in Jobs /\ row \in [Jobs -> Row]
      /\ row[txn[s].job] \in Row /\ row[txn[s].job].status = "RUNNING"
  BY <1>1, CheckedRow DEF Write, IInv, TypeOK
<1>3. /\ row[txn[s].job].leaseOwner = txn[s].owner
      /\ row[txn[s].job].attempts = txn[s].attempts
  BY <1>2 DEF IInv, CheckedStillHeld
<1>4. j = txn[s].job /\ ~Lapsed(row[j]) /\ row'[j] = r
  BY <1>1, <1>2 DEF Write
<1>5. r.attempts = row[j].attempts /\ r.leaseOwner \in {row[j].leaseOwner, None}
  BY <1>1, <1>2, <1>4 DEF Settled, Row
<1>6. txn'[s].stage = "idle"
  BY <1>2, EndKeeps, Zenon DEF End, Idle, IInv, TypeOK
<1>7. row'[j].status # "RUNNING" => txn[s].kind \in {"succeed", "fail", "pause"}
  <2>1. CASE Renew(s) /\ r = [row[txn[s].job] EXCEPT !.leaseLeft =
                                    Less(row[txn[s].job].lifeLeft, More(@, Ttl))]
    BY <1>2, <1>4, <2>1 DEF Row
  <2>2. CASE Succeed(s) \/ Fail(s)
    BY <2>2 DEF Succeed, Fail
  <2> QED BY <1>1, <2>1, <2>2
<1> QED BY <1>2, <1>3, <1>4, <1>5, <1>6, <1>7

\* A claim makes a job RUNNING that was claimable, hence not live, PENDING, or
\* FAILED with its backoff passed.
LEMMA ClaimRow ==
    ASSUME IInv, NEW s \in Sessions, NEW j \in Jobs, ClaimUpdate(s), row'[j] # row[j]
    PROVE  Claimable(row[j]) /\ row'[j].status = "RUNNING"
<1>1. txn[s].stage = "claimSelected" /\ txn[s].job \in Jobs /\ row \in [Jobs -> Row]
      /\ Claimable(row[txn[s].job])
  BY DEF ClaimUpdate, IInv, LocksHeld, LocksHeldBy, SelectedStillClaimable, TypeOK
<1>2. row' = [row EXCEPT ![txn[s].job] = [row[txn[s].job] EXCEPT
                 !.status = "RUNNING", !.attempts = @ + 1, !.leaseOwner = txn[s].owner,
                 !.leaseLeft = Ttl, !.lifeLeft = MaxLifetime, !.retryLeft = 0]]
  BY Zenon DEF ClaimUpdate
<1>3. j = txn[s].job
  BY <1>1, <1>2
<1> QED BY <1>1, <1>2, <1>3 DEF Row

LEMMA TickRow ==
    ASSUME IInv, NEW j \in Jobs, Tick
    PROVE  /\ row'[j].status = row[j].status /\ row'[j].attempts = row[j].attempts
           /\ row'[j].leaseOwner = row[j].leaseOwner
<1>1. /\ row[j] \in Row
      /\ row'[j] = [row[j] EXCEPT !.leaseLeft = Down(@), !.lifeLeft = Down(@),
                                  !.retryLeft = Down(@)]
  BY DEF Tick, IInv, TypeOK
<1> QED BY <1>1 DEF Row

LEMMA RowChange ==
    ASSUME IInv, Next, NEW j \in Jobs, row'[j] # row[j]
    PROVE  \/ Enqueue(j)
           \/ \E s \in Sessions : ClaimUpdate(s)
           \/ \E s \in Sessions : Renew(s) \/ Succeed(s) \/ Fail(s)
           \/ Tick
<1>1. CASE \E k \in Jobs : Enqueue(k)
  <2>1. PICK k \in Jobs : Enqueue(k)
    BY <1>1
  <2>2. k = j
    BY <2>1 DEF Enqueue, IInv, TypeOK
  <2> QED BY <2>1, <2>2
<1>2. CASE \E s \in Sessions : \/ ClaimTry(s) \/ ClaimSelect(s) \/ ClaimNothing(s)
                               \/ OpCheck(s) \/ Abort(s)
  BY <1>2 DEF ClaimTry, ClaimSelect, ClaimNothing, OpCheck, Abort
<1>3. CASE \/ \E s \in Sessions, o \in Owners : ClaimScan(s, o)
           \/ \E s \in Sessions, h \in handles, k \in Kinds : OpLock(s, h, k)
  BY <1>3 DEF ClaimScan, OpLock
<1> QED BY <1>1, <1>2, <1>3 DEF Next

\* No step takes a live attempt from its holder.
THEOREM NoPreemption == Spec => LiveAttemptKept
<1>1. IInv /\ [Next]_vars => [\A j \in Jobs : AttemptKept(j)]_vars
  <2> SUFFICES ASSUME IInv, Next, NEW j \in Jobs PROVE AttemptKept(j)
    OBVIOUS
  <2>1. CASE row'[j] = row[j]
    BY <2>1 DEF AttemptKept
  <2>2. CASE Enqueue(j)
    BY <2>2 DEF Enqueue, AttemptKept, Live
  <2>3. CASE row'[j] # row[j] /\ \E s \in Sessions : ClaimUpdate(s)
    BY <2>3, ClaimRow DEF AttemptKept, Live, Claimable
  <2>4. CASE row'[j] # row[j] /\ \E s \in Sessions : Renew(s) \/ Succeed(s) \/ Fail(s)
    BY <2>4, WriteRow DEF AttemptKept
  <2>5. CASE Tick
    BY <2>5, TickRow DEF AttemptKept
  <2> QED BY <2>1, <2>2, <2>3, <2>4, <2>5, RowChange
<1> QED BY <1>1, Inductive, PTL DEF Spec, LiveAttemptKept

\* An attempt is settled in time, by a session that holds its token.
THEOREM Settlement == Spec => SettledByHolder
<1>1. IInv /\ [Next]_vars => [\A j \in Jobs : HolderSettles(j)]_vars
  <2> SUFFICES ASSUME IInv, Next, NEW j \in Jobs PROVE HolderSettles(j)
    OBVIOUS
  <2>1. CASE row'[j] = row[j]
    BY <2>1 DEF HolderSettles
  <2>2. CASE Enqueue(j)
    BY <2>2 DEF Enqueue, HolderSettles
  <2>3. CASE row'[j] # row[j] /\ \E s \in Sessions : ClaimUpdate(s)
    BY <2>3, ClaimRow DEF HolderSettles
  <2>4. CASE row'[j] # row[j] /\ \E s \in Sessions : Renew(s) \/ Succeed(s) \/ Fail(s)
    BY <2>4, WriteRow DEF HolderSettles
  <2>5. CASE Tick
    BY <2>5, TickRow DEF HolderSettles
  <2> QED BY <2>1, <2>2, <2>3, <2>4, <2>5, RowChange
<1> QED BY <1>1, Inductive, PTL DEF Spec, SettledByHolder

-----------------------------------------------------------------------------
\* Success is the end of a job: it has no lease and no backoff left for the clock to count.
SucceededIsOver ==
    \A j \in Jobs : row[j].status = "SUCCEEDED" =>
        row[j].leaseLeft = 0 /\ row[j].lifeLeft = 0 /\ row[j].retryLeft = 0

\* The row that an operation makes SUCCEEDED has nothing left to count.
LEMMA WriteOver ==
    ASSUME IInv, NEW s \in Sessions, NEW j \in Jobs, Renew(s) \/ Succeed(s) \/ Fail(s),
           row'[j] # row[j], row'[j].status = "SUCCEEDED"
    PROVE  row'[j].leaseLeft = 0 /\ row'[j].lifeLeft = 0 /\ row'[j].retryLeft = 0
<1>1. PICK r : Write(s, r) /\ \/ r = [row[txn[s].job] EXCEPT !.leaseLeft =
                                    Less(row[txn[s].job].lifeLeft, More(@, Ttl))]
                              \/ r = Settled(row[txn[s].job], "SUCCEEDED", 0)
                              \/ \E d : r = Settled(row[txn[s].job], "FAILED", d)
  BY Zenon DEF Renew, Succeed, Fail
<1>2. /\ txn[s].job \in Jobs /\ row \in [Jobs -> Row]
      /\ row[txn[s].job] \in Row /\ row[txn[s].job].status = "RUNNING"
  BY <1>1, CheckedRow DEF Write, IInv, TypeOK
<1>3. j = txn[s].job /\ row'[j] = r
  BY <1>1, <1>2 DEF Write
<1>4. r = Settled(row[j], "SUCCEEDED", 0)
  BY <1>1, <1>2, <1>3 DEF Settled, Row
<1> QED BY <1>2, <1>3, <1>4 DEF Settled, Row

LEMMA OverInv == IInv /\ SucceededIsOver /\ [Next]_vars => SucceededIsOver'
<1> SUFFICES ASSUME IInv, SucceededIsOver, [Next]_vars, NEW j \in Jobs,
                    row'[j].status = "SUCCEEDED"
             PROVE  row'[j].leaseLeft = 0 /\ row'[j].lifeLeft = 0 /\ row'[j].retryLeft = 0
  BY DEF SucceededIsOver
<1>1. CASE row'[j] = row[j]
  BY <1>1 DEF SucceededIsOver
<1>2. CASE Enqueue(j)
  BY <1>2 DEF Enqueue, IInv, TypeOK, Row
<1>3. CASE row'[j] # row[j] /\ \E s \in Sessions : ClaimUpdate(s)
  BY <1>3, ClaimRow
<1>4. CASE row'[j] # row[j] /\ \E s \in Sessions : Renew(s) \/ Succeed(s) \/ Fail(s)
  BY <1>4, WriteOver
<1>5. CASE Tick
  <2>1. /\ row[j] \in Row
        /\ row'[j] = [row[j] EXCEPT !.leaseLeft = Down(@), !.lifeLeft = Down(@),
                                    !.retryLeft = Down(@)]
    BY <1>5 DEF Tick, IInv, TypeOK
  <2> QED BY <1>5, <2>1, TickRow DEF SucceededIsOver, Down, Row
<1>6. CASE UNCHANGED vars
  BY <1>6, <1>1 DEF vars
<1> QED BY <1>1, <1>2, <1>3, <1>4, <1>5, <1>6, RowChange

THEOREM Over == Spec => []SucceededIsOver
<1>1. Init => SucceededIsOver
  BY DEF Init, AbsentRow, SucceededIsOver
<1> QED BY <1>1, OverInv, Inductive, PTL DEF Spec

\* A FAILED job is claimed only when its backoff has passed, a SUCCEEDED one never.
THEOREM Backoff == Spec => BackoffRespected
<1>1. IInv /\ SucceededIsOver /\ [Next]_vars => [\A j \in Jobs : BackoffKept(j)]_vars
  <2> SUFFICES ASSUME IInv, SucceededIsOver, Next, NEW j \in Jobs PROVE BackoffKept(j)
    OBVIOUS
  <2>1. CASE row'[j] = row[j]
    BY <2>1 DEF BackoffKept
  <2>2. CASE Enqueue(j)
    BY <2>2 DEF Enqueue, BackoffKept
  <2>3. CASE row'[j] # row[j] /\ \E s \in Sessions : ClaimUpdate(s)
    BY <2>3, ClaimRow DEF BackoffKept, Claimable
  <2>4. CASE row'[j] # row[j] /\ \E s \in Sessions : Renew(s) \/ Succeed(s) \/ Fail(s)
    BY <2>4, WriteRow DEF BackoffKept
  <2>5. CASE Tick
    <3>1. row'[j].status = row[j].status
      BY <2>5, TickRow
    <3>2. row[j].status = "SUCCEEDED" => row'[j] = row[j]
      <4>1. /\ row[j] \in Row
            /\ row'[j] = [row[j] EXCEPT !.leaseLeft = Down(@), !.lifeLeft = Down(@),
                                        !.retryLeft = Down(@)]
        BY <2>5 DEF Tick, IInv, TypeOK
      <4>2. ASSUME row[j].status = "SUCCEEDED"
            PROVE  /\ Down(row[j].leaseLeft) = row[j].leaseLeft
                   /\ Down(row[j].lifeLeft) = row[j].lifeLeft
                   /\ Down(row[j].retryLeft) = row[j].retryLeft
        BY <4>2 DEF SucceededIsOver, Down
      <4>3. /\ row[j].leaseLeft \in Nat /\ row[j].lifeLeft \in Nat /\ row[j].retryLeft \in Nat
            /\ [row[j] EXCEPT !.leaseLeft = row[j].leaseLeft, !.lifeLeft = row[j].lifeLeft,
                              !.retryLeft = row[j].retryLeft] = row[j]
        BY <4>1 DEF Row
      <4> QED BY <4>1, <4>2, <4>3
    <3> QED BY <3>1, <3>2 DEF BackoffKept
  <2> QED BY <2>1, <2>2, <2>3, <2>4, <2>5, RowChange
<1> QED BY <1>1, Inductive, Over, PTL DEF Spec, BackoffRespected

-----------------------------------------------------------------------------
(* The queue implements PlaylistExclusion.  With OneRunningPerFestival the   *)
(* refinement mapping is easy to read: the holder of a festival is its       *)
(* RUNNING job, if it has one.  A claim is then Acquire, a completion or a   *)
(* failure Release, the clock Lapse, and every other step, a renewal among   *)
(* them, is a stutter.                                                       *)

\* The refinement mapping of Exclusion.
The(js) == IF js = {} THEN None ELSE CHOOSE j \in js : TRUE
Holder == [f \in Festivals |-> The(RunningOf(f))]
LiveHold == [f \in Festivals |-> \E j \in RunningOf(f) : Live(row[j])]
Token == [j \in Jobs |-> row[j].attempts]
Done == {j \in Jobs : row[j].status = "SUCCEEDED"}

\* What the mapping says of a festival with and without a RUNNING job.
HeldBy(f, j) == RunningOf(f) = {j}

LEMMA MappedHeld ==
    ASSUME NEW f \in Festivals, NEW j \in Jobs, HeldBy(f, j)
    PROVE  Holder[f] = j /\ LiveHold[f] = IF Live(row[j]) THEN TRUE ELSE FALSE
  BY DEF HeldBy, Holder, The, LiveHold

LEMMA MappedFree ==
    ASSUME NEW f \in Festivals, RunningOf(f) = {}
    PROVE  Holder[f] = None /\ LiveHold[f] = FALSE
  BY DEF Holder, The, LiveHold

\* A RUNNING job is all that runs of its festival.
LEMMA RunningHolds ==
    ASSUME OneRunningPerFestival, NEW j \in Jobs, row[j].status = "RUNNING"
    PROVE  HeldBy(FestivalOf[j], j)
  BY DEF OneRunningPerFestival, HeldBy, RunningOf

\* The change of one row shows in the mapping of its festival only.
LEMMA OtherFestivals ==
    ASSUME TypeOK, NEW j \in Jobs, NEW r, row' = [row EXCEPT ![j] = r]
    PROVE  /\ \A k \in Jobs \ {j} : row'[k] = row[k]
           /\ row'[j] = r
           /\ \A f \in Festivals \ {FestivalOf[j]} :
                 /\ Holder'[f] = Holder[f]
                 /\ LiveHold'[f] = LiveHold[f]
<1>1. (\A k \in Jobs \ {j} : row'[k] = row[k]) /\ row'[j] = r
  BY DEF TypeOK
<1>2. ASSUME NEW f \in Festivals \ {FestivalOf[j]}
      PROVE  RunningOf(f)' = RunningOf(f) /\ j \notin RunningOf(f)
  BY <1>1 DEF RunningOf
<1>3. ASSUME NEW f \in Festivals \ {FestivalOf[j]}
      PROVE  Holder'[f] = Holder[f] /\ LiveHold'[f] = LiveHold[f]
  <2>1. \A k \in RunningOf(f) : k \in Jobs /\ row'[k] = row[k]
    BY <1>1, <1>2 DEF RunningOf
  <2>2. The(RunningOf(f)') = The(RunningOf(f)) /\ f \in Festivals
    BY <1>2, Zenon
  <2>3. Holder'[f] = Holder[f]
    BY <2>2, Zenon DEF Holder
  <2>4. LiveHold'[f] = LiveHold[f]
    BY <1>2, <2>1 DEF LiveHold, Live, Lapsed
  <2> QED BY <2>3, <2>4
<1> QED BY <1>1, <1>3

\* Both functions are determined by their values.
LEMMA Updated ==
    ASSUME NEW f \in Festivals, NEW h, NEW l,
           Holder'[f] = h, LiveHold'[f] = l,
           \A g \in Festivals \ {f} : Holder'[g] = Holder[g] /\ LiveHold'[g] = LiveHold[g]
    PROVE  Holder' = [Holder EXCEPT ![f] = h] /\ LiveHold' = [LiveHold EXCEPT ![f] = l]
<1>1. Holder' = [Holder EXCEPT ![f] = h]
  BY DEF Holder
<1>2. LiveHold' = [LiveHold EXCEPT ![f] = l]
  BY DEF LiveHold
<1> QED BY <1>1, <1>2

-----------------------------------------------------------------------------
\* One lemma per kind of step.

\* claimPlaylistRefresh takes a festival that nobody runs, or takes up its own lapsed job.
LEMMA ClaimAcquires ==
    ASSUME IInv, NEW s \in Sessions, ClaimUpdate(s), NEW j \in Jobs, txn[s].job = j
    PROVE  Exclusion!Acquire(j)
<1> DEFINE f == FestivalOf[j]
           r == [row[j] EXCEPT !.status = "RUNNING", !.attempts = @ + 1, !.leaseOwner = txn[s].owner,
                               !.leaseLeft = Ttl, !.lifeLeft = MaxLifetime, !.retryLeft = 0]
<1>1. /\ f \in Festivals /\ row[j] \in Row
      /\ Claimable(row[j]) /\ NoRunningSibling(j) /\ TypeOK
  BY DEF ClaimUpdate, IInv, LocksHeld, LocksHeldBy, SelectedStillClaimable, TypeOK
<1>2. row' = [row EXCEPT ![j] = r]
  BY Zenon DEF ClaimUpdate
<1>3. r.status = "RUNNING" /\ r.attempts = row[j].attempts + 1 /\ Live(r)
  BY <1>1 DEF Row, Live, Lapsed
<1> HIDE DEF r, f
<1>4. row'[j] = r /\ \A k \in Jobs \ {j} : row'[k] = row[k]
  BY <1>1, <1>2 DEF TypeOK
<1>5. Holder'[f] = j /\ LiveHold'[f] = TRUE
  <2>1. RunningOf(f)' = {j}
    BY <1>1, <1>3, <1>4 DEF NoRunningSibling, RunningOf, f
  <2>2. Live(row'[j])
    BY <1>3, <1>4
  <2>3. LiveHold'[f] = TRUE
    BY <1>1, <2>1, <2>2 DEF LiveHold, Live, Lapsed
  <2> QED BY <1>1, <2>1, <2>3 DEF Holder, The
<1>6. Holder[f] \in {None, j} /\ LiveHold[f] = FALSE
  <2>1. CASE row[j].status = "RUNNING"
    <3>1. HeldBy(f, j)
      BY <1>1, <2>1, RunningHolds DEF IInv, f
    <3>2. ~Live(row[j])
      BY <1>1, <2>1 DEF Claimable, Live
    <3> QED BY <1>1, <3>1, <3>2, MappedHeld
  <2>2. CASE row[j].status # "RUNNING"
    <3>1. RunningOf(f) = {}
      BY <1>1, <2>2 DEF NoRunningSibling, RunningOf, f
    <3> QED BY <1>1, <3>1, MappedFree
  <2> QED BY <2>1, <2>2
<1>7. Holder' = [Holder EXCEPT ![f] = j] /\ LiveHold' = [LiveHold EXCEPT ![f] = TRUE]
  <2>1. \A g \in Festivals \ {f} : Holder'[g] = Holder[g] /\ LiveHold'[g] = LiveHold[g]
    BY <1>1, <1>2, OtherFestivals, Zenon DEF f
  <2> QED BY <1>1, <1>5, <2>1, Updated, Zenon
<1>8. Token' = [Token EXCEPT ![j] = @ + 1]
  BY <1>1, <1>3, <1>4 DEF Token
<1>9. j \notin Done /\ Done' = Done
  BY <1>1, <1>3, <1>4 DEF Done, Claimable
<1> QED BY <1>6, <1>7, <1>8, <1>9 DEF Exclusion!Acquire, Holder, The, LiveHold, Token, Done, f

\* commitPlaylistRefresh and finishPlaylistRefresh give up a live hold of their festival.
LEMMA SettleReleases ==
    ASSUME IInv, NEW s \in Sessions, NEW j \in Jobs, NEW r \in Row,
           row' = [row EXCEPT ![j] = r], Live(row[j]),
           r.status # "RUNNING", r.attempts = row[j].attempts
    PROVE  Exclusion!Release(j)
<1> DEFINE f == FestivalOf[j]
<1>1. /\ f \in Festivals /\ TypeOK /\ HeldBy(f, j) /\ row[j].status = "RUNNING"
  BY RunningHolds DEF IInv, Live
<1> HIDE DEF f
<1>2. row'[j] = r /\ \A k \in Jobs \ {j} : row'[k] = row[k]
  BY <1>1, OtherFestivals
<1>3. Holder[f] = j /\ LiveHold[f] = TRUE
  BY <1>1, MappedHeld
<1>4. Holder'[f] = None /\ LiveHold'[f] = FALSE
  <2>1. RunningOf(f)' = {}
    BY <1>1, <1>2 DEF HeldBy, RunningOf
  <2> QED BY <1>1, <2>1 DEF Holder, The, LiveHold
<1>5. Holder' = [Holder EXCEPT ![f] = None] /\ LiveHold' = [LiveHold EXCEPT ![f] = FALSE]
  <2>1. \A g \in Festivals \ {f} : Holder'[g] = Holder[g] /\ LiveHold'[g] = LiveHold[g]
    BY <1>1, OtherFestivals, Zenon DEF f
  <2> QED BY <1>1, <1>4, <2>1, Updated, Zenon
<1>6. Token' = Token
  BY <1>2 DEF Token
<1>7. Done' \in {Done, Done \cup {j}}
  <2>1. CASE r.status = "SUCCEEDED"
    BY <1>1, <1>2, <2>1 DEF Done
  <2>2. CASE r.status # "SUCCEEDED"
    BY <1>1, <1>2, <2>2 DEF Done
  <2> QED BY <2>1, <2>2
<1> QED BY <1>3, <1>5, <1>6, <1>7 DEF Exclusion!Release, Holder, The, LiveHold, Token, Done, f

\* A step that changes no status, no attempt and no liveness does not show.
LEMMA Unseen ==
    ASSUME IInv,
           \A j \in Jobs : /\ row'[j].attempts = row[j].attempts
                           /\ row'[j].status = "RUNNING" <=> row[j].status = "RUNNING"
                           /\ row'[j].status = "SUCCEEDED" <=> row[j].status = "SUCCEEDED"
                           /\ row[j].status = "RUNNING" => (Live(row'[j]) <=> Live(row[j]))
    PROVE  UNCHANGED Exclusion!vars
<1>1. \A f \in Festivals : RunningOf(f)' = RunningOf(f)
  BY DEF RunningOf
<1>2. Holder' = Holder /\ Token' = Token /\ Done' = Done
  BY <1>1 DEF Holder, Token, Done
<1>3. LiveHold' = LiveHold
  <2>1. ASSUME NEW f \in Festivals
        PROVE  (\E j \in RunningOf(f)' : Live(row'[j])) = (\E j \in RunningOf(f) : Live(row[j]))
    <3>1. \A j \in RunningOf(f) : Live(row'[j]) <=> Live(row[j])
      BY DEF RunningOf
    <3> QED BY <1>1, <3>1
  <2> QED BY <2>1, Zenon DEF LiveHold, Live, Lapsed
<1> QED BY <1>2, <1>3 DEF Exclusion!vars, Holder, The, LiveHold, Token, Done

\* The clock only ever ends the liveness of holds.
LEMMA TickLapses ==
    ASSUME IInv, Tick
    PROVE  Exclusion!Lapse
<1>1. \A j \in Jobs : /\ row'[j].status = row[j].status /\ row'[j].attempts = row[j].attempts
                      /\ Live(row'[j]) => Live(row[j])
  <2> SUFFICES ASSUME NEW j \in Jobs
               PROVE  /\ row'[j].status = row[j].status /\ row'[j].attempts = row[j].attempts
                      /\ Live(row'[j]) => Live(row[j])
    OBVIOUS
  <2>1. /\ row[j] \in Row
        /\ row'[j] = [row[j] EXCEPT !.leaseLeft = Down(@), !.lifeLeft = Down(@),
                                    !.retryLeft = Down(@)]
    BY DEF Tick, IInv, TypeOK
  <2> QED BY <2>1 DEF Row, Live, Lapsed, Down
<1>2. \A f \in Festivals : RunningOf(f)' = RunningOf(f)
  BY <1>1 DEF RunningOf
<1>3. Holder' = Holder /\ Token' = Token /\ Done' = Done
  BY <1>1, <1>2 DEF Holder, Token, Done
<1> DEFINE lapsed == {f \in Festivals : ~LiveHold'[f]}
<1>4. \A f \in Festivals : LiveHold'[f] => LiveHold[f]
  <2> SUFFICES ASSUME NEW f \in Festivals, \E j \in RunningOf(f)' : Live(row'[j])
               PROVE  \E j \in RunningOf(f) : Live(row[j])
    BY DEF LiveHold, Live, Lapsed
  <2> QED BY <1>1, <1>2 DEF RunningOf
<1>5. LiveHold' = [f \in Festivals |-> LiveHold[f] /\ f \notin lapsed]
  <2>1. ASSUME NEW f \in Festivals
        PROVE  (\E j \in RunningOf(f)' : Live(row'[j])) = (LiveHold[f] /\ f \notin lapsed)
    <3>1. LiveHold'[f] = (\E j \in RunningOf(f)' : Live(row'[j]))
      BY DEF LiveHold, Live, Lapsed
    <3>2. LiveHold[f] \in BOOLEAN /\ LiveHold'[f] \in BOOLEAN
      BY DEF LiveHold
    <3>3. LiveHold'[f] = (LiveHold[f] /\ f \notin lapsed)
      BY <1>4, <3>2
    <3> QED BY <3>1, <3>3
  <2> QED BY <2>1, Zenon DEF LiveHold, Live, Lapsed
<1>6. lapsed \in SUBSET Festivals
  OBVIOUS
<1> QED BY <1>3, <1>5, <1>6 DEF Exclusion!Lapse, Holder, The, LiveHold, Token, Done

\* The three writes of an operation.
LEMMA WriteMaps ==
    ASSUME IInv, NEW s \in Sessions, Renew(s) \/ Succeed(s) \/ Fail(s)
    PROVE  UNCHANGED Exclusion!vars \/ \E j \in Jobs : Exclusion!Release(j)
<1> DEFINE j == txn[s].job
<1>1. PICK r : Write(s, r) /\ \/ r = [row[j] EXCEPT !.leaseLeft = Less(row[j].lifeLeft, More(@, Ttl))]
                              \/ \E status \in {"SUCCEEDED", "FAILED"}, d \in Nat :
                                    r = Settled(row[j], status, d)
  <2>1. txn[s].stage = "opChecked"
    BY DEF Renew, Succeed, Fail, Write
  <2>2. txn[s].attempts \in Nat /\ RetryBase \in Nat
    BY DEF IInv, TypeOK, Txn
  <2>3. RetryDelay(txn[s].attempts) \in Nat /\ 0 \in Nat
    BY <2>2, RetryDelayType
  <2> QED BY <2>2, <2>3, Zenon DEF Renew, Succeed, Fail
<1>2. /\ j \in Jobs /\ row \in [Jobs -> Row]
      /\ row[j] \in Row /\ row[j].status = "RUNNING"
  BY <1>1, CheckedRow DEF Write, IInv, TypeOK
<1> HIDE DEF j
<1>3. CASE UNCHANGED row
  BY <1>3, Unseen
<1>4. CASE row' = [row EXCEPT ![j] = r] /\ ~Lapsed(row[j])
  <2>1. CASE r = [row[j] EXCEPT !.leaseLeft = Less(row[j].lifeLeft, More(@, Ttl))]
    <3> DEFINE n == Less(row[j].lifeLeft, More(row[j].leaseLeft, Ttl))
    <3>1. /\ row[j].leaseLeft \in Nat \ {0} /\ row[j].lifeLeft \in Nat \ {0}
      BY <1>2, <1>4 DEF Row, Lapsed
    <3>2. n \in Nat /\ n # 0
      BY <3>1 DEF Less, More
    <3> HIDE DEF n
    <3>3. r.status = "RUNNING" /\ r.attempts = row[j].attempts /\ Live(r) /\ Live(row[j])
      BY <1>2, <1>4, <2>1, <3>1, <3>2 DEF Row, Live, Lapsed, n
    <3>4. row'[j] = r /\ \A k \in Jobs \ {j} : row'[k] = row[k]
      BY <1>2, <1>4
    <3> QED BY <1>2, <3>3, <3>4, Unseen
  <2>2. CASE \E status \in {"SUCCEEDED", "FAILED"}, d \in Nat : r = Settled(row[j], status, d)
    <3>1. PICK status \in {"SUCCEEDED", "FAILED"}, d \in Nat : r = Settled(row[j], status, d)
      BY <2>2, Zenon
    <3>2. r \in Row /\ r.status # "RUNNING" /\ r.attempts = row[j].attempts
      <4>1. status \in Statuses /\ status # "RUNNING"
        BY DEF Statuses
      <4> QED BY <1>2, <3>1, <4>1 DEF Settled, Row
    <3> QED BY <1>2, <1>4, <3>2, SettleReleases, Zenon DEF Live
  <2> QED BY <1>1, <2>1, <2>2 DEF j
<1> QED BY <1>1, <1>3, <1>4 DEF Write, j

\* A new row is not RUNNING and has no attempt yet.
LEMMA EnqueueUnseen ==
    ASSUME IInv, NEW j \in Jobs, Enqueue(j)
    PROVE  UNCHANGED Exclusion!vars
<1>1. row \in [Jobs -> Row] /\ row[j].status = "ABSENT"
  BY DEF Enqueue, IInv, TypeOK
<1>2. row'[j].status = "PENDING" /\ row'[j].attempts = row[j].attempts
  BY <1>1 DEF Enqueue, Row
<1>3. \A k \in Jobs \ {j} : row'[k] = row[k]
  BY <1>1 DEF Enqueue
<1> QED BY <1>1, <1>2, <1>3, Unseen

LEMMA StepMaps == IInv /\ IInv' /\ [Next]_vars => [Exclusion!Next]_(Exclusion!vars)
<1> SUFFICES ASSUME IInv, IInv', [Next]_vars
             PROVE  Exclusion!Next \/ UNCHANGED Exclusion!vars
  OBVIOUS
<1>1. CASE UNCHANGED row
  BY <1>1, Unseen
<1>2. CASE \E j \in Jobs : Enqueue(j)
  BY <1>2, EnqueueUnseen
<1>3. CASE Tick
  BY <1>3, TickLapses DEF Exclusion!Next
<1>4. ASSUME NEW s \in Sessions, ClaimUpdate(s) PROVE Exclusion!Next
  <2>1. txn[s].job \in Jobs
    BY <1>4 DEF ClaimUpdate, IInv, LocksHeld, LocksHeldBy
  <2>2. PICK j \in Jobs : txn[s].job = j
    BY <2>1
  <2>3. Exclusion!Acquire(j)
    BY <1>4, <2>2, ClaimAcquires
  <2> QED BY <2>3 DEF Exclusion!Next
<1>5. ASSUME NEW s \in Sessions, Renew(s) \/ Succeed(s) \/ Fail(s)
      PROVE  Exclusion!Next \/ UNCHANGED Exclusion!vars
  BY <1>5, WriteMaps DEF Exclusion!Next
<1>6. CASE UNCHANGED vars
  BY <1>1, <1>6 DEF vars
<1>7. CASE \/ \E s \in Sessions, o \in Owners : ClaimScan(s, o)
           \/ \E s \in Sessions, h \in handles, k \in Kinds : OpLock(s, h, k)
           \/ \E s \in Sessions : \/ ClaimTry(s) \/ ClaimSelect(s) \/ ClaimNothing(s)
                                  \/ OpCheck(s) \/ Abort(s)
  BY <1>1, <1>7 DEF ClaimScan, OpLock, ClaimTry, ClaimSelect, ClaimNothing, OpCheck, Abort
<1> QED BY <1>2, <1>3, <1>4, <1>5, <1>6, <1>7 DEF Next

LEMMA InitMaps == Init => Exclusion!Init
<1> SUFFICES ASSUME Init PROVE Exclusion!Init
  OBVIOUS
<1>1. \A j \in Jobs : row[j].status = "ABSENT" /\ row[j].attempts = 0
  BY DEF Init, AbsentRow
<1>2. \A f \in Festivals : RunningOf(f) = {}
  BY <1>1 DEF RunningOf
<1> QED BY <1>1, <1>2 DEF Exclusion!Init

\* The queue implements the exclusion it is there for: every behaviour of the
\* transactions of playlist-queue.ts is one of a lock per festival.
THEOREM Refinement == Spec => ImplementsExclusion
  BY InitMaps, StepMaps, Inductive, PTL DEF Spec, ImplementsExclusion, Exclusion!Spec
=============================================================================
