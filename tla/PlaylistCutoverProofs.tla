----------------------- MODULE PlaylistCutoverProofs -----------------------
(***************************************************************************)
(* Proofs about PlaylistCutover, for any number of processes, jobs and     *)
(* festivals: the receipt never strands a row and never meets a running    *)
(* provider script (NothingStranded), and a row is only ever settled as    *)
(* succeeded when its festival's playlist was built from it                *)
(* (SucceededIsBuilt).                                                     *)
(*                                                                         *)
(* The argument is about the lock.  Whoever is not idle holds it, so there *)
(* is at most one such process (OneHolder), and what it read of the        *)
(* receipt is still true (Fits): only Activate changes the receipt, and it *)
(* needs the lock to be free.  A process that runs the old script, or has  *)
(* claimed rows for it, has read "legacy", hence the receipt does not      *)
(* exist for as long as it does.                                           *)
(*                                                                         *)
(* The constants are only known to satisfy CutoverAssumption, which every  *)
(* lemma takes as a hypothesis: the module is instantiated, not extended.  *)
(***************************************************************************)
EXTENDS PlaylistCutover, TLAPS

\* The lock excludes.
OneHolder == \A p, q \in lock : p = q

\* What a process at each stage holds, and knows.
Fits(p) ==
    /\ p \in lock <=> proc[p].at # "idle"
    /\ proc[p].at \in {"idle", "locked"} => proc[p].seen = Null
    /\ proc[p].at \notin {"idle", "locked"} => proc[p].seen = mode
    /\ proc[p].at \in {"claimed", "child", "done"} => proc[p].seen = "legacy"
    /\ proc[p].at \in {"idle", "locked", "ready"} => proc[p].ids = {}
    /\ proc[p].at = "working" => \E j \in Queued : proc[p].ids = {j}
    /\ proc[p].at \in {"claimed", "child", "done"} =>
         \A j \in proc[p].ids : j \in Queued /\ InScope(p, j)
    /\ proc[p].at = "child" /\ p \notin Direct => proc[p].ids \subseteq proc[p].export
    /\ proc[p].at = "done" =>
         \A j \in proc[p].ids : j \in built \/ FestivalOf[j] \in Skips

NoOrphans == mode = "database" => orphans = {}

\* A row that is settled as succeeded stays built.
SettledIsBuilt ==
    \A j \in Queued : rows[j].state = "SUCCEEDED" => j \in built \/ FestivalOf[j] \in Skips

IInv ==
    /\ CutoverTypeOK /\ NoneStranded /\ NoOrphans
    /\ OneHolder /\ (\A p \in Procs : Fits(p))
    /\ SettledIsBuilt

-----------------------------------------------------------------------------
\* Nobody holds the lock but the process at work, if there is one.
LEMMA Alone ==
    ASSUME IInv, NEW p \in Procs, proc[p].at # "idle"
    PROVE  lock = {p} /\ \A q \in Procs \ {p} : proc[q].at = "idle"
  <1>1. p \in lock /\ lock \subseteq Procs
    BY DEF IInv, Fits, CutoverTypeOK
  <1>2. \A q \in lock : q = p
    BY <1>1 DEF IInv, OneHolder
  <1> QED
    BY <1>1, <1>2 DEF IInv, Fits

\* Every process is idle while the lock is free.
LEMMA AllIdle ==
    ASSUME IInv, Free
    PROVE  \A p \in Procs : proc[p].at = "idle" /\ proc[p].seen = Null /\ proc[p].ids = {}
  BY DEF IInv, Free, Fits

\* An idle process fits whatever happens to the rows, the receipt and the
\* playlists.
LEMMA IdleFits ==
    ASSUME NEW q \in Procs,
           proc'[q].at = "idle", proc'[q].seen = Null, proc'[q].ids = {}, q \notin lock'
    PROVE  Fits(q)'
  BY DEF Fits

\* While one process works, the others have nothing that could cease to fit.
LEMMA OthersFit ==
    ASSUME IInv, NEW p \in Procs, proc[p].at # "idle", NEW r \in Process,
           proc' = [proc EXCEPT ![p] = r], lock' \subseteq lock
    PROVE  /\ proc' \in [Procs -> Process] /\ proc'[p] = r /\ lock' \subseteq Procs
           /\ OneHolder' /\ \A q \in Procs \ {p} : Fits(q)'
  <1>1. proc \in [Procs -> Process] /\ lock \subseteq Procs
    BY DEF IInv, CutoverTypeOK
  <1>2. proc' \in [Procs -> Process] /\ proc'[p] = r /\ \A q \in Procs \ {p} : proc'[q] = proc[q]
    BY <1>1
  <1>3. lock = {p} /\ \A q \in Procs \ {p} : proc[q].at = "idle"
    BY Alone
  <1>4. OneHolder'
    BY <1>3 DEF OneHolder
  <1>5. ASSUME NEW q \in Procs \ {p} PROVE Fits(q)'
    <2>1. proc[q].seen = Null /\ proc[q].ids = {}
      BY <1>3 DEF IInv, Fits
    <2> QED
      BY <1>2, <1>3, <2>1, IdleFits
  <1> QED
    BY <1>1, <1>2, <1>4, <1>5

LEMMA IdleIsProcess == Idle \in Process
  BY DEF Idle, Process

\* A process that leaves drops the lock and is idle again.
LEMMA LeaveFits ==
    ASSUME IInv, NEW p \in Procs, proc[p].at # "idle", Leave(p)
    PROVE  /\ proc' \in [Procs -> Process] /\ lock' \subseteq Procs
           /\ OneHolder' /\ \A q \in Procs : Fits(q)'
  <1>1. proc' = [proc EXCEPT ![p] = Idle] /\ lock' = lock \ {p}
    BY DEF Leave
  <1>2. /\ proc' \in [Procs -> Process] /\ proc'[p] = Idle /\ lock' \subseteq Procs
        /\ OneHolder' /\ \A q \in Procs \ {p} : Fits(q)'
    BY <1>1, OthersFit, IdleIsProcess
  <1>3. Fits(p)'
    BY <1>1, <1>2, IdleFits DEF Idle
  <1> QED
    BY <1>2, <1>3

\* Rows never go away, and rows' is a table of rows when each of its rows is.
LEMMA RowFacts ==
    ASSUME CutoverAssumption, NEW j \in Queued, CutoverTypeOK
    PROVE  j \in CutoverJobs /\ rows[j] \in Rows /\ rows[j] # Null
  BY DEF Queued, CutoverTypeOK

\* A row that changes, and nothing else does.
LEMMA OneRow ==
    ASSUME CutoverAssumption, CutoverTypeOK, NEW j \in CutoverJobs, NEW r \in Rows,
           rows' = [rows EXCEPT ![j] = r]
    PROVE  /\ rows' \in [CutoverJobs -> Rows \cup {Null}]
           /\ Queued' = Queued \cup {j} /\ rows'[j] = r
           /\ \A k \in CutoverJobs \ {j} : rows'[k] = rows[k]
  <1>1. rows \in [CutoverJobs -> Rows \cup {Null}]
    BY DEF CutoverTypeOK
  <1>2. /\ rows' \in [CutoverJobs -> Rows \cup {Null}] /\ rows'[j] = r
        /\ \A k \in CutoverJobs \ {j} : rows'[k] = rows[k]
    BY <1>1
  <1>3. r # Null
    BY DEF CutoverAssumption
  <1> QED
    BY <1>2, <1>3 DEF Queued

\* Several queued rows change at once.
LEMMA SomeRows ==
    ASSUME CutoverAssumption, CutoverTypeOK, NEW S \in SUBSET Queued, NEW F \in [S -> Rows],
           rows' = [j \in CutoverJobs |-> IF j \in S THEN F[j] ELSE rows[j]]
    PROVE  /\ rows' \in [CutoverJobs -> Rows \cup {Null}]
           /\ Queued' = Queued
           /\ \A j \in S : rows'[j] = F[j]
           /\ \A j \in CutoverJobs \ S : rows'[j] = rows[j]
  <1>1. S \subseteq CutoverJobs /\ \A j \in CutoverJobs : rows[j] \in Rows \cup {Null}
    BY DEF CutoverTypeOK, Queued
  <1>2. \A j \in S : rows'[j] = F[j]
    BY <1>1
  <1>3. \A j \in CutoverJobs \ S : rows'[j] = rows[j]
    OBVIOUS
  <1>4. rows' \in [CutoverJobs -> Rows \cup {Null}]
    BY <1>1
  <1>5. \A j \in S : rows'[j] # Null
    BY <1>2 DEF CutoverAssumption
  <1> QED
    BY <1>1, <1>2, <1>3, <1>4, <1>5 DEF Queued

\* The jobs of a process are queued.
LEMMA IdsQueued ==
    ASSUME IInv, NEW p \in Procs
    PROVE  proc[p].ids \subseteq Queued
  <1>1. proc[p].at \in {"idle", "locked", "ready", "claimed", "child", "done", "working"}
    BY DEF IInv, CutoverTypeOK, Process
  <1> QED
    BY <1>1 DEF IInv, Fits

\* A settlement concerns rows that were claimed, and changes only their state.
LEMMA SettleRows ==
    ASSUME CutoverAssumption, IInv, NEW p \in Procs, NEW state \in {"SUCCEEDED", "FAILED"},
           Settle(p, state)
    PROVE  /\ rows' \in [CutoverJobs -> Rows \cup {Null}] /\ Queued' = Queued
           /\ \A j \in Queued : \/ rows'[j] = rows[j]
                                \/ j \in proc[p].ids /\ rows'[j].state = state
  <1> DEFINE S == Settled(p)
             F == [j \in S |-> [rows[j] EXCEPT !.state = state]]
  <1>1. S \subseteq proc[p].ids /\ S \subseteq Queued
    BY IdsQueued DEF Settled
  <1>2. F \in [S -> Rows]
    <2>1. \A j \in S : [rows[j] EXCEPT !.state = state] \in Rows
      <3> SUFFICES ASSUME NEW j \in S PROVE [rows[j] EXCEPT !.state = state] \in Rows
        OBVIOUS
      <3>1. rows[j] \in Rows
        BY <1>1, RowFacts DEF IInv
      <3> QED
        BY <3>1 DEF Rows
    <2> QED
      BY <2>1
  <1>3. rows' = [j \in CutoverJobs |-> IF j \in S THEN F[j] ELSE rows[j]]
    BY DEF Settle
  <1>4. \A j \in S : F[j].state = state
    <2> SUFFICES ASSUME NEW j \in S PROVE [rows[j] EXCEPT !.state = state].state = state
      OBVIOUS
    <2>1. rows[j] \in Rows
      BY <1>1, RowFacts DEF IInv
    <2> QED
      BY <2>1 DEF Rows
  <1> HIDE DEF S, F
  <1>5. /\ rows' \in [CutoverJobs -> Rows \cup {Null}] /\ Queued' = Queued
        /\ \A j \in S : rows'[j] = F[j]
        /\ \A j \in CutoverJobs \ S : rows'[j] = rows[j]
    BY <1>1, <1>2, <1>3, SomeRows DEF IInv
  <1> QED
    BY <1>1, <1>4, <1>5 DEF Queued

\* With the rows left alone and the playlists growing, rows stay sound as long
\* as the receipt is not written.
LEMMA RowsUntouched ==
    ASSUME IInv, UNCHANGED <<rows, mode>>, built \subseteq built'
    PROVE  NoneStranded' /\ SettledIsBuilt' /\ Queued' = Queued
  BY DEF IInv, NoneStranded, SettledIsBuilt, Queued, Stranded

\* Processes that stand still fit on while rows are only added.
LEMMA StillFit ==
    ASSUME IInv, UNCHANGED <<proc, lock, mode>>, built \subseteq built', Queued \subseteq Queued'
    PROVE  OneHolder' /\ \A q \in Procs : Fits(q)'
  <1>1. OneHolder'
    BY DEF IInv, OneHolder
  <1>2. ASSUME NEW q \in Procs PROVE Fits(q)'
    BY <1>2 DEF IInv, Fits, InScope
  <1> QED
    BY <1>1, <1>2

-----------------------------------------------------------------------------
(* Every step preserves the invariant. *)

LEMMA EnqueueKeeps ==
    ASSUME CutoverAssumption, IInv, NEW j \in CutoverJobs, Enqueue(j)
    PROVE  IInv'
  <1>1. Row("PENDING", 0, Null, FALSE) \in Rows
    BY DEF CutoverAssumption, Row, Rows
  <1>2. /\ rows' \in [CutoverJobs -> Rows \cup {Null}]
        /\ Queued' = Queued \cup {j} /\ rows'[j] = Row("PENDING", 0, Null, FALSE)
        /\ \A k \in CutoverJobs \ {j} : rows'[k] = rows[k]
    BY <1>1, OneRow DEF IInv, Enqueue
  <1>3. j \notin Queued /\ Queued \subseteq CutoverJobs
    BY DEF Enqueue, Queued
  <1>4. CutoverTypeOK' /\ NoOrphans'
    BY <1>2 DEF Enqueue, IInv, CutoverTypeOK, NoOrphans
  <1>5. NoneStranded' /\ SettledIsBuilt'
    <2>1. ~Stranded(rows'[j]) /\ rows'[j].state # "SUCCEEDED"
      BY <1>2 DEF Row, Stranded
    <2>2. \A k \in Queued : rows'[k] = rows[k]
      BY <1>2, <1>3
    <2> QED
      BY <1>2, <2>1, <2>2 DEF Enqueue, IInv, NoneStranded, SettledIsBuilt
  <1>6. OneHolder' /\ \A q \in Procs : Fits(q)'
    BY <1>2, StillFit DEF Enqueue
  <1> QED
    BY <1>4, <1>5, <1>6 DEF IInv

LEMMA AgeKeeps ==
    ASSUME CutoverAssumption, IInv, NEW j \in CutoverJobs, Age(j)
    PROVE  IInv'
  <1>1. rows[j] \in Rows /\ j \in Queued
    BY RowFacts DEF IInv, Age
  <1> DEFINE r == [rows[j] EXCEPT !.old = TRUE]
  <1>2. /\ r \in Rows /\ r.state = rows[j].state /\ r.lease = rows[j].lease
        /\ r.retry = rows[j].retry
    BY <1>1 DEF Rows
  <1>3. rows' = [rows EXCEPT ![j] = r]
    BY <1>1 DEF Age, IInv, CutoverTypeOK
  <1> HIDE DEF r
  <1>4. /\ rows' \in [CutoverJobs -> Rows \cup {Null}]
        /\ Queued' = Queued \cup {j} /\ rows'[j] = r
        /\ \A k \in CutoverJobs \ {j} : rows'[k] = rows[k]
    BY <1>2, <1>3, OneRow DEF IInv
  <1>5. CutoverTypeOK' /\ NoOrphans'
    BY <1>4 DEF Age, IInv, CutoverTypeOK, NoOrphans
  <1>6. NoneStranded' /\ SettledIsBuilt'
    BY <1>1, <1>2, <1>4 DEF Age, IInv, NoneStranded, SettledIsBuilt, Stranded, Queued
  <1>7. OneHolder' /\ \A q \in Procs : Fits(q)'
    BY <1>4, StillFit DEF Age
  <1> QED
    BY <1>5, <1>6, <1>7 DEF IInv

LEMMA ReconcileKeeps ==
    ASSUME CutoverAssumption, IInv, NEW j \in CutoverJobs, Reconcile(j)
    PROVE  IInv'
  <1>1. rows[j] \in Rows /\ j \in Queued
    BY RowFacts DEF IInv, Reconcile
  <1>2. Row("PENDING", rows[j].attempts, Null, FALSE) \in Rows
    BY <1>1 DEF Row, Rows
  <1>3. /\ rows' \in [CutoverJobs -> Rows \cup {Null}]
        /\ Queued' = Queued \cup {j} /\ rows'[j] = Row("PENDING", rows[j].attempts, Null, FALSE)
        /\ \A k \in CutoverJobs \ {j} : rows'[k] = rows[k]
    BY <1>2, OneRow DEF IInv, Reconcile
  <1>4. CutoverTypeOK' /\ NoOrphans'
    BY <1>3 DEF Reconcile, IInv, CutoverTypeOK, NoOrphans
  <1>5. SettledIsBuilt'
    <2>1. rows'[j].state # "SUCCEEDED"
      BY <1>3 DEF Row
    <2> QED
      BY <1>1, <1>3, <2>1 DEF Reconcile, IInv, SettledIsBuilt, Queued
  <1>6. NoneStranded'
    <2>1. mode' = "legacy"
      BY DEF Reconcile
    <2> QED
      BY <2>1 DEF NoneStranded
  <1>7. OneHolder' /\ \A q \in Procs : Fits(q)'
    BY <1>3, StillFit DEF Reconcile
  <1> QED
    BY <1>4, <1>5, <1>6, <1>7 DEF IInv

LEMMA LockKeeps ==
    ASSUME CutoverAssumption, IInv, NEW p \in Procs, NEW scope \in Requests, Lock(p, scope)
    PROVE  IInv'
  <1> DEFINE r == [Idle EXCEPT !.at = "locked", !.scope = scope]
  <1>1. /\ r \in Process /\ r.at = "locked" /\ r.seen = Null /\ r.ids = {}
    BY DEF CutoverAssumption, Idle, Process
  <1>2. proc' = [proc EXCEPT ![p] = r] /\ lock' = {p}
    BY DEF Lock, Free
  <1> HIDE DEF r
  <1>3. proc' \in [Procs -> Process] /\ proc'[p] = r /\ \A q \in Procs \ {p} : proc'[q] = proc[q]
    BY <1>1, <1>2 DEF IInv, CutoverTypeOK
  <1>4. CutoverTypeOK' /\ NoOrphans'
    BY <1>2, <1>3 DEF Lock, IInv, CutoverTypeOK, NoOrphans
  <1>5. NoneStranded' /\ SettledIsBuilt'
    BY RowsUntouched DEF Lock
  <1>6. OneHolder'
    BY <1>2 DEF OneHolder
  <1>7. Fits(p)'
    BY <1>1, <1>2, <1>3 DEF Fits
  <1>8. ASSUME NEW q \in Procs \ {p} PROVE Fits(q)'
    BY <1>2, <1>3, AllIdle, IdleFits DEF Lock
  <1> QED
    BY <1>4, <1>5, <1>6, <1>7, <1>8 DEF IInv

LEMMA ReadModeKeeps ==
    ASSUME CutoverAssumption, IInv, NEW p \in Procs, ReadMode(p)
    PROVE  IInv'
  <1> DEFINE r == [proc[p] EXCEPT !.at = "ready", !.seen = mode]
  <1>1. proc[p] \in Process /\ proc[p].at = "locked" /\ p \in lock /\ proc[p].ids = {}
    BY DEF IInv, CutoverTypeOK, ReadMode, Fits
  <1>2. /\ r \in Process /\ r.at = "ready" /\ r.seen = mode /\ r.ids = {}
    BY <1>1 DEF Process, IInv, CutoverTypeOK
  <1>3. proc' = [proc EXCEPT ![p] = r] /\ lock' = lock
    BY DEF ReadMode, IInv, CutoverTypeOK
  <1> HIDE DEF r
  <1>4. /\ proc' \in [Procs -> Process] /\ proc'[p] = r /\ lock' \subseteq Procs
        /\ OneHolder' /\ \A q \in Procs \ {p} : Fits(q)'
    BY <1>1, <1>2, <1>3, OthersFit
  <1>5. CutoverTypeOK' /\ NoOrphans'
    BY <1>4 DEF ReadMode, IInv, CutoverTypeOK, NoOrphans
  <1>6. NoneStranded' /\ SettledIsBuilt'
    BY RowsUntouched DEF ReadMode
  <1>7. Fits(p)'
    BY <1>1, <1>2, <1>3, <1>4 DEF Fits, ReadMode
  <1> QED
    BY <1>4, <1>5, <1>6, <1>7 DEF IInv

LEMMA LeaveKeeps ==
    ASSUME CutoverAssumption, IInv, NEW p \in Procs, proc[p].at # "idle", Leave(p),
           UNCHANGED <<rows, mode, orphans, lost, reports, status, built>>
    PROVE  IInv'
  <1>1. CutoverTypeOK' /\ NoOrphans'
    BY LeaveFits DEF IInv, CutoverTypeOK, NoOrphans
  <1>2. NoneStranded' /\ SettledIsBuilt'
    BY RowsUntouched
  <1> QED
    BY <1>1, <1>2, LeaveFits DEF IInv

\* Who runs the old script, or has claimed rows for it, works without a receipt.
LEMMA LegacyAtWork ==
    ASSUME IInv, NEW p \in Procs, proc[p].at \in {"claimed", "child", "done"}
    PROVE  mode = "legacy"
  BY DEF IInv, Fits

LEMMA ClaimKeeps ==
    ASSUME CutoverAssumption, IInv, NEW p \in Procs, ClaimPending(p)
    PROVE  IInv'
  <1> DEFINE S == {j \in Queued : Claimable(rows[j]) /\ InScope(p, j)}
             claimed(j) == [rows[j] EXCEPT !.state = "RUNNING", !.attempts = @ + 1, !.old = FALSE]
             F == [j \in S |-> claimed(j)]
             r == [proc[p] EXCEPT !.at = "claimed", !.ids = S]
  <1>1. proc[p] \in Process /\ proc[p].at = "ready" /\ p \in lock
        /\ proc[p].seen = "legacy" /\ mode = "legacy"
    BY DEF IInv, CutoverTypeOK, ClaimPending, Fits
  <1>2. S \subseteq Queued /\ S \in SUBSET CutoverJobs
    BY DEF Queued
  <1>3. \A j \in S : claimed(j) \in Rows /\ claimed(j).state = "RUNNING"
    <2> SUFFICES ASSUME NEW j \in S PROVE claimed(j) \in Rows /\ claimed(j).state = "RUNNING"
      OBVIOUS
    <2>1. rows[j] \in Rows /\ rows[j].attempts < MaxClaims
      BY <1>2, RowFacts DEF IInv, ClaimPending
    <2>2. rows[j].attempts + 1 \in 0 .. MaxClaims
      BY <2>1 DEF Rows, CutoverAssumption
    <2> QED
      BY <2>1, <2>2 DEF Rows
  <1>4. F \in [S -> Rows] /\ \A j \in S : F[j].state = "RUNNING"
    BY <1>3
  <1>5. rows' = [j \in CutoverJobs |-> IF j \in S THEN F[j] ELSE rows[j]]
    BY DEF ClaimPending
  <1>6. r \in Process /\ r.at = "claimed" /\ r.seen = "legacy" /\ r.ids = S
        /\ r.scope = proc[p].scope
    BY <1>1, <1>2 DEF Process
  <1>7. proc' = [proc EXCEPT ![p] = r] /\ lock' = lock
    BY DEF ClaimPending, IInv, CutoverTypeOK
  <1>8. \A j \in S : InScope(p, j)
    OBVIOUS
  <1> HIDE DEF S, F, r
  <1>9. /\ rows' \in [CutoverJobs -> Rows \cup {Null}] /\ Queued' = Queued
        /\ \A j \in S : rows'[j] = F[j]
        /\ \A j \in CutoverJobs \ S : rows'[j] = rows[j]
    BY <1>2, <1>4, <1>5, SomeRows DEF IInv
  <1>10. /\ proc' \in [Procs -> Process] /\ proc'[p] = r /\ lock' \subseteq Procs
         /\ OneHolder' /\ \A q \in Procs \ {p} : Fits(q)'
    BY <1>1, <1>6, <1>7, OthersFit
  <1>11. CutoverTypeOK' /\ NoOrphans'
    BY <1>9, <1>10 DEF ClaimPending, IInv, CutoverTypeOK, NoOrphans
  <1>12. NoneStranded' /\ SettledIsBuilt'
    BY <1>1, <1>4, <1>9 DEF ClaimPending, IInv, NoneStranded, SettledIsBuilt, Queued
  <1>13. Fits(p)'
    <2>1. \A j \in S : InScope(p, j)'
      BY <1>6, <1>8, <1>10 DEF InScope
    <2> QED
      BY <1>1, <1>2, <1>6, <1>7, <1>9, <1>10, <2>1 DEF ClaimPending, Fits
  <1> QED
    BY <1>10, <1>11, <1>12, <1>13 DEF IInv

LEMMA SpawnKeeps ==
    ASSUME CutoverAssumption, IInv, NEW p \in Procs, Spawn(p)
    PROVE  IInv'
  <1> DEFINE r == [proc[p] EXCEPT !.at = "child", !.export = IF p \in Direct THEN {} ELSE Queued]
  <1>1. /\ proc[p] \in Process /\ proc[p].at \in {"claimed", "ready"} /\ p \in lock
        /\ proc[p].seen = "legacy" /\ mode = "legacy"
    BY DEF IInv, CutoverTypeOK, Spawn, Fits
  <1>2. /\ r \in Process /\ r.at = "child" /\ r.seen = "legacy" /\ r.ids = proc[p].ids
        /\ r.scope = proc[p].scope /\ (p \notin Direct => r.export = Queued)
    BY <1>1 DEF Process, Queued
  <1>3. proc' = [proc EXCEPT ![p] = r] /\ lock' = lock
    BY DEF Spawn, IInv, CutoverTypeOK
  <1> HIDE DEF r
  <1>4. /\ proc' \in [Procs -> Process] /\ proc'[p] = r /\ lock' \subseteq Procs
        /\ OneHolder' /\ \A q \in Procs \ {p} : Fits(q)'
    BY <1>1, <1>2, <1>3, OthersFit
  <1>5. CutoverTypeOK' /\ NoOrphans'
    BY <1>4 DEF Spawn, IInv, CutoverTypeOK, NoOrphans
  <1>6. NoneStranded' /\ SettledIsBuilt' /\ Queued' = Queued
    BY RowsUntouched DEF Spawn
  <1>7. Fits(p)'
    <2>1. \A j \in proc[p].ids : j \in Queued /\ InScope(p, j)
      BY <1>1 DEF IInv, Fits
    <2>2. \A j \in r.ids : j \in Queued' /\ InScope(p, j)'
      BY <1>2, <1>4, <1>6, <2>1 DEF InScope
    <2> QED
      BY <1>1, <1>2, <1>3, <1>4, <1>6, <2>2, IdsQueued DEF Spawn, Fits
  <1> QED
    BY <1>4, <1>5, <1>6, <1>7 DEF IInv

\* The script has ended well: every job of the run that is not of a skipped
\* festival was exported, and its festival built.
LEMMA ChildEndsKeeps ==
    ASSUME CutoverAssumption, IInv, NEW p \in Procs, NEW done \in SUBSET Festivals,
           ChildEnds(p, done)
    PROVE  IInv'
  <1>1. /\ proc[p] \in Process /\ proc[p].at = "child" /\ p \in lock
        /\ proc[p].seen = "legacy" /\ mode = "legacy"
    BY DEF IInv, CutoverTypeOK, ChildEnds, Fits
  <1>2. \A j \in proc[p].ids : j \in Queued /\ InScope(p, j) /\ j \in proc[p].export
    BY <1>1 DEF IInv, Fits, ChildEnds
  <1>3. built \subseteq built' /\ built' \subseteq CutoverJobs /\ reports' \subseteq Festivals
        /\ status' \subseteq reports'
    BY <1>1 DEF ChildEnds, Built, IInv, CutoverTypeOK, Process
  <1>4. NoneStranded' /\ SettledIsBuilt' /\ Queued' = Queued
    BY <1>3, RowsUntouched DEF ChildEnds
  <1>5. CASE p \in Routes
    <2> DEFINE r == [proc[p] EXCEPT !.at = "done"]
    <2>1. /\ r \in Process /\ r.at = "done" /\ r.seen = "legacy" /\ r.ids = proc[p].ids
          /\ r.scope = proc[p].scope
      BY <1>1 DEF Process
    <2>2. proc' = [proc EXCEPT ![p] = r] /\ lock' = lock
      BY <1>5 DEF ChildEnds, IInv, CutoverTypeOK
    <2> HIDE DEF r
    <2>3. /\ proc' \in [Procs -> Process] /\ proc'[p] = r /\ lock' \subseteq Procs
          /\ OneHolder' /\ \A q \in Procs \ {p} : Fits(q)'
      BY <1>1, <2>1, <2>2, OthersFit
    <2>4. CutoverTypeOK' /\ NoOrphans'
      BY <1>3, <2>3 DEF ChildEnds, IInv, CutoverTypeOK, NoOrphans
    <2>5. \A j \in r.ids : j \in Queued' /\ InScope(p, j)'
      BY <1>2, <1>4, <2>1, <2>3 DEF InScope
    <2>6. \A j \in r.ids : j \in built' \/ FestivalOf[j] \in Skips
      <3> SUFFICES ASSUME NEW j \in proc[p].ids, FestivalOf[j] \notin Skips PROVE j \in built'
        BY <2>1
      <3>1. FestivalOf[j] \in Festivals
        BY <1>2 DEF CutoverAssumption, Queued
      <3>2. FestivalOf[j] \in done
        BY <1>2, <3>1 DEF ChildEnds, Eligible, InScope
      <3> QED
        BY <1>2, <3>2 DEF ChildEnds, Built
    <2>7. Fits(p)'
      BY <1>1, <2>1, <2>2, <2>3, <2>5, <2>6 DEF ChildEnds, Fits
    <2> QED
      BY <1>4, <2>3, <2>4, <2>7 DEF IInv
  <1>6. CASE p \notin Routes
    <2>1. Leave(p)
      BY <1>6 DEF ChildEnds
    <2>2. CutoverTypeOK' /\ NoOrphans'
      BY <1>1, <1>3, <2>1, LeaveFits DEF ChildEnds, IInv, CutoverTypeOK, NoOrphans
    <2> QED
      BY <1>1, <1>4, <2>1, <2>2, LeaveFits DEF IInv
  <1> QED
    BY <1>5, <1>6

\* The old route settles what it claimed; it works without a receipt.
LEMMA SettleKeeps ==
    ASSUME CutoverAssumption, IInv, NEW p \in Procs,
           proc[p].at \in {"claimed", "child", "done"},
           NEW state \in {"SUCCEEDED", "FAILED"}, Settle(p, state),
           state = "SUCCEEDED" => proc[p].at = "done",
           mode' = mode, built \subseteq built', built' \subseteq CutoverJobs,
           status' \subseteq reports', reports' \subseteq Festivals,
           orphans' \subseteq SUBSET CutoverJobs, lost' \in 0 .. MaxOrphans
    PROVE  IInv'
  <1>1. mode = "legacy"
    BY LegacyAtWork
  <1>2. /\ rows' \in [CutoverJobs -> Rows \cup {Null}] /\ Queued' = Queued
        /\ \A j \in Queued : \/ rows'[j] = rows[j]
                             \/ j \in proc[p].ids /\ rows'[j].state = state
    BY SettleRows
  <1>3. /\ proc' \in [Procs -> Process] /\ lock' \subseteq Procs
        /\ OneHolder' /\ \A q \in Procs : Fits(q)'
    BY LeaveFits DEF Settle
  <1>4. CutoverTypeOK' /\ NoOrphans' /\ NoneStranded'
    BY <1>1, <1>2, <1>3 DEF IInv, CutoverTypeOK, NoOrphans, NoneStranded
  <1>5. SettledIsBuilt'
    <2>1. proc[p].at = "done" => \A j \in proc[p].ids : j \in built \/ FestivalOf[j] \in Skips
      BY DEF IInv, Fits
    <2> QED
      BY <1>2, <2>1 DEF IInv, SettledIsBuilt
  <1> QED
    BY <1>3, <1>4, <1>5 DEF IInv

LEMMA SucceedKeeps ==
    ASSUME CutoverAssumption, IInv, NEW p \in Procs, Succeed(p)
    PROVE  IInv'
  BY SettleKeeps DEF Succeed, IInv, CutoverTypeOK

LEMMA FailKeeps ==
    ASSUME CutoverAssumption, IInv, NEW p \in Procs, NEW done \in SUBSET Festivals, FailClaimed(p, done)
    PROVE  IInv'
  <1>1. proc[p] \in Process /\ proc[p].at \in {"child", "done"}
    BY DEF FailClaimed, IInv, CutoverTypeOK
  <1>2. built \subseteq built' /\ built' \subseteq CutoverJobs /\ reports \subseteq reports'
        /\ reports' \subseteq Festivals
    BY <1>1 DEF FailClaimed, Built, IInv, CutoverTypeOK, Process
  <1> QED
    BY <1>1, <1>2, SettleKeeps DEF FailClaimed, IInv, CutoverTypeOK

LEMMA TimeOutKeeps ==
    ASSUME CutoverAssumption, IInv, NEW p \in Procs, TimeOut(p)
    PROVE  IInv'
  <1>1. proc[p] \in Process /\ proc[p].at = "child"
    BY DEF TimeOut, IInv, CutoverTypeOK
  <1>2. orphans' \subseteq SUBSET CutoverJobs /\ lost' \in 0 .. MaxOrphans
    BY <1>1 DEF TimeOut, IInv, CutoverTypeOK, Process, CutoverAssumption
  <1> QED
    BY <1>1, <1>2, SettleKeeps DEF TimeOut, IInv, CutoverTypeOK

\* The database worker's claim carries a lease, so it is never stranded.
LEMMA WorkKeeps ==
    ASSUME CutoverAssumption, IInv, NEW p \in Procs, NEW j \in CutoverJobs, Work(p, j)
    PROVE  IInv'
  <1> DEFINE r == [proc[p] EXCEPT !.at = "working", !.ids = {j}]
             x == Row("RUNNING", rows[j].attempts + 1, "live", FALSE)
  <1>1. proc[p] \in Process /\ proc[p].at = "ready" /\ p \in lock /\ proc[p].seen = mode
    BY DEF IInv, CutoverTypeOK, Work, Fits
  <1>2. rows[j] \in Rows /\ j \in Queued /\ rows[j].attempts < MaxClaims
    BY RowFacts DEF IInv, Work
  <1>3. rows[j].attempts + 1 \in 0 .. MaxClaims
    BY <1>2 DEF Rows, CutoverAssumption
  <1>4. x \in Rows /\ x.state = "RUNNING" /\ x.lease = "live"
    BY <1>3 DEF Row, Rows
  <1>5. /\ r \in Process /\ r.at = "working" /\ r.seen = proc[p].seen /\ r.ids = {j}
    BY <1>1 DEF Process
  <1>6. proc' = [proc EXCEPT ![p] = r] /\ lock' = lock /\ rows' = [rows EXCEPT ![j] = x]
    BY DEF Work, IInv, CutoverTypeOK
  <1> HIDE DEF r, x
  <1>7. /\ rows' \in [CutoverJobs -> Rows \cup {Null}]
        /\ Queued' = Queued \cup {j} /\ rows'[j] = x
        /\ \A k \in CutoverJobs \ {j} : rows'[k] = rows[k]
    BY <1>4, <1>6, OneRow DEF IInv
  <1>8. /\ proc' \in [Procs -> Process] /\ proc'[p] = r /\ lock' \subseteq Procs
        /\ OneHolder' /\ \A q \in Procs \ {p} : Fits(q)'
    BY <1>1, <1>5, <1>6, OthersFit
  <1>9. CutoverTypeOK' /\ NoOrphans'
    BY <1>7, <1>8 DEF Work, IInv, CutoverTypeOK, NoOrphans
  <1>10. NoneStranded' /\ SettledIsBuilt'
    <2>1. ~Stranded(rows'[j]) /\ rows'[j].state # "SUCCEEDED"
      BY <1>4, <1>7 DEF Stranded, CutoverAssumption
    <2> QED
      BY <1>2, <1>7, <2>1 DEF Work, IInv, NoneStranded, SettledIsBuilt, Queued
  <1>11. Fits(p)'
    BY <1>1, <1>2, <1>5, <1>6, <1>7, <1>8 DEF Work, Fits
  <1> QED
    BY <1>8, <1>9, <1>10, <1>11 DEF IInv

\* Its failures carry a retry time, its successes a playlist.
LEMMA WorkedKeeps ==
    ASSUME CutoverAssumption, IInv, NEW p \in Procs, NEW ok \in BOOLEAN, Worked(p, ok)
    PROVE  IInv'
  <1>1. PICK j \in Queued : proc[p].ids = {j}
    BY DEF Worked, IInv, Fits
  <1>2. (CHOOSE k \in proc[p].ids : TRUE) = j
    BY <1>1
  <1> DEFINE x == Row(IF ok THEN "SUCCEEDED" ELSE "FAILED", rows[j].attempts, Null, ~ok)
  <1>3. j \in CutoverJobs /\ rows[j] \in Rows
    BY RowFacts DEF IInv
  <1>4. /\ x \in Rows /\ x.state = (IF ok THEN "SUCCEEDED" ELSE "FAILED") /\ x.retry = ~ok
    BY <1>3 DEF Row, Rows
  <1>5. /\ rows' = [rows EXCEPT ![j] = x]
        /\ built' = IF ok THEN built \cup {j} ELSE built
        /\ proc[p].at = "working" /\ Leave(p)
        /\ UNCHANGED <<mode, orphans, lost, expected, reports, status>>
    BY <1>2 DEF Worked
  <1> HIDE DEF x
  <1>6. /\ rows' \in [CutoverJobs -> Rows \cup {Null}]
        /\ Queued' = Queued \cup {j} /\ rows'[j] = x
        /\ \A k \in CutoverJobs \ {j} : rows'[k] = rows[k]
    BY <1>3, <1>4, <1>5, OneRow DEF IInv
  <1>7. /\ proc' \in [Procs -> Process] /\ lock' \subseteq Procs
        /\ OneHolder' /\ \A q \in Procs : Fits(q)'
    BY <1>5, LeaveFits
  <1>8. CutoverTypeOK' /\ NoOrphans'
    BY <1>3, <1>5, <1>6, <1>7 DEF IInv, CutoverTypeOK, NoOrphans
  <1>9. NoneStranded'
    <2>1. ~Stranded(rows'[j])
      BY <1>4, <1>6 DEF Stranded
    <2> QED
      BY <1>3, <1>5, <1>6, <2>1 DEF IInv, NoneStranded, Queued
  <1>10. SettledIsBuilt'
    <2>1. rows'[j].state = "SUCCEEDED" => j \in built'
      BY <1>4, <1>5, <1>6
    <2> QED
      BY <1>3, <1>5, <1>6, <2>1 DEF IInv, SettledIsBuilt, Queued
  <1> QED
    BY <1>7, <1>8, <1>9, <1>10 DEF IInv

\* What a dead process leaves: a lapsed lease, or a child without a parent,
\* and the latter only without a receipt.
LEMMA CrashKeeps ==
    ASSUME CutoverAssumption, IInv, NEW p \in Procs, Crash(p)
    PROVE  IInv'
  <1> DEFINE S == IF proc[p].at = "working" THEN proc[p].ids ELSE {}
             F == [j \in S |-> [rows[j] EXCEPT !.lease = "lapsed"]]
  <1>1. proc[p] \in Process /\ proc[p].at # "idle"
    BY DEF Crash, IInv, CutoverTypeOK
  <1>2. S \subseteq proc[p].ids /\ S \subseteq Queued
    BY IdsQueued
  <1>3. \A j \in S : /\ [rows[j] EXCEPT !.lease = "lapsed"] \in Rows
                     /\ [rows[j] EXCEPT !.lease = "lapsed"].state = rows[j].state
                     /\ [rows[j] EXCEPT !.lease = "lapsed"].lease = "lapsed"
                     /\ [rows[j] EXCEPT !.lease = "lapsed"].retry = rows[j].retry
    <2> SUFFICES ASSUME NEW j \in S
                 PROVE  /\ [rows[j] EXCEPT !.lease = "lapsed"] \in Rows
                        /\ [rows[j] EXCEPT !.lease = "lapsed"].state = rows[j].state
                        /\ [rows[j] EXCEPT !.lease = "lapsed"].lease = "lapsed"
                        /\ [rows[j] EXCEPT !.lease = "lapsed"].retry = rows[j].retry
      OBVIOUS
    <2>1. rows[j] \in Rows
      BY <1>2, RowFacts DEF IInv
    <2> QED
      BY <2>1 DEF Rows
  <1>4. /\ F \in [S -> Rows]
        /\ \A j \in S : /\ F[j].state = rows[j].state
                        /\ F[j].lease = "lapsed" /\ F[j].retry = rows[j].retry
    BY <1>3
  <1>5. rows' = [j \in CutoverJobs |-> IF j \in S THEN F[j] ELSE rows[j]]
    BY DEF Crash
  <1> HIDE DEF S, F
  <1>6. /\ rows' \in [CutoverJobs -> Rows \cup {Null}] /\ Queued' = Queued
        /\ \A j \in S : rows'[j] = F[j]
        /\ \A j \in CutoverJobs \ S : rows'[j] = rows[j]
    BY <1>2, <1>4, <1>5, SomeRows DEF IInv
  <1>7. /\ proc' \in [Procs -> Process] /\ lock' \subseteq Procs
        /\ OneHolder' /\ \A q \in Procs : Fits(q)'
    BY <1>1, LeaveFits DEF Crash
  <1>8. orphans' \subseteq SUBSET CutoverJobs /\ lost' \in 0 .. MaxOrphans
    BY <1>1 DEF Crash, IInv, CutoverTypeOK, Process, CutoverAssumption
  <1>9. CutoverTypeOK'
    BY <1>6, <1>7, <1>8 DEF Crash, IInv, CutoverTypeOK
  <1>10. NoOrphans'
    BY LegacyAtWork DEF Crash, IInv, NoOrphans, CutoverTypeOK
  <1>11. NoneStranded' /\ SettledIsBuilt'
    <2>1. \A j \in S : Stranded(rows'[j]) => Stranded(rows[j])
      BY <1>4, <1>6 DEF Stranded, CutoverAssumption
    <2>2. \A j \in Queued : Stranded(rows'[j]) => Stranded(rows[j])
      BY <1>6, <2>1 DEF Queued
    <2>3. \A j \in Queued : rows'[j].state = rows[j].state
      BY <1>4, <1>6 DEF Queued
    <2> QED
      BY <1>6, <2>2, <2>3 DEF Crash, IInv, NoneStranded, SettledIsBuilt
  <1> QED
    BY <1>7, <1>9, <1>10, <1>11 DEF IInv

LEMMA OrphanEndsKeeps ==
    ASSUME CutoverAssumption, IInv, NEW export \in orphans,
           NEW done \in SUBSET (Festivals \ Skips), OrphanEnds(export, done)
    PROVE  IInv'
  <1>1. /\ built \subseteq built' /\ built' \subseteq CutoverJobs /\ status' \subseteq reports'
        /\ reports' \subseteq Festivals /\ orphans' \subseteq orphans
    BY DEF OrphanEnds, IInv, CutoverTypeOK
  <1>2. CutoverTypeOK' /\ NoOrphans'
    BY <1>1 DEF OrphanEnds, IInv, CutoverTypeOK, NoOrphans
  <1>3. NoneStranded' /\ SettledIsBuilt' /\ Queued' = Queued
    BY <1>1, RowsUntouched DEF OrphanEnds
  <1>4. OneHolder' /\ \A q \in Procs : Fits(q)'
    BY <1>1, <1>3, StillFit DEF OrphanEnds
  <1> QED
    BY <1>2, <1>3, <1>4 DEF IInv

LEMMA PreviewKeeps ==
    ASSUME CutoverAssumption, IInv, Preview
    PROVE  IInv'
  <1>1. CutoverTypeOK' /\ NoOrphans'
    BY DEF Preview, IInv, CutoverTypeOK, NoOrphans
  <1>2. NoneStranded' /\ SettledIsBuilt' /\ Queued' = Queued
    BY RowsUntouched DEF Preview
  <1>3. OneHolder' /\ \A q \in Procs : Fits(q)'
    BY <1>2, StillFit DEF Preview
  <1> QED
    BY <1>1, <1>2, <1>3 DEF IInv

\* The receipt is written while nobody works, no orphan is left, and the audit
\* finds no row that the database worker would pass over.
LEMMA ActivateKeeps ==
    ASSUME CutoverAssumption, IInv, Activate
    PROVE  IInv'
  <1>1. CutoverTypeOK' /\ NoOrphans'
    BY DEF Activate, Drained, IInv, CutoverTypeOK, NoOrphans
  <1>2. NoneStranded' /\ SettledIsBuilt'
    <2>1. \A j \in Queued : ~Stranded(rows[j])
      BY DEF Activate, Blocked, Stranded
    <2> QED
      BY <2>1 DEF Activate, IInv, NoneStranded, SettledIsBuilt, Queued, Stranded
  <1>3. OneHolder'
    BY DEF Activate, IInv, OneHolder
  <1>4. ASSUME NEW q \in Procs PROVE Fits(q)'
    BY AllIdle, IdleFits DEF Activate, Free
  <1> QED
    BY <1>1, <1>2, <1>3, <1>4 DEF IInv

LEMMA InitHolds ==
    ASSUME CutoverAssumption, CutoverInit
    PROVE  IInv
  <1>1. CutoverTypeOK
    BY IdleIsProcess DEF CutoverInit, CutoverTypeOK, CutoverAssumption
  <1>2. NoneStranded /\ NoOrphans /\ OneHolder
    BY DEF CutoverInit, NoneStranded, NoOrphans, OneHolder
  <1>3. \A p \in Procs : Fits(p)
    BY DEF CutoverInit, Idle, Fits
  <1>4. SettledIsBuilt
    BY DEF CutoverInit, SettledIsBuilt, Queued
  <1> QED
    BY <1>1, <1>2, <1>3, <1>4 DEF IInv

LEMMA NextKeeps ==
    ASSUME CutoverAssumption, IInv, [CutoverNext]_cutoverVars
    PROVE  IInv'
  <1>1. ASSUME NEW j \in CutoverJobs, Enqueue(j) \/ Age(j) \/ Reconcile(j) PROVE IInv'
    BY <1>1, EnqueueKeeps, AgeKeeps, ReconcileKeeps
  <1>2. ASSUME NEW p \in Procs, NEW scope \in Requests, Lock(p, scope) PROVE IInv'
    BY <1>2, LockKeeps
  <1>3. ASSUME NEW p \in Procs, ReadMode(p) PROVE IInv'
    BY <1>3, ReadModeKeeps
  <1>4. ASSUME NEW p \in Procs, Refuse(p) PROVE IInv'
    BY <1>4, LeaveKeeps DEF Refuse
  <1>5. ASSUME NEW p \in Procs, NoWork(p) PROVE IInv'
    BY <1>5, LeaveKeeps DEF NoWork
  <1>6. ASSUME NEW p \in Procs, DirectEnds(p) PROVE IInv'
    BY <1>6, LeaveKeeps DEF DirectEnds
  <1>7. ASSUME NEW p \in Procs, ClaimPending(p) \/ Spawn(p) PROVE IInv'
    BY <1>7, ClaimKeeps, SpawnKeeps
  <1>8. ASSUME NEW p \in Procs, NEW done \in SUBSET Festivals, ChildEnds(p, done) \/ FailClaimed(p, done)
        PROVE  IInv'
    BY <1>8, ChildEndsKeeps, FailKeeps
  <1>9. ASSUME NEW p \in Procs, Succeed(p) \/ TimeOut(p) \/ Crash(p) PROVE IInv'
    BY <1>9, SucceedKeeps, TimeOutKeeps, CrashKeeps
  <1>10. ASSUME NEW p \in Procs, NEW j \in CutoverJobs, Work(p, j) PROVE IInv'
    BY <1>10, WorkKeeps
  <1>11. ASSUME NEW p \in Procs, NEW ok \in BOOLEAN, Worked(p, ok) PROVE IInv'
    BY <1>11, WorkedKeeps
  <1>12. ASSUME NEW export \in orphans, NEW done \in SUBSET (Festivals \ Skips),
                OrphanEnds(export, done)
         PROVE  IInv'
    BY <1>12, OrphanEndsKeeps
  <1>13. ASSUME Preview \/ Activate PROVE IInv'
    BY <1>13, PreviewKeeps, ActivateKeeps
  <1>14. ASSUME UNCHANGED cutoverVars PROVE IInv'
    <2>1. CutoverTypeOK' /\ NoOrphans'
      BY <1>14 DEF cutoverVars, IInv, CutoverTypeOK, NoOrphans
    <2>2. NoneStranded' /\ SettledIsBuilt' /\ Queued' = Queued
      BY <1>14, RowsUntouched DEF cutoverVars
    <2>3. OneHolder' /\ \A q \in Procs : Fits(q)'
      BY <1>14, <2>2, StillFit DEF cutoverVars
    <2> QED
      BY <2>1, <2>2, <2>3 DEF IInv
  <1> QED
    BY <1>1, <1>2, <1>3, <1>4, <1>5, <1>6, <1>7, <1>8, <1>9, <1>10, <1>11, <1>12, <1>13, <1>14
    DEF CutoverNext

-----------------------------------------------------------------------------
\* The invariant holds in every reachable state: the lock excludes, and what
\* its holder has read of the receipt, of its rows and of its export is true.
THEOREM Inductive ==
    ASSUME CutoverAssumption
    PROVE  CutoverSpec => []IInv
  <1>1. CutoverInit => IInv
    BY InitHolds
  <1>2. IInv /\ [CutoverNext]_cutoverVars => IInv'
    BY NextKeeps
  <1> QED
    BY <1>1, <1>2, PTL DEF CutoverSpec

\* Once the receipt is written (playlist-cutover.ts), no row is left where the
\* database worker never looks, and no old provider script runs or will.
THEOREM ReceiptStrandsNothing ==
    ASSUME CutoverAssumption
    PROVE  CutoverSpec => []NothingStranded
  <1>1. ASSUME IInv PROVE NothingStranded
    <2>1. ASSUME mode = "database", NEW p \in Procs
          PROVE  proc[p].at # "child" /\ proc[p].seen # "legacy"
      <3>1. proc[p].at # "child"
        BY <1>1, <2>1, LegacyAtWork
      <3>2. proc[p].seen # "legacy"
        BY <1>1, <2>1 DEF IInv, Fits, CutoverAssumption
      <3> QED
        BY <3>1, <3>2
    <2> QED
      BY <1>1, <2>1 DEF IInv, NoOrphans, NothingStranded, LegacyEnded
  <1> QED
    BY <1>1, Inductive, PTL

\* A row is marked succeeded only once its publication is in a playlist that
\* was built, or the script skips its festival (app/api/playlists/run/route.ts).
THEOREM SuccessIsTruthful ==
    ASSUME CutoverAssumption
    PROVE  CutoverSpec => SucceededIsBuilt
  <1>1. ASSUME IInv, IInv', NEW j \in CutoverJobs, rows'[j] # Null, rows'[j].state = "SUCCEEDED"
        PROVE  j \in built' \/ FestivalOf[j] \in Skips
    BY <1>1 DEF IInv, SettledIsBuilt, Queued
  <1>2. IInv /\ IInv' =>
          [\A j \in CutoverJobs : rows'[j] # Null /\ rows'[j].state = "SUCCEEDED" =>
             j \in built' \/ FestivalOf[j] \in Skips]_cutoverVars
    BY <1>1
  <1> QED
    BY <1>2, Inductive, PTL DEF SucceededIsBuilt
=============================================================================
