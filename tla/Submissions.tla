---------------------------- MODULE Submissions ----------------------------
(* Festivals submitted by visitors (app/api/submissions/route.ts) and their  *)
(* review (decideSubmission in lib/admin-store.ts).  Both run in one         *)
(* SERIALIZABLE transaction.  Its snapshot is taken by the first statement;  *)
(* for a submission that statement asks for the submitter's advisory lock,   *)
(* so the rows that are counted may be older than the lock: what protects    *)
(* the limit is the isolation level.                                         *)
EXTENDS Naturals, FiniteSets

CONSTANTS Requests,       \* transactions in flight
          Submitters,     \* hashed addresses of submitters
          Festivals,      \* fingerprints: name, year and host
          Admins,
          Limit,          \* 5 submissions
          Window,         \* an hour
          MaxHours,         \* bound on the clock
          NoRequest       \* no transaction

\* What is assumed of the constants.
ASSUME SubmissionAssumption == {Limit, Window, MaxHours} \subseteq Nat

VARIABLES rows,     \* FestivalSubmission
          audit,    \* FestivalSubmissionAudit of decisions
          tx,       \* what a request asks, and its snapshot
          hour

submissionVars == <<rows, audit, tx, hour>>

SubmissionInit == rows = {} /\ audit = {} /\ hour = 0 /\ tx = [r \in Requests |-> NoRequest]

(* A row: what was submitted, when and by whom. *)
Submission(f, at, s, status) == [festival |-> f, at |-> at, submitter |-> s, status |-> status]

(* The transaction begins: it sees the rows as they are. *)
Begin(r, what) ==
    /\ tx[r] = NoRequest
    /\ tx' = [tx EXCEPT ![r] = [what |-> what, seen |-> rows]]
    /\ UNCHANGED <<rows, audit, hour>>

Submit(r, s, f) == Begin(r, [op |-> "submit", by |-> s, festival |-> f])

DecideSubmission(r, a, row, status) ==
    Begin(r, [op |-> "decide", by |-> a, festival |-> row.festival,
              status |-> status])

(* The transaction is over; aborted, it leaves nothing and answers 503 or    *)
(* an error.                                                                 *)
End(r) == tx' = [tx EXCEPT ![r] = NoRequest] /\ UNCHANGED hour
Aborted(r) == End(r) /\ UNCHANGED <<rows, audit>>

Recent(seen, s) == {x \in seen : x.submitter = s /\ x.at + Window >= hour}

(* What was committed since the snapshot and would have changed what the     *)
(* transaction read: rows of the submitter or of the same festival.          *)
Serializable(t) ==
    \A x \in rows \ t.seen :
        x.submitter # t.what.by /\ x.festival # t.what.festival

(* The limit comes first, then the duplicate, which is answered with the     *)
(* reference of the row there is; then the insert with its audit entry.      *)
FinishSubmit(r) ==
    LET t == tx[r] IN
    /\ t # NoRequest
    /\ t.what.op = "submit"
    /\ \/ Aborted(r)
       \/ /\ Cardinality(Recent(t.seen, t.what.by)) < Limit
          /\ \A x \in t.seen : x.festival # t.what.festival
          /\ Serializable(t)
          /\ rows' = rows \cup {Submission(t.what.festival, hour, t.what.by, "PENDING")}
          /\ UNCHANGED audit
          /\ End(r)

RowOf(set, f) == {x \in set : x.festival = f}

(* Pending when read, and when updated. *)
StillPending(t) ==
    \A x \in RowOf(t.seen, t.what.festival) \cup RowOf(rows, t.what.festival) :
        x.status = "PENDING"

FinishDecide(r) ==
    LET t == tx[r] IN
    /\ t # NoRequest
    /\ t.what.op = "decide"
    /\ \/ Aborted(r)
       \/ /\ StillPending(t)
          /\ rows' = {IF x.festival = t.what.festival
                        THEN Submission(x.festival, x.at, x.submitter, t.what.status) ELSE x
                      : x \in rows}
          /\ audit' = audit \cup {[festival |-> t.what.festival,
                                   actor |-> t.what.by, action |-> t.what.status]}
          /\ End(r)

Tick == hour < MaxHours /\ hour' = hour + 1 /\ UNCHANGED <<rows, audit, tx>>

SubmissionNext ==
    \/ \E r \in Requests :
          \/ \E s \in Submitters, f \in Festivals : Submit(r, s, f)
          \/ \E a \in Admins, x \in rows, status \in {"APPROVED", "REJECTED"} :
                DecideSubmission(r, a, x, status)
          \/ FinishSubmit(r)
          \/ FinishDecide(r)
    \/ Tick

SubmissionSpec == SubmissionInit /\ [][SubmissionNext]_submissionVars

(* ---- Properties -------------------------------------------------------- *)

(* However submissions overlap, a festival has one row and no submitter has  *)
(* more than the limit within any hour.                                      *)
LimitKept ==
    /\ \A x, y \in rows : x.festival = y.festival => x = y
    /\ \A x \in rows :
          Cardinality({y \in rows : /\ y.submitter = x.submitter
                                    /\ y.at \in x.at .. x.at + Window}) <= Limit

(* A submission is decided once: two administrators who decide it together   *)
(* leave one decision, its status and its one audit entry in agreement.      *)
ReviewedOnce ==
    \A x \in rows :
        LET of == {e \in audit : e.festival = x.festival} IN
        /\ Cardinality(of) = (IF x.status = "PENDING" THEN 0 ELSE 1)
        /\ \A e \in of : e.action = x.status

=============================================================================
