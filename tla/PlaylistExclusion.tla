-------------------------- MODULE PlaylistExclusion --------------------------
(***************************************************************************)
(* What the playlist queue promises its workers, without rows, owners or   *)
(* transactions: each festival is held by at most one job, under a lease   *)
(* that may lapse.  A lapsed hold is not handed to another job of the      *)
(* festival; only the same job may take it up again, as a new attempt.     *)
(* A job that is done stays done.                                          *)
(***************************************************************************)
EXTENDS Naturals

CONSTANTS Festivals, Jobs, FestivalOf, NoJob

VARIABLES
    holder,     \* [Festivals -> Jobs or NoJob]
    live,       \* [Festivals -> BOOLEAN]: the holder's lease has not lapsed
    attempts,   \* [Jobs -> Nat]: the fencing token of each job
    done        \* the jobs that succeeded

vars == <<holder, live, attempts, done>>

Init ==
    /\ holder = [f \in Festivals |-> NoJob]
    /\ live = [f \in Festivals |-> FALSE]
    /\ attempts = [j \in Jobs |-> 0]
    /\ done = {}

\* A free festival is taken, or a lapsed hold is taken up again by its own job.
Acquire(j) ==
    LET f == FestivalOf[j] IN
    /\ j \notin done
    /\ holder[f] \in {NoJob, j}
    /\ ~live[f]
    /\ holder' = [holder EXCEPT ![f] = j]
    /\ live' = [live EXCEPT ![f] = TRUE]
    /\ attempts' = [attempts EXCEPT ![j] = @ + 1]
    /\ UNCHANGED done

\* Only a live hold is given up, with or without success.
Release(j) ==
    LET f == FestivalOf[j] IN
    /\ holder[f] = j
    /\ live[f]
    /\ holder' = [holder EXCEPT ![f] = NoJob]
    /\ live' = [live EXCEPT ![f] = FALSE]
    /\ done' \in {done, done \cup {j}}
    /\ UNCHANGED attempts

\* Leases lapse, of any number of festivals at once; a lapsed one never revives.
Lapse ==
    /\ \E lapsed \in SUBSET Festivals :
          live' = [f \in Festivals |-> live[f] /\ f \notin lapsed]
    /\ UNCHANGED <<holder, attempts, done>>

Next == Lapse \/ \E j \in Jobs : Acquire(j) \/ Release(j)

Spec == Init /\ [][Next]_vars
=============================================================================
