------------------------------- MODULE Queues -------------------------------
(***************************************************************************)
(* The two queues that administrators work off: what checks found and what *)
(* visitors submitted.                                                     *)
(***************************************************************************)
EXTENDS ReviewQueue, Submissions

\* The queue offers each pending content once, and to act on only while the source is as it
\* was when the attempt began; submissions are limited and decided once, however they overlap
\* (lib/ingestion/review-queue.mjs, app/api/submissions/route.ts).
QueuesSound == ActionableIsFresh /\ NothingDropped /\ LimitKept /\ ReviewedOnce
=============================================================================
