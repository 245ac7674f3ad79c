---------------------------- MODULE ImportEvents ----------------------------
(***************************************************************************)
(* How the import agent is called.  Whatever leaves a case or a repair     *)
(* behind (AgentIssues) queues an event in the same transaction            *)
(* (import-event-queue.ts).  Drains lease queued events, compare them with *)
(* the committed state and send what is ready over ssh (import-events.ts,  *)
(* import-event-transport.mjs) to a receiver on the agent's host           *)
(* (import-event-receiver.mjs), which asks the application again, submits  *)
(* a prompt to the gateway and keeps a receipt; the drain keeps another.   *)
(* Receivers run one at a time, under flock, and outlive their connection. *)
(***************************************************************************)
EXTENDS AgentIssues

CONSTANTS
    Drains,      \* processes that run drainImportEvents
    MaxFaults    \* bound on deaths, errors, lost answers

VARIABLES
    queue,       \* [Identities -> Entry or None]: the rows import-event-<identity>
    call,        \* [Drains -> Call]
    receiver,    \* the receiver process that holds the lock
    receipts,    \* the rows import-dispatch-<eventId>
    filed,       \* the receiver's receipt files
    admitted,    \* how often the gateway was asked for each event (history)
    doubts,      \* how often that went unrecorded (history)
    moot,        \* the rows of queue that were found to be without a case (history)
    obsolete,    \* the events that were acknowledged without a submission (history)
    faults

dispatchVars == <<call, receiver, receipts, filed, admitted, doubts, moot, obsolete, faults>>
vars == <<agentVars, queue, dispatchVars>>

\* An attempt, the enqueueing of a repair (0), and a repair's retry (by token).
Identities ==
    ({"source"} \X (1..MaxChecks)) \cup ({"repair"} \X Issues \X (0..MaxClaims))

\* What the agent is called for: an issue within a failure episode (success; 0 for others)
\* and after a decision (retry), or a repair after a retry.
EventIds ==
    ({"source"} \X Issues \X (0..MaxChecks) \X (0..(2 * MaxClaims + 1))) \cup
    ({"repair"} \X Issues \X (0..MaxClaims))

\* notBefore and the expiry of the lease are abstract: a pending event that nobody works
\* on may be leased at any time, now or later.
Entry == [status : {"pending", "done"}, owner : Drains \cup {None}]

\* What the constants are taken to be.
EventAssumption ==
    AgentAssumption /\ MaxFaults \in Nat /\ None \notin Drains \cup Entry

Pcs == {"idle", "prepare", "send", "await", "record", "settle"}

\* of is the identity leased, id the event to send, done what settling will write.
Call == [pc : Pcs, of : Identities \cup {None}, id : EventIds \cup {None}, done : BOOLEAN]

Idle == [pc |-> "idle", of |-> None, id |-> None, done |-> FALSE]

Receiver == [pc : {"idle", "verify", "submit", "file"}, id : EventIds \cup {None},
             from : Drains \cup {None}]

NoReceiver == [pc |-> "idle", id |-> None, from |-> None]

EventInit ==
    /\ AgentInit
    /\ queue = [q \in Identities |-> None]
    /\ call = [d \in Drains |-> Idle]
    /\ receiver = NoReceiver
    /\ receipts = {} /\ filed = {} /\ moot = {} /\ obsolete = {}
    /\ admitted = [e \in EventIds |-> 0]
    /\ doubts = [e \in EventIds |-> 0]
    /\ faults = 0

-----------------------------------------------------------------------------
(* Queueing, in the transaction of the step that calls for it.             *)

\* A replay does not reset what is queued already.
QueueImportEvent(q) ==
    queue' = [queue EXCEPT ![q] =
        IF @ = None THEN [status |-> "pending", owner |-> None] ELSE @]

PersistAndQueue(i) ==
    Persist(i) /\ QueueImportEvent(<<"source", checks>>)

ResolveAndQueue(i, t, d) ==
    /\ ResolveIssue(i, t, d)
    /\ IF Corrects(i, d) THEN QueueImportEvent(<<"repair", i, 0>>)
                         ELSE UNCHANGED queue

FinishAndQueue(i, t, result) ==
    /\ FinishRepair(i, t, result)
    /\ IF result = "retry" THEN QueueImportEvent(<<"repair", i, t>>)
                           ELSE UNCHANGED queue

\* The steps of AgentIssues, with what they queue.
AgentStep ==
    /\ \/ \E i \in Issues \cup {None} : PersistAndQueue(i)
       \/ \E i \in Issues, t \in Tokens, d \in Decisions : ResolveAndQueue(i, t, d)
       \/ \E i \in Issues, t \in Tokens, r \in {"completed", "retry"} :
             FinishAndQueue(i, t, r)
       \/ /\ \/ SourceClaim \/ SourceSucceeds \/ SourceFails \/ SourceLapse \/ SourceDue
             \/ \E v \in Values : AdminPublish(v) \/ SourcePublish(v)
             \/ \E i \in Issues :
                   \/ ClaimIssue(i) \/ ResumeIssue(i) \/ ClaimRepair(i) \/ Clock(i)
                   \/ \E t \in Tokens : ReleaseIssue(i, t) \/ ConfigureRepair(i, t)
          /\ UNCHANGED queue
    /\ UNCHANGED dispatchVars

-----------------------------------------------------------------------------
(* prepareImportEvent: what has become of a queued event.                  *)

Dropped == [verdict |-> "dropped", id |-> None]
Deferred == [verdict |-> "deferred", id |-> None]
Ready(e) == [verdict |-> "ready", id |-> e]

PreparedRepair(i) ==
    CASE repair[i].status \in {"none", "completed"} -> Dropped
      [] repair[i].status \in {"pending", "retry"} /\ (repair[i].live \/ repair[i].wait) ->
            Deferred
      [] OTHER -> Ready(<<"repair", i, repair[i].retry>>)

\* The issue of the source, if attempt a is the one it was found in.
PreparedSource(a) ==
    LET i == source.issue
        failed == Kind[i] = "failure"
        episode == IF failed THEN source.success ELSE 0
        backoff == failed /\ state[i].attempts > 0 /\ source.wait
    IN  IF i = None \/ source.attempt = 0 \/ source.attempt # a THEN Dropped
        ELSE IF Leased THEN Deferred
        ELSE IF state[i].status \in {"needs_user", "resolved"} THEN Dropped
        ELSE IF state[i].live \/ state[i].wait \/ backoff THEN Deferred
        ELSE Ready(<<"source", i, episode, state[i].retry>>)

Prepared(q) == IF q[1] = "repair" THEN PreparedRepair(q[2]) ELSE PreparedSource(q[2])

\* The row has no case, whoever is at work.
NothingToAsk(q) ==
    IF q[1] = "repair" THEN repair[q[2]].status \in {"none", "completed"}
    ELSE \/ source.issue = None \/ source.attempt # q[2]
         \/ state[source.issue].status \in {"needs_user", "resolved"}

\* verifyDispatchEvent asks about the source's latest attempt.
Verified(e) ==
    Prepared(IF e[1] = "repair" THEN e ELSE <<"source", source.attempt>>)

-----------------------------------------------------------------------------
(* A drain.                                                                *)

Pending(q) == queue[q] # None /\ queue[q].status = "pending"

WorkedOn(q) == Pending(q) /\ queue[q].owner # None /\ call[queue[q].owner].of = q

\* The lease of a dead drain runs out; that of a drain at work only if it stalls for two
\* minutes, which is a fault.
DrainClaim(d, q) ==
    /\ call[d].pc = "idle"
    /\ Pending(q)
    /\ WorkedOn(q) => faults < MaxFaults
    /\ faults' = IF WorkedOn(q) THEN faults + 1 ELSE faults
    /\ queue' = [queue EXCEPT ![q].owner = d]
    /\ call' = [call EXCEPT ![d] = [Idle EXCEPT !.pc = "prepare", !.of = q]]
    /\ UNCHANGED <<agentVars, receiver, receipts, filed, admitted, doubts, moot, obsolete>>

\* The next step of d's call: settle as done or for later, or go on to pc.
Settling(d, done) ==
    call' = [call EXCEPT ![d].pc = "settle", ![d].done = done]

GoesOn(d, pc, e) == call' = [call EXCEPT ![d].pc = pc, ![d].id = e]

\* An event that has its receipt is done, as is one without a case.
Prepare(d) ==
    LET p == Prepared(call[d].of)
    IN  /\ call[d].pc = "prepare"
        /\ IF p.verdict = "ready" /\ p.id \notin receipts THEN GoesOn(d, "send", p.id)
           ELSE Settling(d, p.verdict # "deferred")
        /\ moot' = IF NothingToAsk(call[d].of) THEN moot \cup {call[d].of} ELSE moot
        /\ UNCHANGED <<agentVars, queue, receiver, receipts, filed, admitted, doubts,
                       obsolete, faults>>

\* The connection starts a receiver, once it has the lock.
Send(d) ==
    /\ call[d].pc = "send"
    /\ receiver.pc = "idle"
    /\ receiver' = [pc |-> "verify", id |-> call[d].id, from |-> d]
    /\ GoesOn(d, "await", call[d].id)
    /\ UNCHANGED <<agentVars, queue, receipts, filed, admitted, doubts, moot, obsolete, faults>>

RecordMutant(d) ==
    /\ call[d].pc = "record"
    /\ receipts' = receipts \cup {call[d].of}
    /\ Settling(d, TRUE)
    /\ UNCHANGED <<agentVars, queue, receiver, filed, admitted, doubts, moot, obsolete, faults>>

\* The receipt; upserted, so that a second one changes nothing.
Record(d) ==
    /\ call[d].pc = "record"
    /\ receipts' = receipts \cup {call[d].id}
    /\ Settling(d, TRUE)
    /\ UNCHANGED <<agentVars, queue, receiver, filed, admitted, doubts, moot, obsolete, faults>>

\* The receiver no longer has anybody to answer.
Disconnected(d) == IF receiver.from = d THEN [receiver EXCEPT !.from = None] ELSE receiver

\* No connection, no lock, 25 seconds over, an answer lost, a database error.
Fails(d) ==
    /\ call[d].pc \in {"prepare", "send", "await", "record"}
    /\ faults < MaxFaults /\ faults' = faults + 1
    /\ receiver' = Disconnected(d)
    /\ Settling(d, FALSE)
    /\ UNCHANGED <<agentVars, queue, receipts, filed, admitted, doubts, moot, obsolete>>

SettleMutant(d) ==
    /\ call[d].pc = "settle"
    /\ queue' = [queue EXCEPT ![call[d].of] =
          [status |-> IF call[d].done THEN "done" ELSE "pending", owner |-> None]]
    /\ call' = [call EXCEPT ![d] = Idle]
    /\ UNCHANGED <<agentVars, receiver, receipts, filed, admitted, doubts, moot, obsolete, faults>>

\* Whoever lost its lease to another drain changes nothing.
Settle(d) ==
    /\ call[d].pc = "settle"
    /\ queue' = IF queue[call[d].of].owner = d
                THEN [queue EXCEPT ![call[d].of] =
                        [status |-> IF call[d].done THEN "done" ELSE "pending",
                         owner |-> None]]
                ELSE queue
    /\ call' = [call EXCEPT ![d] = Idle]
    /\ UNCHANGED <<agentVars, receiver, receipts, filed, admitted, doubts, moot, obsolete, faults>>

Die(d) ==
    /\ call[d].pc # "idle"
    /\ faults < MaxFaults /\ faults' = faults + 1
    /\ call' = [call EXCEPT ![d] = Idle]
    /\ receiver' = Disconnected(d)
    /\ UNCHANGED <<agentVars, queue, receipts, filed, admitted, doubts, moot, obsolete>>

-----------------------------------------------------------------------------
(* The receiver.                                                           *)

\* It ends with an answer to the drain that waits for it, if it still does.
Answers(accepted) ==
    /\ receiver' = NoReceiver
    /\ call' = [d \in Drains |->
          IF d # receiver.from THEN call[d]
          ELSE IF accepted THEN [call[d] EXCEPT !.pc = "record"]
          ELSE [call[d] EXCEPT !.pc = "settle", !.done = FALSE]]

\* The receipt file, then the application's verdict.
Verify ==
    LET e == receiver.id
        p == Verified(e)
    IN  /\ receiver.pc = "verify"
        /\ \/ /\ e \in filed
              /\ Answers(TRUE) /\ UNCHANGED obsolete
           \/ /\ e \notin filed /\ p = Ready(e)
              /\ receiver' = [receiver EXCEPT !.pc = "submit"]
              /\ UNCHANGED <<call, obsolete>>
           \/ /\ e \notin filed /\ p.verdict # "deferred" /\ p # Ready(e)
              /\ receiver' = [receiver EXCEPT !.pc = "file"]
              /\ obsolete' = obsolete \cup {e}
              /\ UNCHANGED call
           \/ /\ e \notin filed /\ p.verdict = "deferred"
              /\ Answers(FALSE) /\ UNCHANGED obsolete
        /\ UNCHANGED <<agentVars, queue, receipts, filed, admitted, doubts, moot, faults>>

\* The gateway admits an idempotency key once, however often it is asked.
Submit ==
    /\ receiver.pc = "submit"
    /\ admitted' = [admitted EXCEPT ![receiver.id] = @ + 1]
    /\ receiver' = [receiver EXCEPT !.pc = "file"]
    /\ UNCHANGED <<agentVars, queue, call, receipts, filed, doubts, moot, obsolete, faults>>

\* Written aside and renamed, then answered.
File ==
    /\ receiver.pc = "file"
    /\ filed' = filed \cup {receiver.id}
    /\ Answers(TRUE)
    /\ UNCHANGED <<agentVars, queue, receipts, admitted, doubts, moot, obsolete, faults>>

\* The host or the API fails; or the gateway is asked and neither it nor the receiver says.
ReceiverFails ==
    /\ receiver.pc # "idle"
    /\ faults < MaxFaults /\ faults' = faults + 1
    /\ \E asked \in BOOLEAN :
          /\ asked => receiver.pc = "submit"
          /\ admitted' = IF asked THEN [admitted EXCEPT ![receiver.id] = @ + 1] ELSE admitted
          /\ doubts' = IF asked \/ receiver.pc = "file"
                       THEN [doubts EXCEPT ![receiver.id] = @ + 1] ELSE doubts
    /\ Answers(FALSE)
    /\ UNCHANGED <<agentVars, queue, receipts, filed, moot, obsolete>>

-----------------------------------------------------------------------------
DrainStep(d) == Prepare(d) \/ Send(d) \/ Record(d) \/ Settle(d)

ReceiverStep == Verify \/ Submit \/ File

Next ==
    \/ AgentStep
    \/ \E d \in Drains : DrainStep(d) \/ Fails(d) \/ Die(d)
    \/ \E d \in Drains, q \in Identities : DrainClaim(d, q)
    \/ ReceiverStep \/ ReceiverFails

Spec == EventInit /\ [][Next]_vars

-----------------------------------------------------------------------------
(* Properties.                                                             *)

\* Type invariant, of the cases and of the delivery.
EventTypeOK ==
    /\ AgentTypeOK
    /\ queue \in [Identities -> Entry \cup {None}]
    /\ call \in [Drains -> Call]
    /\ receiver \in Receiver
    /\ receipts \subseteq EventIds /\ filed \subseteq EventIds
    /\ obsolete \subseteq EventIds /\ moot \subseteq Identities
    /\ {admitted, doubts} \subseteq [EventIds -> Nat]
    /\ faults \in 0..MaxFaults

\* The gateway is asked a second time for the same event only if a receiver failed between
\* asking and its receipt: lost connections, other drains and repeated checks of a failing
\* source do not call the model again.
CallsExplained == \A e \in EventIds : admitted[e] <= 1 + doubts[e]

\* Once done, an event is never queued again: not by a replay of what queued it, nor by a
\* drain that has lost its lease and reports a failure.
DoneStays ==
    [][\A q \in Identities :
          queue[q] # None /\ queue[q].status = "done" => queue'[q] = queue[q]]_vars

\* What is closed stays closed, an issue or repair as well as an event.
NothingReopened == ClosedStays /\ DoneStays

Done(q) == queue[q] # None /\ queue[q].status = "done"

\* The event that a queued event stands for now has been handed to the gateway, or was
\* once acknowledged as obsolete.
HandedOver(q) ==
    LET p == Prepared(q)
    IN  p.verdict = "ready" => admitted[p.id] > 0 \/ p.id \in obsolete

\* No call gets lost: when the event of the latest check's attempt is done, had a case when
\* it was looked at, and its issue still waits for a first decision, then the agent has been
\* called for it; likewise when the last event of a repair is done and the repair is not.
\* A check that fails without an attempt is to call nobody.
NoCallLost ==
    /\ source.attempt > 0 /\ source.attempt = checks /\ source.issue # None =>
          LET q == <<"source", source.attempt>>
          IN  Done(q) /\ q \notin moot /\ state[source.issue].attempts = 0 => HandedOver(q)
    /\ \A i \in Issues :
          LET q == <<"repair", i, repair[i].retry>> IN Done(q) => HandedOver(q)

\* No capability settles twice, no event is called for twice, and none is dropped.
NothingTwice == EventTypeOK /\ SettledOnce /\ CallsExplained /\ NoCallLost

\* What docs/import-conflict-agent.md says of a source event: it is rechecked after the
\* importer releases its lease, and discarded if it needs nobody then.  So no drain settles
\* the event of a check as done while that check is running.
RecheckedAfterRelease ==
    [][\A d \in Drains :
          /\ call[d].pc = "prepare" /\ call'[d].pc = "settle" /\ call'[d].done
          /\ call[d].of = <<"source", source.attempt>> /\ source.attempt = checks
          => ~Leased]_vars

\* A queued event waits to be done.
Undelivered == \E q \in Identities : queue[q] # None /\ ~Done(q)
=============================================================================
