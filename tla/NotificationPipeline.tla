------------------------- MODULE NotificationPipeline -------------------------
(***************************************************************************)
(* From a published change to the user: the outbox that a publication      *)
(* fills (publishIngestionResult), its drain (notification-outbox.ts), the *)
(* fan-out of an event to those who want it (recordChange) and the         *)
(* dispatchers that send the deliveries (dispatchDue in notifications.ts). *)
(*                                                                         *)
(* A recipient is a user on one channel.  Times are abstract: a delivery   *)
(* is due from BecomeDue on, a claim is older than 15 minutes from Expire  *)
(* on.  A dispatcher's claim token is a fresh random UUID: a name is used  *)
(* again only when no delivery would bear it from an earlier claim.        *)
(***************************************************************************)
EXTENDS Naturals, FiniteSets, Sequences

CONSTANTS
    Keys,           \* dedupe keys of changes
    Recipients,
    Dispatchers,    \* calls of dispatchDue, named by their claim tokens
    MaxAttempts,    \* failed attempts after which a delivery is FAILED (5)
    Limit,          \* deliveries claimed by one call
    MaxStaged,      \* bound on the outbox
    MaxFaults,      \* bound on lost answers, failed statements, deaths and stalls
    MaxToggles,     \* bound on changes of preferences and subscriptions
    None

ASSUME PipelineAssumption ==
    /\ MaxAttempts \in Nat \ {0}
    /\ Limit \in Nat \ {0}
    /\ MaxStaged \in Nat
    /\ MaxFaults \in Nat
    /\ MaxToggles \in Nat
    /\ IsFiniteSet(Dispatchers)
    /\ None \notin Dispatchers \cup (Keys \X Recipients)

VARIABLES
    outbox,     \* Seq of [key, delivered]: IngestionNotificationOutbox
    events,     \* the keys of NotificationEvent
    wants,      \* the recipients with an enabled (and, for email, verified) preference
    reachable,  \* the recipients with an enabled subscription or a verified address
    delivery,   \* [Deliveries -> Delivery or None]: NotificationDelivery
    call,       \* [Dispatchers -> Call]
    accepted,   \* [Deliveries -> Nat]: requests the provider has accepted
    doubts,     \* [Deliveries -> Nat]: answers lost, updates failed and claims taken over
    faults, toggles

vars == <<outbox, events, wants, reachable, delivery, call, accepted, doubts, faults, toggles>>

Deliveries == Keys \X Recipients

Terminal == {"SENT", "FAILED", "SKIPPED"}

\* stale is claimedAt < NOW() - 15 minutes, due is nextAttemptAt <= NOW().
Delivery == [status : {"PENDING", "CLAIMED"} \cup Terminal, attempts : 0..MaxAttempts,
             token : Dispatchers \cup {None}, stale : BOOLEAN, due : BOOLEAN]

ASSUME NoneAssumption == None \notin Delivery

\* todo are the deliveries still to send, and attempts and reached what was read of
\* them before the first request; ok is the outcome of the request for current.
Call == [pc : {"idle", "read", "loop", "record"}, todo : SUBSET Deliveries,
         attempts : [Deliveries -> 0..MaxAttempts], reached : SUBSET Deliveries,
         current : Deliveries \cup {None}, ok : BOOLEAN]

Idle == [pc |-> "idle", todo |-> {}, attempts |-> [x \in Deliveries |-> 0], reached |-> {},
         current |-> None, ok |-> FALSE]

Init ==
    /\ outbox = <<>>
    /\ events = {}
    /\ wants \in SUBSET Recipients
    /\ reachable = Recipients
    /\ delivery = [x \in Deliveries |-> None]
    /\ call = [d \in Dispatchers |-> Idle]
    /\ accepted = [x \in Deliveries |-> 0]
    /\ doubts = [x \in Deliveries |-> 0]
    /\ faults = 0
    /\ toggles = 0

-----------------------------------------------------------------------------
\* A definition named "...Mutant" is the next one with a plausible bug: no action
\* uses it, and the property it is paired with in PROJECT.json fails when it takes
\* that definition's place.

Fault == faults < MaxFaults /\ faults' = faults + 1

Pending(due) == [status |-> "PENDING", attempts |-> 0, token |-> None, stale |-> FALSE, due |-> due]

\* recordChange's createMany: one delivery per recipient, existing ones are skipped;
\* a digest is due later.
FanOut(k) ==
    \E due \in BOOLEAN :
       delivery' = [x \in Deliveries |->
                      IF x[1] = k /\ x[2] \in wants /\ delivery[x] = None THEN Pending(due)
                      ELSE delivery[x]]

-----------------------------------------------------------------------------
(* The outbox *)

\* publishIngestionResult stages the change in the transaction that publishes it.
Stage(k) ==
    /\ Len(outbox) < MaxStaged
    /\ outbox' = Append(outbox, [key |-> k, delivered |-> FALSE])
    /\ UNCHANGED <<events, wants, reachable, delivery, call, accepted, doubts, faults, toggles>>

\* The acknowledgement is committed even if the recording fails.
DrainMutant(i) ==
    /\ ~outbox[i].delivered
    /\ outbox' = [outbox EXCEPT ![i].delivered = TRUE]
    /\ \/ events' = events \cup {outbox[i].key} /\ FanOut(outbox[i].key) /\ UNCHANGED faults
       \/ Fault /\ UNCHANGED <<events, delivery>>
    /\ UNCHANGED <<wants, reachable, call, accepted, doubts, toggles>>

\* drainIngestionNotificationOutbox, one row: event, fan-out and acknowledgement are one
\* transaction.  A row that another drainer has locked is passed over (SKIP LOCKED).
Drain(i) ==
    /\ ~outbox[i].delivered
    /\ events' = events \cup {outbox[i].key}
    /\ FanOut(outbox[i].key)
    /\ outbox' = [outbox EXCEPT ![i].delivered = TRUE]
    /\ UNCHANGED <<wants, reachable, call, accepted, doubts, faults, toggles>>

\* The user subscribes or unsubscribes; the endpoint is removed or added.
Toggle(r) ==
    /\ toggles < MaxToggles
    /\ toggles' = toggles + 1
    /\ \/ /\ wants' = IF r \in wants THEN wants \ {r} ELSE wants \cup {r}
          /\ UNCHANGED reachable
       \/ /\ reachable' = IF r \in reachable THEN reachable \ {r} ELSE reachable \cup {r}
          /\ UNCHANGED wants
    /\ UNCHANGED <<outbox, events, delivery, call, accepted, doubts, faults>>

-----------------------------------------------------------------------------
(* Dispatching *)

\* A claim is never taken over.
ClaimableMutant(x) == delivery[x] # None /\ delivery[x].status = "PENDING" /\ delivery[x].due

Claimable(x) ==
    /\ delivery[x] # None
    /\ \/ delivery[x].status = "PENDING" /\ delivery[x].due
       \/ delivery[x].status = "CLAIMED" /\ delivery[x].stale

\* One statement claims a batch of due deliveries and of abandoned claims.
Claim(d) ==
    LET all == {x \in Deliveries : Claimable(x)} IN
    /\ call[d].pc = "idle"
    /\ \E batch \in SUBSET all :
          /\ batch # {}
          /\ \A x \in Deliveries \ batch : delivery[x] # None => delivery[x].token # d
          /\ Cardinality(batch) = Limit \/ (batch = all /\ Cardinality(all) < Limit)
          /\ delivery' = [x \in Deliveries |->
                IF x \in batch THEN [delivery[x] EXCEPT !.status = "CLAIMED", !.token = d,
                                                        !.stale = FALSE, !.due = FALSE]
                ELSE delivery[x]]
          /\ doubts' = [x \in Deliveries |->
                IF x \in batch /\ delivery[x].status = "CLAIMED" THEN doubts[x] + 1 ELSE doubts[x]]
    /\ call' = [call EXCEPT ![d].pc = "read"]
    /\ UNCHANGED <<outbox, events, wants, reachable, accepted, faults, toggles>>

Mine(d, x) == delivery[x] # None /\ delivery[x].token = d /\ delivery[x].status = "CLAIMED"

\* The claimed rows are read once, with the subscriptions, for the whole batch.
Read(d) ==
    LET mine == {x \in Deliveries : Mine(d, x)} IN
    /\ call[d].pc = "read"
    /\ call' = [call EXCEPT ![d] = [Idle EXCEPT
          !.pc = IF mine = {} THEN "idle" ELSE "loop", !.todo = mine,
          !.attempts = [x \in Deliveries |-> IF x \in mine THEN delivery[x].attempts ELSE 0],
          !.reached = {x \in mine : x[2] \in reachable}]]
    /\ UNCHANGED <<outbox, events, wants, reachable, delivery, accepted, doubts, faults, toggles>>

\* The update names the delivery only.
UpdateMutant(d, x, status, attempts) ==
    delivery' = [delivery EXCEPT ![x] = [status |-> status, attempts |-> attempts,
                                         token |-> None, stale |-> FALSE, due |-> FALSE]]

\* updateMany where id and claimToken: nothing happens once the claim is another's.
Update(d, x, status, attempts) ==
    delivery' = IF delivery[x].token # d THEN delivery
                ELSE [delivery EXCEPT ![x] = [status |-> status, attempts |-> attempts,
                                              token |-> None, stale |-> FALSE, due |-> FALSE]]

\* The delivery has been dealt with; the call ends with its last one.
Drops(d, x) ==
    call' = [call EXCEPT ![d] = IF call[d].todo = {x} THEN Idle
                ELSE [call[d] EXCEPT !.pc = "loop", !.todo = call[d].todo \ {x}, !.current = None,
                                     !.ok = FALSE]]

\* No endpoint, or the address is not verified.
Skip(d, x) ==
    /\ call[d].pc = "loop" /\ x \in call[d].todo \ call[d].reached
    /\ Update(d, x, "SKIPPED", delivery[x].attempts)
    /\ Drops(d, x)
    /\ UNCHANGED <<outbox, events, wants, reachable, accepted, doubts, faults, toggles>>

\* The request to the provider: accepted, refused, or accepted with the answer lost.
Send(d, x) ==
    /\ call[d].pc = "loop" /\ x \in call[d].todo \cap call[d].reached
    /\ \E taken, answered \in BOOLEAN :
          /\ IF answered THEN UNCHANGED <<doubts, faults>>
             ELSE taken /\ Fault /\ doubts' = [doubts EXCEPT ![x] = doubts[x] + 1]
          /\ accepted' = IF taken THEN [accepted EXCEPT ![x] = accepted[x] + 1] ELSE accepted
          /\ call' = [call EXCEPT ![d] = [call[d] EXCEPT
                         !.pc = "record", !.current = x, !.ok = taken /\ answered]]
    /\ UNCHANGED <<outbox, events, wants, reachable, delivery, toggles>>

RecordSent(d) ==
    LET x == call[d].current IN
    /\ call[d].pc = "record" /\ call[d].ok
    /\ Update(d, x, "SENT", delivery[x].attempts + 1)
    /\ Drops(d, x)
    /\ UNCHANGED <<outbox, events, wants, reachable, accepted, doubts, faults, toggles>>

\* The SENT update fails: the catch block counts the sent delivery as failed.
SentUpdateFails(d) ==
    /\ call[d].pc = "record" /\ call[d].ok
    /\ Fault
    /\ call' = [call EXCEPT ![d].ok = FALSE]
    /\ doubts' = [doubts EXCEPT ![call[d].current] = doubts[call[d].current] + 1]
    /\ UNCHANGED <<outbox, events, wants, reachable, delivery, accepted, toggles>>

\* A failed attempt: the delivery waits for the next one, or has had its last.
RecordFailed(d) ==
    LET x == call[d].current
        n == call[d].attempts[x] + 1
    IN  /\ call[d].pc = "record" /\ ~call[d].ok
        /\ Update(d, x, IF n >= MaxAttempts THEN "FAILED" ELSE "PENDING", n)
        /\ Drops(d, x)
        /\ UNCHANGED <<outbox, events, wants, reachable, accepted, doubts, faults, toggles>>

\* The call dies, or throws out of its loop; what it has claimed stays CLAIMED.
Die(d) ==
    /\ call[d].pc # "idle"
    /\ Fault
    /\ call' = [call EXCEPT ![d] = Idle]
    /\ UNCHANGED <<outbox, events, wants, reachable, delivery, accepted, doubts, toggles>>

\* Fifteen minutes pass; a request has no timeout, so the call may still be at work.
Expire(x) ==
    /\ delivery[x] # None
    /\ delivery[x].status = "CLAIMED" /\ ~delivery[x].stale
    /\ IF call[delivery[x].token].pc = "idle" THEN UNCHANGED faults ELSE Fault
    /\ delivery' = [delivery EXCEPT ![x].stale = TRUE]
    /\ UNCHANGED <<outbox, events, wants, reachable, call, accepted, doubts, toggles>>

BecomeDue(x) ==
    /\ delivery[x] # None
    /\ delivery[x].status = "PENDING" /\ ~delivery[x].due
    /\ delivery' = [delivery EXCEPT ![x].due = TRUE]
    /\ UNCHANGED <<outbox, events, wants, reachable, call, accepted, doubts, faults, toggles>>

Step(d) ==
    \/ Claim(d) \/ Read(d) \/ RecordSent(d) \/ RecordFailed(d)
    \/ \E x \in Deliveries : Skip(d, x) \/ Send(d, x)

Next ==
    \/ \E k \in Keys : Stage(k)
    \/ \E i \in 1..Len(outbox) : Drain(i)
    \/ \E r \in Recipients : Toggle(r)
    \/ \E d \in Dispatchers : Step(d) \/ SentUpdateFails(d) \/ Die(d)
    \/ \E x \in Deliveries : Expire(x) \/ BecomeDue(x)

Spec == Init /\ [][Next]_vars

\* The timers start a drain and a dispatch again and again, a running call goes on
\* (its provider answers, if only with an error), and time passes.
Fairness ==
    /\ WF_vars(\E i \in 1..Len(outbox) : Drain(i))
    /\ \A d \in Dispatchers : WF_vars(Step(d))
    /\ \A x \in Deliveries : WF_vars(Expire(x)) /\ WF_vars(BecomeDue(x))

FairSpec == Spec /\ Fairness

-----------------------------------------------------------------------------
(* Properties *)

\* Every variable has its type.
TypeOK ==
    /\ outbox \in Seq([key : Keys, delivered : BOOLEAN]) /\ Len(outbox) <= MaxStaged
    /\ events \subseteq Keys
    /\ wants \subseteq Recipients /\ reachable \subseteq Recipients
    /\ delivery \in [Deliveries -> Delivery \cup {None}]
    /\ call \in [Dispatchers -> Call]
    /\ accepted \in [Deliveries -> Nat] /\ doubts \in [Deliveries -> Nat]
    /\ faults \in 0..MaxFaults
    /\ toggles \in 0..MaxToggles

\* A provider accepts the same delivery more than once only where an answer was lost,
\* an update failed after the request, or a claim was taken over: every repetition has
\* such an occasion of its own (claimToken, FOR UPDATE SKIP LOCKED).
RepetitionsExplained == \A x \in Deliveries : accepted[x] <= 1 + doubts[x]

\* A delivery that is SENT, FAILED or SKIPPED stays what it is, attempts included, even
\* if the change is observed again or a call that lost its claim records late.
OutcomesStay ==
    [][\A x \in Deliveries :
         delivery[x] # None /\ delivery[x].status \in Terminal => delivery'[x] = delivery[x]]_vars

\* A delivery that is SENT was accepted by its provider, and one that gave up was
\* really tried as often as it may be.
OutcomesTrue ==
    \A x \in Deliveries : delivery[x] # None =>
        /\ delivery[x].status = "SENT" => accepted[x] > 0
        /\ delivery[x].status = "FAILED" => delivery[x].attempts = MaxAttempts

\* No staged change is lost: a row that is acknowledged has its event, whatever fails
\* in the drain (event, fan-out and acknowledgement share one commit).
AcknowledgedIsRecorded == \A i \in 1..Len(outbox) : outbox[i].delivered => outbox[i].key \in events

\* What the database says of the changes and their deliveries is so, and whoever was told
\* twice was told so because a dispatcher failed in between.
RecordsTrue == TypeOK /\ RepetitionsExplained /\ OutcomesTrue /\ AcknowledgedIsRecorded

\* "Re-observing a change therefore returns the existing event and cannot create
\* another delivery" (docs/notifications.md:3).
ReobservedIsSilent ==
    [][\A x \in Deliveries :
         x[1] \in events /\ delivery[x] = None => delivery'[x] = None]_vars

\* Every delivery comes to an end, and every staged change is recorded.
DeliveriesEnd ==
    /\ \A x \in Deliveries :
          delivery[x] # None ~> delivery[x] # None /\ delivery[x].status \in Terminal
    /\ \A k \in Keys : (\E i \in 1..Len(outbox) : outbox[i].key = k) ~> k \in events
=============================================================================
