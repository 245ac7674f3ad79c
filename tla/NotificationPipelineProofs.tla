--------------------- MODULE NotificationPipelineProofs ---------------------
(***************************************************************************)
(* Proofs about NotificationPipeline, for every set of changes, recipients *)
(* and dispatchers and any number of faults: what the database says of a   *)
(* delivery is so, a repetition has its cause, and an outcome is final.    *)
(*                                                                         *)
(* The argument counts licences to send.  A delivery that waits is worth   *)
(* one, and so is it to every call that still has it to send; a request    *)
(* that was accepted uses one up, and only a lost answer, a failed update  *)
(* or a claim taken over, each of them counted as a doubt, gives a new one.*)
(***************************************************************************)
EXTENDS NotificationPipeline, FiniteSetTheorems, SequenceTheorems, TLAPS

\* The call d may send x (again).
Licensed(d, x) ==
    \/ call[d].pc = "read" /\ Mine(d, x)
    \/ x \in call[d].todo /\ ~(call[d].pc = "record" /\ call[d].current = x /\ call[d].ok)

Licensees(x) == {d \in Dispatchers : Licensed(d, x)}

Waiting(x) == IF delivery[x] = None \/ delivery[x].status = "PENDING" THEN 1 ELSE 0

Counted(x) == accepted[x] + Cardinality(Licensees(x)) + Waiting(x) <= 1 + doubts[x]

\* A row has a token exactly while it is claimed, and attempts left until its end.
RowFits(x) == delivery[x] # None =>
    /\ delivery[x].token = None <=> delivery[x].status # "CLAIMED"
    /\ delivery[x].status \notin Terminal => delivery[x].attempts < MaxAttempts

\* A call has rows to send only in its loop, and knows of each an attempt that is left.
CallFits(d) ==
    /\ call[d].pc \in {"idle", "read"} => call[d].todo = {}
    /\ \A x \in call[d].todo : delivery[x] # None /\ call[d].attempts[x] < MaxAttempts
    /\ call[d].pc = "record" =>
           call[d].current \in call[d].todo /\ (call[d].ok => accepted[call[d].current] > 0)

IInv ==
    /\ TypeOK /\ OutcomesTrue /\ AcknowledgedIsRecorded
    /\ \A x \in Deliveries : RowFits(x) /\ Counted(x)
    /\ \A d \in Dispatchers : CallFits(d)

-----------------------------------------------------------------------------
(* Counting calls.                                                         *)

LEMMA Counts ==
    ASSUME NEW S \in SUBSET Dispatchers
    PROVE  IsFiniteSet(S) /\ Cardinality(S) \in Nat
  BY FS_Subset, FS_CardinalityType, PipelineAssumption

LEMMA NoMore ==
    ASSUME NEW S \in SUBSET Dispatchers, NEW T \in SUBSET S
    PROVE  Cardinality(T) <= Cardinality(S)
  BY Counts, FS_Subset

LEMMA OneMore ==
    ASSUME NEW S \in SUBSET Dispatchers, NEW d \in Dispatchers, NEW T \in SUBSET (S \cup {d})
    PROVE  Cardinality(T) <= Cardinality(S) + 1
<1>1. Cardinality(S \cup {d}) <= Cardinality(S) + 1
  <2>1. IsFiniteSet(S) /\ Cardinality(S) \in Nat
    BY Counts
  <2>2. Cardinality(S \cup {d}) = IF d \in S THEN Cardinality(S) ELSE Cardinality(S) + 1
    BY <2>1, FS_AddElement
  <2> QED BY <2>1, <2>2
<1>2. Cardinality(T) <= Cardinality(S \cup {d})
  BY NoMore
<1>3. Cardinality(T) \in Nat /\ Cardinality(S) \in Nat /\ Cardinality(S \cup {d}) \in Nat
  BY Counts
<1> QED BY <1>1, <1>2, <1>3

LEMMA OneLess ==
    ASSUME NEW S \in SUBSET Dispatchers, NEW d \in S, NEW T \in SUBSET (S \ {d})
    PROVE  Cardinality(T) + 1 <= Cardinality(S)
<1>1. Cardinality(S \ {d}) = Cardinality(S) - 1
  BY Counts, FS_RemoveElement
<1>2. Cardinality(T) <= Cardinality(S \ {d})
  BY NoMore
<1>3. Cardinality(T) \in Nat /\ Cardinality(S) \in Nat /\ Cardinality(S \ {d}) \in Nat
  BY Counts
<1> QED BY <1>1, <1>2, <1>3

\* What a step does to the count of one delivery: no new call may send it, one more may, or
\* one less.
LEMMA NoNewLicence ==
    ASSUME NEW x \in Deliveries, TypeOK, TypeOK', Counted(x),
           Licensees(x)' \subseteq Licensees(x),
           accepted'[x] + Waiting(x)' + doubts[x] <= accepted[x] + Waiting(x) + doubts'[x]
    PROVE  Counted(x)'
<1> DEFINE S == Licensees(x)
           T == Licensees(x)'
<1>1. S \in SUBSET Dispatchers /\ T \in SUBSET S
  BY DEF Licensees
<1>2. Cardinality(T) <= Cardinality(S) /\ Cardinality(S) \in Nat /\ Cardinality(T) \in Nat
  BY <1>1, NoMore, Counts
<1>3. accepted[x] \in Nat /\ accepted'[x] \in Nat /\ doubts[x] \in Nat /\ doubts'[x] \in Nat
  BY DEF TypeOK
<1>4. Waiting(x) \in Nat /\ Waiting(x)' \in Nat
  BY DEF Waiting
<1>5. accepted[x] + Cardinality(S) + Waiting(x) <= 1 + doubts[x]
  BY DEF Counted
<1> HIDE DEF S, T
<1>6. accepted'[x] + Cardinality(T) + Waiting(x)' <= 1 + doubts'[x]
  BY <1>2, <1>3, <1>4, <1>5
<1> QED BY <1>6 DEF Counted, T

LEMMA NewLicence ==
    ASSUME NEW x \in Deliveries, NEW d \in Dispatchers, TypeOK, TypeOK', Counted(x),
           Licensees(x)' \subseteq Licensees(x) \cup {d},
           accepted'[x] + Waiting(x)' + 1 + doubts[x] <= accepted[x] + Waiting(x) + doubts'[x]
    PROVE  Counted(x)'
<1> DEFINE S == Licensees(x)
           T == Licensees(x)'
<1>1. S \in SUBSET Dispatchers /\ T \in SUBSET (S \cup {d})
  BY DEF Licensees
<1>0. T \in SUBSET Dispatchers
  BY <1>1
<1>2. Cardinality(T) <= Cardinality(S) + 1 /\ Cardinality(S) \in Nat /\ Cardinality(T) \in Nat
  BY <1>0, <1>1, OneMore, Counts
<1>3. accepted[x] \in Nat /\ accepted'[x] \in Nat /\ doubts[x] \in Nat /\ doubts'[x] \in Nat
  BY DEF TypeOK
<1>4. Waiting(x) \in Nat /\ Waiting(x)' \in Nat
  BY DEF Waiting
<1>5. accepted[x] + Cardinality(S) + Waiting(x) <= 1 + doubts[x]
  BY DEF Counted
<1> HIDE DEF S, T
<1>6. accepted'[x] + Cardinality(T) + Waiting(x)' <= 1 + doubts'[x]
  BY <1>2, <1>3, <1>4, <1>5
<1> QED BY <1>6 DEF Counted, T

LEMMA LicenceUsed ==
    ASSUME NEW x \in Deliveries, NEW d \in Licensees(x), TypeOK, TypeOK', Counted(x),
           Licensees(x)' \subseteq Licensees(x) \ {d},
           accepted'[x] + Waiting(x)' + doubts[x] <= accepted[x] + Waiting(x) + 1 + doubts'[x]
    PROVE  Counted(x)'
<1> DEFINE S == Licensees(x)
           T == Licensees(x)'
<1>1. S \in SUBSET Dispatchers /\ T \in SUBSET (S \ {d})
  BY DEF Licensees
<1>0. T \in SUBSET Dispatchers
  BY <1>1
<1>2. Cardinality(T) + 1 <= Cardinality(S) /\ Cardinality(S) \in Nat /\ Cardinality(T) \in Nat
  BY <1>0, <1>1, OneLess, Counts
<1>3. accepted[x] \in Nat /\ accepted'[x] \in Nat /\ doubts[x] \in Nat /\ doubts'[x] \in Nat
  BY DEF TypeOK
<1>4. Waiting(x) \in Nat /\ Waiting(x)' \in Nat
  BY DEF Waiting
<1>5. accepted[x] + Cardinality(S) + Waiting(x) <= 1 + doubts[x]
  BY DEF Counted
<1> HIDE DEF S, T
<1>6. accepted'[x] + Cardinality(T) + Waiting(x)' <= 1 + doubts'[x]
  BY <1>2, <1>3, <1>4, <1>5
<1> QED BY <1>6 DEF Counted, T

-----------------------------------------------------------------------------
(* The initial states, and stuttering.                                     *)

LEMMA InitInv == Init => IInv
<1> SUFFICES ASSUME Init PROVE IInv
  OBVIOUS
<1>1. TypeOK
  BY PipelineAssumption DEF Init, TypeOK, Idle, Call
<1>2. OutcomesTrue /\ AcknowledgedIsRecorded /\ \A x \in Deliveries : RowFits(x)
  BY DEF Init, OutcomesTrue, AcknowledgedIsRecorded, RowFits
<1>3. \A d \in Dispatchers : CallFits(d)
  BY DEF Init, CallFits, Idle
<1>4. ASSUME NEW x \in Deliveries PROVE Counted(x)
  <2>1. Licensees(x) = {}
    BY DEF Init, Licensees, Licensed, Idle, Mine
  <2>2. Waiting(x) = 1 /\ accepted[x] = 0 /\ doubts[x] = 0
    BY DEF Init, Waiting
  <2> QED BY <2>1, <2>2, FS_EmptySet DEF Counted
<1> QED BY <1>1, <1>2, <1>3, <1>4 DEF IInv

LEMMA StutterInv == IInv /\ UNCHANGED vars => IInv'
  BY DEF IInv, vars, TypeOK, OutcomesTrue, AcknowledgedIsRecorded, RowFits, CallFits, Counted,
         Licensees, Licensed, Mine, Waiting

-----------------------------------------------------------------------------
(* The outbox.                                                             *)

LEMMA StageInv ==
    ASSUME IInv, NEW k \in Keys, Stage(k) PROVE IInv'
<1> USE DEF IInv
<1>1. TypeOK'
  <2> DEFINE R == [key : Keys, delivered : BOOLEAN]
  <2>1. [key |-> k, delivered |-> FALSE] \in R /\ outbox \in Seq(R) /\ Len(outbox) <= MaxStaged
    BY DEF TypeOK
  <2> HIDE DEF R
  <2>2. outbox' \in Seq(R) /\ Len(outbox') = Len(outbox) + 1
    BY <2>1 DEF Stage
  <2>3. Len(outbox') <= MaxStaged
    BY <2>1, <2>2, PipelineAssumption DEF Stage
  <2> QED BY <2>2, <2>3 DEF TypeOK, Stage, R
<1>2. AcknowledgedIsRecorded'
  BY DEF TypeOK, Stage, AcknowledgedIsRecorded
<1>3. OutcomesTrue' /\ \A x \in Deliveries : RowFits(x)'
  BY DEF Stage, OutcomesTrue, RowFits
<1>4. \A x \in Deliveries : Counted(x)'
  BY DEF Stage, Counted, Licensees, Licensed, Mine, Waiting
<1>5. \A d \in Dispatchers : CallFits(d)'
  BY DEF Stage, CallFits
<1> QED BY <1>1, <1>2, <1>3, <1>4, <1>5

LEMMA DrainInv ==
    ASSUME IInv, NEW i \in 1..Len(outbox), Drain(i) PROVE IInv'
<1> USE DEF IInv
<1>0. PICK due \in BOOLEAN : \A x \in Deliveries :
          delivery'[x] = IF x[1] = outbox[i].key /\ x[2] \in wants /\ delivery[x] = None
                         THEN Pending(due) ELSE delivery[x]
  BY DEF Drain, FanOut
<1> DEFINE R == [key : Keys, delivered : BOOLEAN]
<1>s. outbox \in Seq(R) /\ Len(outbox) <= MaxStaged
  BY DEF TypeOK
<1>a. outbox[i].key \in Keys /\ outbox[i] \in R
  <2>1. outbox[i] \in R
    BY <1>s, ElementOfSeq, Zenon
  <2> QED BY <2>1
<1>b. Pending(due) \in Delivery /\ Pending(due).status = "PENDING" /\ Pending(due).attempts = 0
      /\ Pending(due).token = None /\ Pending(due) # None
  <2>1. Pending(due) \in Delivery
    BY PipelineAssumption DEF Pending, Delivery, Terminal
  <2> QED BY <2>1, NoneAssumption DEF Pending
<1>1. TypeOK'
  <2>1. outbox' \in Seq(R) /\ Len(outbox') <= MaxStaged
    <3>1. [outbox[i] EXCEPT !.delivered = TRUE] \in R
      BY <1>a
    <3>2. outbox' = [outbox EXCEPT ![i] = [outbox[i] EXCEPT !.delivered = TRUE]]
      BY DEF Drain
    <3> HIDE DEF R
    <3> QED BY <1>s, <3>1, <3>2, ExceptSeq
  <2>2. delivery' \in [Deliveries -> Delivery \cup {None}]
    BY <1>0, <1>b DEF TypeOK, Drain, FanOut
  <2> QED BY <1>a, <2>1, <2>2 DEF TypeOK, Drain
<1>2. AcknowledgedIsRecorded'
  BY <1>a DEF TypeOK, Drain, AcknowledgedIsRecorded
<1>3. OutcomesTrue' /\ \A x \in Deliveries : RowFits(x)'
  BY <1>0, <1>b, PipelineAssumption DEF Drain, OutcomesTrue, RowFits, Terminal
<1>4. ASSUME NEW x \in Deliveries PROVE Counted(x)'
  <2>1. Waiting(x)' = Waiting(x)
    BY <1>0, <1>b DEF Waiting
  <2>2. \A d \in Dispatchers : Mine(d, x)' => Mine(d, x)
    BY <1>0, <1>b DEF Mine
  <2>3. Licensees(x)' \subseteq Licensees(x)
    BY <2>2 DEF Licensees, Licensed, Drain
  <2>4. accepted'[x] = accepted[x] /\ doubts'[x] = doubts[x]
    BY DEF Drain
  <2>5. accepted[x] \in Nat /\ doubts[x] \in Nat /\ Waiting(x) \in Nat
    BY DEF TypeOK, Waiting
  <2> QED BY <1>1, <2>1, <2>3, <2>4, <2>5, NoNewLicence
<1>5. \A d \in Dispatchers : CallFits(d)'
  BY <1>0, <1>b DEF Drain, CallFits, TypeOK, Call
<1> QED BY <1>1, <1>2, <1>3, <1>4, <1>5

LEMMA ToggleInv ==
    ASSUME IInv, NEW r \in Recipients, Toggle(r) PROVE IInv'
<1> USE DEF IInv
<1>1. TypeOK'
  BY PipelineAssumption DEF TypeOK, Toggle
<1>2. AcknowledgedIsRecorded' /\ OutcomesTrue' /\ \A x \in Deliveries : RowFits(x)'
  BY DEF Toggle, AcknowledgedIsRecorded, OutcomesTrue, RowFits
<1>3. \A x \in Deliveries : Counted(x)'
  BY DEF Toggle, Counted, Licensees, Licensed, Mine, Waiting
<1>4. \A d \in Dispatchers : CallFits(d)'
  BY DEF Toggle, CallFits
<1> QED BY <1>1, <1>2, <1>3, <1>4

-----------------------------------------------------------------------------
(* Dispatching.                                                            *)

LEMMA ClaimInv ==
    ASSUME IInv, NEW d \in Dispatchers, Claim(d) PROVE IInv'
<1> USE DEF IInv
<1>0. PICK batch \in SUBSET {x \in Deliveries : Claimable(x)} :
          /\ \A x \in Deliveries \ batch : delivery[x] # None => delivery[x].token # d
          /\ delivery' = [x \in Deliveries |->
                IF x \in batch THEN [delivery[x] EXCEPT !.status = "CLAIMED", !.token = d,
                                                        !.stale = FALSE, !.due = FALSE]
                ELSE delivery[x]]
          /\ doubts' = [x \in Deliveries |->
                IF x \in batch /\ delivery[x].status = "CLAIMED" THEN doubts[x] + 1 ELSE doubts[x]]
  BY DEF Claim
<1>1. call[d].pc = "idle" /\ call' = [call EXCEPT ![d].pc = "read"] /\ call[d] \in Call
      /\ call[d].todo = {}
  BY DEF Claim, TypeOK, CallFits
<1>2. ASSUME NEW x \in batch
      PROVE  /\ x \in Deliveries /\ delivery[x] \in Delivery /\ delivery[x] # None
             /\ delivery'[x] \in Delivery /\ delivery'[x] # None
             /\ delivery'[x].status = "CLAIMED" /\ delivery'[x].token = d /\ delivery'[x].token # None
             /\ delivery'[x].attempts = delivery[x].attempts
             /\ delivery[x].status \in {"PENDING", "CLAIMED"}
  <2>1. x \in Deliveries /\ delivery[x] # None /\ delivery[x] \in Delivery
        /\ delivery[x].status \in {"PENDING", "CLAIMED"}
    BY <1>0 DEF Claimable, TypeOK
  <2>2. delivery'[x] = [delivery[x] EXCEPT !.status = "CLAIMED", !.token = d,
                                          !.stale = FALSE, !.due = FALSE]
    BY <1>0, <2>1
  <2>3. delivery'[x] \in Delivery /\ delivery'[x].status = "CLAIMED" /\ delivery'[x].token = d
        /\ delivery'[x].attempts = delivery[x].attempts
    BY <2>1, <2>2 DEF Delivery
  <2> QED BY <2>1, <2>3, NoneAssumption, PipelineAssumption
<1>3. \A x \in Deliveries \ batch : delivery'[x] = delivery[x]
  BY <1>0
<1>4. TypeOK'
  <2>1. delivery' \in [Deliveries -> Delivery \cup {None}]
    BY <1>0, <1>2 DEF TypeOK
  <2>2. doubts' \in [Deliveries -> Nat]
    <3>1. \A x \in Deliveries : doubts[x] \in Nat /\ doubts[x] + 1 \in Nat
      BY DEF TypeOK
    <3> QED BY <3>1, <1>0, Zenon
  <2>3. call' \in [Dispatchers -> Call]
    BY <1>1 DEF TypeOK, Call
  <2> QED BY <2>1, <2>2, <2>3 DEF TypeOK, Claim
<1>5. OutcomesTrue' /\ \A x \in Deliveries : RowFits(x)'
  <2>1. ASSUME NEW x \in Deliveries
        PROVE  RowFits(x)' /\ (delivery'[x] # None =>
                   /\ delivery'[x].status = "SENT" => accepted'[x] > 0
                   /\ delivery'[x].status = "FAILED" => delivery'[x].attempts = MaxAttempts)
    <3>1. CASE x \in batch
      BY <3>1, <1>2 DEF RowFits, Terminal
    <3>2. CASE x \notin batch
      BY <3>2, <1>3 DEF RowFits, OutcomesTrue, Claim
    <3> QED BY <3>1, <3>2
  <2> QED BY <2>1 DEF OutcomesTrue
<1>6. AcknowledgedIsRecorded'
  BY DEF Claim, AcknowledgedIsRecorded
<1>7. ASSUME NEW e \in Dispatchers PROVE CallFits(e)'
  <2>1. call'[e].todo = call[e].todo /\ call'[e].attempts = call[e].attempts
        /\ call'[e].current = call[e].current /\ call'[e].ok = call[e].ok
        /\ (e # d => call'[e].pc = call[e].pc) /\ call'[d].pc = "read"
    BY <1>1 DEF TypeOK, Call
  <2>2. \A x \in Deliveries : delivery[x] # None => delivery'[x] # None
    BY <1>2, <1>3
  <2>3. call[e] \in Call /\ CallFits(e)
    BY DEF TypeOK
  <2>4. call[e].todo \subseteq Deliveries /\ accepted' = accepted
    BY <2>3 DEF Call, Claim
  <2> QED BY <1>1, <2>1, <2>2, <2>3, <2>4 DEF CallFits
<1>8. ASSUME NEW x \in Deliveries PROVE Counted(x)'
  <2>1. ASSUME NEW e \in Dispatchers, e # d, Licensed(e, x)' PROVE Licensed(e, x)
    <3>1. call'[e] = call[e]
      BY <2>1, <1>1 DEF TypeOK
    <3>2. Mine(e, x)' => Mine(e, x)
      BY <2>1, <1>2, <1>3 DEF Mine
    <3> QED BY <2>1, <3>1, <3>2 DEF Licensed
  <2>2. accepted'[x] = accepted[x] /\ accepted[x] \in Nat /\ doubts[x] \in Nat
        /\ Waiting(x) \in {0, 1}
    BY DEF TypeOK, Waiting, Claim
  <2>3. CASE x \in batch
    <3>1. Licensees(x)' \subseteq Licensees(x) \cup {d}
      BY <2>1 DEF Licensees
    <3>2. Waiting(x)' = 0
      BY <2>3, <1>2 DEF Waiting
    <3>3. CASE delivery[x].status = "PENDING"
      <4>1. Waiting(x) = 1 /\ doubts'[x] = doubts[x]
        BY <3>3, <1>0 DEF Waiting
      <4> QED BY <1>4, <2>2, <3>1, <3>2, <4>1, NewLicence
    <3>4. CASE delivery[x].status = "CLAIMED"
      <4>1. Waiting(x) = 0 /\ doubts'[x] = doubts[x] + 1
        BY <2>3, <3>4, <1>0, <1>2 DEF Waiting
      <4> QED BY <1>4, <2>2, <3>1, <3>2, <4>1, NewLicence
    <3> QED BY <2>3, <3>3, <3>4, <1>2
  <2>4. CASE x \notin batch
    <3>1. ~Licensed(d, x)'
      <4>1. ~Mine(d, x)'
        BY <2>4, <1>0, <1>3 DEF Mine
      <4>2. call'[d].todo = {}
        BY <1>1 DEF TypeOK, Call
      <4> QED BY <4>1, <4>2 DEF Licensed
    <3>2. Licensees(x)' \subseteq Licensees(x)
      BY <2>1, <3>1 DEF Licensees
    <3>3. Waiting(x)' = Waiting(x) /\ doubts'[x] = doubts[x]
      BY <2>4, <1>0, <1>3 DEF Waiting
    <3> QED BY <1>4, <2>2, <3>2, <3>3, NoNewLicence
  <2> QED BY <2>3, <2>4
<1> QED BY <1>4, <1>5, <1>6, <1>7, <1>8

LEMMA ReadInv ==
    ASSUME IInv, NEW d \in Dispatchers, Read(d) PROVE IInv'
<1> USE DEF IInv
<1> DEFINE mine == {x \in Deliveries : Mine(d, x)}
           next == [Idle EXCEPT
              !.pc = IF mine = {} THEN "idle" ELSE "loop", !.todo = mine,
              !.attempts = [x \in Deliveries |-> IF x \in mine THEN delivery[x].attempts ELSE 0],
              !.reached = {x \in mine : x[2] \in reachable}]
<1>1. call[d].pc = "read" /\ call' = [call EXCEPT ![d] = next] /\ delivery' = delivery
      /\ accepted' = accepted /\ doubts' = doubts
  BY DEF Read
<1>2. \A x \in mine : delivery[x] # None /\ delivery[x] \in Delivery
                      /\ delivery[x].attempts < MaxAttempts /\ delivery[x].attempts \in 0..MaxAttempts
  BY DEF Mine, TypeOK, RowFits, Terminal, Delivery
<1>3. /\ next \in Call /\ next.todo = mine /\ next.pc \in {"idle", "loop"}
      /\ (next.pc = "idle" => mine = {})
      /\ \A x \in mine : next.attempts[x] = delivery[x].attempts
  <2>1. [x \in Deliveries |-> IF x \in mine THEN delivery[x].attempts ELSE 0]
            \in [Deliveries -> 0..MaxAttempts]
    BY <1>2, PipelineAssumption
  <2>2. Idle \in Call
    BY PipelineAssumption DEF Idle, Call
  <2> QED BY <2>1, <2>2 DEF Idle, Call
<1> HIDE DEF next
<1>4. TypeOK'
  BY <1>1, <1>3 DEF TypeOK, Read
<1>5. call'[d] = next /\ \A e \in Dispatchers \ {d} : call'[e] = call[e]
  BY <1>1 DEF TypeOK
<1>6. OutcomesTrue' /\ AcknowledgedIsRecorded' /\ \A x \in Deliveries : RowFits(x)'
  BY <1>1 DEF Read, OutcomesTrue, AcknowledgedIsRecorded, RowFits
<1>7. ASSUME NEW e \in Dispatchers PROVE CallFits(e)'
  <2>1. CASE e = d
    BY <2>1, <1>1, <1>2, <1>3, <1>5 DEF CallFits
  <2>2. CASE e # d
    BY <2>2, <1>1, <1>5 DEF CallFits
  <2> QED BY <2>1, <2>2
<1>8. ASSUME NEW x \in Deliveries PROVE Counted(x)'
  <2>1. \A e \in Dispatchers : Mine(e, x)' <=> Mine(e, x)
    BY <1>1 DEF Mine
  <2>2. Licensed(d, x)' => Licensed(d, x)
    BY <1>1, <1>3, <1>5 DEF Licensed
  <2>3. Licensees(x)' \subseteq Licensees(x)
    BY <2>1, <2>2, <1>5 DEF Licensees, Licensed
  <2>4. Waiting(x)' = Waiting(x) /\ Waiting(x) \in Nat /\ accepted[x] \in Nat /\ doubts[x] \in Nat
    BY <1>1 DEF Waiting, TypeOK
  <2> QED BY <1>1, <1>4, <2>3, <2>4, NoNewLicence
<1> QED BY <1>4, <1>6, <1>7, <1>8

\* A call deals with the delivery x: it records an outcome if the claim is still its own,
\* and goes on to the next one.
LEMMA DealtInv ==
    ASSUME IInv, NEW d \in Dispatchers, NEW x \in call[d].todo, NEW st, NEW n,
           call[d].pc \in {"loop", "record"},
           call[d].pc = "record" => call[d].current = x,
           Update(d, x, st, n), Drops(d, x),
           UNCHANGED <<outbox, events, wants, reachable, accepted, doubts, faults, toggles>>,
           st \in {"PENDING"} \cup Terminal,
           delivery[x].token = d => n \in 0..MaxAttempts,
           st = "PENDING" => Licensed(d, x) /\ n < MaxAttempts,
           st = "SENT" => accepted[x] > 0,
           st = "FAILED" => n = MaxAttempts
    PROVE  IInv'
<1> USE DEF IInv
<1> DEFINE new == [status |-> st, attempts |-> n, token |-> None, stale |-> FALSE, due |-> FALSE]
           next == IF call[d].todo = {x} THEN Idle
                   ELSE [call[d] EXCEPT !.pc = "loop", !.todo = call[d].todo \ {x},
                                        !.current = None, !.ok = FALSE]
<1>1. call[d] \in Call /\ x \in Deliveries /\ delivery[x] # None /\ delivery[x] \in Delivery
      /\ CallFits(d) /\ RowFits(x)
  BY DEF TypeOK, Call, CallFits
<1>2. call' = [call EXCEPT ![d] = next]
  BY DEF Drops
<1>3. /\ next \in Call /\ next.todo = call[d].todo \ {x} /\ next.pc \in {"idle", "loop"}
      /\ (next.pc = "idle" => next.todo = {})
      /\ \A y \in next.todo : next.attempts[y] = call[d].attempts[y]
  <2>1. Idle \in Call
    BY PipelineAssumption DEF Idle, Call
  <2> QED BY <1>1, <2>1 DEF Idle, Call
<1> HIDE DEF next
<1>4. call'[d] = next /\ \A e \in Dispatchers \ {d} : call'[e] = call[e]
  BY <1>2 DEF TypeOK
<1>5. \A y \in Deliveries \ {x} : delivery'[y] = delivery[y]
  BY DEF Update, TypeOK
<1>6. CASE delivery[x].token # d
  <2>1. delivery' = delivery
    BY <1>6 DEF Update
  <2>2. TypeOK'
    BY <2>1, <1>2, <1>3 DEF TypeOK
  <2>3. OutcomesTrue' /\ AcknowledgedIsRecorded' /\ \A y \in Deliveries : RowFits(y)'
    BY <2>1 DEF OutcomesTrue, AcknowledgedIsRecorded, RowFits
  <2>4. ASSUME NEW e \in Dispatchers PROVE CallFits(e)'
    <3>1. CASE e = d
      BY <3>1, <2>1, <1>1, <1>3, <1>4 DEF CallFits
    <3>2. CASE e # d
      BY <3>2, <2>1, <1>4 DEF CallFits
    <3> QED BY <3>1, <3>2
  <2>5. ASSUME NEW y \in Deliveries PROVE Counted(y)'
    <3>1. Licensed(d, y)' => Licensed(d, y)
      BY <1>1, <1>3, <1>4 DEF Licensed
    <3>2. Licensees(y)' \subseteq Licensees(y)
      BY <2>1, <3>1, <1>4 DEF Licensees, Licensed, Mine
    <3>3. Waiting(y)' = Waiting(y) /\ Waiting(y) \in Nat /\ accepted[y] \in Nat /\ doubts[y] \in Nat
      BY <2>1 DEF Waiting, TypeOK
    <3> QED BY <2>2, <3>2, <3>3, NoNewLicence
  <2> QED BY <2>2, <2>3, <2>4, <2>5
<1>7. CASE delivery[x].token = d
  <2>1. delivery' = [delivery EXCEPT ![x] = new] /\ delivery[x].status = "CLAIMED"
    BY <1>7, <1>1, PipelineAssumption DEF Update, RowFits
  <2>2. new \in Delivery /\ new # None
    <3>1. new \in Delivery
      BY <1>7 DEF Delivery, Terminal
    <3> QED BY <3>1, NoneAssumption
  <2>3. delivery'[x] = new
    BY <2>1, <1>1 DEF TypeOK
  <2>4. TypeOK'
    <3>1. delivery' \in [Deliveries -> Delivery \cup {None}]
      BY <2>1, <2>2 DEF TypeOK
    <3>2. call' \in [Dispatchers -> Call]
      BY <1>2, <1>3 DEF TypeOK
    <3> QED BY <3>1, <3>2 DEF TypeOK
  <2>5. AcknowledgedIsRecorded'
    BY DEF AcknowledgedIsRecorded
  <2>6. ASSUME NEW y \in Deliveries
        PROVE  RowFits(y)' /\ (delivery'[y] # None =>
                   /\ delivery'[y].status = "SENT" => accepted'[y] > 0
                   /\ delivery'[y].status = "FAILED" => delivery'[y].attempts = MaxAttempts)
    <3>1. CASE y = x
      BY <3>1, <2>3 DEF RowFits, Terminal
    <3>2. CASE y # x
      BY <3>2, <1>5 DEF RowFits, OutcomesTrue
    <3> QED BY <3>1, <3>2
  <2>7. OutcomesTrue'
    BY <2>6 DEF OutcomesTrue
  <2>8. ASSUME NEW e \in Dispatchers PROVE CallFits(e)'
    <3>0. call[e] \in Call /\ call[e].todo \subseteq Deliveries
      BY DEF TypeOK, Call
    <3>3. \A y \in Deliveries : delivery[y] # None => delivery'[y] # None
      BY <1>5, <2>2, <2>3
    <3>1. CASE e = d
      BY <3>0, <3>1, <3>3, <1>1, <1>3, <1>4 DEF CallFits
    <3>2. CASE e # d
      BY <3>0, <3>2, <3>3, <1>4 DEF CallFits
    <3> QED BY <3>1, <3>2
  <2>9. ASSUME NEW y \in Deliveries PROVE Counted(y)'
    <3>0. accepted[y] \in Nat /\ doubts[y] \in Nat /\ accepted'[y] = accepted[y]
          /\ doubts'[y] = doubts[y] /\ Waiting(y) \in {0, 1} /\ Waiting(y)' \in {0, 1}
      BY DEF TypeOK, Waiting
    <3>1. \A e \in Dispatchers : Mine(e, y)' => Mine(e, y)
      BY <1>5, <2>3, PipelineAssumption DEF Mine
    <3>2. Licensees(y)' \subseteq Licensees(y)
      <4>1. Licensed(d, y)' => Licensed(d, y)
        BY <1>1, <1>3, <1>4 DEF Licensed
      <4>2. \A e \in Dispatchers \ {d} : Licensed(e, y)' => Licensed(e, y)
        BY <3>1, <1>4 DEF Licensed
      <4> QED BY <4>1, <4>2 DEF Licensees
    <3>3. CASE y # x
      <4>1. Waiting(y)' = Waiting(y)
        BY <3>3, <1>5 DEF Waiting
      <4> QED BY <2>4, <3>0, <3>2, <4>1, NoNewLicence
    <3>4. CASE y = x /\ st # "PENDING"
      <4>1. Waiting(y)' = 0
        BY <3>4, <2>2, <2>3 DEF Waiting
      <4> QED BY <2>4, <3>0, <3>2, <4>1, NoNewLicence
    <3>5. CASE y = x /\ st = "PENDING"
      <4>1. d \in Licensees(y)
        BY <3>5 DEF Licensees
      <4>2. d \notin Licensees(y)'
        BY <3>5, <1>3, <1>4 DEF Licensees, Licensed
      <4> QED BY <2>4, <3>0, <3>2, <4>1, <4>2, LicenceUsed
    <3> QED BY <3>3, <3>4, <3>5
  <2> QED BY <2>4, <2>5, <2>6, <2>7, <2>8, <2>9
<1> QED BY <1>6, <1>7

LEMMA SkipInv ==
    ASSUME IInv, NEW d \in Dispatchers, NEW x \in Deliveries, Skip(d, x) PROVE IInv'
<1>1. x \in call[d].todo /\ call[d].pc = "loop" /\ Update(d, x, "SKIPPED", delivery[x].attempts)
      /\ Drops(d, x)
      /\ UNCHANGED <<outbox, events, wants, reachable, accepted, doubts, faults, toggles>>
  BY DEF Skip
<1>2. delivery[x] # None
  BY <1>1 DEF IInv, CallFits
<1>3. delivery[x].attempts \in 0..MaxAttempts
  BY <1>2 DEF IInv, TypeOK, Delivery
<1> QED BY <1>1, <1>3, DealtInv DEF Terminal

LEMMA RecordSentInv ==
    ASSUME IInv, NEW d \in Dispatchers, RecordSent(d) PROVE IInv'
<1> DEFINE x == call[d].current
<1>1. call[d].pc = "record" /\ call[d].ok /\ Update(d, x, "SENT", delivery[x].attempts + 1)
      /\ Drops(d, x)
      /\ UNCHANGED <<outbox, events, wants, reachable, accepted, doubts, faults, toggles>>
  BY DEF RecordSent
<1>2. x \in call[d].todo /\ accepted[x] > 0 /\ delivery[x] # None /\ x \in Deliveries
  BY <1>1 DEF IInv, CallFits, TypeOK, Call
<1>3. delivery[x].token = d => delivery[x].attempts + 1 \in 0..MaxAttempts
  <2>1. delivery[x] \in Delivery /\ RowFits(x)
    BY <1>2 DEF IInv, TypeOK
  <2>2. delivery[x].token = d => delivery[x].status = "CLAIMED"
    BY <2>1, <1>2, PipelineAssumption DEF RowFits
  <2>3. delivery[x].attempts \in 0..MaxAttempts
    BY <2>1 DEF Delivery
  <2> QED BY <2>1, <2>2, <2>3, <1>2, PipelineAssumption DEF RowFits, Terminal
<1> HIDE DEF x
<1> QED BY <1>1, <1>2, <1>3, DealtInv DEF Terminal, x

LEMMA RecordFailedInv ==
    ASSUME IInv, NEW d \in Dispatchers, RecordFailed(d) PROVE IInv'
<1> DEFINE x == call[d].current
           n == call[d].attempts[x] + 1
           st == IF n >= MaxAttempts THEN "FAILED" ELSE "PENDING"
<1>1. call[d].pc = "record" /\ ~call[d].ok /\ Update(d, x, st, n) /\ Drops(d, x)
      /\ UNCHANGED <<outbox, events, wants, reachable, accepted, doubts, faults, toggles>>
  BY DEF RecordFailed
<1>2. x \in call[d].todo /\ call[d].attempts[x] < MaxAttempts /\ x \in Deliveries
      /\ call[d].attempts[x] \in 0..MaxAttempts
  BY <1>1 DEF IInv, CallFits, TypeOK, Call
<1>3. n \in 0..MaxAttempts /\ (st = "PENDING" => n < MaxAttempts) /\ (st = "FAILED" => n = MaxAttempts)
      /\ st \in {"PENDING", "FAILED"}
  BY <1>2, PipelineAssumption
<1>4. Licensed(d, x)
  BY <1>1, <1>2 DEF Licensed
<1> HIDE DEF x, n, st
<1> QED BY <1>1, <1>2, <1>3, <1>4, DealtInv DEF Terminal, x

LEMMA SendInv ==
    ASSUME IInv, NEW d \in Dispatchers, NEW x \in Deliveries, Send(d, x) PROVE IInv'
<1> USE DEF IInv
<1>0. PICK taken \in BOOLEAN, answered \in BOOLEAN :
          /\ IF answered THEN UNCHANGED <<doubts, faults>>
             ELSE taken /\ Fault /\ doubts' = [doubts EXCEPT ![x] = doubts[x] + 1]
          /\ accepted' = IF taken THEN [accepted EXCEPT ![x] = accepted[x] + 1] ELSE accepted
          /\ call' = [call EXCEPT ![d] = [call[d] EXCEPT
                         !.pc = "record", !.current = x, !.ok = taken /\ answered]]
  BY DEF Send
<1> DEFINE next == [call[d] EXCEPT !.pc = "record", !.current = x, !.ok = taken /\ answered]
<1>1. call[d] \in Call /\ CallFits(d) /\ x \in call[d].todo /\ call[d].pc = "loop"
      /\ delivery' = delivery /\ outbox' = outbox /\ events' = events
  BY DEF Send, TypeOK
<1>2. next \in Call /\ next.todo = call[d].todo /\ next.pc = "record" /\ next.current = x
      /\ next.attempts = call[d].attempts /\ next.ok = (taken /\ answered)
  BY <1>1 DEF Call
<1> HIDE DEF next
<1>3. call'[d] = next /\ \A e \in Dispatchers \ {d} : call'[e] = call[e]
  BY <1>0 DEF TypeOK, next
<1>4. \A y \in Deliveries : /\ accepted[y] \in Nat /\ doubts[y] \in Nat
                            /\ accepted'[y] = IF y = x /\ taken THEN accepted[y] + 1 ELSE accepted[y]
                            /\ doubts'[y] = IF y = x /\ ~answered THEN doubts[y] + 1 ELSE doubts[y]
  BY <1>0 DEF TypeOK
<1>5. TypeOK'
  <2>1. call' \in [Dispatchers -> Call]
    BY <1>0, <1>2 DEF TypeOK, next
  <2>2. accepted' \in [Deliveries -> Nat] /\ doubts' \in [Deliveries -> Nat]
    BY <1>0 DEF TypeOK
  <2>3. faults' \in 0..MaxFaults
    BY <1>0, PipelineAssumption DEF TypeOK, Fault
  <2> QED BY <1>1, <2>1, <2>2, <2>3 DEF TypeOK, Send
<1>6. AcknowledgedIsRecorded' /\ \A y \in Deliveries : RowFits(y)'
  BY <1>1 DEF AcknowledgedIsRecorded, RowFits
<1>7. OutcomesTrue'
  BY <1>1, <1>4 DEF OutcomesTrue
<1>8. ASSUME NEW e \in Dispatchers PROVE CallFits(e)'
  <2>0. call[e] \in Call /\ call[e].todo \subseteq Deliveries /\ call[e].current \in Deliveries \cup {None}
        /\ CallFits(e)
    BY DEF TypeOK, Call
  <2>1. CASE e = d
    BY <2>1, <1>1, <1>2, <1>3, <1>4 DEF CallFits
  <2>2. CASE e # d
    BY <2>0, <2>2, <1>1, <1>3, <1>4 DEF CallFits
  <2> QED BY <2>1, <2>2
<1>9. ASSUME NEW y \in Deliveries PROVE Counted(y)'
  <2>1. Waiting(y)' = Waiting(y) /\ Waiting(y) \in Nat
    BY <1>1 DEF Waiting
  <2>2. \A e \in Dispatchers \ {d} : Licensed(e, y)' <=> Licensed(e, y)
    BY <1>1, <1>3 DEF Licensed, Mine
  <2>3. Licensed(d, y)' => Licensed(d, y)
    BY <1>1, <1>2, <1>3 DEF Licensed
  <2>4. Licensees(y)' \subseteq Licensees(y)
    BY <2>2, <2>3 DEF Licensees
  <2>5. CASE y = x /\ taken /\ answered
    <3>1. d \in Licensees(y) /\ d \notin Licensees(y)'
      BY <2>5, <1>1, <1>2, <1>3 DEF Licensees, Licensed
    <3> QED BY <2>1, <2>4, <2>5, <3>1, <1>4, <1>5, LicenceUsed
  <2>6. CASE ~(y = x /\ taken /\ answered)
    BY <2>1, <2>4, <2>6, <1>0, <1>4, <1>5, NoNewLicence
  <2> QED BY <2>5, <2>6
<1> QED BY <1>5, <1>6, <1>7, <1>8, <1>9

LEMMA SentUpdateFailsInv ==
    ASSUME IInv, NEW d \in Dispatchers, SentUpdateFails(d) PROVE IInv'
<1> USE DEF IInv
<1> DEFINE x == call[d].current
           next == [call[d] EXCEPT !.ok = FALSE]
<1>1. call[d] \in Call /\ CallFits(d) /\ x \in call[d].todo /\ call[d].pc = "record"
      /\ delivery' = delivery /\ outbox' = outbox /\ events' = events /\ accepted' = accepted
      /\ x \in Deliveries
  BY DEF SentUpdateFails, TypeOK, CallFits, Call
<1>2. next \in Call /\ next.todo = call[d].todo /\ next.pc = "record" /\ next.current = x
      /\ next.attempts = call[d].attempts /\ next.ok = FALSE
  BY <1>1 DEF Call
<1>3. call' = [call EXCEPT ![d] = next] /\ doubts' = [doubts EXCEPT ![x] = doubts[x] + 1]
      /\ faults' \in 0..MaxFaults
  BY PipelineAssumption DEF SentUpdateFails, Fault, TypeOK
<1> HIDE DEF next, x
<1>4. call'[d] = next /\ \A e \in Dispatchers \ {d} : call'[e] = call[e]
  BY <1>3 DEF TypeOK
<1>5. TypeOK'
  <2>1. call' \in [Dispatchers -> Call]
    BY <1>2, <1>3 DEF TypeOK
  <2>2. doubts' \in [Deliveries -> Nat]
    BY <1>1, <1>3 DEF TypeOK
  <2> QED BY <1>1, <1>3, <2>1, <2>2 DEF TypeOK, SentUpdateFails
<1>6. AcknowledgedIsRecorded' /\ OutcomesTrue' /\ \A y \in Deliveries : RowFits(y)'
  BY <1>1 DEF AcknowledgedIsRecorded, OutcomesTrue, RowFits
<1>7. ASSUME NEW e \in Dispatchers PROVE CallFits(e)'
  <2>1. CASE e = d
    BY <2>1, <1>1, <1>2, <1>4 DEF CallFits
  <2>2. CASE e # d
    BY <2>2, <1>1, <1>4 DEF CallFits
  <2> QED BY <2>1, <2>2
<1>8. ASSUME NEW y \in Deliveries PROVE Counted(y)'
  <2>1. Waiting(y)' = Waiting(y) /\ Waiting(y) \in Nat /\ accepted[y] \in Nat /\ doubts[y] \in Nat
        /\ doubts'[y] = IF y = x THEN doubts[y] + 1 ELSE doubts[y]
    BY <1>1, <1>3 DEF Waiting, TypeOK
  <2>2. \A e \in Dispatchers \ {d} : Licensed(e, y)' <=> Licensed(e, y)
    BY <1>1, <1>4 DEF Licensed, Mine
  <2>3. CASE y = x
    <3>1. Licensees(y)' \subseteq Licensees(y) \cup {d}
      BY <2>2 DEF Licensees
    <3> QED BY <2>1, <2>3, <3>1, <1>1, <1>5, NewLicence
  <2>4. CASE y # x
    <3>1. Licensed(d, y)' => Licensed(d, y)
      BY <2>4, <1>1, <1>2, <1>4 DEF Licensed, x
    <3>2. Licensees(y)' \subseteq Licensees(y)
      BY <2>2, <3>1 DEF Licensees
    <3> QED BY <2>1, <2>4, <3>2, <1>1, <1>5, NoNewLicence
  <2> QED BY <2>3, <2>4
<1> QED BY <1>5, <1>6, <1>7, <1>8

LEMMA DieInv ==
    ASSUME IInv, NEW d \in Dispatchers, Die(d) PROVE IInv'
<1> USE DEF IInv
<1>1. call' = [call EXCEPT ![d] = Idle] /\ Idle \in Call /\ faults' \in 0..MaxFaults
      /\ Idle.todo = {} /\ Idle.pc = "idle"
  BY PipelineAssumption DEF Die, Fault, TypeOK, Idle, Call
<1>2. call'[d] = Idle /\ \A e \in Dispatchers \ {d} : call'[e] = call[e]
  BY <1>1 DEF TypeOK
<1>3. UNCHANGED <<outbox, events, delivery, accepted, doubts>>
  BY DEF Die
<1>4. TypeOK'
  BY <1>1 DEF TypeOK, Die
<1>5. AcknowledgedIsRecorded' /\ OutcomesTrue' /\ \A y \in Deliveries : RowFits(y)'
  BY <1>3 DEF AcknowledgedIsRecorded, OutcomesTrue, RowFits
<1>6. ASSUME NEW e \in Dispatchers PROVE CallFits(e)'
  <2>1. CASE e = d
    BY <2>1, <1>1, <1>2 DEF CallFits
  <2>2. CASE e # d
    BY <2>2, <1>2, <1>3 DEF CallFits
  <2> QED BY <2>1, <2>2
<1>7. ASSUME NEW y \in Deliveries PROVE Counted(y)'
  <2>1. Licensees(y)' \subseteq Licensees(y)
    BY <1>1, <1>2, <1>3 DEF Licensees, Licensed, Mine
  <2>2. Waiting(y)' = Waiting(y) /\ Waiting(y) \in Nat /\ accepted[y] \in Nat /\ doubts[y] \in Nat
    BY <1>3 DEF Waiting, TypeOK
  <2> QED BY <2>1, <2>2, <1>3, <1>4, NoNewLicence
<1> QED BY <1>4, <1>5, <1>6, <1>7

-----------------------------------------------------------------------------
(* Time.                                                                   *)

\* The clock changes neither status nor token nor attempts of a delivery.
LEMMA TimeInv ==
    ASSUME IInv, NEW x \in Deliveries, delivery[x] # None, NEW new \in Delivery,
           delivery' = [delivery EXCEPT ![x] = new],
           new.status = delivery[x].status, new.token = delivery[x].token,
           new.attempts = delivery[x].attempts,
           faults' \in 0..MaxFaults,
           UNCHANGED <<outbox, events, wants, reachable, call, accepted, doubts, toggles>>
    PROVE  IInv'
<1> USE DEF IInv
<1>1. delivery'[x] = new /\ new # None /\ \A y \in Deliveries \ {x} : delivery'[y] = delivery[y]
  BY NoneAssumption DEF TypeOK
<1>2. TypeOK'
  <2>1. delivery' \in [Deliveries -> Delivery \cup {None}]
    BY DEF TypeOK
  <2> QED BY <2>1 DEF TypeOK
<1>3. \A y \in Deliveries : RowFits(y)'
  BY <1>1 DEF RowFits
<1>4. AcknowledgedIsRecorded' /\ OutcomesTrue'
  BY <1>1 DEF AcknowledgedIsRecorded, OutcomesTrue
<1>5. \A y \in Deliveries : delivery[y] # None => delivery'[y] # None
  BY <1>1
<1>6. \A e \in Dispatchers : CallFits(e)'
  BY <1>5 DEF CallFits, TypeOK, Call
<1>7. ASSUME NEW y \in Deliveries PROVE Counted(y)'
  <2>1. \A e \in Dispatchers : Mine(e, y)' <=> Mine(e, y)
    BY <1>1 DEF Mine
  <2>2. Licensees(y)' \subseteq Licensees(y)
    BY <2>1 DEF Licensees, Licensed
  <2>3. Waiting(y)' = Waiting(y) /\ Waiting(y) \in Nat /\ accepted[y] \in Nat /\ doubts[y] \in Nat
    BY <1>1 DEF Waiting, TypeOK
  <2> QED BY <1>2, <2>2, <2>3, NoNewLicence
<1> QED BY <1>2, <1>3, <1>4, <1>6, <1>7

LEMMA ExpireInv ==
    ASSUME IInv, NEW x \in Deliveries, Expire(x) PROVE IInv'
<1> DEFINE new == [delivery[x] EXCEPT !.stale = TRUE]
<1>1. delivery[x] # None /\ delivery[x] \in Delivery /\ delivery' = [delivery EXCEPT ![x] = new]
      /\ faults' \in 0..MaxFaults
      /\ UNCHANGED <<outbox, events, wants, reachable, call, accepted, doubts, toggles>>
  BY PipelineAssumption DEF Expire, IInv, TypeOK, Fault
<1>2. new \in Delivery /\ new.status = delivery[x].status /\ new.token = delivery[x].token
      /\ new.attempts = delivery[x].attempts
  BY <1>1 DEF Delivery
<1> QED BY <1>1, <1>2, TimeInv

LEMMA BecomeDueInv ==
    ASSUME IInv, NEW x \in Deliveries, BecomeDue(x) PROVE IInv'
<1> DEFINE new == [delivery[x] EXCEPT !.due = TRUE]
<1>1. delivery[x] # None /\ delivery[x] \in Delivery /\ delivery' = [delivery EXCEPT ![x] = new]
      /\ faults' \in 0..MaxFaults
      /\ UNCHANGED <<outbox, events, wants, reachable, call, accepted, doubts, toggles>>
  BY DEF BecomeDue, IInv, TypeOK
<1>2. new \in Delivery /\ new.status = delivery[x].status /\ new.token = delivery[x].token
      /\ new.attempts = delivery[x].attempts
  BY <1>1 DEF Delivery
<1> QED BY <1>1, <1>2, TimeInv

-----------------------------------------------------------------------------
LEMMA NextInv == IInv /\ [Next]_vars => IInv'
<1> SUFFICES ASSUME IInv, [Next]_vars PROVE IInv'
  OBVIOUS
<1>1. ASSUME NEW d \in Dispatchers, Step(d) PROVE IInv'
  BY <1>1, ClaimInv, ReadInv, RecordSentInv, RecordFailedInv, SkipInv, SendInv DEF Step
<1>2. CASE \E d \in Dispatchers : SentUpdateFails(d) \/ Die(d)
  BY <1>2, SentUpdateFailsInv, DieInv
<1>3. CASE (\E k \in Keys : Stage(k)) \/ (\E i \in 1..Len(outbox) : Drain(i))
           \/ (\E r \in Recipients : Toggle(r))
  BY <1>3, StageInv, DrainInv, ToggleInv
<1>4. CASE \E x \in Deliveries : Expire(x) \/ BecomeDue(x)
  BY <1>4, ExpireInv, BecomeDueInv
<1>5. CASE UNCHANGED vars
  BY <1>5, StutterInv
<1> QED BY <1>1, <1>2, <1>3, <1>4, <1>5 DEF Next

\* The inductive invariant: every acceptance and every licence to send is covered by the
\* first sending or by a doubt.
THEOREM Inductive == Spec => []IInv
  BY InitInv, NextInv, PTL DEF Spec

\* What is SENT was accepted, what FAILED was tried as often as it may be, what is
\* acknowledged has its event, and whoever is told twice is told so after a fault.
THEOREM RecordsAreTrue == Spec => []RecordsTrue
<1>1. IInv => RecordsTrue
  <2> SUFFICES ASSUME IInv PROVE RepetitionsExplained
    BY DEF IInv, RecordsTrue
  <2> SUFFICES ASSUME NEW x \in Deliveries PROVE accepted[x] <= 1 + doubts[x]
    BY DEF RepetitionsExplained
  <2>1. Cardinality(Licensees(x)) \in Nat
    BY Counts DEF Licensees
  <2>2. Waiting(x) \in Nat /\ accepted[x] \in Nat /\ doubts[x] \in Nat
    BY DEF Waiting, IInv, TypeOK
  <2> QED BY <2>1, <2>2 DEF IInv, Counted
<1> QED BY <1>1, Inductive, PTL

\* No step changes a delivery that is SENT, FAILED or SKIPPED.
THEOREM OutcomesAreFinal == Spec => OutcomesStay
<1>1. IInv /\ [Next]_vars =>
        [\A x \in Deliveries :
           delivery[x] # None /\ delivery[x].status \in Terminal => delivery'[x] = delivery[x]]_vars
  <2> SUFFICES ASSUME IInv, Next, NEW x \in Deliveries, delivery[x] # None,
                      delivery[x].status \in Terminal
               PROVE  delivery'[x] = delivery[x]
    BY DEF vars
  <2>1. delivery \in [Deliveries -> Delivery \cup {None}] /\ delivery[x].token = None
    BY DEF IInv, TypeOK, RowFits, Terminal
  <2>2. ASSUME NEW i \in 1..Len(outbox), Drain(i) PROVE delivery'[x] = delivery[x]
    BY <2>2 DEF Drain, FanOut
  <2>3. ASSUME NEW d \in Dispatchers, Claim(d) PROVE delivery'[x] = delivery[x]
    <3>1. ~Claimable(x)
      BY DEF Claimable, Terminal
    <3> QED BY <2>3, <3>1 DEF Claim
  <2>4. ASSUME NEW d \in Dispatchers, NEW y \in Deliveries, NEW st, NEW n, Update(d, y, st, n)
        PROVE  delivery'[x] = delivery[x]
    <3>1. delivery[x].token # d
      BY <2>1, PipelineAssumption
    <3> QED BY <2>1, <2>4, <3>1 DEF Update
  <2>5. ASSUME NEW d \in Dispatchers, RecordSent(d) \/ RecordFailed(d)
        PROVE  delivery'[x] = delivery[x]
    <3>1. call[d].pc = "record" /\ call[d].current \in Deliveries
      BY <2>5 DEF RecordSent, RecordFailed, IInv, CallFits, TypeOK, Call
    <3> QED BY <2>4, <2>5, <3>1 DEF RecordSent, RecordFailed
  <2>6. ASSUME NEW d \in Dispatchers, NEW y \in Deliveries, Skip(d, y) PROVE delivery'[x] = delivery[x]
    BY <2>4, <2>6 DEF Skip
  <2>7. ASSUME NEW y \in Deliveries, Expire(y) \/ BecomeDue(y) PROVE delivery'[x] = delivery[x]
    BY <2>1, <2>7 DEF Expire, BecomeDue, Terminal
  <2>8. ASSUME NEW d \in Dispatchers,
               Read(d) \/ SentUpdateFails(d) \/ Die(d) \/ (\E y \in Deliveries : Send(d, y))
        PROVE  delivery'[x] = delivery[x]
    BY <2>8 DEF Read, SentUpdateFails, Die, Send
  <2>9. ASSUME (\E k \in Keys : Stage(k)) \/ (\E r \in Recipients : Toggle(r))
        PROVE  delivery'[x] = delivery[x]
    BY <2>9 DEF Stage, Toggle
  <2> QED BY <2>2, <2>3, <2>5, <2>6, <2>7, <2>8, <2>9 DEF Next, Step
<1> QED BY <1>1, Inductive, PTL DEF Spec, OutcomesStay
=============================================================================
