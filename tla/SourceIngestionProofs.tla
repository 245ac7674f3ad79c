----------------------- MODULE SourceIngestionProofs -----------------------
(***************************************************************************)
(* Proofs about SourceIngestion, for every number of sources and workers,  *)
(* every ladder of failures and any number of faults and changes.  What    *)
(* fences a worker is the revision of the row: while it is the one of the  *)
(* worker's claim, the configuration is the one the worker has read, no    *)
(* later observation was published, and the claim was not settled.  The    *)
(* second part is about DueScheduler, the ticks that start these workers:  *)
(* lock and mode together keep fetches of the two systems apart.  A third  *)
(* part is about SourceEvaluation, what such a worker makes of a page, and *)
(* the last about ArtistEnrichment, what is found out about the artists.   *)
(***************************************************************************)
EXTENDS SourceIngestion, DueScheduler, SourceEvaluation, ArtistEnrichment, FiniteSetTheorems, TLAPS

USE IngestionAssumption

Typed == row \in [Sources -> Row] /\ worker \in [Workers -> Worker] /\ catalog \in Values
         /\ page \in [Configs -> Values]

Unclaimed == {"idle", "mark", "claim"}

\* What the record m of worker w says, given the rows r.
SoundRecord(w, m, r) ==
    /\ m.pc \in Unclaimed => /\ m.source = None /\ m.config = None
                             /\ ~m.overtaken /\ ~m.settled
    /\ m.pc \notin Unclaimed => m.source \in Sources
    /\ m.pc \in {"fetch", "publish"} => m.config \in Configs
    /\ m.pc = "publish" => m.seen \in Values
    /\ m.committed => m.success
    /\ m.source \in Sources /\ r[m.source].revision = w =>
          /\ ~m.overtaken /\ ~m.settled
          /\ m.config # None => m.config = r[m.source].config

Sound == \A w \in Workers : SoundRecord(w, worker[w], row)

IInv == Typed /\ Sound /\ DeprecatedWhileFailing

LEMMA FreshIsSound ==
    Fresh \in Worker /\ Fresh.pc = "idle" /\ \A w, r : SoundRecord(w, Fresh, r)
<1>1. Fresh \in Worker
  BY DEF Fresh, Worker, Pcs
<1>2. /\ Fresh.pc = "idle" /\ Fresh.source = None /\ Fresh.config = None
      /\ Fresh.overtaken = FALSE /\ Fresh.settled = FALSE /\ Fresh.committed = FALSE
      /\ Fresh.published = FALSE
  BY DEF Fresh
<1> QED BY <1>1, <1>2 DEF SoundRecord, Unclaimed

LEMMA InitInv == Init => IInv
<1> SUFFICES ASSUME Init PROVE IInv
  OBVIOUS
<1>1. PICK c \in Configs :
         row = [s \in Sources |->
                   [owner |-> None, live |-> FALSE, revision |-> None, enabled |-> TRUE,
                    config |-> c, due |-> TRUE, failures |-> 0, long |-> FALSE,
                    deprecated |-> FALSE]]
  BY DEF Init
<1>2. row \in [Sources -> Row] /\ DeprecatedWhileFailing
  BY <1>1 DEF Row, DeprecatedWhileFailing
<1>3. worker \in [Workers -> Worker] /\ Sound
  BY FreshIsSound DEF Init, Sound
<1>4. catalog \in Values /\ page \in [Configs -> Values]
  BY DEF Init
<1> QED BY <1>2, <1>3, <1>4 DEF IInv, Typed

-----------------------------------------------------------------------------
\* A row is kept for a worker if it does not get its revision, and while it has it
\* keeps its configuration.
KeptFor(v) ==
    \A s \in Sources : row'[s].revision = v =>
        row[s].revision = v /\ row'[s].config = row[s].config

LEMMA StaysSound ==
    ASSUME NEW v, NEW m, NEW r, NEW q, SoundRecord(v, m, r),
           \A s \in Sources : q[s].revision = v => r[s].revision = v /\ q[s].config = r[s].config
    PROVE  SoundRecord(v, m, q)
  BY DEF SoundRecord

\* A step of one worker.
LEMMA WorkerMoves ==
    ASSUME IInv, NEW w \in Workers, NEW m \in Worker,
           worker' = [worker EXCEPT ![w] = m],
           row' \in [Sources -> Row], catalog' \in Values, page' = page,
           DeprecatedWhileFailing',
           SoundRecord(w, m, row'),
           \A v \in Workers \ {w} : KeptFor(v)
    PROVE  IInv'
<1>1. Typed'
  BY DEF IInv, Typed
<1>2. worker'[w] = m /\ \A v \in Workers \ {w} : worker'[v] = worker[v]
  BY DEF IInv, Typed
<1>3. ASSUME NEW v \in Workers \ {w} PROVE SoundRecord(v, worker[v], row')
  BY StaysSound DEF IInv, Sound, KeptFor
<1>4. Sound'
  <2> SUFFICES ASSUME NEW v \in Workers PROVE SoundRecord(v, worker'[v], row')
    BY DEF Sound
  <2> QED BY <1>2, <1>3
<1> QED BY <1>1, <1>4 DEF IInv

\* The common case: the rows stay as they are.
LEMMA WorkerOnly ==
    ASSUME IInv, NEW w \in Workers, NEW m \in Worker,
           worker' = [worker EXCEPT ![w] = m], UNCHANGED rowVars, SoundRecord(w, m, row)
    PROVE  IInv'
<1>1. row' = row /\ catalog' = catalog /\ page' = page
  BY DEF rowVars
<1>2. /\ row' \in [Sources -> Row] /\ catalog' \in Values
      /\ DeprecatedWhileFailing' /\ SoundRecord(w, m, row')
      /\ \A v \in Workers \ {w} : KeptFor(v)
  BY <1>1 DEF IInv, Typed, DeprecatedWhileFailing, KeptFor
<1> QED BY <1>1, <1>2, WorkerMoves

\* A step of the clock, an agent or an operator, on one row.
LEMMA RowMoves ==
    ASSUME IInv, NEW s \in Sources, NEW r \in Row, row' = [row EXCEPT ![s] = r],
           UNCHANGED <<page, catalog, worker>>,
           r.deprecated => r.failures > 0 /\ r.long,
           \A v \in Workers : r.revision = v => row[s].revision = v /\ r.config = row[s].config
    PROVE  IInv'
<1>1. row'[s] = r /\ \A t \in Sources \ {s} : row'[t] = row[t]
  BY DEF IInv, Typed
<1>2. Typed'
  BY DEF IInv, Typed
<1>3. DeprecatedWhileFailing'
  BY <1>1 DEF IInv, DeprecatedWhileFailing
<1>4. ASSUME NEW v \in Workers PROVE SoundRecord(v, worker[v], row')
  <2>1. \A t \in Sources : row'[t].revision = v =>
           row[t].revision = v /\ row'[t].config = row[t].config
    BY <1>1
  <2>2. SoundRecord(v, worker[v], row)
    BY DEF IInv, Sound
  <2> QED BY <2>1, <2>2 DEF SoundRecord
<1>5. Sound'
  <2> SUFFICES ASSUME NEW v \in Workers PROVE SoundRecord(v, worker'[v], row')
    BY DEF Sound
  <2>1. worker' = worker
    OBVIOUS
  <2> QED BY <1>4, <2>1
<1> QED BY <1>2, <1>3, <1>5 DEF IInv

LEMMA Ending ==
    ASSUME IInv, NEW w \in Workers, Ends(w), UNCHANGED rowVars
    PROVE  IInv'
  BY FreshIsSound, WorkerOnly DEF Ends

-----------------------------------------------------------------------------
(* Records of a worker that moves on. *)

\* Going from one place after the claim to another.
LEMMA GoesOn ==
    ASSUME IInv, NEW w \in Workers, NEW pc \in Pcs \ Unclaimed,
           worker[w].pc \notin Unclaimed,
           pc \notin {"fetch", "publish"},
           Goes(w, pc), UNCHANGED rowVars
    PROVE  IInv'
<1> DEFINE m == [worker[w] EXCEPT !.pc = pc]
<1>1. worker[w] \in Worker /\ SoundRecord(w, worker[w], row) /\ worker' = [worker EXCEPT ![w] = m]
  BY DEF IInv, Typed, Sound, Goes
<1>2. m \in Worker
  BY <1>1 DEF Worker
<1>3. SoundRecord(w, m, row)
  BY <1>1 DEF SoundRecord, Worker, Unclaimed
<1> HIDE DEF m
<1> QED BY <1>1, <1>2, <1>3, WorkerOnly

LEMMA Recovering ==
    ASSUME IInv, NEW w \in Workers, worker[w].pc \notin Unclaimed, Recovers(w), UNCHANGED rowVars
    PROVE  IInv'
<1> DEFINE m == [worker[w] EXCEPT !.pc = "sample", !.recovering = TRUE, !.success = worker[w].committed]
<1>1. worker[w] \in Worker /\ SoundRecord(w, worker[w], row) /\ worker' = [worker EXCEPT ![w] = m]
  BY DEF IInv, Typed, Sound, Recovers
<1>2. m \in Worker
  BY <1>1 DEF Worker, Pcs
<1>3. SoundRecord(w, m, row)
  BY <1>1 DEF SoundRecord, Worker, Unclaimed
<1> HIDE DEF m
<1> QED BY <1>1, <1>2, <1>3, WorkerOnly

LEMMA Unsettling ==
    ASSUME IInv, NEW w \in Workers, worker[w].pc \notin Unclaimed, Unsettled(w), UNCHANGED rowVars
    PROVE  IInv'
<1>1. CASE Recovers(w)
  BY <1>1, Recovering
<1>2. CASE Goes(w, "release")
  BY <1>2, GoesOn DEF Pcs, Unclaimed
<1> QED BY <1>1, <1>2 DEF Unsettled

-----------------------------------------------------------------------------
(* One lemma per action. *)

LEMMA StartInv == ASSUME IInv, NEW w \in Workers, Start(w) PROVE IInv'
<1> DEFINE m == [Fresh EXCEPT !.pc = "mark", !.snapshot = catalog]
<1>1. worker' = [worker EXCEPT ![w] = m] /\ UNCHANGED rowVars /\ catalog \in Values
  BY DEF Start, IInv, Typed
<1>2. m \in Worker
  BY <1>1 DEF Fresh, Worker, Pcs
<1>3. SoundRecord(w, m, row)
  BY DEF SoundRecord, Fresh, Unclaimed
<1> HIDE DEF m
<1> QED BY <1>1, <1>2, <1>3, WorkerOnly

\* The sweep changes no owner and no configuration, and deprecates what has failed long.
LEMMA MarkInv == ASSUME IInv, NEW w \in Workers, Mark(w) PROVE IInv'
<1> DEFINE m == [worker[w] EXCEPT !.pc = "claim"]
           Swept(s) == row[s].enabled /\ ~row[s].deprecated /\ row[s].failures > 0
                       /\ row[s].long /\ ~row[s].live
<1>1. /\ worker[w].pc = "mark" /\ worker' = [worker EXCEPT ![w] = m]
      /\ UNCHANGED <<page, catalog>>
      /\ row' = [s \in Sources |-> IF Swept(s)
                    THEN [row[s] EXCEPT !.deprecated = TRUE, !.revision = None] ELSE row[s]]
  BY DEF Mark, Goes
<1>2. /\ worker[w] \in Worker /\ SoundRecord(w, worker[w], row) /\ row \in [Sources -> Row]
      /\ catalog \in Values /\ DeprecatedWhileFailing
  BY DEF IInv, Typed, Sound
<1>3. ASSUME NEW s \in Sources
      PROVE  /\ row'[s] \in Row
             /\ row'[s].deprecated => row'[s].failures > 0 /\ row'[s].long
             /\ row'[s].config = row[s].config
             /\ row'[s].revision \in {row[s].revision, None}
  BY <1>1, <1>2 DEF Row, DeprecatedWhileFailing
<1>4. row' \in [Sources -> Row] /\ DeprecatedWhileFailing'
  BY <1>1, <1>3 DEF DeprecatedWhileFailing
<1>5. \A v \in Workers \ {w} : KeptFor(v)
  BY <1>3 DEF KeptFor
<1>6. m \in Worker /\ m.pc = "claim"
  BY <1>2 DEF Worker, Pcs
<1>7. SoundRecord(w, m, row')
  BY <1>1, <1>2 DEF SoundRecord, Worker, Unclaimed
<1> HIDE DEF m
<1> QED BY <1>1, <1>2, <1>4, <1>5, <1>6, <1>7, WorkerMoves

LEMMA ClaimInv == ASSUME IInv, NEW w \in Workers, NEW s \in Sources, Claim(w, s) PROVE IInv'
<1> DEFINE m == [worker[w] EXCEPT !.pc = "setup", !.source = s]
           r == [row[s] EXCEPT !.owner = w, !.live = TRUE, !.revision = w]
<1>1. /\ worker[w].pc = "claim" /\ worker' = [worker EXCEPT ![w] = m]
      /\ UNCHANGED <<page, catalog>> /\ row' = [row EXCEPT ![s] = r]
  BY DEF Claim
<1>2. /\ worker[w] \in Worker /\ SoundRecord(w, worker[w], row) /\ row \in [Sources -> Row]
      /\ row[s] \in Row /\ catalog \in Values /\ DeprecatedWhileFailing
  BY DEF IInv, Typed, Sound
<1>3. /\ r \in Row /\ r.revision = w
      /\ r.failures = row[s].failures /\ r.long = row[s].long /\ r.deprecated = row[s].deprecated
  BY <1>2 DEF Row
<1>4. m \in Worker
  BY <1>2 DEF Worker, Pcs
<1>5. /\ m.pc = "setup" /\ m.source = s /\ m.config = None /\ ~m.overtaken /\ ~m.settled
      /\ m.committed => m.success
  BY <1>1, <1>2 DEF Worker, SoundRecord, Unclaimed
<1> HIDE DEF m, r
<1>6. row'[s] = r /\ \A t \in Sources \ {s} : row'[t] = row[t]
  BY <1>1, <1>2
<1>7. row' \in [Sources -> Row] /\ DeprecatedWhileFailing'
  BY <1>1, <1>2, <1>3, <1>6 DEF DeprecatedWhileFailing
<1>8. \A v \in Workers \ {w} : KeptFor(v)
  BY <1>3, <1>6 DEF KeptFor
<1>9. SoundRecord(w, m, row')
  BY <1>5 DEF SoundRecord, Unclaimed
<1> QED BY <1>1, <1>2, <1>4, <1>7, <1>8, <1>9, WorkerMoves

LEMMA SetupInv == ASSUME IInv, NEW w \in Workers, Setup(w) PROVE IInv'
<1>1. CASE Goes(w, "configure")
  BY <1>1, GoesOn DEF Setup, Pcs, Unclaimed
<1>2. CASE Recovers(w)
  BY <1>2, Recovering DEF Setup, Unclaimed
<1> QED BY <1>1, <1>2 DEF Setup

LEMMA ConfigureInv == ASSUME IInv, NEW w \in Workers, Configure(w) PROVE IInv'
<1> DEFINE m == [worker[w] EXCEPT !.pc = "fetch", !.config = row[worker[w].source].config]
<1>1. /\ worker[w].pc = "configure" /\ worker' = [worker EXCEPT ![w] = m] /\ UNCHANGED rowVars
  BY DEF Configure
<1>2. /\ worker[w] \in Worker /\ SoundRecord(w, worker[w], row) /\ row \in [Sources -> Row]
  BY DEF IInv, Typed, Sound
<1>3. worker[w].source \in Sources /\ row[worker[w].source] \in Row
  BY <1>1, <1>2 DEF SoundRecord, Unclaimed
<1>4. m \in Worker
  BY <1>2, <1>3 DEF Worker, Pcs, Row
<1>5. SoundRecord(w, m, row)
  BY <1>1, <1>2, <1>3 DEF SoundRecord, Worker, Row, Unclaimed
<1> HIDE DEF m
<1> QED BY <1>1, <1>4, <1>5, WorkerOnly

LEMMA FetchInv == ASSUME IInv, NEW w \in Workers, Fetch(w) PROVE IInv'
<1> DEFINE v == page[worker[w].config]
           pc == IF v # worker[w].snapshot /\ v \notin Reviewed THEN "publish" ELSE "sample"
           m == [worker[w] EXCEPT !.seen = v, !.success = TRUE, !.pc = pc]
<1>1. /\ worker[w].pc = "fetch" /\ worker' = [worker EXCEPT ![w] = m] /\ UNCHANGED rowVars
  BY DEF Fetch
<1>2. /\ worker[w] \in Worker /\ SoundRecord(w, worker[w], row)
      /\ page \in [Configs -> Values]
  BY DEF IInv, Typed, Sound
<1>3. v \in Values /\ worker[w].config \in Configs /\ pc \in {"publish", "sample"}
  BY <1>1, <1>2 DEF SoundRecord
<1> HIDE DEF v, pc
<1>4. m \in Worker
  BY <1>2, <1>3 DEF Worker, Pcs
<1>5. SoundRecord(w, m, row)
  BY <1>1, <1>2, <1>3 DEF SoundRecord, Worker, Unclaimed
<1> HIDE DEF m
<1> QED BY <1>1, <1>4, <1>5, WorkerOnly

LEMMA FetchFailsInv == ASSUME IInv, NEW w \in Workers, FetchFails(w) PROVE IInv'
  BY GoesOn DEF FetchFails, Pcs, Unclaimed

LEMMA SampleInv == ASSUME IInv, NEW w \in Workers, Sample(w) PROVE IInv'
<1> DEFINE m == [worker[w] EXCEPT !.pc = "complete", !.inTime = row[worker[w].source].live]
<1>1. CASE Recovers(w)
  BY <1>1, Recovering DEF Sample, Unclaimed
<1>2. CASE worker' = [worker EXCEPT ![w] = m]
  <2>1. worker[w].pc = "sample" /\ UNCHANGED rowVars
    BY DEF Sample
  <2>2. /\ worker[w] \in Worker /\ SoundRecord(w, worker[w], row) /\ row \in [Sources -> Row]
    BY DEF IInv, Typed, Sound
  <2>3. worker[w].source \in Sources /\ row[worker[w].source].live \in BOOLEAN
    BY <2>1, <2>2 DEF SoundRecord, Unclaimed, Row
  <2>4. m \in Worker
    BY <2>2, <2>3 DEF Worker, Pcs
  <2>5. SoundRecord(w, m, row)
    BY <2>1, <2>2 DEF SoundRecord, Worker, Unclaimed
  <2> HIDE DEF m
  <2> QED BY <1>2, <2>1, <2>4, <2>5, WorkerOnly
<1> QED BY <1>1, <1>2 DEF Sample

\* While w owns its source, nobody else does: who is overtaken by w has lost it.
LEMMA PublishInv == ASSUME IInv, NEW w \in Workers, Publish(w) PROVE IInv'
<1> DEFINE me == worker[w]
           moves == catalog = me.snapshot
<1>1. CASE Recovers(w) /\ UNCHANGED catalog
  BY <1>1, Recovering DEF Publish, Unclaimed, rowVars
<1>2. CASE /\ Owns(w) /\ catalog' = me.seen
           /\ \E acked \in BOOLEAN :
                 worker' = [v \in Workers |->
                            IF v = w
                            THEN [me EXCEPT !.pc = "sample", !.published = moves,
                                            !.committed = moves /\ acked,
                                            !.recovering = ~acked, !.success = acked]
                            ELSE [worker[v] EXCEPT !.overtaken =
                                     worker[v].overtaken \/ (moves /\ Overtakes(w, v))]]
  <2>1. /\ me.pc = "publish" /\ row' = row /\ page' = page
        /\ me \in Worker /\ SoundRecord(w, me, row)
    BY DEF Publish, IInv, Typed, Sound
  <2>2. PICK acked \in BOOLEAN :
           worker' = [v \in Workers |->
                      IF v = w
                      THEN [me EXCEPT !.pc = "sample", !.published = moves,
                                      !.committed = moves /\ acked,
                                      !.recovering = ~acked, !.success = acked]
                      ELSE [worker[v] EXCEPT !.overtaken =
                               worker[v].overtaken \/ (moves /\ Overtakes(w, v))]]
    BY <1>2
  <2>3. worker'[w] \in Worker /\ SoundRecord(w, worker'[w], row)
    <3>1. PICK moved \in BOOLEAN, committed \in BOOLEAN, unknown \in BOOLEAN :
             /\ worker'[w] = [me EXCEPT !.pc = "sample", !.published = moved,
                                        !.committed = committed, !.recovering = unknown,
                                        !.success = acked]
             /\ committed => acked
      <4>1. /\ moves \in BOOLEAN /\ (moves /\ acked) \in BOOLEAN /\ (~acked) \in BOOLEAN
            /\ moves /\ acked => acked
        OBVIOUS
      <4>2. worker'[w] = [me EXCEPT !.pc = "sample", !.published = moves,
                                   !.committed = moves /\ acked,
                                   !.recovering = ~acked, !.success = acked]
        BY <2>2, Zenon
      <4> QED BY <4>1, <4>2, Zenon
    <3> DEFINE m == [me EXCEPT !.pc = "sample", !.published = moved, !.committed = committed,
                               !.recovering = unknown, !.success = acked]
    <3>2. m \in Worker
      BY <2>1 DEF Worker, Pcs
    <3>3. SoundRecord(w, m, row)
      BY <2>1, <3>1 DEF SoundRecord, Worker, Unclaimed
    <3> QED BY <3>1, <3>2, <3>3
  <2>4. ASSUME NEW v \in Workers \ {w}
        PROVE  worker'[v] \in Worker /\ SoundRecord(v, worker'[v], row)
    <3>1. worker[v] \in Worker /\ SoundRecord(v, worker[v], row)
      BY DEF IInv, Typed, Sound
    <3>2. PICK b \in BOOLEAN :
             /\ worker'[v] = [worker[v] EXCEPT !.overtaken = b]
             /\ b => worker[v].overtaken \/ worker[v].source = me.source
      <4> DEFINE o == worker[v].overtaken \/ (moves /\ Overtakes(w, v))
      <4>1. o \in BOOLEAN
        OBVIOUS
      <4>2. worker'[v] = [worker[v] EXCEPT !.overtaken = o]
        BY <2>2, Zenon
      <4>3. o => worker[v].overtaken \/ worker[v].source = me.source
        BY Zenon DEF Overtakes
      <4> QED BY <4>1, <4>2, <4>3, Zenon
    <3> DEFINE m == [worker[v] EXCEPT !.overtaken = b]
    <3>3. me.source \in Sources /\ row[me.source].revision = w
      BY <1>2, <2>1 DEF Owns, SoundRecord, Unclaimed
    <3>4. m \in Worker
      BY <3>1 DEF Worker
    <3>5. /\ m.pc = worker[v].pc /\ m.source = worker[v].source /\ m.config = worker[v].config
          /\ m.settled = worker[v].settled /\ m.committed = worker[v].committed
          /\ m.success = worker[v].success /\ m.seen = worker[v].seen /\ m.overtaken = b
      BY <3>1 DEF Worker
    <3> HIDE DEF m
    <3>6. SoundRecord(v, m, row)
      BY <3>1, <3>2, <3>3, <3>5 DEF SoundRecord
    <3> QED BY <3>2, <3>4, <3>6 DEF m
  <2>5. worker' \in [Workers -> Worker]
    BY <2>2, <2>3, <2>4
  <2>6. catalog' \in Values
    BY <1>2, <2>1 DEF SoundRecord
  <2>7. Sound'
    <3> SUFFICES ASSUME NEW v \in Workers PROVE SoundRecord(v, worker'[v], row')
      BY DEF Sound
    <3> QED BY <2>1, <2>3, <2>4
  <2> QED BY <2>1, <2>5, <2>6, <2>7 DEF IInv, Typed, DeprecatedWhileFailing
<1> QED BY <1>1, <1>2 DEF Publish

\* What every completion does to the row of its source.
LEMMA SettledRow ==
    ASSUME NEW r \in Row, NEW success \in BOOLEAN,
           r.deprecated => r.failures > 0 /\ r.long
    PROVE  LET q == Settled(r, success) IN
           q \in Row /\ q.revision = None /\ (q.deprecated => q.failures > 0 /\ q.long)
<1> DEFINE failures == IF success THEN 0 ELSE Failed(r.failures)
           long == ~success /\ r.failures > 0 /\ r.long
           deprecated == ~success /\ (r.deprecated \/ (r.failures > 0 /\ r.long))
           q == [r EXCEPT !.owner = None, !.live = FALSE, !.revision = None, !.due = FALSE,
                          !.failures = failures, !.long = long, !.deprecated = deprecated]
<1>1. failures \in 0..MaxFailures /\ (~success => failures > 0)
  BY DEF Failed, Row
<1>2. long \in BOOLEAN /\ deprecated \in BOOLEAN
  OBVIOUS
<1>3. deprecated => failures > 0 /\ long
  BY <1>1
<1>4. Settled(r, success) = q
  BY Zenon DEF Settled
<1> HIDE DEF failures, long, deprecated
<1>5. /\ q \in Row /\ q.revision = None /\ q.deprecated = deprecated
      /\ q.failures = failures /\ q.long = long
  BY <1>1, <1>2 DEF Row
<1> HIDE DEF q
<1> QED BY <1>3, <1>4, <1>5

LEMMA CompleteInv == ASSUME IInv, NEW w \in Workers, Complete(w) PROVE IInv'
<1> DEFINE s == worker[w].source
           r == Settled(row[s], worker[w].success)
<1>1. /\ worker[w].pc = "complete" /\ UNCHANGED <<page, catalog>>
      /\ worker[w] \in Worker /\ SoundRecord(w, worker[w], row) /\ row \in [Sources -> Row]
      /\ s \in Sources
  BY DEF Complete, IInv, Typed, Sound, SoundRecord, Unclaimed
<1>2. CASE Unsettled(w) /\ UNCHANGED row
  BY <1>1, <1>2, Unsettling DEF rowVars, Unclaimed
<1>3. CASE row' = [row EXCEPT ![s] = r] /\ (Ends(w) \/ AnswerLost(w))
  <2>1. /\ row[s] \in Row /\ worker[w].success \in BOOLEAN
        /\ row[s].deprecated => row[s].failures > 0 /\ row[s].long
    BY <1>1 DEF IInv, DeprecatedWhileFailing, Worker
  <2>2. r \in Row /\ r.revision = None /\ (r.deprecated => r.failures > 0 /\ r.long)
    BY <2>1, SettledRow
  <2> HIDE DEF r
  <2>3. row'[s] = r /\ \A t \in Sources \ {s} : row'[t] = row[t]
    BY <1>1, <1>3
  <2>4. row' \in [Sources -> Row] /\ DeprecatedWhileFailing'
    BY <1>1, <1>3, <2>2, <2>3 DEF IInv, DeprecatedWhileFailing
  <2>5. \A v \in Workers : KeptFor(v)
    BY <2>2, <2>3 DEF KeptFor
  <2>6. CASE Ends(w)
    BY <1>1, <2>4, <2>5, <2>6, FreshIsSound, WorkerMoves DEF Ends, IInv, Typed
  <2>7. CASE AnswerLost(w)
    <3>1. PICK success \in BOOLEAN, pc \in {"release", "sample"} :
             /\ worker' = [worker EXCEPT ![w] = [worker[w] EXCEPT !.settled = TRUE,
                              !.success = success, !.recovering = TRUE, !.pc = pc]]
             /\ worker[w].committed => success
      <4>1. /\ (IF worker[w].recovering THEN worker[w].success ELSE worker[w].committed) \in BOOLEAN
            /\ (IF worker[w].recovering THEN "release" ELSE "sample") \in {"release", "sample"}
            /\ worker[w].committed =>
                  (IF worker[w].recovering THEN worker[w].success ELSE worker[w].committed)
        BY <1>1 DEF Worker, SoundRecord
      <4> QED BY <2>7, <4>1, Zenon DEF AnswerLost
    <3> DEFINE m == [worker[w] EXCEPT !.settled = TRUE, !.success = success, !.recovering = TRUE, !.pc = pc]
    <3>2. m \in Worker
      BY <1>1 DEF Worker, Pcs
    <3>3. /\ m.pc = pc /\ m.source = s /\ m.config = worker[w].config
          /\ m.committed = worker[w].committed /\ m.success = success
      BY <1>1 DEF Worker
    <3> HIDE DEF m
    <3>4. SoundRecord(w, m, row')
      BY <1>1, <2>2, <2>3, <3>1, <3>3 DEF SoundRecord, Unclaimed
    <3> QED BY <1>1, <2>4, <2>5, <3>1, <3>2, <3>4, WorkerMoves DEF m, IInv, Typed
  <2> QED BY <1>3, <2>6, <2>7
<1> QED BY <1>2, <1>3 DEF Complete

LEMMA ReleaseInv == ASSUME IInv, NEW w \in Workers, Release(w) PROVE IInv'
<1> DEFINE s == worker[w].source
           r == [row[s] EXCEPT !.owner = None, !.live = FALSE]
<1>1. /\ worker[w].pc = "release" /\ UNCHANGED <<page, catalog>> /\ Ends(w)
      /\ SoundRecord(w, worker[w], row) /\ row \in [Sources -> Row]
      /\ s \in Sources /\ catalog \in Values
  BY DEF Release, IInv, Typed, Sound, SoundRecord, Unclaimed
<1>2. CASE row' = row
  BY <1>1, <1>2, Ending DEF rowVars
<1>3. CASE row' = [row EXCEPT ![s] = r]
  <2>1. /\ r \in Row /\ r.revision = row[s].revision /\ r.config = row[s].config
        /\ r.failures = row[s].failures /\ r.long = row[s].long /\ r.deprecated = row[s].deprecated
    <3>1. row[s] \in Row
      BY <1>1
    <3> QED BY <3>1 DEF Row
  <2> HIDE DEF r
  <2>2. row'[s] = r /\ \A t \in Sources \ {s} : row'[t] = row[t]
    BY <1>1, <1>3
  <2>3. row' \in [Sources -> Row] /\ DeprecatedWhileFailing'
    BY <1>1, <1>3, <2>1, <2>2 DEF IInv, DeprecatedWhileFailing
  <2>4. \A v \in Workers : KeptFor(v)
    BY <2>1, <2>2 DEF KeptFor
  <2> QED BY <1>1, <2>3, <2>4, FreshIsSound, WorkerMoves DEF Ends
<1> QED BY <1>2, <1>3 DEF Release

-----------------------------------------------------------------------------
(* Faults, time and the rest of the world. *)

LEMMA HeartbeatFailsInv == ASSUME IInv, NEW w \in Workers, HeartbeatFails(w) PROVE IInv'
<1> DEFINE m == [worker[w] EXCEPT !.lost = TRUE]
<1>1. /\ worker' = [worker EXCEPT ![w] = m] /\ UNCHANGED rowVars
      /\ worker[w] \in Worker /\ SoundRecord(w, worker[w], row)
  BY DEF HeartbeatFails, IInv, Typed, Sound
<1>2. m \in Worker
  BY <1>1 DEF Worker
<1>3. SoundRecord(w, m, row)
  BY <1>1 DEF SoundRecord, Worker
<1> HIDE DEF m
<1> QED BY <1>1, <1>2, <1>3, WorkerOnly

LEMMA ErrorInv == ASSUME IInv, NEW w \in Workers, Error(w) PROVE IInv'
<1>1. CASE Ends(w)
  BY <1>1, Ending DEF Error
<1>2. CASE worker[w].pc \notin Unclaimed /\ Unsettled(w)
  BY <1>2, Unsettling DEF Error
<1> QED BY <1>1, <1>2 DEF Error, Unclaimed

LEMMA DieInv == ASSUME IInv, NEW w \in Workers, Die(w) PROVE IInv'
  BY Ending DEF Die

\* A row with another deadline or owner.
LEMMA ClockInv ==
    ASSUME IInv, NEW s \in Sources, Lapse(s) \/ BecomeDue(s) \/ Age(s)
    PROVE  IInv'
<1>1. row[s] \in Row /\ (row[s].deprecated => row[s].failures > 0 /\ row[s].long)
  BY DEF IInv, Typed, DeprecatedWhileFailing
<1>2. UNCHANGED <<page, catalog, worker>>
  BY DEF Lapse, BecomeDue, Age
<1>3. PICK r : /\ row' = [row EXCEPT ![s] = r]
               /\ r \in {[row[s] EXCEPT !.live = FALSE], [row[s] EXCEPT !.due = TRUE],
                          [row[s] EXCEPT !.long = TRUE]}
  BY DEF Lapse, BecomeDue, Age
<1>4. /\ r \in Row /\ r.revision = row[s].revision /\ r.config = row[s].config
      /\ r.deprecated => r.failures > 0 /\ r.long
  BY <1>1, <1>3 DEF Row
<1> QED BY <1>2, <1>3, <1>4, RowMoves

\* An edit always clears the revision.
LEMMA EditInv ==
    ASSUME IInv, NEW s \in Sources, Reconfigure(s) \/ OperatorEdit(s)
    PROVE  IInv'
<1>1. row[s] \in Row /\ (row[s].deprecated => row[s].failures > 0 /\ row[s].long)
  BY DEF IInv, Typed, DeprecatedWhileFailing
<1>2. UNCHANGED <<page, catalog, worker>>
  BY DEF Reconfigure, OperatorEdit
<1>3. PICK c \in Configs :
         \/ row' = [row EXCEPT ![s] = [row[s] EXCEPT !.config = c, !.due = TRUE, !.revision = None]]
         \/ row' = [row EXCEPT ![s] = [row[s] EXCEPT !.config = c, !.revision = None]]
         \/ row' = [row EXCEPT ![s] = [row[s] EXCEPT !.enabled = ~row[s].enabled, !.revision = None]]
  BY <1>1 DEF Reconfigure, OperatorEdit, Row
<1>4. PICK r : /\ row' = [row EXCEPT ![s] = r]
               /\ r \in {[row[s] EXCEPT !.config = c, !.due = TRUE, !.revision = None],
                          [row[s] EXCEPT !.config = c, !.revision = None],
                          [row[s] EXCEPT !.enabled = ~row[s].enabled, !.revision = None]}
  BY <1>3
<1>5. r \in Row /\ r.revision = None /\ (r.deprecated => r.failures > 0 /\ r.long)
  BY <1>1, <1>4 DEF Row
<1> QED BY <1>2, <1>4, <1>5, RowMoves

\* The pages and the catalogue are not what fences.
LEMMA OutsideInv ==
    ASSUME IInv, AdminPublish \/ \E c \in Configs : PageChanges(c)
    PROVE  IInv'
<1>1. /\ row' = row /\ worker' = worker
  BY DEF AdminPublish, PageChanges
<1>2. catalog' \in Values /\ page' \in [Configs -> Values]
  BY DEF AdminPublish, PageChanges, IInv, Typed
<1> QED BY <1>1, <1>2 DEF IInv, Typed, Sound, DeprecatedWhileFailing

LEMMA NextInv == IInv /\ [Next]_vars => IInv'
<1> SUFFICES ASSUME IInv, [Next]_vars PROVE IInv'
  OBVIOUS
<1>1. ASSUME NEW w \in Workers, Step(w) PROVE IInv'
  <2>1. CASE NothingDue(w)
    BY <2>1, Ending DEF NothingDue
  <2> QED BY <1>1, <2>1, StartInv, MarkInv, ClaimInv, SetupInv, ConfigureInv, FetchInv, PublishInv,
             SampleInv, CompleteInv, ReleaseInv DEF Step
<1>2. ASSUME NEW w \in Workers, FetchFails(w) \/ HeartbeatFails(w) \/ Error(w) \/ Die(w)
      PROVE  IInv'
  BY <1>2, FetchFailsInv, HeartbeatFailsInv, ErrorInv, DieInv
<1>3. ASSUME NEW s \in Sources,
             Lapse(s) \/ BecomeDue(s) \/ Age(s) \/ Reconfigure(s) \/ OperatorEdit(s)
      PROVE  IInv'
  BY <1>3, ClockInv, EditInv
<1>4. CASE UNCHANGED vars
  BY <1>4 DEF vars, IInv, Typed, Sound, DeprecatedWhileFailing
<1> QED BY <1>1, <1>2, <1>3, <1>4, OutsideInv DEF Next

\* The inductive invariant.
THEOREM Fenced == Spec => []IInv
  BY InitInv, NextInv, PTL DEF Spec

\* A source is deprecated only in an unbroken streak of failures of 21 days, whatever is
\* edited, lost or retried in it.
THEOREM Streaks == Spec => []DeprecatedWhileFailing
<1>1. IInv => DeprecatedWhileFailing
  BY DEF IInv
<1> QED BY <1>1, Fenced, PTL

-----------------------------------------------------------------------------
(* The counters and the order of fetching stay within their bounds. *)

Bounded ==
    /\ fetched \subseteq Workers \X Workers
    /\ faults \in 0..MaxFaults
    /\ changes \in 0..MaxChanges

LEMMA FaultBounded ==
    ASSUME Bounded, Fault \/ UNCHANGED faults
    PROVE  faults' \in 0..MaxFaults
  BY IngestionAssumption DEF Bounded, Fault

LEMMA EndsBounded ==
    ASSUME Bounded, NEW w \in Workers, Ends(w) \/ UNCHANGED fetched
    PROVE  fetched' \subseteq Workers \X Workers
  BY DEF Bounded, Ends

LEMMA StepBounded == ASSUME Bounded, NEW w \in Workers, Step(w) PROVE Bounded'
<1>1. CASE Start(w) \/ Mark(w) \/ (\E s \in Sources : Claim(w, s)) \/ Setup(w) \/ Configure(w)
           \/ Sample(w)
  BY <1>1 DEF Bounded, Start, Mark, Claim, Setup, Configure, Sample
<1>2. CASE NothingDue(w) \/ Release(w)
  BY <1>2, EndsBounded DEF Bounded, NothingDue, Release
<1>3. CASE Fetch(w)
  <2>1. Holders \cup {w} \subseteq Workers
    BY DEF Holders
  <2>2. \A u \in Holders \cup {w} : <<u, w>> \in Workers \X Workers
    BY <2>1
  <2>3. {<<u, w>> : u \in Holders \cup {w}} \subseteq Workers \X Workers
    BY <2>2, Zenon
  <2> QED BY <1>3, <2>3 DEF Bounded, Fetch
<1>4. CASE Publish(w)
  <2>1. UNCHANGED <<fetched, changes>> /\ (Fault \/ UNCHANGED faults)
    BY <1>4 DEF Publish
  <2> QED BY <2>1, FaultBounded DEF Bounded
<1>5. CASE Complete(w)
  <2>1. /\ Ends(w) \/ UNCHANGED fetched
        /\ Fault \/ UNCHANGED faults
        /\ UNCHANGED changes
    BY <1>5 DEF Complete, AnswerLost
  <2> QED BY <2>1, EndsBounded, FaultBounded DEF Bounded
<1> QED BY <1>1, <1>2, <1>3, <1>4, <1>5 DEF Step

LEMMA NextBounded == Bounded /\ [Next]_vars => Bounded'
<1> SUFFICES ASSUME Bounded, [Next]_vars PROVE Bounded'
  OBVIOUS
<1>1. ASSUME NEW w \in Workers, FetchFails(w) \/ HeartbeatFails(w) \/ Error(w) \/ Die(w)
      PROVE  Bounded'
  <2>1. /\ Ends(w) \/ UNCHANGED fetched
        /\ Fault \/ UNCHANGED faults
        /\ UNCHANGED changes
    BY <1>1 DEF FetchFails, HeartbeatFails, Error, Die
  <2> QED BY <2>1, EndsBounded, FaultBounded DEF Bounded
<1>2. ASSUME NEW s \in Sources, Lapse(s) \/ BecomeDue(s) \/ Age(s) PROVE Bounded'
  <2>1. UNCHANGED <<fetched, changes>> /\ (Fault \/ UNCHANGED faults)
    BY <1>2 DEF Lapse, BecomeDue, Age
  <2> QED BY <2>1, FaultBounded DEF Bounded
<1>3. ASSUME \/ \E s \in Sources : Reconfigure(s) \/ OperatorEdit(s)
             \/ \E c \in Configs : PageChanges(c)
             \/ AdminPublish
      PROVE  Bounded'
  <2>1. Change /\ UNCHANGED <<fetched, faults>>
    BY <1>3 DEF Reconfigure, OperatorEdit, PageChanges, AdminPublish
  <2> QED BY <2>1, IngestionAssumption DEF Bounded, Change
<1>4. CASE UNCHANGED vars
  BY <1>4 DEF vars, Bounded
<1> QED BY <1>1, <1>2, <1>3, <1>4, StepBounded DEF Next

\* The rows of the sources are well-formed, and deprecated only in an unbroken streak
\* of failures (lib/ingestion/lease.ts, scripts/ingest-festivals.mjs).
THEOREM RowsAreSound == Spec => []RowsSound
<1>1. Init => Bounded
  BY IngestionAssumption DEF Init, Bounded
<1>2. Spec => []Bounded
  BY <1>1, NextBounded, PTL DEF Spec
<1>3. IInv /\ Bounded => RowsSound
  BY DEF IInv, Typed, Bounded, RowsSound, TypeOK
<1> QED BY <1>2, <1>3, Fenced, PTL

-----------------------------------------------------------------------------
(* The steps of a worker that change the catalogue and the row for good. *)

\* The record of a worker is only changed by itself, or overtaken.
LEMMA OthersKept ==
    ASSUME IInv, NEW w \in Workers, NEW v \in Workers \ {w},
           Step(v) \/ FetchFails(v) \/ HeartbeatFails(v) \/ Error(v) \/ Die(v)
    PROVE  worker'[w].published = worker[w].published
<1>1. worker \in [Workers -> Worker] /\ worker[w] \in Worker
  BY DEF IInv, Typed
<1>2. ASSUME NEW m, worker' = [worker EXCEPT ![v] = m] PROVE worker'[w] = worker[w]
  BY <1>1, <1>2
<1>3. CASE Publish(v) /\ ~Recovers(v)
  <2>1. worker'[w] = [worker[w] EXCEPT !.overtaken = worker'[w].overtaken]
    BY <1>1, <1>3 DEF Publish, Worker
  <2> QED BY <1>1, <2>1 DEF Worker
<1>4. CASE \E m : worker' = [worker EXCEPT ![v] = m]
  BY <1>2, <1>4
<1>5. (Step(v) /\ ~Publish(v)) \/ Recovers(v) => \E m : worker' = [worker EXCEPT ![v] = m]
  BY DEF Step, Start, Mark, Claim, NothingDue, Setup, Configure, Fetch, Sample, Complete, Release,
         Goes, Ends, Recovers, Unsettled, AnswerLost
<1>6. FetchFails(v) \/ HeartbeatFails(v) \/ Error(v) \/ Die(v)
         => \E m : worker' = [worker EXCEPT ![v] = m]
  BY DEF FetchFails, HeartbeatFails, Error, Die, Goes, Ends, Recovers, Unsettled
<1> QED BY <1>3, <1>4, <1>5, <1>6 DEF Step

\* Only the transaction of its own that finds the claim unchanged publishes for a worker.
LEMMA PublishesOwned ==
    ASSUME IInv, Next, NEW w \in Workers, Publishes(w)
    PROVE  worker[w].pc = "publish" /\ Owns(w)
<1>1. worker \in [Workers -> Worker] /\ worker[w] \in Worker /\ Fresh.published = FALSE
  BY DEF IInv, Typed, Fresh
<1>2. PICK v \in Workers : Step(v) \/ FetchFails(v) \/ HeartbeatFails(v) \/ Error(v) \/ Die(v)
  BY DEF Next, Publishes, Lapse, BecomeDue, Age, Reconfigure, OperatorEdit, PageChanges, AdminPublish
<1>3. v = w
  BY <1>2, OthersKept DEF Publishes
<1>4. ASSUME NEW m, worker' = [worker EXCEPT ![w] = m] PROVE m.published # worker[w].published /\ m # Fresh
  BY <1>1, <1>4 DEF Publishes
<1>5. ~Ends(w) /\ ~Start(w)
  <2>1. [Fresh EXCEPT !.pc = "mark", !.snapshot = catalog].published = FALSE
    BY DEF Fresh
  <2> QED BY <1>1, <1>4, <2>1 DEF Ends, Start, Publishes
<1>6. ASSUME NEW pc, Goes(w, pc) PROVE FALSE
  <2>1. [worker[w] EXCEPT !.pc = pc].published = worker[w].published
    BY <1>1 DEF Worker
  <2> QED BY <1>4, <1>6, <2>1 DEF Goes
<1>7. ~Recovers(w)
  <2>1. [worker[w] EXCEPT !.pc = "sample", !.recovering = TRUE,
                          !.success = worker[w].committed].published = worker[w].published
    BY <1>1 DEF Worker
  <2> QED BY <1>4, <2>1 DEF Recovers
<1>8. ~AnswerLost(w)
  <2> SUFFICES ASSUME AnswerLost(w) PROVE FALSE
    OBVIOUS
  <2>1. PICK success, pc :
           worker' = [worker EXCEPT ![w] = [worker[w] EXCEPT !.settled = TRUE,
                        !.success = success, !.recovering = TRUE, !.pc = pc]]
    BY Zenon DEF AnswerLost
  <2>2. [worker[w] EXCEPT !.settled = TRUE, !.success = success, !.recovering = TRUE,
                          !.pc = pc].published = worker[w].published
    BY <1>1 DEF Worker
  <2> QED BY <1>4, <2>1, <2>2
<1>9. ~(\E s \in Sources : Claim(w, s)) /\ ~Configure(w) /\ ~HeartbeatFails(w)
  <2>1. /\ \A s : [worker[w] EXCEPT !.pc = "setup", !.source = s].published = worker[w].published
        /\ \A c : [worker[w] EXCEPT !.pc = "fetch", !.config = c].published = worker[w].published
        /\ [worker[w] EXCEPT !.lost = TRUE].published = worker[w].published
    BY <1>1 DEF Worker
  <2>2. ~(\E s \in Sources : Claim(w, s))
    BY <1>4, <2>1 DEF Claim
  <2>3. ~Configure(w)
    BY <1>4, <2>1 DEF Configure
  <2>4. ~HeartbeatFails(w)
    BY <1>4, <2>1 DEF HeartbeatFails
  <2> QED BY <2>2, <2>3, <2>4
<1>10. ~Fetch(w)
  <2> SUFFICES ASSUME Fetch(w) PROVE FALSE
    OBVIOUS
  <2>1. PICK x, pc :
           worker' = [worker EXCEPT ![w] = [worker[w] EXCEPT !.seen = x, !.success = TRUE, !.pc = pc]]
    BY Zenon DEF Fetch
  <2>2. [worker[w] EXCEPT !.seen = x, !.success = TRUE, !.pc = pc].published = worker[w].published
    BY <1>1 DEF Worker
  <2> QED BY <1>4, <2>1, <2>2
<1>11. ~Sample(w)
  <2>1. \A b : [worker[w] EXCEPT !.pc = "complete", !.inTime = b].published = worker[w].published
    BY <1>1 DEF Worker
  <2> QED BY <1>4, <1>7, <2>1 DEF Sample
<1>12. Publish(w)
  BY <1>2, <1>3, <1>5, <1>6, <1>7, <1>8, <1>9, <1>10, <1>11
     DEF Step, Mark, NothingDue, Setup, Complete, Release, FetchFails, Error, Die, Unsettled
<1> QED BY <1>7, <1>12 DEF Publish

\* Only the completion of its own that finds the claim unchanged settles for a worker.
LEMMA SettlesOwned ==
    ASSUME IInv, Next, NEW w \in Workers, Settles(w)
    PROVE  worker[w].pc = "complete" /\ Owns(w)
<1> DEFINE s == worker[w].source
<1>1. /\ worker \in [Workers -> Worker] /\ worker[w] \in Worker
      /\ worker[w].pc = "complete" /\ worker'[w] # worker[w] /\ row' # row
  BY DEF IInv, Typed, Settles
<1>2. PICK v \in Workers : Step(v) \/ FetchFails(v) \/ HeartbeatFails(v) \/ Error(v) \/ Die(v)
  BY <1>1 DEF Next, Lapse, BecomeDue, Age, Reconfigure, OperatorEdit, PageChanges, AdminPublish
<1>3. Mark(v) \/ (\E t \in Sources : Claim(v, t)) \/ Complete(v) \/ Release(v)
  BY <1>1, <1>2 DEF Step, Start, NothingDue, Setup, Configure, Fetch, Publish, Sample,
                    FetchFails, HeartbeatFails, Error, Die, rowVars
<1>4. \E m : worker' = [worker EXCEPT ![v] = m]
  BY <1>3 DEF Mark, Claim, Complete, Release, Goes, Ends, Recovers, Unsettled, AnswerLost
<1>5. v = w
  BY <1>1, <1>4
<1>6. Complete(w)
  BY <1>1, <1>3, <1>5 DEF Mark, Claim, Release
<1> QED BY <1>1, <1>6 DEF Complete

\* What fences them both.
LEMMA OwnedIsSound ==
    ASSUME IInv, NEW w \in Workers, Owns(w), worker[w].pc \notin Unclaimed
    PROVE  /\ ~worker[w].overtaken /\ ~worker[w].settled
           /\ worker[w].config # None => worker[w].config = row[worker[w].source].config
           /\ worker[w].committed => worker[w].success
           /\ worker[w].pc = "publish" => worker[w].config # None
<1>1. SoundRecord(w, worker[w], row)
  BY DEF IInv, Sound
<1> QED BY <1>1 DEF SoundRecord, Owns

\* A worker that was overtaken never publishes what it saw.
THEOREM InOrder == Spec => ObservationsInOrder
<1>1. IInv /\ [Next]_vars => [\A w \in Workers : Publishes(w) => ~worker[w].overtaken]_vars
  BY PublishesOwned, OwnedIsSound DEF Unclaimed
<1> QED BY <1>1, Fenced, PTL DEF Spec, ObservationsInOrder

\* Nothing is published or settled under a configuration that was edited meanwhile.
THEOREM Unedited == Spec => ConfigurationFenced
<1>1. IInv /\ [Next]_vars =>
         [\A w \in Workers : Publishes(w) \/ (Settles(w) /\ worker[w].config # None)
             => worker[w].config = row[worker[w].source].config]_vars
  BY PublishesOwned, SettlesOwned, OwnedIsSound DEF Unclaimed
<1> QED BY <1>1, Fenced, PTL DEF Spec, ConfigurationFenced

\* A claim moves the schedule once, and a publication known to be committed as a success.
THEOREM SettledAtMostOnce == Spec => SettledRight
<1>1. IInv /\ [Next]_vars =>
         [\A w \in Workers : Settles(w) =>
             ~worker[w].settled /\ (worker[w].committed => worker[w].success)]_vars
  BY SettlesOwned, OwnedIsSound DEF Unclaimed
<1> QED BY <1>1, Fenced, PTL DEF Spec, SettledRight

-----------------------------------------------------------------------------
(* The scheduler.  Whoever has the checks started (DueScheduler) has a spec  *)
(* of its own.  The results are for every number of requests of the legacy   *)
(* route and whichever of the wrappers may be killed, the pilot excepted: a  *)
(* pilot that is killed drops its locks while its unit goes on, and the mode *)
(* alone does not keep a legacy fetch away from it.  The tick may be killed, *)
(* because its unit runs only while the mode is "db-due".                    *)

USE SchedulerAssumption

\* Who has the source-fetch lock has it alone, and every fetch but the tick's has it.
LocksExclude ==
    /\ \A q \in Posts : post[q] \in {"locked", "running"} => fetchLock = {q}
    /\ \A w \in Wrappers : wrapper[w] # "idle" => fetchLock = {w}
    /\ pilotUnit => wrapper["pilot"] = "waiting"

\* The mode decides whose turn it is; it changes under the lock and only after
\* the tick's unit was stopped.
ModeDecides ==
    /\ \A q \in Posts : post[q] = "running" => mode = "legacy"
    /\ wrapper["pilot"] # "idle" => mode = "legacy"
    /\ due # "none" => mode = "db-due" /\ wrapper["switch"] \in {"idle", "locked"}

DueInv == SchedulerTypeOK /\ LocksExclude /\ ModeDecides

LEMMA DueInitHolds == SchedulerInit => DueInv
<1> SUFFICES ASSUME SchedulerInit PROVE DueInv
  OBVIOUS
<1>1. post \in [Posts -> {"idle"}] /\ wrapper \in [Wrappers -> {"idle"}]
  BY DEF SchedulerInit
<1>2. source \in [due : BOOLEAN, lease : {"none", "live", "lapsed"}, failing : BOOLEAN]
  BY DEF SchedulerInit
<1>3. last \in [fetch : {"none", "ok", "idle", "error"}, drain : {"none", "ok", "error"}]
  BY DEF SchedulerInit, NoTick
<1>4. SchedulerTypeOK
  BY <1>1, <1>2, <1>3 DEF SchedulerInit, SchedulerTypeOK
<1>5. LocksExclude /\ ModeDecides
  BY <1>1 DEF SchedulerInit, LocksExclude, ModeDecides, Wrappers
<1> QED BY <1>4, <1>5 DEF DueInv

-----------------------------------------------------------------------------
(* The legacy route. *)

\* The end of a request takes the lock from nobody else.
LEMMA AnswerInv ==
    ASSUME DueInv, NEW q \in Posts, NEW ok \in BOOLEAN, Answer(q, ok),
           post[q] \in {"probed", "locked", "running"},
           UNCHANGED <<gate, data, wrapper, deployLock, due, pilotUnit>>
    PROVE  DueInv'
<1>1. SchedulerTypeOK'
  BY DEF DueInv, SchedulerTypeOK, Answer, gate, data
<1>2. \A p \in Posts \ {q} : post'[p] = post[p]
  BY DEF DueInv, SchedulerTypeOK, Answer
<1>3. post'[q] = "idle"
  BY DEF DueInv, SchedulerTypeOK, Answer
<1>4. LocksExclude'
  BY <1>2, <1>3 DEF DueInv, LocksExclude, Answer, Wrappers
<1>5. ModeDecides'
  BY <1>2, <1>3 DEF DueInv, ModeDecides, gate
<1> QED BY <1>1, <1>4, <1>5 DEF DueInv

LEMMA PostInv ==
    ASSUME DueInv, NEW q \in Posts, NEW unit \in BOOLEAN, Post(q, unit)
    PROVE  DueInv'
<1>1. SchedulerTypeOK'
  BY DEF DueInv, SchedulerTypeOK, Post, gate, data, locks
<1>2. \A p \in Posts : post'[p] \in {"locked", "running"} => post'[p] = post[p]
  BY DEF DueInv, SchedulerTypeOK, Post
<1>3. LocksExclude' /\ ModeDecides'
  BY <1>2 DEF DueInv, LocksExclude, ModeDecides, Post, gate, locks
<1> QED BY <1>1, <1>3 DEF DueInv

LEMMA LegacyLockInv == ASSUME DueInv, NEW q \in Posts, LegacyLock(q) PROVE DueInv'
<1>1. CASE fetchLock = {}
  <2>1. /\ fetchLock' = {q} /\ post' = [post EXCEPT ![q] = "locked"]
        /\ UNCHANGED <<byUnit, legacyUnit, gate, data, wrapper, deployLock, due, pilotUnit>>
    BY <1>1 DEF LegacyLock
  <2>2. SchedulerTypeOK'
    BY <2>1 DEF DueInv, SchedulerTypeOK, gate, data
  <2>3. /\ \A p \in Posts : post'[p] \in {"locked", "running"} => p = q
        /\ \A p \in Posts : post'[p] # "running"
        /\ \A w \in Wrappers : wrapper[w] = "idle"
    BY <1>1, <2>1 DEF DueInv, LocksExclude, SchedulerTypeOK
  <2>4. LocksExclude' /\ ModeDecides'
    BY <2>1, <2>3 DEF DueInv, LocksExclude, ModeDecides, gate, Wrappers
  <2> QED BY <2>2, <2>4 DEF DueInv
<1>2. CASE fetchLock # {}
  BY <1>2, AnswerInv DEF LegacyLock
<1> QED BY <1>1, <1>2

LEMMA LegacyGateInv == ASSUME DueInv, NEW q \in Posts, LegacyGate(q) PROVE DueInv'
<1>1. CASE Gated
  <2>1. /\ post[q] = "locked" /\ mode = "legacy" /\ post' = [post EXCEPT ![q] = "running"]
        /\ UNCHANGED <<fetchLock, byUnit, legacyUnit, gate, data, wrapper, deployLock, due, pilotUnit>>
    BY <1>1 DEF LegacyGate, Gated
  <2>2. SchedulerTypeOK'
    BY <2>1 DEF DueInv, SchedulerTypeOK, gate, data
  <2>3. LocksExclude' /\ ModeDecides'
    BY <2>1 DEF DueInv, SchedulerTypeOK, LocksExclude, ModeDecides, gate
  <2> QED BY <2>2, <2>3 DEF DueInv
<1>2. CASE ~Gated
  BY <1>2, AnswerInv DEF LegacyGate
<1> QED BY <1>1, <1>2

LEMMA LegacyRunInv ==
    ASSUME DueInv, NEW q \in Posts, NEW ok \in BOOLEAN, LegacyRun(q, ok)
    PROVE  DueInv'
  BY AnswerInv DEF LegacyRun

LEMMA AppStopsInv == ASSUME DueInv, AppStops PROVE DueInv'
<1>1. SchedulerTypeOK'
  BY DEF DueInv, SchedulerTypeOK, AppStops, gate, data, locks
<1>2. LocksExclude' /\ ModeDecides'
  BY DEF DueInv, SchedulerTypeOK, LocksExclude, ModeDecides, AppStops, gate, locks
<1> QED BY <1>1, <1>2 DEF DueInv

-----------------------------------------------------------------------------
(* The wrappers. *)

\* A wrapper that takes the locks finds nobody who relies on them.
LEMMA TakeExcludes ==
    ASSUME DueInv, NEW w \in Wrappers, Take(w)
    PROVE  /\ fetchLock' = {w} /\ deployLock' = {w}
           /\ \A q \in Posts : post[q] \notin {"locked", "running"}
           /\ \A v \in Wrappers : wrapper[v] = "idle"
           /\ ~pilotUnit
  BY DEF DueInv, LocksExclude, Take, Wrappers

LEMMA SwitchStartInv == ASSUME DueInv, NEW m \in Modes, SwitchStart(m) PROVE DueInv'
<1>1. /\ wrapper' = [wrapper EXCEPT !["switch"] = "locked"] /\ Take("switch") /\ target' = m
      /\ UNCHANGED <<mode, timers, byUnit, legacyUnit, due, pilotUnit, data, post>>
  BY DEF SwitchStart, At, units
<1>2. "switch" \in Wrappers
  BY DEF Wrappers
<1>3. SchedulerTypeOK'
  BY <1>1, <1>2, TakeExcludes DEF DueInv, SchedulerTypeOK, data
<1>4. LocksExclude' /\ ModeDecides'
  BY <1>1, <1>2, TakeExcludes DEF DueInv, SchedulerTypeOK, LocksExclude, ModeDecides, Wrappers
<1> QED BY <1>3, <1>4 DEF DueInv

\* The switch holds the lock, so nobody else does.
LEMMA SwitchExcludes ==
    ASSUME DueInv, wrapper["switch"] # "idle"
    PROVE  /\ fetchLock = {"switch"}
           /\ \A q \in Posts : post[q] \notin {"locked", "running"}
           /\ \A v \in Wrappers \ {"switch"} : wrapper[v] = "idle"
           /\ ~pilotUnit
<1>1. fetchLock = {"switch"}
  BY DEF DueInv, LocksExclude, Wrappers
<1> QED BY <1>1 DEF DueInv, LocksExclude, Wrappers

\* A step of the switch, or its failure, with the locks kept or given back.
LEMMA SwitchInv ==
    ASSUME DueInv, wrapper["switch"] # "idle", SchedulerTypeOK',
           \E to : wrapper' = [wrapper EXCEPT !["switch"] = to],
           UNCHANGED <<post, pilotUnit>>,
           fetchLock' = fetchLock \/ wrapper'["switch"] = "idle",
           due' # "none" => mode' = "db-due" /\ wrapper'["switch"] \in {"idle", "locked"}
    PROVE  DueInv'
<1>1. \A v \in Wrappers \ {"switch"} : wrapper'[v] = "idle"
  BY SwitchExcludes DEF DueInv, SchedulerTypeOK
<1>2. LocksExclude'
  BY <1>1, SwitchExcludes DEF LocksExclude, Wrappers
<1>3. ModeDecides'
  BY <1>1, SwitchExcludes DEF ModeDecides, Wrappers
<1> QED BY <1>2, <1>3 DEF DueInv

LEMMA StopType ==
    ASSUME SchedulerTypeOK, StopUnits
    PROVE  /\ timers' = {} /\ byUnit' = {} /\ due' = "none"
           /\ legacyUnit' \in {"inactive", "active", "failed"}
           /\ source' \in [due : BOOLEAN, lease : {"none", "live", "lapsed"}, failing : BOOLEAN]
           /\ UNCHANGED <<target, post, pilotUnit, pending, last>>
  BY DEF SchedulerTypeOK, StopUnits, Stopped

LEMMA HaltInv == ASSUME DueInv, Halt PROVE DueInv'
<1>1. /\ wrapper["switch"] = "locked" /\ wrapper' = [wrapper EXCEPT !["switch"] = "halted"]
      /\ StopUnits /\ UNCHANGED <<mode, fetchLock, deployLock>>
  BY DEF Halt, At, locks
<1>2. SchedulerTypeOK'
  BY <1>1, StopType DEF DueInv, SchedulerTypeOK, Wrappers
<1> QED BY <1>1, <1>2, StopType, SwitchInv DEF DueInv

LEMMA SwitchGoesOnInv == ASSUME DueInv, Verify \/ WriteMode PROVE DueInv'
<1>1. /\ wrapper["switch"] \in {"halted", "verified"} /\ due = "none"
      /\ \E to \in {"verified", "written"} : wrapper' = [wrapper EXCEPT !["switch"] = to]
      /\ mode' \in {mode, target}
      /\ UNCHANGED <<timers, target, locks, units, data, post>>
  BY DEF Verify, WriteMode, At, DueInv, ModeDecides, gate
<1>2. SchedulerTypeOK'
  BY <1>1 DEF DueInv, SchedulerTypeOK, Wrappers, locks, units, data
<1>3. UNCHANGED <<fetchLock, deployLock, due, pilotUnit, post>>
  BY <1>1 DEF locks, units
<1> QED BY <1>1, <1>2, <1>3, SwitchInv

LEMMA DropType ==
    ASSUME SchedulerTypeOK, NEW w \in Wrappers, Drop(w)
    PROVE  /\ fetchLock' \subseteq Posts \cup Wrappers /\ deployLock' \subseteq Wrappers
           /\ wrapper' = [wrapper EXCEPT ![w] = "idle"]
           /\ wrapper' \in [Wrappers -> {"idle", "locked", "halted", "verified", "written", "waiting"}]
           /\ wrapper'[w] = "idle"
           /\ \A v \in Wrappers \ {w} : wrapper'[v] = wrapper[v]
  BY DEF SchedulerTypeOK, Drop

LEMMA EnableInv == ASSUME DueInv, Enable PROVE DueInv'
<1>1. /\ wrapper["switch"] = "written" /\ Drop("switch") /\ "switch" \in Wrappers /\ due = "none"
      /\ timers' = {target}
      /\ UNCHANGED <<mode, target, byUnit, legacyUnit, due, pilotUnit, data, post>>
  BY DEF Enable, Wrappers, DueInv, ModeDecides, units
<1>2. SchedulerTypeOK'
  BY <1>1, DropType DEF DueInv, SchedulerTypeOK, data
<1> QED BY <1>1, <1>2, DropType, SwitchInv DEF DueInv

LEMMA FailClosedInv == ASSUME DueInv, FailClosed PROVE DueInv'
<1>1. /\ wrapper["switch"] # "idle" /\ Drop("switch") /\ "switch" \in Wrappers
      /\ mode' = "absent" /\ StopUnits
  BY DEF FailClosed, Wrappers
<1>2. SchedulerTypeOK'
  BY <1>1, DropType, StopType DEF DueInv, SchedulerTypeOK
<1> QED BY <1>1, <1>2, DropType, StopType, SwitchInv DEF DueInv

LEMMA ResetFailedInv == ASSUME DueInv, ResetFailed PROVE DueInv'
  BY DEF DueInv, SchedulerTypeOK, LocksExclude, ModeDecides, ResetFailed, locks, data

LEMMA TickStartInv == ASSUME DueInv, TickStart PROVE DueInv'
<1>1. /\ wrapper' = [wrapper EXCEPT !["tick"] = "waiting"] /\ Take("tick") /\ "tick" \in Wrappers
      /\ mode = "db-due" /\ due' \in {"fetch", due}
      /\ UNCHANGED <<mode, timers, target, data, post, byUnit, legacyUnit, pilotUnit>>
  BY DEF TickStart, At, Wrappers, gate
<1>2. SchedulerTypeOK'
  BY <1>1, TakeExcludes DEF DueInv, SchedulerTypeOK, data
<1>3. /\ \A v \in Wrappers \ {"tick"} : wrapper'[v] = "idle"
      /\ fetchLock' = {"tick"} /\ ~pilotUnit
      /\ \A q \in Posts : post[q] \notin {"locked", "running"}
  BY <1>1, TakeExcludes DEF DueInv, SchedulerTypeOK
<1>4. LocksExclude'
  BY <1>1, <1>3 DEF LocksExclude, Wrappers
<1>5. ModeDecides'
  BY <1>1, <1>3 DEF ModeDecides, Wrappers
<1> QED BY <1>2, <1>4, <1>5 DEF DueInv

\* The units write what they found; only the end of the pilot's and the stages of
\* the tick's touch what the invariant speaks of.
LEMMA UnitInv ==
    ASSUME DueInv, SchedulerTypeOK', UNCHANGED <<gate, locks, post, wrapper>>,
           pilotUnit' => pilotUnit, due' # "none" => due # "none"
    PROVE  DueInv'
  BY DEF DueInv, LocksExclude, ModeDecides, gate, locks

LEMMA CheckedType ==
    ASSUME SchedulerTypeOK, NEW ok \in BOOLEAN, Checked(ok)
    PROVE  /\ source' \in [due : BOOLEAN, lease : {"none", "live", "lapsed"}, failing : BOOLEAN]
           /\ pending' \in BOOLEAN
  BY DEF SchedulerTypeOK, Checked

LEMMA DueFetchInv ==
    ASSUME DueInv, NEW result \in {"ok", "idle", "error"}, DueFetch(result)
    PROVE  DueInv'
<1>1. /\ source' \in [due : BOOLEAN, lease : {"none", "live", "lapsed"}, failing : BOOLEAN]
      /\ pending' \in BOOLEAN
  BY CheckedType DEF DueFetch, DueInv, SchedulerTypeOK
<1>2. /\ due = "fetch" /\ due' = "drain" /\ last' = [fetch |-> result, drain |-> "none"]
      /\ UNCHANGED <<gate, locks, post, wrapper, byUnit, legacyUnit, pilotUnit>>
  BY DEF DueFetch, NextHalf
<1>3. SchedulerTypeOK'
  BY <1>1, <1>2 DEF DueInv, SchedulerTypeOK, gate, locks
<1> QED BY <1>2, <1>3, UnitInv

LEMMA DueDrainInv == ASSUME DueInv, NEW ok \in BOOLEAN, DueDrain(ok) PROVE DueInv'
<1>1. SchedulerTypeOK'
  BY DEF DueDrain, DueInv, SchedulerTypeOK, gate, locks
<1> QED BY <1>1, UnitInv DEF DueDrain

LEMMA PilotStartInv == ASSUME DueInv, PilotStart PROVE DueInv'
<1>1. /\ wrapper' = [wrapper EXCEPT !["pilot"] = "locked"] /\ Take("pilot") /\ "pilot" \in Wrappers
      /\ mode = "legacy"
      /\ UNCHANGED <<mode, timers, target, byUnit, legacyUnit, due, pilotUnit, data, post>>
  BY DEF PilotStart, At, Wrappers, gate, units
<1>2. SchedulerTypeOK'
  BY <1>1, TakeExcludes DEF DueInv, SchedulerTypeOK, data
<1>3. /\ \A v \in Wrappers \ {"pilot"} : wrapper'[v] = "idle"
      /\ fetchLock' = {"pilot"} /\ ~pilotUnit
      /\ \A q \in Posts : post[q] \notin {"locked", "running"}
  BY <1>1, TakeExcludes DEF DueInv, SchedulerTypeOK
<1>4. LocksExclude'
  BY <1>1, <1>3 DEF LocksExclude, Wrappers
<1>5. ModeDecides'
  BY <1>1, <1>3 DEF DueInv, ModeDecides, Wrappers
<1> QED BY <1>2, <1>4, <1>5 DEF DueInv

LEMMA PilotFetchInv == ASSUME DueInv, PilotFetch PROVE DueInv'
<1>1. /\ wrapper["pilot"] = "locked" /\ wrapper' = [wrapper EXCEPT !["pilot"] = "waiting"]
      /\ pilotUnit' = TRUE /\ source' = [source EXCEPT !.lease = "live"]
      /\ UNCHANGED <<mode, timers, target, fetchLock, deployLock, post, byUnit, legacyUnit,
                     due, pending, last>>
  BY DEF PilotFetch, At, gate, locks
<1>2. SchedulerTypeOK'
  BY <1>1 DEF DueInv, SchedulerTypeOK, Wrappers
<1>3. LocksExclude' /\ ModeDecides'
  BY <1>1 DEF DueInv, SchedulerTypeOK, LocksExclude, ModeDecides, Wrappers
<1> QED BY <1>2, <1>3 DEF DueInv

LEMMA PilotFetchedInv == ASSUME DueInv, NEW ok \in BOOLEAN, PilotFetched(ok) PROVE DueInv'
<1>1. SchedulerTypeOK'
  BY CheckedType DEF PilotFetched, DueInv, SchedulerTypeOK, gate, locks
<1> QED BY <1>1, UnitInv DEF PilotFetched

\* A wrapper ends, or is killed: only a pilot has a unit that needs its locks.
LEMMA DropInv ==
    ASSUME DueInv, NEW w \in Wrappers, Drop(w), UNCHANGED <<gate, units, data, post>>,
           wrapper[w] # "idle", w = "pilot" => ~pilotUnit
    PROVE  DueInv'
<1>1. /\ UNCHANGED <<mode, timers, target, byUnit, legacyUnit, due, pilotUnit, source, pending, last, post>>
      /\ fetchLock = {w}
  BY DEF gate, units, data, DueInv, LocksExclude
<1>2. SchedulerTypeOK'
  BY <1>1, DropType DEF DueInv, SchedulerTypeOK
<1>3. /\ \A v \in Wrappers : wrapper'[v] = "idle"
      /\ \A q \in Posts : post[q] \notin {"locked", "running"}
      /\ ~pilotUnit
  BY <1>1, DropType DEF DueInv, LocksExclude, Wrappers
<1>4. LocksExclude' /\ ModeDecides'
  BY <1>1, <1>3 DEF DueInv, LocksExclude, ModeDecides, Wrappers
<1> QED BY <1>2, <1>4 DEF DueInv

LEMMA LaterInv == ASSUME DueInv, Later PROVE DueInv'
<1>1. SchedulerTypeOK'
  BY DEF Later, DueInv, SchedulerTypeOK, gate, locks, units
<1> QED BY <1>1, UnitInv DEF Later, units

-----------------------------------------------------------------------------
LEMMA DueNextKeeps ==
    ASSUME "pilot" \notin Killable, DueInv, [SchedulerNext]_schedulerVars
    PROVE  DueInv'
<1>1. ASSUME NEW q \in Posts,
             \/ \E unit \in BOOLEAN : Post(q, unit)
             \/ LegacyLock(q) \/ LegacyGate(q)
             \/ \E ok \in BOOLEAN : LegacyRun(q, ok)
      PROVE  DueInv'
  BY <1>1, PostInv, LegacyLockInv, LegacyGateInv, LegacyRunInv
<1>2. CASE AppStops \/ Later \/ ResetFailed
  BY <1>2, AppStopsInv, LaterInv, ResetFailedInv
<1>3. CASE (\E m \in Modes : SwitchStart(m)) \/ Halt \/ Verify \/ WriteMode \/ Enable \/ FailClosed
  BY <1>3, SwitchStartInv, HaltInv, SwitchGoesOnInv, EnableInv, FailClosedInv
<1>4. CASE \/ TickStart
           \/ \E result \in {"ok", "idle", "error"} : DueFetch(result)
           \/ \E ok \in BOOLEAN : DueDrain(ok) \/ PilotFetched(ok)
           \/ PilotStart \/ PilotFetch
  BY <1>4, TickStartInv, DueFetchInv, DueDrainInv, PilotStartInv, PilotFetchInv, PilotFetchedInv
<1>5. CASE TickEnds \/ PilotRefused \/ PilotEnds \/ \E w \in Wrappers : Kill(w)
  <2>1. \A w \in Wrappers : w = "pilot" /\ pilotUnit => wrapper[w] = "waiting"
    BY DEF DueInv, LocksExclude
  <2>2. CASE TickEnds
    BY <2>2, DropInv DEF TickEnds, Wrappers
  <2>3. CASE PilotRefused \/ PilotEnds
    BY <2>1, <2>3, DropInv DEF PilotRefused, PilotEnds, Wrappers
  <2>4. CASE \E w \in Wrappers : Kill(w)
    BY <2>4, DropInv DEF Kill
  <2> QED BY <1>5, <2>2, <2>3, <2>4
<1>6. CASE UNCHANGED schedulerVars
  BY <1>6 DEF schedulerVars, gate, locks, units, data, DueInv, SchedulerTypeOK, LocksExclude, ModeDecides
<1> QED BY <1>1, <1>2, <1>3, <1>4, <1>5, <1>6 DEF SchedulerNext

LEMMA SafeOfInv == DueInv => SchedulerSafe
<1> SUFFICES ASSUME DueInv PROVE SchedulerSafe
  OBVIOUS
<1>1. GateHolds
  BY DEF DueInv, ModeDecides, GateHolds, Fetching
<1>2. CASE Fetching = {}
  <2>1. Cardinality(Fetching) = 0
    BY <1>2, FS_EmptySet 
  <2>2. ~(due = "fetch" /\ pilotUnit)
    BY DEF DueInv, LocksExclude, ModeDecides
  <2> QED BY <1>1, <2>1, <2>2 DEF OneFetch, SchedulerSafe, DueInv
<1>3. CASE Fetching # {}
  <2>1. PICK q \in Posts : post[q] = "running"
    BY <1>3 DEF Fetching
  <2>2. Fetching = {q}
    BY <2>1 DEF DueInv, LocksExclude, Fetching
  <2>3. Cardinality(Fetching) = 1
    BY <2>2, FS_Singleton 
  <2>4. due # "fetch" /\ ~pilotUnit
    BY <2>1 DEF DueInv, LocksExclude, ModeDecides, Wrappers
  <2> QED BY <1>1, <2>3, <2>4 DEF OneFetch, SchedulerSafe, DueInv
<1> QED BY <1>2, <1>3

\* No two source fetches ever run at the same time and none of the old kind against the
\* mode, provided that the one-source pilot is not killed while its unit runs.
THEOREM OneFetchAtATime ==
    ASSUME "pilot" \notin Killable
    PROVE  SchedulerSpec => []SchedulerSafe
<1>1. DueInv /\ [SchedulerNext]_schedulerVars => DueInv'
  BY DueNextKeeps
<1>2. SchedulerInit => DueInv
  BY DueInitHolds
<1>3. DueInv => SchedulerSafe
  BY SafeOfInv
<1> QED BY <1>1, <1>2, <1>3, PTL DEF SchedulerSpec

-----------------------------------------------------------------------------
(* What a page may change (SourceEvaluation), for any acts, dates and pages. *)
(* What a comparison proposes is taken apart into the names and values it    *)
(* adds; without a review it proposes nothing else, and a catalogue that has *)
(* taken them on has nothing left to be proposed.                            *)

Lists == {Undefined} \cup SUBSET Acts

IsCandidate(p) ==
    /\ p = [start |-> p.start, status |-> p.status, heads |-> p.heads, bill |-> p.bill,
            mode |-> p.mode, years |-> p.years, warnings |-> p.warnings]
    /\ p.start \in Dates \cup {Undefined} /\ p.status \in Statuses \cup {Undefined}
    /\ p.heads \in Lists /\ p.bill \in Lists
    /\ p.mode \in ListModes /\ p.years \subseteq {Edition, OtherYear}

\* What a candidate p adds to the edition c.
StatusOf(c, p) == IF p.mode = "announcement" /\ c.status = "confirmed" THEN Undefined ELSE p.status
BillOf(c, p) == IF p.mode = "announcement" /\ p.bill # Undefined THEN p.bill \ c.heads ELSE p.bill
NewNames(before, after) == IF after = Undefined THEN {} ELSE after \ before
OldNames(before, after, how) == IF after = Undefined \/ how # "plain" THEN {} ELSE before \ after

Proposed(c, p, x) ==
    \/ \E y \in {p.start} \ {Undefined, c.start} : x = FieldChange("date", y, c.start # Undefined)
    \/ \E y \in {StatusOf(c, p)} \ {Undefined, c.status} : x = FieldChange("status", y, FALSE)
    \/ \E y \in NewNames(c.heads, p.heads) : x = FieldChange("headliner_added", y, FALSE)
    \/ \E y \in OldNames(c.heads, p.heads, p.mode) : x = FieldChange("headliner_removed", y, TRUE)
    \/ \E y \in NewNames(c.bill, BillOf(c, p)) : x = FieldChange("artist_added", y, FALSE)
    \/ \E y \in OldNames(c.bill, BillOf(c, p), p.mode) : x = FieldChange("artist_removed", y, TRUE)

LEMMA DiffTakenApart ==
    ASSUME NEW c, NEW p, NEW x
    PROVE  x \in Diff(c, p) <=> Proposed(c, p, x)
<1> DEFINE status == StatusOf(c, p)
           bill == BillOf(c, p)
<1>1. x \in Diff(c, p) <=>
        \/ x \in Scalar("date", c.start, p.start, c.start # Undefined)
        \/ x \in Scalar("status", c.status, status, FALSE)
        \/ x \in Listed("headliner_added", "headliner_removed", c.heads, p.heads, p.mode # "plain")
        \/ x \in Listed("artist_added", "artist_removed", c.bill, bill, p.mode # "plain")
  BY DEF Diff, StatusOf, BillOf
<1> HIDE DEF status, bill
<1>2. \A added, removed, before, after, how :
        x \in Listed(added, removed, before, after, how # "plain") <=>
        \/ \E y \in NewNames(before, after) : x = FieldChange(added, y, FALSE)
        \/ \E y \in OldNames(before, after, how) : x = FieldChange(removed, y, TRUE)
  BY DEF Listed, NewNames, OldNames
<1>3. /\ x \in Scalar("date", c.start, p.start, c.start # Undefined) <=>
         \E y \in {p.start} \ {Undefined, c.start} : x = FieldChange("date", y, c.start # Undefined)
      /\ x \in Scalar("status", c.status, status, FALSE) <=>
         \E y \in {status} \ {Undefined, c.status} : x = FieldChange("status", y, FALSE)
  BY DEF Scalar
<1>4. /\ x \in Listed("headliner_added", "headliner_removed", c.heads, p.heads, p.mode # "plain") <=>
         \/ \E y \in NewNames(c.heads, p.heads) : x = FieldChange("headliner_added", y, FALSE)
         \/ \E y \in OldNames(c.heads, p.heads, p.mode) : x = FieldChange("headliner_removed", y, TRUE)
  BY <1>2
<1>5. /\ x \in Listed("artist_added", "artist_removed", c.bill, bill, p.mode # "plain") <=>
         \/ \E y \in NewNames(c.bill, bill) : x = FieldChange("artist_added", y, FALSE)
         \/ \E y \in OldNames(c.bill, bill, p.mode) : x = FieldChange("artist_removed", y, TRUE)
  BY <1>2
<1>6. Proposed(c, p, x) <=>
        \/ \/ \E y \in {p.start} \ {Undefined, c.start} : x = FieldChange("date", y, c.start # Undefined)
           \/ \E y \in {status} \ {Undefined, c.status} : x = FieldChange("status", y, FALSE)
        \/ \/ \E y \in NewNames(c.heads, p.heads) : x = FieldChange("headliner_added", y, FALSE)
           \/ \E y \in OldNames(c.heads, p.heads, p.mode) : x = FieldChange("headliner_removed", y, TRUE)
        \/ \/ \E y \in NewNames(c.bill, bill) : x = FieldChange("artist_added", y, FALSE)
           \/ \E y \in OldNames(c.bill, bill, p.mode) : x = FieldChange("artist_removed", y, TRUE)
  BY Zenon DEF Proposed, status, bill
<1> QED BY <1>1, <1>3, <1>4, <1>6, <1>5, Zenon

\* The changes that are there, each with its kind, its value and whether it needs review.
LEMMA DiffHas ==
    ASSUME NEW c, NEW p
    PROVE  /\ \A y \in {p.start} \ {Undefined, c.start} :
                \E x \in Diff(c, p) : x.kind = "date" /\ x.after = y /\ (c.start # Undefined => x.review)
           /\ \A y \in {StatusOf(c, p)} \ {Undefined, c.status} :
                \E x \in Diff(c, p) : x.kind = "status" /\ x.after = y
           /\ \A y \in NewNames(c.heads, p.heads) :
                \E x \in Diff(c, p) : x.kind = "headliner_added" /\ x.after = y
           /\ \A y \in OldNames(c.heads, p.heads, p.mode) : \E x \in Diff(c, p) : x.review
           /\ \A y \in NewNames(c.bill, BillOf(c, p)) :
                \E x \in Diff(c, p) : x.kind = "artist_added" /\ x.after = y
           /\ \A y \in OldNames(c.bill, BillOf(c, p), p.mode) : \E x \in Diff(c, p) : x.review
<1>1. ASSUME NEW y \in {p.start} \ {Undefined, c.start}
      PROVE  FieldChange("date", y, c.start # Undefined) \in Diff(c, p)
  BY DiffTakenApart DEF Proposed
<1>2. ASSUME NEW y \in {StatusOf(c, p)} \ {Undefined, c.status}
      PROVE  FieldChange("status", y, FALSE) \in Diff(c, p)
  BY DiffTakenApart DEF Proposed
<1>3. ASSUME NEW y \in NewNames(c.heads, p.heads)
      PROVE  FieldChange("headliner_added", y, FALSE) \in Diff(c, p)
  BY DiffTakenApart DEF Proposed
<1>4. ASSUME NEW y \in OldNames(c.heads, p.heads, p.mode)
      PROVE  FieldChange("headliner_removed", y, TRUE) \in Diff(c, p)
  BY DiffTakenApart DEF Proposed
<1>5. ASSUME NEW y \in NewNames(c.bill, BillOf(c, p))
      PROVE  FieldChange("artist_added", y, FALSE) \in Diff(c, p)
  BY DiffTakenApart DEF Proposed
<1>6. ASSUME NEW y \in OldNames(c.bill, BillOf(c, p), p.mode)
      PROVE  FieldChange("artist_removed", y, TRUE) \in Diff(c, p)
  BY DiffTakenApart DEF Proposed
<1>7. ASSUME NEW y \in {p.start} \ {Undefined, c.start}
      PROVE  \E x \in Diff(c, p) : x.kind = "date" /\ x.after = y /\ (c.start # Undefined => x.review)
  <2> DEFINE x == FieldChange("date", y, c.start # Undefined)
  <2>1. x.kind = "date" /\ x.after = y
    BY DEF FieldChange
  <2>2. ASSUME c.start # Undefined PROVE x.review
    BY <2>2 DEF FieldChange
  <2> QED BY <1>1, <2>1, <2>2, Zenon
<1>8. ASSUME NEW y \in OldNames(c.heads, p.heads, p.mode) PROVE \E x \in Diff(c, p) : x.review
  BY <1>4 DEF FieldChange
<1>9. ASSUME NEW y \in OldNames(c.bill, BillOf(c, p), p.mode) PROVE \E x \in Diff(c, p) : x.review
  BY <1>6 DEF FieldChange
<1>10. ASSUME NEW y \in {StatusOf(c, p)} \ {Undefined, c.status}
       PROVE  \E x \in Diff(c, p) : x.kind = "status" /\ x.after = y
  BY <1>2 DEF FieldChange
<1>11. ASSUME NEW y \in NewNames(c.heads, p.heads)
       PROVE  \E x \in Diff(c, p) : x.kind = "headliner_added" /\ x.after = y
  BY <1>3 DEF FieldChange
<1>12. ASSUME NEW y \in NewNames(c.bill, BillOf(c, p))
       PROVE  \E x \in Diff(c, p) : x.kind = "artist_added" /\ x.after = y
  BY <1>5 DEF FieldChange
<1> QED BY <1>7, <1>8, <1>9, <1>10, <1>11, <1>12, Zenon

\* And there are no others.
LEMMA DiffHasOnly ==
    ASSUME NEW c, NEW p, NEW x \in Diff(c, p)
    PROVE  \/ x.kind = "date" /\ x.after \in {p.start} \ {Undefined, c.start}
           \/ x.kind = "status" /\ x.after \in {StatusOf(c, p)} \ {Undefined, c.status}
           \/ x.kind = "headliner_added" /\ x.after \in NewNames(c.heads, p.heads)
           \/ x.kind = "headliner_removed" /\ x.review
           \/ x.kind = "artist_added" /\ x.after \in NewNames(c.bill, BillOf(c, p))
           \/ x.kind = "artist_removed" /\ x.review
<1>1. CASE \E y \in {p.start} \ {Undefined, c.start} : x = FieldChange("date", y, c.start # Undefined)
  BY <1>1 DEF FieldChange
<1>2. CASE \E y \in {StatusOf(c, p)} \ {Undefined, c.status} : x = FieldChange("status", y, FALSE)
  BY <1>2 DEF FieldChange
<1>3. CASE \E y \in NewNames(c.heads, p.heads) : x = FieldChange("headliner_added", y, FALSE)
  BY <1>3 DEF FieldChange
<1>4. CASE \E y \in OldNames(c.heads, p.heads, p.mode) : x = FieldChange("headliner_removed", y, TRUE)
  BY <1>4 DEF FieldChange
<1>5. CASE \E y \in NewNames(c.bill, BillOf(c, p)) : x = FieldChange("artist_added", y, FALSE)
  BY <1>5 DEF FieldChange
<1>6. CASE \E y \in OldNames(c.bill, BillOf(c, p), p.mode) : x = FieldChange("artist_removed", y, TRUE)
  BY <1>6 DEF FieldChange
<1>7. Proposed(c, p, x)
  BY DiffTakenApart
<1> QED BY <1>1, <1>2, <1>3, <1>4, <1>5, <1>6, <1>7 DEF Proposed

\* The values named by the changes of each kind.
LEMMA NamedTakenApart ==
    ASSUME NEW c, NEW p
    PROVE  LET diff == Diff(c, p) IN
           /\ Named(diff, "date") = {p.start} \ {Undefined, c.start}
           /\ Named(diff, "status") = {StatusOf(c, p)} \ {Undefined, c.status}
           /\ Named(diff, "headliner_added") = NewNames(c.heads, p.heads)
           /\ Named(diff, "artist_added") = NewNames(c.bill, BillOf(c, p))
<1> DEFINE diff == Diff(c, p)
<1>1. ASSUME NEW kind, NEW y PROVE y \in Named(diff, kind) <=> \E x \in diff : x.kind = kind /\ x.after = y
  BY DEF Named
<1>2. ASSUME NEW y PROVE y \in Named(diff, "date") <=> y \in {p.start} \ {Undefined, c.start}
  BY <1>1, DiffHas, DiffHasOnly
<1>3. ASSUME NEW y PROVE y \in Named(diff, "status") <=> y \in {StatusOf(c, p)} \ {Undefined, c.status}
  BY <1>1, DiffHas, DiffHasOnly
<1>4. ASSUME NEW y PROVE y \in Named(diff, "headliner_added") <=> y \in NewNames(c.heads, p.heads)
  BY <1>1, DiffHas, DiffHasOnly
<1>5. ASSUME NEW y PROVE y \in Named(diff, "artist_added") <=> y \in NewNames(c.bill, BillOf(c, p))
  BY <1>1, DiffHas, DiffHasOnly
<1> HIDE DEF diff
<1>6. /\ Named(diff, "date") = {p.start} \ {Undefined, c.start}
      /\ Named(diff, "status") = {StatusOf(c, p)} \ {Undefined, c.status}
  BY <1>2, <1>3
<1>7. /\ Named(diff, "headliner_added") = NewNames(c.heads, p.heads)
      /\ Named(diff, "artist_added") = NewNames(c.bill, BillOf(c, p))
  BY <1>4, <1>5
<1> QED BY <1>6, <1>7 DEF diff

\* What there is no change to review of.
LEMMA NothingToReview ==
    ASSUME NEW c, NEW p, \A x \in Diff(c, p) : ~x.review
    PROVE  /\ c.start # Undefined => p.start \in {Undefined, c.start}
           /\ OldNames(c.heads, p.heads, p.mode) = {}
           /\ OldNames(c.bill, BillOf(c, p), p.mode) = {}
<1>1. c.start # Undefined => p.start \in {Undefined, c.start}
  BY DiffHas
<1>2. OldNames(c.heads, p.heads, p.mode) = {}
  BY DiffHas
<1>3. OldNames(c.bill, BillOf(c, p), p.mode) = {}
  BY DiffHas
<1> QED BY <1>1, <1>2, <1>3

LEMMA NoDifference ==
    ASSUME NEW c, NEW p,
           p.start \in {Undefined, c.start}, StatusOf(c, p) \in {Undefined, c.status},
           NewNames(c.heads, p.heads) = {}, OldNames(c.heads, p.heads, p.mode) = {},
           NewNames(c.bill, BillOf(c, p)) = {}, OldNames(c.bill, BillOf(c, p), p.mode) = {}
    PROVE  Diff(c, p) = {}
  BY DiffTakenApart DEF Proposed

-----------------------------------------------------------------------------
(* Which candidates there are.                                               *)

LEMMA EventTyped ==
    ASSUME NEW e \in Events
    PROVE  /\ IsCandidate(e) /\ e.heads = Undefined /\ e.status = Undefined
           /\ e.start # Undefined => e.years = {Edition}
           /\ e.start = Undefined => e = Empty
<1>1. CASE e = Empty
  BY <1>1 DEF Empty, IsCandidate, Lists, ListModes
<1>2. CASE e # Empty
  <2>1. PICK d \in Dates, b \in {Undefined, Acts} :
          e = [start |-> d, status |-> Undefined, heads |-> Undefined, bill |-> b,
               mode |-> "plain", years |-> {Edition}, warnings |-> {}]
    BY <1>2 DEF Events
  <2>2. /\ e.start = d /\ e.status = Undefined /\ e.heads = Undefined /\ e.bill = b
        /\ e.mode = "plain" /\ e.years = {Edition} /\ e.warnings = {}
    BY <2>1
  <2>3. d # Undefined
    BY EvaluationAssumption
  <2> QED BY <2>1, <2>2, <2>3 DEF IsCandidate, Lists, ListModes
<1> QED BY <1>1, <1>2

LEMMA FoundTyped ==
    ASSUME NEW f \in Families, NEW b \in Findings(f) \cup {Empty}
    PROVE  /\ IsCandidate(b) /\ b.start = Undefined /\ b.years \in {{}, {Edition}, {OtherYear}}
           /\ b.status \in {Undefined, "partial"}
           /\ f \in {"rockstadt", "rockharz"} /\ b.bill # Undefined => b.mode = "additive"
           /\ f = "gated" /\ (b.heads # Undefined \/ b.bill \notin {Undefined, {}}) => "review" \in b.warnings
<1>1. ModesOf[f] \subseteq ListModes
  BY DEF ModesOf, ListModes, Families
<1>2. f \in {"rockstadt", "rockharz"} => ModesOf[f] = {"additive"}
  BY DEF ModesOf, Families
<1>3. CASE b = Empty
  BY <1>3 DEF Empty, IsCandidate, Lists, ListModes
<1>4. CASE b \in Findings(f)
  <2>1. /\ b \in [start : {Undefined}, status : {Undefined, "partial"},
                  heads : {Undefined} \cup (SUBSET Acts \ {{}}), bill : {Undefined} \cup SUBSET Acts,
                  mode : ModesOf[f], years : {{}, {Edition}, {OtherYear}},
                  warnings : {{}, {"review"}, {"quality"}}]
        /\ f = "gated" /\ (b.heads # Undefined \/ b.bill \notin {Undefined, {}}) => "review" \in b.warnings
    BY <1>4 DEF Findings
  <2>2. IsCandidate(b)
    BY <1>1, <2>1 DEF IsCandidate, Lists, Statuses
  <2> QED BY <1>2, <2>1, <2>2
<1> QED BY <1>3, <1>4

\* The candidate of a page.
Source(p) == p.event.years \cup p.found.years

OfPage(p) ==
    /\ IsCandidate(p) /\ p.status \in {Undefined, "partial"}
    /\ p.start # Undefined => Edition \in p.years
    /\ p.start = Undefined => p.years \in {{}, {Edition}, {OtherYear}}
    /\ family \in {"rockstadt", "rockharz"} /\ p.bill # Undefined => p.mode = "additive"
    /\ family = "gated" /\ (p.heads # Undefined \/ p.bill \notin {Undefined, {}}) => "review" \in p.warnings

LEMMA CandidateTyped ==
    ASSUME family \in Families, NEW text \in PageContents(family)
    PROVE  LET p == Extracted(text) IN
           /\ OfPage(p) /\ p.years = Source(text)
           /\ "quality" \in text.found.warnings => "quality" \in p.warnings
<1> DEFINE e == text.event
           b == text.found
           p == Extracted(text)
           w == p.warnings
<1>1. /\ e \in Events /\ (family # "generic" => e = Empty)
      /\ b \in Findings(family) \cup {Empty}
  BY DEF PageContents, Events
<1>2. /\ IsCandidate(e) /\ e.heads = Undefined /\ e.status = Undefined
      /\ e.start # Undefined => e.years = {Edition}
      /\ e.start = Undefined => e = Empty
  BY <1>1, EventTyped
<1>3. /\ IsCandidate(b) /\ b.start = Undefined /\ b.years \in {{}, {Edition}, {OtherYear}}
      /\ b.status \in {Undefined, "partial"}
      /\ family \in {"rockstadt", "rockharz"} /\ b.bill # Undefined => b.mode = "additive"
      /\ family = "gated" /\ (b.heads # Undefined \/ b.bill \notin {Undefined, {}}) => "review" \in b.warnings
  BY <1>1, FoundTyped
<1>4. /\ p = [start |-> First(e.start, b.start), status |-> First(e.status, b.status),
              heads |-> First(e.heads, b.heads), bill |-> First(e.bill, b.bill),
              mode |-> IF b.mode = "announcement" /\ e.bill # Undefined /\ e.bill # b.bill THEN "additive"
                       ELSE IF b.mode # "plain" THEN b.mode ELSE e.mode,
              years |-> e.years \cup b.years, warnings |-> w]
      /\ w \subseteq e.warnings \cup b.warnings \cup {"coverage"}
      /\ (e.warnings \cup b.warnings) \ {"format"} \subseteq w
  <2> DEFINE m == Merged(e, b)
  <2>1. /\ m = [start |-> First(e.start, b.start), status |-> First(e.status, b.status),
                heads |-> First(e.heads, b.heads), bill |-> First(e.bill, b.bill),
                mode |-> IF b.mode = "announcement" /\ e.bill # Undefined /\ e.bill # b.bill THEN "additive"
                         ELSE IF b.mode # "plain" THEN b.mode ELSE e.mode,
                years |-> e.years \cup b.years, warnings |-> m.warnings]
        /\ m.warnings \subseteq e.warnings \cup b.warnings
        /\ (e.warnings \cup b.warnings) \ {"format"} \subseteq m.warnings
    BY DEF Merged
  <2>2. p = [m EXCEPT !.warnings = m.warnings \cup {x \in {"coverage"} : Missed(m, text.cue)}]
    BY DEF Extracted
  <2> HIDE DEF m
  <2>3. /\ p.warnings \subseteq m.warnings \cup {"coverage"} /\ m.warnings \subseteq p.warnings
        /\ p = [start |-> m.start, status |-> m.status, heads |-> m.heads, bill |-> m.bill,
                mode |-> m.mode, years |-> m.years, warnings |-> p.warnings]
    BY <2>1, <2>2
  <2> QED BY <2>1, <2>3
<1>5. Empty.bill = Undefined /\ Empty.years = {} /\ Empty.heads = Undefined
  BY DEF Empty
<1> HIDE DEF e, b, p, w
<1>6. IsCandidate(p)
  BY <1>2, <1>3, <1>4 DEF IsCandidate, First, ListModes
<1> QED BY <1>1, <1>2, <1>3, <1>4, <1>5, <1>6 DEF First, Source, OfPage, e, b, p, w

-----------------------------------------------------------------------------
(* What is published of a candidate.                                         *)

LEMMA EffectiveIs ==
    ASSUME NEW c, NEW p, IsCandidate(p)
    PROVE  LET q == Effective(c, p) IN
           /\ IsCandidate(q) /\ q.start = p.start /\ q.heads = p.heads /\ q.mode = p.mode
           /\ q.years = p.years /\ q.warnings = p.warnings
           /\ q.bill = (IF Reconciled(p) THEN p.bill \ c.heads ELSE p.bill)
           /\ q.status = (IF family = "idays" /\ p.status = "partial" /\ c.status = "confirmed"
                            THEN Undefined
                          ELSE IF Reconciled(p) /\ family = "rockstadt" /\ c.status = "confirmed"
                            THEN "confirmed" ELSE p.status)
<1> DEFINE q == Effective(c, p)
<1>1. CASE family = "idays" /\ p.status = "partial" /\ c.status = "confirmed"
  <2>2. ~Reconciled(p)
    BY <1>1 DEF Reconciled
  <2>1. q = [p EXCEPT !.status = Undefined]
    BY <1>1, <2>2 DEF Effective
  <2>3. /\ q = [start |-> p.start, status |-> Undefined, heads |-> p.heads, bill |-> p.bill,
                mode |-> p.mode, years |-> p.years, warnings |-> p.warnings]
    BY <2>1 DEF IsCandidate
  <2> QED BY <1>1, <2>2, <2>3 DEF IsCandidate
<1>2. CASE ~(family = "idays" /\ p.status = "partial" /\ c.status = "confirmed") /\ Reconciled(p)
  <2> DEFINE s == IF family = "rockstadt" /\ c.status = "confirmed" THEN "confirmed" ELSE p.status
             half == [p EXCEPT !.bill = p.bill \ c.heads]
  <2>1. q = [p EXCEPT !.bill = p.bill \ c.heads, !.status = s]
    BY <1>2 DEF Effective, IsCandidate
  <2>2. half = [start |-> p.start, status |-> p.status, heads |-> p.heads, bill |-> p.bill \ c.heads,
                mode |-> p.mode, years |-> p.years, warnings |-> p.warnings]
    BY DEF IsCandidate
  <2>3. q = [half EXCEPT !.status = s]
    BY <2>1
  <2> HIDE DEF half, s
  <2>4. q = [start |-> p.start, status |-> s, heads |-> p.heads, bill |-> p.bill \ c.heads,
             mode |-> p.mode, years |-> p.years, warnings |-> p.warnings]
    BY <2>2, <2>3
  <2>5. p.bill \ c.heads \in Lists
    BY <1>2 DEF IsCandidate, Lists, Reconciled
  <2>6. s \in Statuses \cup {Undefined}
    BY DEF s, IsCandidate, Statuses
  <2> QED BY <1>2, <2>4, <2>5, <2>6 DEF IsCandidate, s
<1>3. CASE ~(family = "idays" /\ p.status = "partial" /\ c.status = "confirmed") /\ ~Reconciled(p)
  BY <1>3 DEF Effective
<1> QED BY <1>1, <1>2, <1>3

IsEdition(c) ==
    /\ c = [start |-> c.start, status |-> c.status, heads |-> c.heads, bill |-> c.bill]
    /\ c.start \in Dates \cup {Undefined} /\ c.status \in Statuses
    /\ c.heads \subseteq Acts /\ c.bill \subseteq Acts /\ c.heads \cap c.bill = {}

LEMMA EditionIs == ASSUME NEW c PROVE c \in Editions <=> IsEdition(c)
  BY DEF Editions, IsEdition

\* The value that is named, or the old one.
LEMMA OneNamed ==
    ASSUME NEW v, NEW old
    PROVE  LET names == {v} \ {Undefined, old} IN
           (IF names = {} THEN old ELSE CHOOSE x \in names : TRUE) =
           (IF v \in {Undefined, old} THEN old ELSE v)
  OBVIOUS

LEMMA RevisedIs ==
    ASSUME NEW c, NEW q
    PROVE  LET n == Revised(c, Diff(c, q)) IN
           /\ n = [start |-> n.start, status |-> n.status, heads |-> n.heads, bill |-> n.bill]
           /\ n.start = (IF q.start \in {Undefined, c.start} THEN c.start ELSE q.start)
           /\ n.status = (IF StatusOf(c, q) \in {Undefined, c.status} THEN c.status ELSE StatusOf(c, q))
           /\ n.heads = c.heads \cup NewNames(c.heads, q.heads)
           /\ n.bill = c.bill \cup NewNames(c.bill, BillOf(c, q))
<1> DEFINE diff == Diff(c, q)
           n == Revised(c, diff)
<1>1. /\ Named(diff, "date") = {q.start} \ {Undefined, c.start}
      /\ Named(diff, "status") = {StatusOf(c, q)} \ {Undefined, c.status}
      /\ Named(diff, "headliner_added") = NewNames(c.heads, q.heads)
      /\ Named(diff, "artist_added") = NewNames(c.bill, BillOf(c, q))
  BY NamedTakenApart
<1> HIDE DEF diff
<1> DEFINE date == Named(diff, "date")
           status == Named(diff, "status")
<1>2. n = [start |-> IF date = {} THEN c.start ELSE CHOOSE x \in date : TRUE,
           status |-> IF status = {} THEN c.status ELSE CHOOSE x \in status : TRUE,
           heads |-> c.heads \cup Named(diff, "headliner_added"),
           bill |-> c.bill \cup Named(diff, "artist_added")]
  BY DEF Revised
<1>3. /\ (IF date = {} THEN c.start ELSE CHOOSE x \in date : TRUE)
           = (IF q.start \in {Undefined, c.start} THEN c.start ELSE q.start)
      /\ (IF status = {} THEN c.status ELSE CHOOSE x \in status : TRUE)
           = (IF StatusOf(c, q) \in {Undefined, c.status} THEN c.status ELSE StatusOf(c, q))
  BY <1>1, OneNamed
<1> HIDE DEF date, status, n
<1> QED BY <1>1, <1>2, <1>3 DEF n, diff

\* What a candidate that needs no review says of an edition, after the names it adds were
\* found to be of one class.
Publishable(c, p, q) ==
    /\ q = Effective(c, p)
    /\ ~Reviewable(c, q, Diff(c, q))
    /\ ~Aborts(c, p, Diff(c, q))

LEMMA PublishableHas ==
    ASSUME NEW c, NEW p, NEW q, Publishable(c, p, q)
    PROVE  /\ c.start # Undefined => q.start \in {Undefined, c.start}
           /\ OldNames(c.heads, q.heads, q.mode) = {} /\ OldNames(c.bill, BillOf(c, q), q.mode) = {}
           /\ NewNames(c.heads, q.heads) \cap (c.bill \cup NewNames(c.bill, BillOf(c, q))) = {}
           /\ NewNames(c.bill, BillOf(c, q)) \cap c.heads = {}
<1>1. \A x \in Diff(c, q) : ~x.review
  BY DEF Publishable, Reviewable
<1>2. /\ Named(Diff(c, q), "headliner_added") \cap (c.bill \cup Named(Diff(c, q), "artist_added")) = {}
      /\ Named(Diff(c, q), "artist_added") \cap c.heads = {}
  BY DEF Publishable, Aborts
<1> QED BY <1>1, <1>2, NothingToReview, NamedTakenApart

LEMMA BillTyped ==
    ASSUME NEW c, NEW q, IsCandidate(q)
    PROVE  /\ BillOf(c, q) \in Lists
           /\ BillOf(c, q) = Undefined <=> q.bill = Undefined
<1>1. CASE q.mode = "announcement" /\ q.bill # Undefined
  <2>1. q.bill \in SUBSET Acts
    BY <1>1 DEF IsCandidate, Lists
  <2>2. BillOf(c, q) = q.bill \ c.heads /\ q.bill \ c.heads \in SUBSET Acts
    BY <1>1, <2>1 DEF BillOf
  <2> QED BY <1>1, <2>2, EvaluationAssumption DEF Lists
<1>2. CASE ~(q.mode = "announcement" /\ q.bill # Undefined)
  BY <1>2 DEF BillOf, IsCandidate
<1> QED BY <1>1, <1>2

\* The edition that is published is one, and has what the old one had.
LEMMA PublishedAdds ==
    ASSUME IsEdition(current), NEW p, OfPage(p), NEW q, Publishable(current, p, q), NEW n,
           n = Revised(current, Diff(current, q))
    PROVE  /\ IsEdition(n)
           /\ current.heads \subseteq n.heads /\ current.bill \subseteq n.bill
           /\ current.start # Undefined => n.start = current.start
           /\ family = "idays" /\ current.status = "confirmed" => n.status = "confirmed"
<1> DEFINE c == current
<1>1. IsCandidate(q)
  BY EffectiveIs DEF Publishable, OfPage
<1>2. /\ n = [start |-> n.start, status |-> n.status, heads |-> n.heads, bill |-> n.bill]
      /\ n.start = (IF q.start \in {Undefined, c.start} THEN c.start ELSE q.start)
      /\ n.status = (IF StatusOf(c, q) \in {Undefined, c.status} THEN c.status ELSE StatusOf(c, q))
      /\ n.heads = c.heads \cup NewNames(c.heads, q.heads)
      /\ n.bill = c.bill \cup NewNames(c.bill, BillOf(c, q))
  BY RevisedIs
<1>3. /\ c.start # Undefined => q.start \in {Undefined, c.start}
      /\ NewNames(c.heads, q.heads) \cap (c.bill \cup NewNames(c.bill, BillOf(c, q))) = {}
      /\ NewNames(c.bill, BillOf(c, q)) \cap c.heads = {}
  BY PublishableHas
<1>4. /\ NewNames(c.heads, q.heads) \subseteq Acts /\ NewNames(c.bill, BillOf(c, q)) \subseteq Acts
  BY <1>1, BillTyped DEF NewNames, IsCandidate, Lists
<1>5. /\ StatusOf(c, q) \in Statuses \cup {Undefined}
  BY <1>1 DEF StatusOf, IsCandidate
<1>6. family = "idays" /\ c.status = "confirmed" => q.status = Undefined
  <2>1. ~(family = "idays" /\ Reconciled(p))
    BY DEF Reconciled
  <2> QED BY <2>1, EffectiveIs DEF Publishable, OfPage
<1> QED BY <1>1, <1>2, <1>3, <1>4, <1>5, <1>6 DEF IsEdition, IsCandidate, StatusOf, Statuses

-----------------------------------------------------------------------------
(* A published page has nothing more to say.                                 *)

LEMMA PublishedIsDone ==
    ASSUME NEW c, IsEdition(c), NEW p, OfPage(p), NEW q, Publishable(c, p, q), NEW n,
           n = Revised(c, Diff(c, q))
    PROVE  Diff(n, Effective(n, p)) = {}
<1> DEFINE r == Effective(n, p)
           fixed(e) == family = "idays" /\ p.status = "partial" /\ e.status = "confirmed"
           kept(e) == Reconciled(p) /\ family = "rockstadt" /\ e.status = "confirmed"
<1>0. /\ q.start = p.start /\ q.heads = p.heads /\ q.mode = p.mode
      /\ q.bill = (IF Reconciled(p) THEN p.bill \ c.heads ELSE p.bill)
      /\ q.status = (IF fixed(c) THEN Undefined ELSE IF kept(c) THEN "confirmed" ELSE p.status)
  <2>1. q = Effective(c, p) /\ IsCandidate(p)
    BY DEF Publishable, OfPage
  <2> QED BY <2>1, EffectiveIs
<1>1. /\ q.start = p.start /\ q.heads = p.heads /\ q.mode = p.mode
      /\ q.bill = (IF Reconciled(p) THEN p.bill \ c.heads ELSE p.bill)
      /\ q.status = (IF fixed(c) THEN Undefined ELSE IF kept(c) THEN "confirmed" ELSE p.status)
      /\ r.start = p.start /\ r.heads = p.heads /\ r.mode = p.mode
      /\ r.bill = (IF Reconciled(p) THEN p.bill \ n.heads ELSE p.bill)
      /\ r.status = (IF fixed(n) THEN Undefined ELSE IF kept(n) THEN "confirmed" ELSE p.status)
  <2>1. IsCandidate(p)
    BY DEF OfPage
  <2>2. /\ r.start = p.start /\ r.heads = p.heads /\ r.mode = p.mode
        /\ r.bill = (IF Reconciled(p) THEN p.bill \ n.heads ELSE p.bill)
        /\ r.status = (IF fixed(n) THEN Undefined ELSE IF kept(n) THEN "confirmed" ELSE p.status)
    BY <2>1, EffectiveIs
  <2> QED BY <1>0, <2>2
<1>2. /\ n.start = (IF q.start \in {Undefined, c.start} THEN c.start ELSE q.start)
      /\ n.status = (IF StatusOf(c, q) \in {Undefined, c.status} THEN c.status ELSE StatusOf(c, q))
      /\ n.heads = c.heads \cup NewNames(c.heads, q.heads)
      /\ n.bill = c.bill \cup NewNames(c.bill, BillOf(c, q))
  BY RevisedIs
<1>3. /\ OldNames(c.heads, q.heads, q.mode) = {} /\ OldNames(c.bill, BillOf(c, q), q.mode) = {}
  BY PublishableHas
<1>4. Reconciled(p) => p.mode = "additive" /\ p.bill # Undefined /\ p.bill \in SUBSET Acts
  BY DEF Reconciled, OfPage, IsCandidate, Lists
<1>5. /\ p.status \in {Undefined, "partial"} /\ "confirmed" # Undefined /\ "partial" # Undefined
      /\ c.status \in Statuses /\ Undefined \notin Statuses /\ \A list \in SUBSET Acts : list # Undefined
  BY EvaluationAssumption DEF OfPage, IsEdition, Statuses
<1> HIDE DEF r
<1>6. r.start \in {Undefined, n.start}
  BY <1>1, <1>2
<1>7. StatusOf(n, r) \in {Undefined, n.status}
  <2>1. CASE c.status # "confirmed"
    <3>1. n.status # "confirmed" /\ (n.status = c.status \/ n.status = "partial")
      BY <1>1, <1>2, <1>5, <2>1 DEF StatusOf
    <3>2. r.status = p.status /\ StatusOf(n, r) = p.status
      BY <1>1, <3>1 DEF StatusOf
    <3>3. StatusOf(c, q) = p.status
      BY <1>1, <2>1 DEF StatusOf
    <3> QED BY <1>2, <3>2, <3>3
  <2>2. CASE c.status = "confirmed"
    BY <1>1, <1>2, <1>5, <2>2 DEF StatusOf
  <2> QED BY <2>1, <2>2
<1>8. NewNames(n.heads, r.heads) = {} /\ OldNames(n.heads, r.heads, r.mode) = {}
  BY <1>1, <1>2, <1>3 DEF NewNames, OldNames
<1>9. NewNames(n.bill, BillOf(n, r)) = {} /\ OldNames(n.bill, BillOf(n, r), r.mode) = {}
  <2>1. CASE Reconciled(p)
    <3>1. /\ BillOf(c, q) = p.bill \ c.heads /\ BillOf(n, r) = p.bill \ n.heads
      BY <1>1, <1>4, <2>1 DEF BillOf
    <3>2. BillOf(c, q) # Undefined /\ BillOf(n, r) # Undefined
      BY <1>4, <1>5, <2>1, <3>1
    <3> QED BY <1>1, <1>2, <1>4, <2>1, <3>1, <3>2 DEF NewNames, OldNames
  <2>2. CASE ~Reconciled(p) /\ p.mode = "announcement" /\ p.bill # Undefined
    <3>1. /\ BillOf(c, q) = p.bill \ c.heads /\ BillOf(n, r) = p.bill \ n.heads
      BY <1>1, <2>2 DEF BillOf
    <3>2. p.bill \in SUBSET Acts
      BY <2>2 DEF OfPage, IsCandidate, Lists
    <3>3. BillOf(c, q) # Undefined /\ BillOf(n, r) # Undefined
      BY <1>5, <3>1, <3>2
    <3> QED BY <1>1, <1>2, <2>2, <3>1, <3>3 DEF NewNames, OldNames
  <2>3. CASE ~Reconciled(p) /\ ~(p.mode = "announcement" /\ p.bill # Undefined)
    <3>1. /\ BillOf(c, q) = p.bill /\ BillOf(n, r) = p.bill
      BY <1>1, <2>3 DEF BillOf
    <3> QED BY <1>1, <1>2, <1>3, <3>1 DEF NewNames, OldNames
  <2> QED BY <2>1, <2>2, <2>3
<1> QED BY <1>6, <1>7, <1>8, <1>9, NoDifference DEF r

-----------------------------------------------------------------------------
(* What the policy lets through and the transaction refuses, and what is     *)
(* added without a review.                                                   *)

\* The names that are proposed are names of the page.
LEMMA NewNamesAreListed ==
    ASSUME NEW c, IsEdition(c), NEW p, OfPage(p), NEW q, q = Effective(c, p)
    PROVE  /\ NewNames(c.heads, q.heads) \subseteq First(p.heads, {}) \ c.heads
           /\ NewNames(c.bill, BillOf(c, q)) \subseteq First(p.bill, {}) \ c.bill
           /\ NewNames(c.bill, BillOf(c, q)) \subseteq First(q.bill, {}) \ c.bill
<1>1. /\ q.heads = p.heads /\ q.bill = (IF Reconciled(p) THEN p.bill \ c.heads ELSE p.bill)
      /\ IsCandidate(q) /\ IsCandidate(p)
  <2>1. IsCandidate(p)
    BY DEF OfPage
  <2> QED BY <2>1, EffectiveIs
<1>2. NewNames(c.heads, q.heads) \subseteq First(p.heads, {}) \ c.heads
  BY <1>1 DEF NewNames, First
<1>3. NewNames(c.bill, BillOf(c, q)) \subseteq First(q.bill, {}) \ c.bill
  BY BillTyped, <1>1 DEF NewNames, First, BillOf
<1>4. First(q.bill, {}) \subseteq First(p.bill, {})
  BY <1>1 DEF First, Reconciled
<1> QED BY <1>2, <1>3, <1>4

\* A proposed change to the bill that needs no review adds a name.
LEMMA BillingAdds ==
    ASSUME NEW c, NEW q, \A x \in Diff(c, q) : ~x.review, KindsOf(Diff(c, q)) \cap Billing # {}
    PROVE  NewNames(c.heads, q.heads) # {} \/ NewNames(c.bill, BillOf(c, q)) # {}
<1>1. PICK x \in Diff(c, q) : x.kind \in Billing
  BY DEF KindsOf
<1>2. x.kind # "date" /\ x.kind # "status"
  BY <1>1 DEF Billing, Adding
<1> QED BY <1>2, DiffHasOnly

\* And a name that is added is a proposed change to the bill.
LEMMA AddsBilling ==
    ASSUME NEW c, NEW q, NewNames(c.heads, q.heads) # {} \/ NewNames(c.bill, BillOf(c, q)) # {}
    PROVE  KindsOf(Diff(c, q)) \cap Adding # {} /\ KindsOf(Diff(c, q)) \cap Billing # {}
<1>0. /\ \A y \in NewNames(c.heads, q.heads) : \E x \in Diff(c, q) : x.kind = "headliner_added" /\ x.after = y
      /\ \A y \in NewNames(c.bill, BillOf(c, q)) : \E x \in Diff(c, q) : x.kind = "artist_added" /\ x.after = y
  BY DiffHas
<1>1. CASE NewNames(c.heads, q.heads) # {}
  <2>1. PICK y \in NewNames(c.heads, q.heads) : TRUE
    BY <1>1
  <2>2. \E x \in Diff(c, q) : x.kind = "headliner_added"
    BY <1>0, <2>1
  <2> QED BY <2>2 DEF KindsOf, Adding, Billing
<1>2. CASE NewNames(c.bill, BillOf(c, q)) # {}
  <2>1. PICK y \in NewNames(c.bill, BillOf(c, q)) : TRUE
    BY <1>2
  <2>2. \E x \in Diff(c, q) : x.kind = "artist_added"
    BY <1>0, <2>1
  <2> QED BY <2>2 DEF KindsOf, Adding, Billing
<1> QED BY <1>1, <1>2

LEMMA OneYear ==
    ASSUME NEW p, OfPage(p), OtherYear \notin p.years
    PROVE  /\ p.years \in {{}, {Edition}} /\ (p.start # Undefined => p.years = {Edition})
           /\ Cardinality(p.years) = 1 <=> p.years = {Edition}
<1>1. p.years \subseteq {Edition, OtherYear}
  BY DEF OfPage, IsCandidate
<1>2. p.years \in {{}, {Edition}} /\ (p.start # Undefined => p.years = {Edition})
  BY <1>1 DEF OfPage
<1>3. Cardinality({}) = 0 /\ Cardinality({Edition}) = 1
  BY FS_EmptySet, FS_Singleton
<1> QED BY <1>2, <1>3

LEMMA RefusedForTwoReasons ==
    ASSUME NEW c, IsEdition(c), NEW p, OfPage(p), NEW q, q = Effective(c, p),
           ~Reviewable(c, q, Diff(c, q)), Aborts(c, p, Diff(c, q))
    PROVE  BothClasses(c, p) # {} \/ (p.years = {} /\ p.bill \in {Undefined, {}} /\ p.heads # Undefined)
<1> DEFINE diff == Diff(c, q)
<1>1. /\ q.heads = p.heads /\ q.bill = (IF Reconciled(p) THEN p.bill \ c.heads ELSE p.bill)
      /\ q.years = p.years
  BY EffectiveIs DEF OfPage
<1>2. /\ OtherYear \notin p.years /\ (p.years = {} => q.bill \in {Undefined, {}})
      /\ \A x \in diff : ~x.review
  BY <1>1 DEF Reviewable, Unverified
<1>3. /\ Named(diff, "headliner_added") = NewNames(c.heads, q.heads)
      /\ Named(diff, "artist_added") = NewNames(c.bill, BillOf(c, q))
  BY NamedTakenApart
<1>4. /\ NewNames(c.heads, q.heads) \subseteq First(p.heads, {}) \ c.heads
      /\ NewNames(c.bill, BillOf(c, q)) \subseteq First(p.bill, {}) \ c.bill
      /\ NewNames(c.bill, BillOf(c, q)) \subseteq First(q.bill, {}) \ c.bill
  BY NewNamesAreListed
<1>5. ASSUME KindsOf(diff) \cap Billing # {}, Cardinality(p.years) # 1
      PROVE  p.years = {} /\ p.bill \in {Undefined, {}} /\ p.heads # Undefined
  <2>1. p.years = {} /\ q.bill \in {Undefined, {}}
    BY <1>2, <1>5, OneYear
  <2>2. p.bill = q.bill
    BY <1>1, <2>1 DEF Reconciled
  <2>3. NewNames(c.heads, q.heads) # {} \/ NewNames(c.bill, BillOf(c, q)) # {}
    BY <1>2, <1>5, BillingAdds
  <2> QED BY <1>4, <2>1, <2>2, <2>3 DEF First
<1>6. ~(Cardinality(p.years) = 1 /\ p.years # {Edition})
  BY <1>2, OneYear
<1>7. ASSUME \/ NewNames(c.heads, q.heads) \cap (c.bill \cup NewNames(c.bill, BillOf(c, q))) # {}
             \/ NewNames(c.bill, BillOf(c, q)) \cap c.heads # {}
      PROVE  BothClasses(c, p) # {}
  BY <1>4, <1>7 DEF BothClasses
<1> HIDE DEF diff
<1> QED BY <1>3, <1>5, <1>6, <1>7 DEF Aborts, diff

LEMMA AddedByItsEdition ==
    ASSUME NEW c, IsEdition(c), NEW p, OfPage(p), NEW q, Publishable(c, p, q), NEW n,
           n = Revised(c, Diff(c, q)), n.heads \cup n.bill # c.heads \cup c.bill
    PROVE  p.years = {Edition} /\ family \notin {"gated", "provider"} /\ "quality" \notin p.warnings
<1> DEFINE diff == Diff(c, q)
<1>1. /\ q = Effective(c, p) /\ ~Reviewable(c, q, diff) /\ ~Aborts(c, p, diff)
  BY DEF Publishable
<1>2. /\ q.heads = p.heads /\ q.bill = (IF Reconciled(p) THEN p.bill \ c.heads ELSE p.bill)
      /\ q.years = p.years /\ q.warnings = p.warnings
  BY <1>1, EffectiveIs DEF OfPage
<1>3. /\ n.heads = c.heads \cup NewNames(c.heads, q.heads)
      /\ n.bill = c.bill \cup NewNames(c.bill, BillOf(c, q))
  BY RevisedIs
<1>4. NewNames(c.heads, q.heads) # {} \/ NewNames(c.bill, BillOf(c, q)) # {}
  BY <1>3
<1>5. KindsOf(diff) \cap Adding # {} /\ KindsOf(diff) \cap Billing # {}
  BY <1>4, AddsBilling
<1>6. OtherYear \notin p.years
  BY <1>1, <1>2 DEF Reviewable, Unverified
<1>7. p.years = {Edition}
  BY <1>1, <1>5, <1>6, OneYear DEF Aborts
<1>8. p.heads # Undefined \/ p.bill \notin {Undefined, {}}
  BY <1>1, <1>4, NewNamesAreListed DEF First
<1>9. q.warnings \ {w \in {"review"} : Unchanged(c, q, diff)} = {} /\ ~Objects(c, q, diff)
  BY <1>1 DEF Reviewable
<1>10. "quality" \notin p.warnings
  BY <1>2, <1>9
<1>11. family # "gated"
  <2>1. SUFFICES ASSUME family = "gated" PROVE FALSE
    OBVIOUS
  <2>2. "review" \in p.warnings
    BY <1>8, <2>1 DEF OfPage
  <2>3. ~Unchanged(c, q, diff)
    BY <1>5, <2>1 DEF Unchanged, Reconciled
  <2> QED BY <1>2, <1>9, <2>2, <2>3
<1>12. family # "provider"
  BY <1>5, <1>9 DEF Objects
<1> QED BY <1>7, <1>10, <1>11, <1>12

-----------------------------------------------------------------------------
(* The theorems.                                                             *)

\* One check of the source, taken apart: the catalogue is as it was, or it is revised by what
\* a publishable candidate says.
LEMMA CheckCases ==
    ASSUME RepeatIsNoOp, Check
    PROVE  LET p == Extracted(content')
               q == Effective(current, p)
           IN  /\ content' \in PageContents(family) /\ family' = family
               /\ IsEdition(current) /\ OfPage(p) /\ p.years = Source(content')
               /\ "quality" \in content'.found.warnings => "quality" \in p.warnings
               /\ \/ outcome' \in {"review", "unchanged"} /\ current' = current
                  \/ /\ outcome' = "failed" /\ current' = current
                     /\ ~Reviewable(current, q, Diff(current, q)) /\ Aborts(current, p, Diff(current, q))
                  \/ /\ outcome' = "published" /\ Publishable(current, p, q)
                     /\ current' = Revised(current, Diff(current, q))
<1> DEFINE p == Extracted(content')
           q == Effective(current, p)
           diff == Diff(current, q)
           result == Result(current, p)
<1>1. /\ content' \in PageContents(family) /\ family' = family
      /\ \/ result # "publishable" /\ outcome' = result /\ current' = current
         \/ result = "publishable" /\ Aborts(current, p, diff) /\ outcome' = "failed" /\ current' = current
         \/ /\ result = "publishable" /\ ~Aborts(current, p, diff)
            /\ outcome' = "published" /\ current' = Revised(current, diff)
  BY DEF Check
<1>2. IsEdition(current) /\ family \in Families
  BY EditionIs DEF RepeatIsNoOp
<1>3. /\ OfPage(p) /\ p.years = Source(content')
      /\ "quality" \in content'.found.warnings => "quality" \in p.warnings
  BY <1>1, <1>2, CandidateTyped
<1>4. /\ result \in {"review", "unchanged", "publishable"}
      /\ result = "publishable" => ~Reviewable(current, q, diff)
  BY DEF Result
<1> HIDE DEF p, q, diff, result
<1>5. result = "publishable" /\ ~Aborts(current, p, diff) => Publishable(current, p, q)
  BY <1>4 DEF Publishable, q, diff
<1>6. result # "publishable" => result \in {"review", "unchanged"}
  BY <1>4
<1> QED BY <1>1, <1>2, <1>3, <1>4, <1>5, <1>6 DEF p, q, diff

LEMMA EvaluationStart == EvaluationInit => PolicyAgrees
  BY DEF EvaluationInit, PolicyAgrees, RepeatIsNoOp, PolicySuffices

LEMMA CheckAgrees == PolicyAgrees /\ Check => PolicyAgrees'
<1> SUFFICES ASSUME PolicyAgrees, Check PROVE PolicyAgrees'
  OBVIOUS
<1> DEFINE p == Extracted(content')
           q == Effective(current, p)
<1>1. /\ family \in Families /\ family' = family /\ IsEdition(current) /\ OfPage(p)
      /\ \/ outcome' \in {"review", "unchanged"} /\ current' = current
         \/ /\ outcome' = "failed" /\ current' = current
            /\ ~Reviewable(current, q, Diff(current, q)) /\ Aborts(current, p, Diff(current, q))
         \/ /\ outcome' = "published" /\ Publishable(current, p, q)
            /\ current' = Revised(current, Diff(current, q))
  BY CheckCases DEF PolicyAgrees, RepeatIsNoOp
<1>2. Effective(current, Extracted(content))' = Effective(current', p)
  BY <1>1 DEF Effective, Reconciled
<1>3. /\ (Diff(current, Effective(current, Extracted(content))))' = Diff(current', Effective(current', p))
      /\ (BothClasses(current, Extracted(content)))' = BothClasses(current', p)
      /\ (Extracted(content))' = p
  BY <1>2
<1>4. CASE outcome' \in {"review", "unchanged"} /\ current' = current
  <2>1. current' \in Editions
    BY <1>1, <1>4, EditionIs
  <2> QED BY <1>1, <1>4, <2>1 DEF PolicyAgrees, RepeatIsNoOp, PolicySuffices
<1>5. CASE /\ outcome' = "failed" /\ current' = current
           /\ ~Reviewable(current, q, Diff(current, q)) /\ Aborts(current, p, Diff(current, q))
  <2>1. BothClasses(current, p) # {} \/ (p.years = {} /\ p.bill \in {Undefined, {}} /\ p.heads # Undefined)
    BY <1>1, <1>5, RefusedForTwoReasons
  <2>2. current' \in Editions
    BY <1>1, <1>5, EditionIs
  <2> QED BY <1>1, <1>3, <1>5, <2>1, <2>2 DEF PolicyAgrees, RepeatIsNoOp, PolicySuffices
<1>6. CASE /\ outcome' = "published" /\ Publishable(current, p, q)
           /\ current' = Revised(current, Diff(current, q))
  <2>1. current' \in Editions
    BY <1>1, <1>6, PublishedAdds, EditionIs
  <2>2. Diff(current', Effective(current', p)) = {}
    BY <1>1, <1>6, PublishedIsDone
  <2> QED BY <1>1, <1>3, <1>6, <2>1, <2>2 DEF PolicyAgrees, RepeatIsNoOp, PolicySuffices
<1> QED BY <1>1, <1>4, <1>5, <1>6

LEMMA EvaluationKeepsAgreed == PolicyAgrees /\ [EvaluationNext]_evaluationVars => PolicyAgrees'
<1> SUFFICES ASSUME PolicyAgrees, [EvaluationNext]_evaluationVars PROVE PolicyAgrees'
  OBVIOUS
<1>1. CASE DueAgain
  BY <1>1 DEF DueAgain, PolicyAgrees, RepeatIsNoOp, PolicySuffices
<1>2. CASE Check
  BY <1>2, CheckAgrees
<1>3. CASE UNCHANGED evaluationVars
  <2>1. family' = family /\ current' = current /\ content' = content /\ outcome' = outcome
    BY <1>3 DEF evaluationVars
  <2>2. (Diff(current, Effective(current, Extracted(content))))' = Diff(current, Effective(current, Extracted(content)))
    BY <2>1 DEF Effective, Reconciled
  <2> QED BY <2>1, <2>2 DEF PolicyAgrees, RepeatIsNoOp, PolicySuffices
<1> QED BY <1>1, <1>2, <1>3 DEF EvaluationNext

\* What the policy lets through is published as it was judged: the same page has nothing more
\* to say, and the transaction refuses two kinds of pages only (policy.ts, publication.ts).
THEOREM PolicyIsAgreed == EvaluationSpec => []PolicyAgrees
<1> QED BY EvaluationStart, EvaluationKeepsAgreed, PTL DEF EvaluationSpec

\* No check takes anything off the catalogue or moves it, and artists come on to it without
\* a review only from a page of its edition alone and where a festival's rules allow it.
THEOREM ChecksAdd == EvaluationSpec => ChecksOnlyAdd
<1> DEFINE Adds ==
               /\ current.heads \subseteq current'.heads /\ current.bill \subseteq current'.bill
               /\ current'.heads \cap current'.bill = {}
               /\ current.start # Undefined => current'.start = current.start
               /\ family = "idays" /\ current.status = "confirmed" => current'.status = "confirmed"
           Reasoned ==
               current'.heads \cup current'.bill # current.heads \cup current.bill =>
                   /\ content'.event.years \cup content'.found.years = {Edition}
                   /\ family \notin {"gated", "provider"}
                   /\ "quality" \notin content'.found.warnings
<1>1. ASSUME PolicyAgrees, [EvaluationNext]_evaluationVars PROVE [Adds]_evaluationVars /\ [Reasoned]_evaluationVars
  <2>1. CASE Check
    <3> DEFINE p == Extracted(content')
               q == Effective(current, p)
    <3>1. /\ IsEdition(current) /\ OfPage(p) /\ p.years = Source(content')
          /\ "quality" \in content'.found.warnings => "quality" \in p.warnings
          /\ \/ current' = current
             \/ Publishable(current, p, q) /\ current' = Revised(current, Diff(current, q))
      BY <1>1, <2>1, CheckCases DEF PolicyAgrees
    <3> HIDE DEF p, q
    <3>2. CASE current' = current
      BY <3>1, <3>2 DEF IsEdition
    <3>3. CASE Publishable(current, p, q) /\ current' = Revised(current, Diff(current, q))
      <4>1. Adds
        BY <3>1, <3>3, PublishedAdds DEF IsEdition
      <4>2. Reasoned
        <5>1. SUFFICES ASSUME current'.heads \cup current'.bill # current.heads \cup current.bill
              PROVE  /\ content'.event.years \cup content'.found.years = {Edition}
                     /\ family \notin {"gated", "provider"}
                     /\ "quality" \notin content'.found.warnings
          OBVIOUS
        <5>2. p.years = {Edition} /\ family \notin {"gated", "provider"} /\ "quality" \notin p.warnings
          BY <3>1, <3>3, <5>1, AddedByItsEdition
        <5> QED BY <3>1, <5>2 DEF Source
      <4> QED BY <4>1, <4>2
    <3> QED BY <3>1, <3>2, <3>3
  <2>2. CASE DueAgain \/ UNCHANGED evaluationVars
    <3>1. current' = current
      BY <2>2 DEF DueAgain, evaluationVars
    <3>2. IsEdition(current)
      BY <1>1, EditionIs DEF PolicyAgrees, RepeatIsNoOp
    <3> QED BY <3>1, <3>2 DEF IsEdition
  <2> QED BY <1>1, <2>1, <2>2 DEF EvaluationNext
<1>2. EvaluationSpec => []PolicyAgrees
  BY PolicyIsAgreed
<1> QED BY <1>1, <1>2, PTL DEF EvaluationSpec, ChecksOnlyAdd, OnlyAdds, AddedWithReason

-----------------------------------------------------------------------------
(* The enrichment of the artists (ArtistEnrichment), for any artists, any    *)
(* answers of the providers, any number of runs and faults.  What is         *)
(* published is read from the lease's row, so it is sound whoever wrote      *)
(* that; and nothing done is done again because a run that still holds the   *)
(* lease remembers the searches and the work of the row.                     *)

Foremost(left) == CHOOSE a \in left : \A b \in left : Rank(a) <= Rank(b)

\* What a payload may be, the one of the row or the one a run remembers.
WorkFits(s) ==
    /\ s.work = [names |-> s.work.names, completed |-> s.work.completed, complete |-> s.work.complete]
    /\ s.work.completed \subseteq s.work.names /\ s.work.names \subseteq Artists
    /\ \A a \in s.work.completed : s.cache[a] # Absent

PayloadFits(s) ==
    /\ s = [profiles |-> s.profiles, cache |-> s.cache, reviews |-> s.reviews, day |-> s.day,
            work |-> s.work, nextRun |-> s.nextRun, receipt |-> s.receipt]
    /\ s.profiles = [a \in Artists |-> s.profiles[a]]
    /\ s.cache = [a \in Artists |-> s.cache[a]]
    /\ \A a \in Artists : s.cache[a] \in Answers[a] \cup {Absent}
    /\ s.work # Absent => WorkFits(s)

Enriching == {"first", "begin", "artist", "search", "decide", "last"}
Working == {"artist", "search", "decide", "last"}

RunFits(m) ==
    /\ m = [pc |-> m.pc, state |-> m.state, names |-> m.names, left |-> m.left]
    /\ m.left \subseteq Artists
    /\ m.pc \in Enriching => PayloadFits(m.state)
    /\ m.pc \in Working => WorkFits(m.state)
    /\ m.pc \in {"artist", "search", "decide"} => m.left \subseteq m.state.work.names
    /\ m.pc \in {"search", "decide"} => m.left # {}
    /\ m.pc = "decide" => m.state.cache[Foremost(m.left)] # Absent

\* What a run remembers of the row's payload p.
Remembers(m, p) == m.pc \in Enriching => m.state.cache = p.cache /\ m.state.work = p.work

RunsFit ==
    /\ PayloadFits(payload) /\ enricher = [w \in Enrichers |-> enricher[w]]
    /\ \A w \in Enrichers : RunFits(enricher[w]) /\ (Holds(w) => Remembers(enricher[w], payload))

\* The rows of the artists, and the evidence of the resolver.
ArtistFits(r) ==
    /\ r = [mb |-> r.mb, field |-> r.field, spotify |-> r.spotify, linked |-> r.linked,
            guarded |-> r.guarded, stats |-> r.stats]
    /\ r.linked \in BOOLEAN /\ (r.linked <=> r.spotify # Absent)

ResolverFits(a, r) ==
    /\ r = [phase |-> r.phase, due |-> r.due, linked |-> r.linked]
    /\ r.linked # {} => r.phase = "complete" /\ r.linked \in Relations[a]

Backed(rows) ==
    \A a \in Artists : rows[a].mb # Absent =>
        /\ \E found \in Answers[a] : Proves(found, rows[a].mb)
        /\ \A b \in Artists \ {a} : rows[b].mb # rows[a].mb

ArtistsFit ==
    /\ artist = [a \in Artists |-> artist[a]] /\ \A a \in Artists : ArtistFits(artist[a])
    /\ resolver = [a \in DOMAIN Relations |-> resolver[a]]
    /\ \A a \in DOMAIN Relations : ResolverFits(a, resolver[a])
    /\ \A a \in Artists : artist[a].spotify # Absent => a \in DOMAIN Relations
    /\ Backed(artist) /\ ProvidersAgree

CountersFit ==
    /\ known \subseteq Artists /\ clock \in 0 .. MaxDays /\ crashes \in 0 .. MaxCrashes
    /\ lease = [owner |-> lease.owner, live |-> lease.live]
    /\ lease.owner \in Enrichers \cup {Absent, Dead} /\ lease.live \in BOOLEAN

EnrichmentInv == CountersFit /\ RunsFit /\ ArtistsFit

LEMMA RankIs ==
    ASSUME NEW a \in Artists
    PROVE  Rank(a) \in Nat /\ Order[Rank(a)] = a
<1>1. DOMAIN Order \subseteq Nat
  <2>1. Order \in Seq(Artists)
    BY EnrichmentAssumption
  <2>2. DOMAIN Order = 1 .. Len(Order) /\ Len(Order) \in Nat
    BY <2>1
  <2> QED BY <2>2
<1>2. \E n \in DOMAIN Order : Order[n] = a
  BY DEF Artists, Range
<1> QED BY <1>1, <1>2 DEF Rank

\* Of the artists that are left one comes first: they are finitely many.
LEMMA ForemostIs ==
    ASSUME NEW left \in SUBSET Artists, left # {}
    PROVE  Foremost(left) \in left
<1> DEFINE upTo(a) == {b \in left : Rank(b) <= Rank(a)}
           sets == {upTo(a) : a \in left}
<1>1. sets \subseteq FiniteSubsetsOf(Artists) /\ sets # {}
  <2>1. \A a \in left : upTo(a) \in SUBSET Artists /\ IsFiniteSet(upTo(a))
    BY FS_Subset, EnrichmentAssumption
  <2> HIDE DEF upTo
  <2> QED BY <2>1 DEF FiniteSubsetsOf
<1>2. PICK x \in sets : \A y \in sets : ~(<<y, x>> \in StrictSubsetOrdering(Artists))
  BY <1>1, FS_StrictSubsetOrderingWellFounded, WFMin
<1>3. PICK a \in left : x = upTo(a)
  OBVIOUS
<1>4. \A b \in left : Rank(a) <= Rank(b)
  <2>1. SUFFICES ASSUME NEW b \in left, ~(Rank(a) <= Rank(b)) PROVE FALSE
    OBVIOUS
  <2>2. Rank(a) \in Nat /\ Rank(b) \in Nat /\ \A c \in left : Rank(c) \in Nat
    BY RankIs
  <2>3. upTo(b) \subseteq upTo(a) /\ a \in upTo(a) /\ a \notin upTo(b)
    BY <2>1, <2>2
  <2>4. upTo(a) \in SUBSET Artists /\ upTo(b) \in SUBSET Artists
    OBVIOUS
  <2>5. <<upTo(b), upTo(a)>> \in StrictSubsetOrdering(Artists)
    <3> HIDE DEF upTo
    <3> QED BY <2>3, <2>4 DEF StrictSubsetOrdering
  <2> QED BY <1>2, <1>3, <2>5
<1> QED BY <1>4 DEF Foremost

LEMMA CurrentIs ==
    ASSUME NEW w, enricher[w].left \subseteq Artists, enricher[w].left # {}
    PROVE  Current(w) = Foremost(enricher[w].left) /\ Current(w) \in enricher[w].left
  BY ForemostIs DEF Current, Foremost

-----------------------------------------------------------------------------
(* The runs.                                                                 *)

\* Nothing that is done over one catalogue is done again.
Progressed(p, q) ==
    p.work # Absent /\ q.work # Absent /\ ~p.work.complete /\ p.work.names = q.work.names =>
        /\ p.work.completed \subseteq q.work.completed
        /\ \A a \in Artists : p.cache[a] # Absent => q.cache[a] = p.cache[a]

LEMMA IdleFits == RunFits(Idle) /\ RunFits([Idle EXCEPT !.pc = "release"])
                  /\ \A p : Remembers(Idle, p) /\ Remembers([Idle EXCEPT !.pc = "release"], p)
  BY DEF RunFits, Remembers, Idle, Enriching, Working

\* A run w goes on to m; if it writes the row it holds the lease, and no other run gets that.
LEMMA RunMoves ==
    ASSUME RunsFit, NEW w \in Enrichers, NEW m,
           enricher' = [enricher EXCEPT ![w] = m], RunFits(m),
           PayloadFits(payload'), Holds(w)' => Remembers(m, payload'),
           \A v \in Enrichers \ {w} : Holds(v)' => Holds(v),
           payload' = payload \/ (Holds(w) /\ UNCHANGED lease)
    PROVE  RunsFit'
<1>1. enricher' = [v \in Enrichers |-> IF v = w THEN m ELSE enricher[v]]
  BY DEF RunsFit
<1>2. enricher' = [v \in Enrichers |-> enricher'[v]] /\ enricher'[w] = m
      /\ \A v \in Enrichers \ {w} : enricher'[v] = enricher[v]
  BY <1>1
<1>3. ASSUME NEW v \in Enrichers, v # w
      PROVE  RunFits(enricher'[v]) /\ (Holds(v)' => Remembers(enricher'[v], payload'))
  <2>1. RunFits(enricher[v]) /\ (Holds(v) => Remembers(enricher[v], payload))
    BY DEF RunsFit
  <2>2. Holds(v)' => payload' = payload
    BY <1>3 DEF Holds
  <2> QED BY <1>2, <1>3, <2>1, <2>2
<1>4. \A v \in Enrichers : RunFits(enricher'[v]) /\ (Holds(v)' => Remembers(enricher'[v], payload'))
  BY <1>2, <1>3
<1> QED BY <1>2, <1>4 DEF RunsFit

\* A run that neither writes the row nor touches the lease.
LEMMA RunThinks ==
    ASSUME RunsFit, NEW w \in Enrichers, NEW m, enricher' = [enricher EXCEPT ![w] = m],
           RunFits(m), Holds(w) => Remembers(m, payload), UNCHANGED <<lease, payload>>
    PROVE  RunsFit' /\ Progressed(payload, payload')
<1>1. \A v \in Enrichers : Holds(v)' <=> Holds(v)
  BY DEF Holds
<1>2. RunsFit'
  BY <1>1, RunMoves DEF RunsFit
<1> QED BY <1>2 DEF Progressed

\* A run at pc, with s in mind and the artists of left before it.
Moved(o, pc, s, left) == [o EXCEPT !.pc = pc, !.state = s, !.left = left]

LEMMA RunChanged ==
    ASSUME NEW o, o = [pc |-> o.pc, state |-> o.state, names |-> o.names, left |-> o.left],
           NEW pc, NEW s, NEW left
    PROVE  Moved(o, pc, s, left) = [pc |-> pc, state |-> s, names |-> o.names, left |-> left]
<1> DEFINE o1 == [o EXCEPT !.pc = pc]
           o2 == [o1 EXCEPT !.state = s]
           o3 == [o2 EXCEPT !.left = left]
<1>1. Moved(o, pc, s, left) = o3
  BY DEF Moved
<1>2. o1 = [pc |-> pc, state |-> o.state, names |-> o.names, left |-> o.left]
  OBVIOUS
<1> HIDE DEF o1
<1>3. o2 = [pc |-> pc, state |-> s, names |-> o.names, left |-> o.left]
  BY <1>2
<1> HIDE DEF o2
<1>4. o3 = [pc |-> pc, state |-> s, names |-> o.names, left |-> left]
  BY <1>3
<1> QED BY <1>1, <1>4

LEMMA Checkpoints ==
    ASSUME RunsFit, NEW w \in Enrichers, NEW s, NEW pc, NEW left, Checkpoint(w, s, pc, left),
           UNCHANGED lease, PayloadFits(s), WorkFits(s), pc \in Working, left \subseteq Artists,
           pc # "last" => left \subseteq s.work.names,
           pc \in {"search", "decide"} => left # {},
           pc = "decide" => s.cache[Foremost(left)] # Absent
    PROVE  RunsFit'
<1> DEFINE old == enricher[w]
           m == [pc |-> pc, state |-> s, names |-> old.names, left |-> left]
<1>1. old = [pc |-> old.pc, state |-> old.state, names |-> old.names, left |-> old.left]
  BY DEF RunsFit, RunFits
<1>2. enricher' = [enricher EXCEPT ![w] = [old EXCEPT !.pc = pc, !.state = s, !.left = left]]
      /\ payload' = s /\ Holds(w)
  BY DEF Checkpoint
<1>3. [old EXCEPT !.pc = pc, !.state = s, !.left = left] = m
  <2>1. [old EXCEPT !.pc = pc, !.state = s, !.left = left] = Moved(old, pc, s, left)
    BY DEF Moved
  <2> HIDE DEF old
  <2> QED BY <1>1, <2>1, RunChanged
<1>4. m.pc = pc /\ m.state = s /\ m.left = left /\ m.names = old.names
  OBVIOUS
<1> HIDE DEF m, old
<1>5. m = [pc |-> m.pc, state |-> m.state, names |-> m.names, left |-> m.left]
  BY <1>4 DEF m
<1>6. RunFits(m)
  BY <1>4, <1>5 DEF RunFits, Working
<1>7. Remembers(m, payload')
  BY <1>2, <1>4 DEF Remembers
<1>8. \A v \in Enrichers : Holds(v)' <=> Holds(v)
  BY DEF Holds
<1> QED BY <1>2, <1>3, <1>6, <1>7, <1>8, RunMoves

\* What the runs do, action by action.
LEMMA ClaimKeeps ==
    ASSUME RunsFit, NEW w \in Enrichers, ClaimEnrichment(w) \/ ClaimStats(w)
    PROVE  RunsFit' /\ Progressed(payload, payload')
<1>1. PICK pc \in {"first", "stats-begin"} : ClaimLease(w, pc) /\ UNCHANGED payload
  BY DEF ClaimEnrichment, ClaimStats
<1> DEFINE m == [pc |-> pc, state |-> payload, names |-> {}, left |-> {}]
<1>2. lease' = [owner |-> w, live |-> TRUE] /\ enricher' = [enricher EXCEPT ![w] = m]
  <2>1. [Idle EXCEPT !.pc = pc, !.state = payload] = m
    <3> DEFINE o == [Idle EXCEPT !.pc = pc]
    <3>1. o = [pc |-> pc, state |-> Absent, names |-> {}, left |-> {}]
      BY DEF Idle
    <3>2. [Idle EXCEPT !.pc = pc, !.state = payload] = [o EXCEPT !.state = payload]
      OBVIOUS
    <3> HIDE DEF o
    <3> QED BY <3>1, <3>2
  <2> QED BY <1>1, <2>1 DEF ClaimLease
<1>3. RunFits(m) /\ Remembers(m, payload)
  BY <1>1 DEF RunFits, Remembers, RunsFit, Enriching, Working
<1>4. \A v \in Enrichers \ {w} : ~Holds(v)'
  BY <1>2 DEF Holds
<1> HIDE DEF m
<1>5. RunsFit'
  BY <1>1, <1>2, <1>3, <1>4, RunMoves DEF RunsFit
<1> QED BY <1>1, <1>5 DEF Progressed

LEMMA EndKeeps ==
    ASSUME RunsFit, NEW w \in Enrichers, Lost(w) \/ ReleaseLease(w) \/ Crash(w)
    PROVE  RunsFit' /\ Progressed(payload, payload')
<1>1. PICK m \in {Idle, [Idle EXCEPT !.pc = "release"]} : enricher' = [enricher EXCEPT ![w] = m]
  BY DEF Lost, ReleaseLease, Crash
<1>2. payload' = payload
  BY DEF Lost, ReleaseLease, Crash
<1>3. \A v \in Enrichers : Holds(v)' => Holds(v)
  <2>1. CASE lease' = lease
    BY <2>1 DEF Holds
  <2>2. CASE lease' = [owner |-> Absent, live |-> FALSE]
    BY <2>2 DEF Holds
  <2>3. CASE lease' = [lease EXCEPT !.owner = Dead] /\ lease.owner = w
    <3>1. lease'.owner = Dead \/ lease'.owner = lease.owner
      BY <2>3
    <3>2. lease'.live = lease.live
      BY <2>3
    <3> QED BY <2>3, <3>1, <3>2, EnrichmentAssumption DEF Holds
  <2> QED BY <2>1, <2>2, <2>3 DEF Lost, ReleaseLease, Crash
<1>4. RunFits(m) /\ Remembers(m, payload')
  BY IdleFits
<1>5. RunsFit'
  BY <1>1, <1>2, <1>3, <1>4, RunMoves DEF RunsFit
<1> QED BY <1>2, <1>5 DEF Progressed

\* The receipt is all that a publication changes in the row.
LEMMA PublishRowKeeps ==
    ASSUME RunsFit, NEW w \in Enrichers, PublishFirst(w) \/ PublishLast(w)
    PROVE  RunsFit' /\ Progressed(payload, payload')
<1> DEFINE old == enricher[w]
<1>1. PICK to \in {"begin", "release"} :
        /\ enricher' = [enricher EXCEPT ![w] = [old EXCEPT !.pc = to]]
        /\ (to = "begin" /\ old.pc = "first") \/ (to = "release" /\ old.pc = "last")
        /\ Holds(w) /\ UNCHANGED lease
        /\ payload' = payload \/ payload' = [payload EXCEPT !.receipt = Evidence(payload)]
  BY DEF PublishFirst, PublishLast, PublishRow
<1> DEFINE m == [pc |-> to, state |-> old.state, names |-> old.names, left |-> old.left]
<1>2. RunFits(old) /\ Remembers(old, payload) /\ PayloadFits(payload)
  BY <1>1 DEF RunsFit
<1> HIDE DEF old
<1>3. [old EXCEPT !.pc = to] = m
  BY <1>2 DEF RunFits
<1>4. payload'.cache = payload.cache /\ payload'.work = payload.work /\ PayloadFits(payload')
  <2>1. CASE payload' = payload
    BY <1>2, <2>1
  <2>2. CASE payload' = [payload EXCEPT !.receipt = Evidence(payload)]
    <3>1. payload' = [profiles |-> payload.profiles, cache |-> payload.cache, reviews |-> payload.reviews,
                      day |-> payload.day, work |-> payload.work, nextRun |-> payload.nextRun,
                      receipt |-> Evidence(payload)]
      BY <1>2, <2>2 DEF PayloadFits
    <3>2. /\ payload'.profiles = payload.profiles /\ payload'.cache = payload.cache
          /\ payload'.work = payload.work
          /\ payload' = [profiles |-> payload'.profiles, cache |-> payload'.cache,
                         reviews |-> payload'.reviews, day |-> payload'.day, work |-> payload'.work,
                         nextRun |-> payload'.nextRun, receipt |-> payload'.receipt]
      BY <3>1
    <3> QED BY <1>2, <3>2 DEF PayloadFits, WorkFits
  <2> QED BY <1>1, <2>1, <2>2
<1>5. m.pc = to /\ m.state = old.state /\ m.left = old.left
  OBVIOUS
<1>6. RunFits(m) /\ Remembers(m, payload')
  BY <1>1, <1>2, <1>4 DEF RunFits, Remembers, Enriching, Working
<1> HIDE DEF m
<1>7. \A v \in Enrichers : Holds(v)' <=> Holds(v)
  BY <1>1 DEF Holds
<1>8. RunsFit'
  BY <1>1, <1>3, <1>4, <1>6, <1>7, RunMoves DEF old
<1> QED BY <1>4, <1>8 DEF Progressed

LEMMA PayloadChanged ==
    ASSUME NEW s, s = [profiles |-> s.profiles, cache |-> s.cache, reviews |-> s.reviews, day |-> s.day,
                       work |-> s.work, nextRun |-> s.nextRun, receipt |-> s.receipt],
           NEW cache, NEW reviews, NEW day, NEW nextRun, NEW work
    PROVE  [s EXCEPT !.cache = cache, !.reviews = reviews, !.day = day, !.nextRun = nextRun, !.work = work]
             = [profiles |-> s.profiles, cache |-> cache, reviews |-> reviews, day |-> day,
                work |-> work, nextRun |-> nextRun, receipt |-> s.receipt]
<1> DEFINE s1 == [s EXCEPT !.cache = cache]
           s2 == [s1 EXCEPT !.reviews = reviews]
           s3 == [s2 EXCEPT !.day = day]
           s4 == [s3 EXCEPT !.nextRun = nextRun]
           s5 == [s4 EXCEPT !.work = work]
<1>1. [s EXCEPT !.cache = cache, !.reviews = reviews, !.day = day, !.nextRun = nextRun, !.work = work] = s5
  OBVIOUS
<1>2. s1 = [profiles |-> s.profiles, cache |-> cache, reviews |-> s.reviews, day |-> s.day,
            work |-> s.work, nextRun |-> s.nextRun, receipt |-> s.receipt]
  OBVIOUS
<1> HIDE DEF s1
<1>3. s2 = [profiles |-> s.profiles, cache |-> cache, reviews |-> reviews, day |-> s.day,
            work |-> s.work, nextRun |-> s.nextRun, receipt |-> s.receipt]
  BY <1>2
<1> HIDE DEF s2
<1>4. s3 = [profiles |-> s.profiles, cache |-> cache, reviews |-> reviews, day |-> day,
            work |-> s.work, nextRun |-> s.nextRun, receipt |-> s.receipt]
  BY <1>3
<1> HIDE DEF s3
<1>5. s4 = [profiles |-> s.profiles, cache |-> cache, reviews |-> reviews, day |-> day,
            work |-> s.work, nextRun |-> nextRun, receipt |-> s.receipt]
  BY <1>4
<1> HIDE DEF s4
<1>6. s5 = [profiles |-> s.profiles, cache |-> cache, reviews |-> reviews, day |-> day,
            work |-> work, nextRun |-> nextRun, receipt |-> s.receipt]
  BY <1>5
<1> QED BY <1>1, <1>6

LEMMA BeginKeeps ==
    ASSUME RunsFit, known \subseteq Artists, NEW w \in Enrichers, Begin(w)
    PROVE  RunsFit' /\ Progressed(payload, payload')
<1> DEFINE old == enricher[w]
           s == old.state
           keep == Resuming(s, known) \/ s.work = Absent
           cache == IF keep THEN s.cache ELSE NothingFound
           done == IF Resuming(s, known) THEN {a \in s.work.completed : cache[a] # Absent} ELSE {}
           work == [names |-> known, completed |-> done, complete |-> FALSE]
           next == [s EXCEPT !.cache = cache, !.reviews = IF keep THEN s.reviews ELSE {},
                             !.day = clock, !.nextRun = 0, !.work = work]
<1>1. /\ old.pc = "begin" /\ UNCHANGED lease
      /\ \/ enricher' = [enricher EXCEPT ![w] = [old EXCEPT !.pc = "release"]] /\ UNCHANGED payload
         \/ Checkpoint(w, next, "artist", known \ done)
  BY DEF Begin
<1>2. RunFits(old) /\ PayloadFits(s) /\ (Holds(w) => s.cache = payload.cache /\ s.work = payload.work)
  BY <1>1 DEF RunsFit, RunFits, Remembers, Enriching
<1>3. CASE enricher' = [enricher EXCEPT ![w] = [old EXCEPT !.pc = "release"]] /\ UNCHANGED payload
  <2> DEFINE m == [pc |-> "release", state |-> s, names |-> old.names, left |-> old.left]
  <2> HIDE DEF old
  <2>1. [old EXCEPT !.pc = "release"] = m
    BY <1>2 DEF RunFits
  <2>2. RunFits(m) /\ Remembers(m, payload)
    BY <1>2 DEF RunFits, Remembers, Enriching, Working
  <2> HIDE DEF m
  <2> QED BY <1>1, <1>3, <2>1, <2>2, RunThinks DEF old
<1>4. CASE Checkpoint(w, next, "artist", known \ done)
  <2> HIDE DEF old
  <2>1. cache = [a \in Artists |-> cache[a]] /\ \A a \in Artists : cache[a] \in Answers[a] \cup {Absent}
    BY <1>2 DEF PayloadFits, NothingFound
  <2>2. /\ done \subseteq known
        /\ \A a \in done : cache[a] # Absent
    BY <1>2 DEF PayloadFits, WorkFits, Resuming
  <2> DEFINE reviews == IF keep THEN s.reviews ELSE {}
  <2>3. next = [profiles |-> s.profiles, cache |-> cache, reviews |-> reviews, day |-> clock,
                work |-> work, nextRun |-> 0, receipt |-> s.receipt]
    <3> HIDE DEF cache, done, work, s
    <3>1. next = [s EXCEPT !.cache = cache, !.reviews = reviews, !.day = clock, !.nextRun = 0, !.work = work]
      OBVIOUS
    <3> HIDE DEF reviews, next
    <3> QED BY <1>2, <3>1, PayloadChanged DEF PayloadFits
  <2>4. work.names = known /\ work.completed = done /\ work = [names |-> work.names,
            completed |-> work.completed, complete |-> work.complete]
    BY DEF work
  <2>5. Resuming(s, known) => s.work.completed \subseteq done /\ cache = s.cache
    BY <1>2 DEF Resuming, PayloadFits, WorkFits
  <2> HIDE DEF cache, done, work, keep, reviews, next
  <2>6. /\ next.profiles = s.profiles /\ next.cache = cache /\ next.work = work
        /\ next = [profiles |-> next.profiles, cache |-> next.cache, reviews |-> next.reviews,
                   day |-> next.day, work |-> next.work, nextRun |-> next.nextRun,
                   receipt |-> next.receipt]
    BY <2>3
  <2> HIDE DEF s
  <2>7. WorkFits(next) /\ PayloadFits(next)
    BY <1>2, <2>1, <2>2, <2>4, <2>6 DEF WorkFits, PayloadFits
  <2>8. RunsFit'
    BY <1>1, <1>4, <2>2, <2>4, <2>6, <2>7, Checkpoints DEF Working
  <2>9. Progressed(payload, payload')
    <3>1. payload' = next /\ Holds(w)
      BY <1>4 DEF Checkpoint
    <3>2. s.cache = payload.cache /\ s.work = payload.work
      BY <1>2, <3>1
    <3>3. SUFFICES ASSUME payload.work # Absent, ~payload.work.complete, payload.work.names = known
          PROVE  /\ payload.work.completed \subseteq done
                 /\ \A a \in Artists : payload.cache[a] # Absent => cache[a] = payload.cache[a]
      BY <2>4, <2>6, <3>1 DEF Progressed
    <3>4. Resuming(s, known)
      BY <3>2, <3>3 DEF Resuming
    <3> QED BY <2>5, <3>2, <3>4
  <2> QED BY <2>8, <2>9
<1> QED BY <1>1, <1>3, <1>4

\* What the run w does with the artist that comes first of those that are left.
LEMMA AtWork ==
    ASSUME RunsFit, NEW w \in Enrichers, enricher[w].pc \in {"search", "decide"}
    PROVE  LET s == enricher[w].state
               a == Current(w)
           IN  /\ PayloadFits(s) /\ WorkFits(s) /\ enricher[w].left \subseteq s.work.names
               /\ enricher[w].left \subseteq Artists /\ enricher[w].left # {}
               /\ a = Foremost(enricher[w].left) /\ a \in enricher[w].left /\ a \in Artists
               /\ enricher[w].pc = "decide" => s.cache[a] # Absent
               /\ Holds(w) => s.cache = payload.cache /\ s.work = payload.work
<1>1. RunFits(enricher[w]) /\ (Holds(w) => Remembers(enricher[w], payload))
  BY DEF RunsFit
<1>2. enricher[w].left \subseteq Artists /\ enricher[w].left # {}
  BY <1>1 DEF RunFits
<1>3. Current(w) = Foremost(enricher[w].left) /\ Current(w) \in enricher[w].left
  BY <1>2, CurrentIs
<1> QED BY <1>1, <1>2, <1>3 DEF RunFits, Remembers, Enriching, Working

\* A review more or less changes nothing of what is kept.
LEMMA ReviewsChange ==
    ASSUME NEW s, PayloadFits(s), WorkFits(s), NEW reviews
    PROVE  LET q == [s EXCEPT !.reviews = reviews] IN
           /\ PayloadFits(q) /\ WorkFits(q)
           /\ q.profiles = s.profiles /\ q.cache = s.cache /\ q.work = s.work /\ q.reviews = reviews
<1> DEFINE q == [s EXCEPT !.reviews = reviews]
<1>1. q = [profiles |-> s.profiles, cache |-> s.cache, reviews |-> reviews, day |-> s.day,
           work |-> s.work, nextRun |-> s.nextRun, receipt |-> s.receipt]
  BY DEF PayloadFits
<1> HIDE DEF q
<1>2. /\ q.profiles = s.profiles /\ q.cache = s.cache /\ q.work = s.work /\ q.reviews = reviews
      /\ q = [profiles |-> q.profiles, cache |-> q.cache, reviews |-> q.reviews, day |-> q.day,
              work |-> q.work, nextRun |-> q.nextRun, receipt |-> q.receipt]
  BY <1>1
<1>3. PayloadFits(q) /\ WorkFits(q)
  BY <1>2 DEF PayloadFits, WorkFits
<1> QED BY <1>2, <1>3 DEF q

\* A search that was asked for the first time.
LEMMA SearchAdded ==
    ASSUME NEW s, PayloadFits(s), WorkFits(s), NEW a \in Artists, s.cache[a] = Absent,
           NEW search \in Answers[a]
    PROVE  LET q == [s EXCEPT !.cache[a] = search] IN
           /\ PayloadFits(q) /\ WorkFits(q) /\ q.work = s.work /\ q.cache[a] # Absent
           /\ \A b \in Artists : s.cache[b] # Absent => q.cache[b] = s.cache[b]
<1> DEFINE cache == [s.cache EXCEPT ![a] = search]
           q == [s EXCEPT !.cache[a] = search]
<1>1. q = [s EXCEPT !.cache = cache]
  OBVIOUS
<1>2. /\ cache = [b \in Artists |-> cache[b]] /\ cache[a] = search
      /\ \A b \in Artists \ {a} : cache[b] = s.cache[b]
  BY DEF PayloadFits
<1>3. search # Absent
  BY EnrichmentAssumption
<1> HIDE DEF cache, q
<1>4. q = [profiles |-> s.profiles, cache |-> cache, reviews |-> s.reviews, day |-> s.day,
           work |-> s.work, nextRun |-> s.nextRun, receipt |-> s.receipt]
  BY <1>1 DEF PayloadFits
<1>5. /\ q.profiles = s.profiles /\ q.cache = cache /\ q.work = s.work
      /\ q = [profiles |-> q.profiles, cache |-> q.cache, reviews |-> q.reviews, day |-> q.day,
              work |-> q.work, nextRun |-> q.nextRun, receipt |-> q.receipt]
  BY <1>4
<1>6. \A b \in Artists : s.cache[b] # Absent => cache[b] = s.cache[b]
  BY <1>2
<1>7. WorkFits(q)
  BY <1>5, <1>6 DEF WorkFits
<1>8. PayloadFits(q)
  BY <1>2, <1>5, <1>7 DEF PayloadFits
<1> QED BY <1>2, <1>3, <1>5, <1>6, <1>7, <1>8 DEF q

LEMMA SearchKeeps ==
    ASSUME RunsFit, NEW w \in Enrichers, Search(w)
    PROVE  RunsFit' /\ Progressed(payload, payload')
<1> DEFINE old == enricher[w]
           s == old.state
           a == Current(w)
           asked == [s EXCEPT !.reviews = @ \ {a}]
           refused == [asked EXCEPT !.reviews = @ \cup {a}]
<1>1. /\ old.pc = "search" /\ UNCHANGED lease
      /\ \/ /\ s.cache[a] # Absent /\ UNCHANGED payload
            /\ enricher' = [enricher EXCEPT ![w] = [old EXCEPT !.pc = "decide", !.state = asked]]
         \/ /\ s.cache[a] = Absent
            /\ \E found \in Answers[a] : Checkpoint(w, [asked EXCEPT !.cache[a] = found], "decide", old.left)
         \/ Checkpoint(w, refused, "artist", old.left \ {a})
  BY DEF Search
<1>2. /\ PayloadFits(s) /\ WorkFits(s) /\ old.left \subseteq s.work.names
      /\ old.left \subseteq Artists /\ old.left # {}
      /\ a = Foremost(old.left) /\ a \in old.left /\ a \in Artists
      /\ Holds(w) => s.cache = payload.cache /\ s.work = payload.work
  BY <1>1, AtWork
<1>3. RunFits(old)
  BY DEF RunsFit
<1> HIDE DEF old, s, a
<1>4. /\ PayloadFits(asked) /\ WorkFits(asked)
      /\ asked.cache = s.cache /\ asked.work = s.work
  BY <1>2, ReviewsChange
<1> HIDE DEF asked
<1>5. /\ PayloadFits(refused) /\ WorkFits(refused)
      /\ refused.cache = s.cache /\ refused.work = s.work
  BY <1>4, ReviewsChange
<1> HIDE DEF refused
<1>6. CASE /\ s.cache[a] # Absent /\ UNCHANGED payload
           /\ enricher' = [enricher EXCEPT ![w] = [old EXCEPT !.pc = "decide", !.state = asked]]
  <2> DEFINE m == [pc |-> "decide", state |-> asked, names |-> old.names, left |-> old.left]
  <2>1. [old EXCEPT !.pc = "decide", !.state = asked] = m
    <3> DEFINE o == [old EXCEPT !.pc = "decide"]
    <3>1. o = [pc |-> "decide", state |-> old.state, names |-> old.names, left |-> old.left]
      BY <1>3 DEF RunFits
    <3>2. [old EXCEPT !.pc = "decide", !.state = asked] = [o EXCEPT !.state = asked]
      OBVIOUS
    <3> HIDE DEF o
    <3> QED BY <3>1, <3>2
  <2>2. m.pc = "decide" /\ m.state = asked /\ m.left = old.left
        /\ m = [pc |-> m.pc, state |-> m.state, names |-> m.names, left |-> m.left]
    OBVIOUS
  <2> HIDE DEF m
  <2>3. RunFits(m)
    BY <1>2, <1>4, <1>6, <2>2 DEF RunFits
  <2>4. Holds(w) => Remembers(m, payload)
    BY <1>2, <1>4, <2>2 DEF Remembers
  <2> QED BY <1>1, <1>6, <2>1, <2>3, <2>4, RunThinks DEF old
<1>7. CASE /\ s.cache[a] = Absent
           /\ \E found \in Answers[a] : Checkpoint(w, [asked EXCEPT !.cache[a] = found], "decide", old.left)
  <2>1. PICK found \in Answers[a] : Checkpoint(w, [asked EXCEPT !.cache[a] = found], "decide", old.left)
    BY <1>7
  <2> DEFINE q == [asked EXCEPT !.cache[a] = found]
  <2>2. /\ PayloadFits(q) /\ WorkFits(q) /\ q.work = s.work /\ q.cache[a] # Absent
        /\ \A b \in Artists : s.cache[b] # Absent => q.cache[b] = s.cache[b]
    BY <1>2, <1>4, <1>7, SearchAdded
  <2> HIDE DEF q
  <2>3. RunsFit'
    BY <1>1, <1>2, <2>1, <2>2, Checkpoints DEF Working, q
  <2>4. payload' = q /\ Holds(w)
    BY <2>1 DEF Checkpoint, q
  <2> QED BY <1>2, <2>2, <2>3, <2>4 DEF Progressed
<1>8. CASE Checkpoint(w, refused, "artist", old.left \ {a})
  <2>1. RunsFit'
    BY <1>1, <1>2, <1>5, <1>8, Checkpoints DEF Working
  <2>2. payload' = refused /\ Holds(w)
    BY <1>8 DEF Checkpoint
  <2> QED BY <1>2, <1>5, <2>1, <2>2 DEF Progressed
<1> QED BY <1>1, <1>6, <1>7, <1>8

\* A decision adds its artist to those that are completed.
LEMMA DecidedFits ==
    ASSUME NEW s, PayloadFits(s), WorkFits(s), NEW a \in s.work.names, s.cache[a] # Absent
    PROVE  LET q == Decided(s, a) IN
           /\ PayloadFits(q) /\ WorkFits(q) /\ q.cache = s.cache
           /\ q.work.names = s.work.names /\ s.work.completed \subseteq q.work.completed
<1> DEFINE proven == {id \in s.cache[a].ids : Proves(s.cache[a], id)}
           id0 == IF proven = {} THEN s.profiles[a] ELSE CHOOSE id \in proven : TRUE
           reviews == IF proven = {} THEN s.reviews \cup {a} ELSE s.reviews
           profiles == [s.profiles EXCEPT ![a] = id0]
           work == [s.work EXCEPT !.completed = s.work.completed \cup {a}]
           s1 == [s EXCEPT !.profiles = profiles]
           s2 == [s1 EXCEPT !.reviews = reviews]
           q == Decided(s, a)
<1>1. q = [s2 EXCEPT !.work = work]
  <2>1. s1 = [profiles |-> profiles, cache |-> s.cache, reviews |-> s.reviews, day |-> s.day,
              work |-> s.work, nextRun |-> s.nextRun, receipt |-> s.receipt]
    <3> HIDE DEF profiles
    <3> QED BY DEF PayloadFits
  <2>2. s2.work = s.work /\ s1.reviews = s.reviews
    <3> HIDE DEF s1, reviews
    <3> QED BY <2>1
  <2> QED BY <2>2 DEF Decided
<1>2. profiles = [b \in Artists |-> profiles[b]]
  <2> HIDE DEF id0
  <2> QED BY DEF PayloadFits
<1>3. work = [names |-> s.work.names, completed |-> s.work.completed \cup {a}, complete |-> s.work.complete]
  BY DEF WorkFits
<1>4. q = [profiles |-> profiles, cache |-> s.cache, reviews |-> reviews, day |-> s.day,
           work |-> work, nextRun |-> s.nextRun, receipt |-> s.receipt]
  <2> HIDE DEF profiles, reviews, work
  <2>1. s1 = [profiles |-> profiles, cache |-> s.cache, reviews |-> s.reviews, day |-> s.day,
              work |-> s.work, nextRun |-> s.nextRun, receipt |-> s.receipt]
    BY DEF PayloadFits
  <2> HIDE DEF s1
  <2>2. s2 = [profiles |-> profiles, cache |-> s.cache, reviews |-> reviews, day |-> s.day,
              work |-> s.work, nextRun |-> s.nextRun, receipt |-> s.receipt]
    BY <2>1
  <2> HIDE DEF s2
  <2> QED BY <1>1, <2>2
<1> HIDE DEF q, profiles, reviews, work
<1>5. /\ q.profiles = profiles /\ q.cache = s.cache /\ q.work = work
      /\ q = [profiles |-> q.profiles, cache |-> q.cache, reviews |-> q.reviews, day |-> q.day,
              work |-> q.work, nextRun |-> q.nextRun, receipt |-> q.receipt]
  BY <1>4
<1>6. /\ work.names = s.work.names /\ work.completed = s.work.completed \cup {a}
      /\ work = [names |-> work.names, completed |-> work.completed, complete |-> work.complete]
  BY <1>3
<1>7. WorkFits(q)
  BY <1>5, <1>6 DEF WorkFits
<1>8. PayloadFits(q)
  BY <1>2, <1>5, <1>7 DEF PayloadFits
<1> QED BY <1>5, <1>6, <1>7, <1>8 DEF q

LEMMA DecideKeeps ==
    ASSUME RunsFit, NEW w \in Enrichers, Decide(w)
    PROVE  RunsFit' /\ Progressed(payload, payload')
<1> DEFINE old == enricher[w]
           s == old.state
           a == Current(w)
           q == Decided(s, a)
<1>1. old.pc = "decide" /\ UNCHANGED lease /\ Checkpoint(w, q, "artist", old.left \ {a})
  BY DEF Decide
<1>2. /\ PayloadFits(s) /\ WorkFits(s) /\ old.left \subseteq s.work.names /\ old.left \subseteq Artists
      /\ a \in old.left /\ s.cache[a] # Absent
      /\ Holds(w) => s.cache = payload.cache /\ s.work = payload.work
  BY <1>1, AtWork
<1> HIDE DEF old, s, a
<1>3. /\ PayloadFits(q) /\ WorkFits(q) /\ q.cache = s.cache
      /\ q.work.names = s.work.names /\ s.work.completed \subseteq q.work.completed
  BY <1>2, DecidedFits
<1> HIDE DEF q
<1>4. RunsFit'
  BY <1>1, <1>2, <1>3, Checkpoints DEF Working
<1>5. payload' = q /\ Holds(w)
  BY <1>1 DEF Checkpoint
<1> QED BY <1>2, <1>3, <1>4, <1>5 DEF Progressed

LEMMA FinishKeeps ==
    ASSUME RunsFit, NEW w \in Enrichers, Finish(w)
    PROVE  RunsFit' /\ Progressed(payload, payload')
<1> DEFINE old == enricher[w]
           s == old.state
           complete == s.work.names \subseteq s.work.completed
           next == IF complete THEN clock + 1 ELSE 0
           work == [s.work EXCEPT !.complete = complete]
           q == [s EXCEPT !.work.complete = complete, !.nextRun = next]
<1>1. old.pc = "artist" /\ UNCHANGED lease /\ Checkpoint(w, q, "last", {})
  BY DEF Finish
<1>2. /\ PayloadFits(s) /\ WorkFits(s)
      /\ Holds(w) => s.cache = payload.cache /\ s.work = payload.work
  BY <1>1 DEF RunsFit, RunFits, Remembers, Enriching, Working
<1> HIDE DEF old
<1>3. work.names = s.work.names /\ work.completed = s.work.completed
      /\ work = [names |-> work.names, completed |-> work.completed, complete |-> work.complete]
  <2>1. work = [names |-> s.work.names, completed |-> s.work.completed, complete |-> complete]
    <3> HIDE DEF complete
    <3> QED BY <1>2 DEF WorkFits
  <2> HIDE DEF work
  <2> QED BY <2>1
<1>4. q = [profiles |-> s.profiles, cache |-> s.cache, reviews |-> s.reviews, day |-> s.day,
           work |-> work, nextRun |-> next, receipt |-> s.receipt]
  <2> DEFINE s1 == [s EXCEPT !.work = work]
  <2>1. q = [s1 EXCEPT !.nextRun = next]
    OBVIOUS
  <2> HIDE DEF work, next, q, s
  <2>2. s1 = [profiles |-> s.profiles, cache |-> s.cache, reviews |-> s.reviews, day |-> s.day,
              work |-> work, nextRun |-> s.nextRun, receipt |-> s.receipt]
    BY <1>2 DEF PayloadFits
  <2> HIDE DEF s1
  <2> QED BY <2>1, <2>2
<1> HIDE DEF q, work, next, s
<1>5. /\ q.profiles = s.profiles /\ q.cache = s.cache /\ q.work = work
      /\ q = [profiles |-> q.profiles, cache |-> q.cache, reviews |-> q.reviews, day |-> q.day,
              work |-> q.work, nextRun |-> q.nextRun, receipt |-> q.receipt]
  BY <1>4
<1>6. WorkFits(q) /\ PayloadFits(q)
  BY <1>2, <1>3, <1>5 DEF WorkFits, PayloadFits
<1>7. RunsFit'
  BY <1>1, <1>6, Checkpoints DEF Working
<1>8. payload' = q /\ Holds(w)
  BY <1>1 DEF Checkpoint
<1> QED BY <1>2, <1>3, <1>5, <1>7, <1>8 DEF Progressed

\* The run of the statistics, and the refreshing of the other: no record is kept of either.
LEMMA MovesOn ==
    ASSUME RunsFit, NEW w \in Enrichers, NEW m, enricher' = [enricher EXCEPT ![w] = m],
           UNCHANGED <<lease, payload>>, m.pc \notin Enriching, m.left \subseteq Artists,
           m = [pc |-> m.pc, state |-> m.state, names |-> m.names, left |-> m.left]
    PROVE  RunsFit' /\ Progressed(payload, payload')
<1>1. RunFits(m) /\ Remembers(m, payload)
  BY DEF RunFits, Remembers, Enriching, Working
<1> QED BY <1>1, RunThinks

LEMMA StatsKeep ==
    ASSUME RunsFit, known \subseteq Artists, NEW w \in Enrichers,
           StartStats(w) \/ Link(w) \/ StatsDone(w) \/ RefreshLinked(w)
    PROVE  RunsFit' /\ Progressed(payload, payload')
<1> DEFINE old == enricher[w]
           chosen == {a \in known : /\ VerifiedSpotify(artist[a]) # Absent \/ Resolution(a) # Absent
                                    /\ artist[a].stats # clock}
           c == Current(w)
<1>1. old = [pc |-> old.pc, state |-> old.state, names |-> old.names, left |-> old.left]
      /\ old.left \subseteq Artists
  BY DEF RunsFit, RunFits
<1>2. /\ UNCHANGED <<lease, payload>>
      /\ \/ enricher' = [enricher EXCEPT ![w] = [old EXCEPT !.pc = "link", !.state = Absent, !.left = chosen]]
         \/ enricher' = [enricher EXCEPT ![w] = [old EXCEPT !.pc = "stats"]]
         \/ enricher' = [enricher EXCEPT ![w] = [old EXCEPT !.pc = "release"]]
         \/ old.pc = "link" /\ enricher' = [enricher EXCEPT ![w] = [old EXCEPT !.left = old.left \ {c}]]
         \/ enricher' = [enricher EXCEPT ![w] = [old EXCEPT !.pc = "link", !.left = old.left \ {c}]]
  <2>1. CASE StartStats(w)
    BY <2>1 DEF StartStats
  <2>2. CASE Link(w)
    BY <2>2 DEF Link
  <2>3. CASE StatsDone(w)
    BY <2>3 DEF StatsDone
  <2>4. CASE RefreshLinked(w)
    BY <2>4 DEF RefreshLinked, RefreshStats
  <2> QED BY <2>1, <2>2, <2>3, <2>4
<1>3. chosen \subseteq Artists
  OBVIOUS
<1> HIDE DEF old, chosen, c
<1> DEFINE at(pc) == [old EXCEPT !.pc = pc]
<1>4. \A pc : at(pc) = [pc |-> pc, state |-> old.state, names |-> old.names, left |-> old.left]
  BY <1>1
<1>5. CASE enricher' = [enricher EXCEPT ![w] = [old EXCEPT !.pc = "link", !.state = Absent, !.left = chosen]]
  <2> DEFINE m == [pc |-> "link", state |-> Absent, names |-> old.names, left |-> chosen]
  <2>1. [old EXCEPT !.pc = "link", !.state = Absent, !.left = chosen] = Moved(old, "link", Absent, chosen)
    BY DEF Moved
  <2>2. [old EXCEPT !.pc = "link", !.state = Absent, !.left = chosen] = m
    BY <1>1, <2>1, RunChanged
  <2>3. m = [pc |-> m.pc, state |-> m.state, names |-> m.names, left |-> m.left]
        /\ m.pc = "link" /\ m.left = chosen
    OBVIOUS
  <2> HIDE DEF m
  <2> QED BY <1>2, <1>3, <1>5, <2>2, <2>3, MovesOn DEF Enriching
<1>6. ASSUME NEW pc \in {"stats", "release"}, enricher' = [enricher EXCEPT ![w] = at(pc)]
      PROVE  RunsFit' /\ Progressed(payload, payload')
  <2>1. at(pc).pc = pc /\ at(pc).left = old.left
        /\ at(pc) = [pc |-> at(pc).pc, state |-> at(pc).state, names |-> at(pc).names, left |-> at(pc).left]
    <3>1. at(pc) = [pc |-> pc, state |-> old.state, names |-> old.names, left |-> old.left]
      BY <1>4
    <3> HIDE DEF at
    <3> QED BY <3>1
  <2> HIDE DEF at
  <2> QED BY <1>1, <1>2, <1>6, <2>1, MovesOn DEF Enriching
<1>7. ASSUME NEW o \in {old, at("link")}, o.pc = "link",
             enricher' = [enricher EXCEPT ![w] = [o EXCEPT !.left = old.left \ {c}]]
      PROVE  RunsFit' /\ Progressed(payload, payload')
  <2> DEFINE m == [pc |-> "link", state |-> old.state, names |-> old.names, left |-> old.left \ {c}]
  <2>1. o = [pc |-> "link", state |-> old.state, names |-> old.names, left |-> old.left]
    <3>1. CASE o = old
      BY <1>1, <1>7, <3>1
    <3>2. CASE o = at("link")
      BY <1>4, <3>2
    <3> QED BY <3>1, <3>2
  <2>2. [o EXCEPT !.left = old.left \ {c}] = m
    BY <2>1
  <2>3. m = [pc |-> m.pc, state |-> m.state, names |-> m.names, left |-> m.left]
        /\ m.pc = "link" /\ m.left \subseteq Artists
    BY <1>1
  <2> HIDE DEF m
  <2> QED BY <1>2, <1>7, <2>2, <2>3, MovesOn DEF Enriching
<1>8. CASE enricher' = [enricher EXCEPT ![w] = [old EXCEPT !.pc = "link", !.left = old.left \ {c}]]
  <2>1. [old EXCEPT !.pc = "link", !.left = old.left \ {c}] = [at("link") EXCEPT !.left = old.left \ {c}]
    OBVIOUS
  <2>2. at("link").pc = "link"
    <3>1. at("link") = [pc |-> "link", state |-> old.state, names |-> old.names, left |-> old.left]
      BY <1>4
    <3> HIDE DEF at
    <3> QED BY <3>1
  <2> HIDE DEF at
  <2> QED BY <1>7, <1>8, <2>1, <2>2
<1> QED BY <1>2, <1>5, <1>6, <1>7, <1>8

LEMMA RefreshOneKeeps ==
    ASSUME RunsFit, NEW w \in Enrichers, RefreshOne(w)
    PROVE  RunsFit' /\ Progressed(payload, payload')
<1> DEFINE old == enricher[w]
           m == [pc |-> "search", state |-> old.state, names |-> old.names, left |-> old.left]
<1>1. /\ old.pc = "artist" /\ old.left # {} /\ UNCHANGED <<lease, payload>>
      /\ enricher' = [enricher EXCEPT ![w] = [old EXCEPT !.pc = "search", !.left = old.left \ {}]]
  BY DEF RefreshOne, RefreshStats
<1>2. RunFits(old) /\ (Holds(w) => Remembers(old, payload))
  BY DEF RunsFit
<1>3. [old EXCEPT !.pc = "search", !.left = old.left \ {}] = m
  <2> DEFINE o == [old EXCEPT !.pc = "search"]
  <2>1. [old EXCEPT !.pc = "search", !.left = old.left \ {}] = [o EXCEPT !.left = old.left \ {}]
    OBVIOUS
  <2> HIDE DEF old
  <2>2. o = m
    BY <1>2 DEF RunFits
  <2>3. old.left \ {} = old.left
    OBVIOUS
  <2> HIDE DEF o
  <2> QED BY <2>1, <2>2, <2>3
<1>4. m.pc = "search" /\ m.state = old.state /\ m.left = old.left
      /\ m = [pc |-> m.pc, state |-> m.state, names |-> m.names, left |-> m.left]
  OBVIOUS
<1> HIDE DEF m, old
<1>5. RunFits(m) /\ (Holds(w) => Remembers(m, payload))
  BY <1>1, <1>2, <1>4 DEF RunFits, Remembers, Enriching, Working
<1> QED BY <1>1, <1>3, <1>5, RunThinks DEF old

\* Steps that no run takes.
LEMMA OthersKeep ==
    ASSUME RunsFit, lease = [owner |-> lease.owner, live |-> lease.live],
           \/ Expire \/ Tick
           \/ \E a \in Artists : AddArtist(a) \/ \E f \in {"identity", "field"} : Protect(a, f)
           \/ \E a \in DOMAIN Relations : ResolveBase(a) \/ ResolveRelations(a) \/ ResolveFails(a)
    PROVE  RunsFit' /\ Progressed(payload, payload')
<1>1. UNCHANGED <<enricher, payload>>
      /\ (UNCHANGED lease \/ lease' = [lease EXCEPT !.live = FALSE])
  BY DEF Expire, Tick, AddArtist, Protect, ResolveBase, ResolveRelations, ResolveFails
<1>2. ASSUME NEW v \in Enrichers, Holds(v)' PROVE Holds(v)
  <2>1. CASE lease' = lease
    BY <1>2, <2>1 DEF Holds
  <2>2. CASE lease' = [lease EXCEPT !.live = FALSE]
    BY <1>2, <2>2 DEF Holds
  <2> QED BY <1>1, <2>1, <2>2
<1> QED BY <1>1, <1>2 DEF RunsFit, Progressed

-----------------------------------------------------------------------------
(* The rows of the artists.                                                  *)

\* What an artist is said to be is not touched.
LEMMA RowsKept ==
    ASSUME ArtistsFit, UNCHANGED resolver, artist' = [a \in Artists |-> artist'[a]],
           \A a \in Artists : /\ ArtistFits(artist'[a]) /\ artist'[a].mb = artist[a].mb
                              /\ artist'[a].spotify = artist[a].spotify
    PROVE  ArtistsFit'
<1>1. Backed(artist')
  BY DEF Backed, ArtistsFit
<1>2. ProvidersAgree'
  BY DEF ProvidersAgree, ArtistsFit
<1> QED BY <1>1, <1>2 DEF ArtistsFit

LEMMA StatsFit ==
    ASSUME ArtistsFit, UNCHANGED resolver, NEW a, NEW day,
           artist' = artist \/ artist' = [artist EXCEPT ![a].stats = day]
    PROVE  ArtistsFit'
<1>1. \A b \in Artists : artist'[b] = artist[b] \/ artist'[b] = [artist[b] EXCEPT !.stats = day]
  BY DEF ArtistsFit
<1>2. artist' = [b \in Artists |-> artist'[b]]
  BY DEF ArtistsFit
<1>3. ASSUME NEW b \in Artists
      PROVE  /\ ArtistFits(artist'[b]) /\ artist'[b].mb = artist[b].mb
             /\ artist'[b].spotify = artist[b].spotify
  <2> DEFINE r == artist[b]
             q == [r EXCEPT !.stats = day]
  <2>1. ArtistFits(r)
    BY DEF ArtistsFit
  <2> HIDE DEF r
  <2>2. q = [mb |-> r.mb, field |-> r.field, spotify |-> r.spotify, linked |-> r.linked,
             guarded |-> r.guarded, stats |-> day]
    BY <2>1 DEF ArtistFits
  <2> HIDE DEF q
  <2>3. ArtistFits(q) /\ q.mb = r.mb /\ q.spotify = r.spotify
    BY <2>1, <2>2 DEF ArtistFits
  <2> QED BY <1>1, <2>1, <2>3 DEF q, r
<1> QED BY <1>2, <1>3, RowsKept

LEMMA ProtectFits ==
    ASSUME ArtistsFit, NEW a \in Artists, NEW f, Protect(a, f)
    PROVE  ArtistsFit'
<1> DEFINE r == artist[a]
           guarded == r.guarded \cup {f}
           q == [r EXCEPT !.guarded = guarded]
<1>1. artist' = [artist EXCEPT ![a] = q] /\ UNCHANGED resolver
  BY DEF Protect
<1>2. ArtistFits(r)
  BY DEF ArtistsFit
<1> HIDE DEF r, guarded
<1>3. q = [mb |-> r.mb, field |-> r.field, spotify |-> r.spotify, linked |-> r.linked,
           guarded |-> guarded, stats |-> r.stats]
  BY <1>2 DEF ArtistFits
<1> HIDE DEF q
<1>4. ArtistFits(q) /\ q.mb = r.mb /\ q.spotify = r.spotify
  BY <1>2, <1>3 DEF ArtistFits
<1>5. artist' = [b \in Artists |-> artist'[b]] /\ artist'[a] = q
      /\ \A b \in Artists \ {a} : artist'[b] = artist[b]
  BY <1>1 DEF ArtistsFit
<1>6. ASSUME NEW b \in Artists
      PROVE  /\ ArtistFits(artist'[b]) /\ artist'[b].mb = artist[b].mb
             /\ artist'[b].spotify = artist[b].spotify
  <2>1. ArtistFits(artist[b])
    BY DEF ArtistsFit
  <2> QED BY <1>4, <1>5, <2>1 DEF r
<1> QED BY <1>1, <1>5, <1>6, RowsKept

LEMMA FilledIs ==
    ASSUME NEW was, ArtistFits(was), NEW id
    PROVE  LET q == Filled(was, id) IN
           ArtistFits(q) /\ q.mb = id /\ q.spotify = was.spotify /\ q.linked = was.linked
<1> DEFINE o == [was EXCEPT !.mb = id]
           field == IF was.field = Absent /\ "field" \notin was.guarded THEN id ELSE was.field
           q == Filled(was, id)
<1>1. o = [mb |-> id, field |-> was.field, spotify |-> was.spotify, linked |-> was.linked,
           guarded |-> was.guarded, stats |-> was.stats]
  BY DEF ArtistFits
<1>2. q = [o EXCEPT !.field = field]
  <2>1. o.field = was.field
    <3> HIDE DEF o
    <3> QED BY <1>1
  <2> QED BY <2>1 DEF Filled
<1> HIDE DEF o, field, q
<1>3. q = [mb |-> id, field |-> field, spotify |-> was.spotify, linked |-> was.linked,
           guarded |-> was.guarded, stats |-> was.stats]
  BY <1>1, <1>2
<1>4. /\ q.mb = id /\ q.spotify = was.spotify /\ q.linked = was.linked
      /\ q = [mb |-> q.mb, field |-> q.field, spotify |-> q.spotify, linked |-> q.linked,
              guarded |-> q.guarded, stats |-> q.stats]
  BY <1>3
<1> QED BY <1>4 DEF ArtistFits, q

\* Of several profiles of one identity the first gets it, and what an artist had it keeps.
LEMMA PublishedFits ==
    ASSUME ArtistsFit, PayloadFits(payload), artist' = Published(artist, payload), UNCHANGED resolver
    PROVE  ArtistsFit'
<1> DEFINE takes(a) == Accepted(artist, payload, a) /\ FirstOf(artist, payload, a)
           id(a) == payload.profiles[a]
<1>1. /\ artist' = [a \in Artists |-> artist'[a]]
      /\ \A a \in Artists : artist'[a] = IF takes(a) THEN Filled(artist[a], id(a)) ELSE artist[a]
  BY DEF Published
<1>2. ASSUME NEW a \in Artists
      PROVE  /\ ArtistFits(artist'[a]) /\ artist'[a].spotify = artist[a].spotify
             /\ artist'[a].mb = IF takes(a) THEN id(a) ELSE artist[a].mb
  <2>1. ArtistFits(artist[a])
    BY DEF ArtistsFit
  <2> HIDE DEF takes, id
  <2> QED BY <1>1, <2>1, FilledIs
<1>3. ASSUME NEW a \in Artists, takes(a)
      PROVE  /\ id(a) # Absent /\ \E found \in Answers[a] : Proves(found, id(a))
             /\ \A b \in Artists \ {a} : artist[b].mb # id(a)
             /\ artist[a].mb \in {Absent, id(a)}
             /\ artist[a].mb = Absent => artist[a].spotify = Absent
  <2>1. Accepted(artist, payload, a)
    BY <1>3
  <2>2. payload.cache[a] \in Answers[a]
    BY <2>1 DEF Accepted, Proves, PayloadFits
  <2>3. ArtistFits(artist[a])
    BY DEF ArtistsFit
  <2> QED BY <2>1, <2>2, <2>3 DEF Accepted, ArtistFits
<1>4. ASSUME NEW a \in Artists, NEW b \in Artists, takes(a), takes(b), id(a) = id(b)
      PROVE  a = b
  <2>1. Rank(a) <= Rank(b) /\ Rank(b) <= Rank(a)
    BY <1>4 DEF FirstOf
  <2>2. Rank(a) \in Nat /\ Rank(b) \in Nat /\ Order[Rank(a)] = a /\ Order[Rank(b)] = b
    BY RankIs
  <2>3. Rank(a) = Rank(b)
    BY <2>1, <2>2
  <2> QED BY <2>2, <2>3
<1> HIDE DEF takes, id
<1>5. Backed(artist')
  <2>1. SUFFICES ASSUME NEW a \in Artists, artist'[a].mb # Absent
        PROVE  /\ \E found \in Answers[a] : Proves(found, artist'[a].mb)
               /\ \A b \in Artists \ {a} : artist'[b].mb # artist'[a].mb
    BY DEF Backed
  <2>2. CASE takes(a)
    <3>1. artist'[a].mb = id(a)
      BY <1>2, <2>2
    <3>2. \A b \in Artists \ {a} : artist'[b].mb # id(a)
      BY <1>2, <1>3, <1>4, <2>2
    <3> QED BY <1>3, <2>2, <3>1, <3>2
  <2>3. CASE ~takes(a)
    <3>1. artist'[a].mb = artist[a].mb
      BY <1>2, <2>3
    <3>2. /\ \E found \in Answers[a] : Proves(found, artist[a].mb)
          /\ \A b \in Artists \ {a} : artist[b].mb # artist[a].mb
      BY <2>1, <3>1 DEF ArtistsFit, Backed
    <3>3. \A b \in Artists \ {a} : takes(b) => artist[a].mb # id(b)
      BY <1>3
    <3>4. \A b \in Artists \ {a} : artist'[b].mb # artist[a].mb
      BY <1>2, <3>2, <3>3
    <3> QED BY <3>1, <3>2, <3>4
  <2> QED BY <2>2, <2>3
<1>6. ProvidersAgree'
  <2>1. SUFFICES ASSUME NEW a \in Artists, artist'[a].spotify # Absent, artist'[a].mb # Absent
        PROVE  artist[a].mb = artist'[a].mb /\ artist[a].spotify = artist'[a].spotify
    BY DEF ProvidersAgree, ArtistsFit
  <2> QED BY <1>2, <1>3, <2>1
<1> QED BY <1>1, <1>2, <1>5, <1>6 DEF ArtistsFit

\* A link is a pair that the resolver found, and it contradicts no identity of the row.
LEMMA LinkFits ==
    ASSUME ArtistsFit, NEW a \in Artists, Linkable(a, Resolution(a)), UNCHANGED resolver,
           artist' = [artist EXCEPT ![a].spotify = Resolution(a).spotify, ![a].linked = TRUE]
    PROVE  ArtistsFit'
<1> DEFINE pair == Resolution(a)
           linked == resolver[a].linked
           r == artist[a]
           o == [r EXCEPT !.spotify = pair.spotify]
           yes == TRUE
           q == [o EXCEPT !.linked = yes]
<1>1. /\ a \in DOMAIN Relations /\ Cardinality(linked) = 1
      /\ pair = CHOOSE x \in linked : TRUE
  BY DEF Linkable, Resolution
<1>2. linked \in Relations[a] /\ pair \in linked
  <2>1. linked # {}
    <3>1. Cardinality({}) = 0
      BY FS_EmptySet
    <3> QED BY <1>1, <3>1
  <2>2. ResolverFits(a, resolver[a])
    BY <1>1 DEF ArtistsFit
  <2> QED BY <1>1, <2>1, <2>2 DEF ResolverFits
<1>3. pair.spotify # Absent /\ pair = [spotify |-> pair.spotify, mb |-> pair.mb]
  BY <1>1, <1>2, EnrichmentAssumption
<1>4. r.mb \in {Absent, pair.mb}
  BY DEF Linkable
<1>5. ArtistFits(r)
  BY DEF ArtistsFit
<1>6. artist' = [artist EXCEPT ![a] = q]
  OBVIOUS
<1> HIDE DEF pair, r, linked, yes
<1>7. o = [mb |-> r.mb, field |-> r.field, spotify |-> pair.spotify, linked |-> r.linked,
           guarded |-> r.guarded, stats |-> r.stats]
  BY <1>5 DEF ArtistFits
<1> HIDE DEF o
<1>8. q = [mb |-> r.mb, field |-> r.field, spotify |-> pair.spotify, linked |-> yes,
           guarded |-> r.guarded, stats |-> r.stats]
  BY <1>7
<1> HIDE DEF q
<1>9. ArtistFits(q) /\ q.mb = r.mb /\ q.spotify = pair.spotify
  BY <1>3, <1>5, <1>8 DEF ArtistFits, yes
<1>10. artist' = [b \in Artists |-> artist'[b]] /\ artist'[a] = q
       /\ \A b \in Artists \ {a} : artist'[b] = artist[b]
  BY <1>6 DEF ArtistsFit
<1>11. \A b \in Artists : ArtistFits(artist'[b]) /\ artist'[b].mb = artist[b].mb
  BY <1>9, <1>10 DEF ArtistsFit, r
<1>12. Backed(artist')
  BY <1>11 DEF Backed, ArtistsFit
<1>13. ProvidersAgree'
  <2>1. SUFFICES ASSUME NEW b \in Artists, artist'[b].spotify # Absent, artist'[b].mb # Absent
        PROVE  [spotify |-> artist'[b].spotify, mb |-> artist'[b].mb] \in resolver[b].linked
    BY DEF ProvidersAgree
  <2>2. CASE b = a
    <3>1. artist'[b].spotify = pair.spotify /\ artist'[b].mb = pair.mb
      BY <1>4, <1>9, <1>10, <2>1, <2>2
    <3> QED BY <1>2, <1>3, <2>2, <3>1 DEF linked
  <2>3. CASE b # a
    BY <1>10, <2>1, <2>3 DEF ProvidersAgree, ArtistsFit
  <2> QED BY <2>2, <2>3
<1>14. \A b \in Artists : artist'[b].spotify # Absent => b \in DOMAIN Relations
  BY <1>1, <1>10 DEF ArtistsFit
<1> QED BY <1>10, <1>11, <1>12, <1>13, <1>14 DEF ArtistsFit

\* Until its evidence is complete an artist has no link that could disagree with it.
LEMMA ResolverFitsNext ==
    ASSUME ArtistsFit, NEW a \in DOMAIN Relations, NEW r, ResolverFits(a, r),
           resolver[a].phase # "complete", resolver' = [resolver EXCEPT ![a] = r], UNCHANGED artist
    PROVE  ArtistsFit'
<1>1. resolver' = [b \in DOMAIN Relations |-> resolver'[b]] /\ resolver'[a] = r
      /\ \A b \in DOMAIN Relations \ {a} : resolver'[b] = resolver[b]
  BY DEF ArtistsFit
<1>2. resolver[a].linked = {}
  BY DEF ArtistsFit, ResolverFits
<1>3. \A b \in DOMAIN Relations : ResolverFits(b, resolver'[b])
  BY <1>1 DEF ArtistsFit
<1>4. ProvidersAgree'
  BY <1>1, <1>2 DEF ProvidersAgree, ArtistsFit
<1> QED BY <1>1, <1>3, <1>4 DEF ArtistsFit

LEMMA ResolveKeeps ==
    ASSUME ArtistsFit, NEW a \in DOMAIN Relations,
           ResolveBase(a) \/ ResolveRelations(a) \/ ResolveFails(a)
    PROVE  ArtistsFit'
<1>1. UNCHANGED artist
  BY DEF ResolveBase, ResolveRelations, ResolveFails
<1>2. CASE ResolveBase(a)
  <2>1. ResolveStep(a, "base", "relations", {})
    BY <1>2 DEF ResolveBase
  <2>2. ResolverFits(a, [phase |-> "relations", due |-> 0, linked |-> {}])
    BY DEF ResolverFits
  <2> QED BY <1>1, <2>1, <2>2, ResolverFitsNext DEF ResolveStep
<1>3. CASE ResolveRelations(a)
  <2>1. PICK found \in Relations[a] : ResolveStep(a, "relations", "complete", found)
    BY <1>3 DEF ResolveRelations
  <2>2. ResolverFits(a, [phase |-> "complete", due |-> 0, linked |-> found])
    BY DEF ResolverFits
  <2> QED BY <1>1, <2>1, <2>2, ResolverFitsNext DEF ResolveStep
<1>4. CASE ResolveFails(a)
  <2> DEFINE o == resolver[a]
             day == clock + 1
             r == [o EXCEPT !.due = day]
  <2>1. resolver' = [resolver EXCEPT ![a] = r] /\ o.phase # "complete"
    BY <1>4 DEF ResolveFails
  <2>2. ResolverFits(a, o)
    BY DEF ArtistsFit
  <2> HIDE DEF o, day
  <2>3. r = [phase |-> o.phase, due |-> day, linked |-> o.linked]
    BY <2>2 DEF ResolverFits
  <2> HIDE DEF r
  <2>4. ResolverFits(a, r)
    BY <2>2, <2>3 DEF ResolverFits
  <2> QED BY <1>1, <2>1, <2>4, ResolverFitsNext DEF o
<1> QED BY <1>2, <1>3, <1>4

-----------------------------------------------------------------------------
(* The invariant, and what follows from it.                                  *)

LEMMA EnrichmentStarts == EnrichmentInit => EnrichmentInv
<1> SUFFICES ASSUME EnrichmentInit PROVE EnrichmentInv
  OBVIOUS
<1>1. CountersFit
  <2>1. known \subseteq Artists /\ lease = [owner |-> Absent, live |-> FALSE]
    BY EnrichmentAssumption DEF EnrichmentInit
  <2>2. clock \in 0 .. MaxDays /\ crashes \in 0 .. MaxCrashes
    <3>1. MaxDays \in Nat /\ MaxCrashes \in Nat
      BY EnrichmentAssumption
    <3> QED BY <3>1 DEF EnrichmentInit
  <2>3. lease.owner = Absent /\ lease.live = FALSE
    BY <2>1
  <2> QED BY <2>1, <2>2, <2>3 DEF CountersFit
<1>2. PayloadFits(payload)
  <2> DEFINE p == payload
             e1 == [EmptyPayload EXCEPT !.profiles = p.profiles]
             e2 == [e1 EXCEPT !.reviews = p.reviews]
  <2>1. p.profiles = [a \in Artists |-> p.profiles[a]] /\ p = [e2 EXCEPT !.day = p.day]
    BY EnrichmentAssumption DEF EnrichmentInit
  <2> HIDE DEF p
  <2>2. e1 = [profiles |-> p.profiles, cache |-> NothingFound, reviews |-> {}, day |-> Absent,
              work |-> Absent, nextRun |-> 0, receipt |-> Absent]
    BY DEF EmptyPayload
  <2> HIDE DEF e1
  <2>3. e2 = [profiles |-> p.profiles, cache |-> NothingFound, reviews |-> p.reviews, day |-> Absent,
              work |-> Absent, nextRun |-> 0, receipt |-> Absent]
    BY <2>2
  <2> HIDE DEF e2
  <2> DEFINE reviews == p.reviews
             day == p.day
  <2>4. p = [e2 EXCEPT !.day = day]
    BY <2>1
  <2> HIDE DEF day
  <2>5. p = [profiles |-> p.profiles, cache |-> NothingFound, reviews |-> p.reviews, day |-> day,
             work |-> Absent, nextRun |-> 0, receipt |-> Absent]
    BY <2>3, <2>4
  <2>6. p.cache = NothingFound /\ p.work = Absent /\ p.nextRun = 0 /\ p.receipt = Absent /\ p.day = day
    BY <2>5
  <2> QED BY <2>1, <2>5, <2>6 DEF PayloadFits, NothingFound, p
<1>3. RunsFit
  <2>1. enricher = [w \in Enrichers |-> Idle]
    BY DEF EnrichmentInit
  <2> QED BY <1>2, <2>1, IdleFits DEF RunsFit
<1>4. ArtistsFit
  <2> DEFINE blank == [mb |-> Absent, field |-> Absent, spotify |-> Absent, linked |-> FALSE,
                       guarded |-> {}, stats |-> Absent]
             start == [phase |-> "base", due |-> 0, linked |-> {}]
  <2>1. artist = [a \in Artists |-> blank] /\ resolver = [a \in DOMAIN Relations |-> start]
    BY DEF EnrichmentInit
  <2>2. ArtistFits(blank) /\ blank.mb = Absent /\ blank.spotify = Absent
    BY DEF ArtistFits
  <2>3. \A a : ResolverFits(a, start)
    BY DEF ResolverFits
  <2> HIDE DEF blank, start
  <2> QED BY <2>1, <2>2, <2>3 DEF ArtistsFit, Backed, ProvidersAgree
<1> QED BY <1>1, <1>3, <1>4 DEF EnrichmentInv

\* The bounds and the lease.
LEMMA CountersKept ==
    ASSUME EnrichmentInv, EnrichmentNext
    PROVE  CountersFit'
<1>0. /\ known \subseteq Artists /\ clock \in 0 .. MaxDays /\ crashes \in 0 .. MaxCrashes
      /\ lease = [owner |-> lease.owner, live |-> lease.live]
      /\ lease.owner \in Enrichers \cup {Absent, Dead} /\ lease.live \in BOOLEAN
      /\ MaxDays \in Nat /\ MaxCrashes \in Nat
  BY EnrichmentAssumption DEF EnrichmentInv, CountersFit
<1>1. known' \subseteq Artists
  BY <1>0 DEF EnrichmentNext, ClaimEnrichment, ClaimStats, Run, Crash, Expire, Tick, AddArtist, Protect,
     ResolveBase, ResolveRelations, ResolveFails, PublishFirst, PublishLast, PublishRow, Begin, RefreshOne,
     Search, Decide, Finish, StartStats, Link, RefreshLinked, RefreshStats, StatsDone, Lost, ReleaseLease
<1>2. clock' \in 0 .. MaxDays
  <2>1. clock' = clock \/ (clock < MaxDays /\ clock' = clock + 1)
    BY DEF EnrichmentNext, ClaimEnrichment, ClaimStats, Run, Crash, Expire, Tick, AddArtist, Protect,
       ResolveBase, ResolveRelations, ResolveFails, PublishFirst, PublishLast, PublishRow, Begin, RefreshOne,
       Search, Decide, Finish, StartStats, Link, RefreshLinked, RefreshStats, StatsDone, Lost, ReleaseLease
  <2> QED BY <1>0, <2>1
<1>3. crashes' \in 0 .. MaxCrashes
  <2>1. crashes' = crashes \/ Mishap
    BY DEF EnrichmentNext, ClaimEnrichment, ClaimStats, Run, Crash, Expire, Tick, AddArtist, Protect,
       ResolveBase, ResolveRelations, ResolveFails, PublishFirst, PublishLast, PublishRow, Begin, RefreshOne,
       Search, Decide, Finish, StartStats, Link, RefreshLinked, RefreshStats, StatsDone, Lost, ReleaseLease
  <2> QED BY <1>0, <2>1 DEF Mishap
<1>4. \/ lease' = lease \/ lease' = [lease EXCEPT !.owner = Dead] \/ lease' = [lease EXCEPT !.live = FALSE]
      \/ lease' = [owner |-> Absent, live |-> FALSE]
      \/ \E w \in Enrichers : lease' = [owner |-> w, live |-> TRUE]
  BY DEF EnrichmentNext, ClaimEnrichment, ClaimStats, ClaimLease, Run, Crash, Expire, Tick, AddArtist,
     Protect, ResolveBase, ResolveRelations, ResolveFails, PublishFirst, PublishLast, PublishRow, Begin,
     RefreshOne, Search, Decide, Finish, StartStats, Link, RefreshLinked, RefreshStats, StatsDone, Lost,
     ReleaseLease
<1>5. /\ lease' = [owner |-> lease'.owner, live |-> lease'.live]
      /\ lease'.owner \in Enrichers \cup {Absent, Dead} /\ lease'.live \in BOOLEAN
  <2> DEFINE live == lease.live
  <2>1. CASE lease' = lease
    BY <1>0, <2>1
  <2>2. CASE lease' = [lease EXCEPT !.owner = Dead]
    <3> HIDE DEF live
    <3>1. lease' = [owner |-> Dead, live |-> lease.live]
      BY <1>0, <2>2
    <3> QED BY <1>0, <3>1
  <2>3. CASE lease' = [lease EXCEPT !.live = FALSE]
    <3> DEFINE no == FALSE
    <3>1. lease' = [lease EXCEPT !.live = no] /\ no \in BOOLEAN
      BY <2>3
    <3> HIDE DEF no
    <3>2. lease' = [owner |-> lease.owner, live |-> no]
      BY <1>0, <3>1
    <3> QED BY <1>0, <3>1, <3>2
  <2>4. CASE lease' = [owner |-> Absent, live |-> FALSE]
    BY <2>4
  <2>5. CASE \E w \in Enrichers : lease' = [owner |-> w, live |-> TRUE]
    BY <2>5
  <2> QED BY <1>4, <2>1, <2>2, <2>3, <2>4, <2>5
<1> QED BY <1>1, <1>2, <1>3, <1>5 DEF CountersFit

LEMMA EnrichmentKept ==
    ASSUME EnrichmentInv, EnrichmentNext
    PROVE  EnrichmentInv' /\ Progressed(payload, payload')
<1>0. /\ RunsFit /\ ArtistsFit /\ known \subseteq Artists
      /\ lease = [owner |-> lease.owner, live |-> lease.live]
  BY DEF EnrichmentInv, CountersFit
<1>1. RunsFit' /\ Progressed(payload, payload')
  <2>1. ASSUME NEW w \in Enrichers, ClaimEnrichment(w) \/ ClaimStats(w) \/ Run(w) \/ Crash(w)
        PROVE  RunsFit' /\ Progressed(payload, payload')
    BY <1>0, <2>1, ClaimKeeps, EndKeeps, PublishRowKeeps, BeginKeeps, SearchKeeps, DecideKeeps,
       FinishKeeps, StatsKeep, RefreshOneKeeps DEF Run
  <2> QED BY <1>0, <2>1, OthersKeep DEF EnrichmentNext
<1>2. ArtistsFit'
  <2>1. ASSUME NEW w \in Enrichers, PublishFirst(w) \/ PublishLast(w) PROVE ArtistsFit'
    <3>1. UNCHANGED resolver /\ (UNCHANGED artist \/ artist' = Published(artist, payload))
      BY <2>1 DEF PublishFirst, PublishLast, PublishRow
    <3>2. CASE artist' = Published(artist, payload)
      BY <1>0, <3>1, <3>2, PublishedFits DEF RunsFit
    <3>3. CASE UNCHANGED artist
      BY <1>0, <3>1, <3>3, StatsFit
    <3> QED BY <3>1, <3>2, <3>3
  <2>2. ASSUME NEW w \in Enrichers, RefreshOne(w) \/ RefreshLinked(w) PROVE ArtistsFit'
    <3>1. UNCHANGED resolver /\ (artist' = artist \/ artist' = Refreshed(artist, Current(w)))
      BY <2>2 DEF RefreshOne, RefreshLinked, RefreshStats
    <3> QED BY <1>0, <3>1, StatsFit DEF Refreshed
  <2>3. ASSUME NEW w \in Enrichers, Link(w) PROVE ArtistsFit'
    <3> DEFINE a == Current(w)
    <3>1. UNCHANGED resolver /\ enricher[w].left # {} /\
          \/ UNCHANGED artist
          \/ /\ Linkable(a, Resolution(a))
             /\ artist' = [artist EXCEPT ![a].spotify = Resolution(a).spotify, ![a].linked = TRUE]
      BY <2>3 DEF Link
    <3>2. a \in Artists
      BY <1>0, <3>1, CurrentIs DEF RunsFit, RunFits
    <3> HIDE DEF a
    <3> QED BY <1>0, <3>1, <3>2, LinkFits, StatsFit
  <2>4. ASSUME NEW a \in Artists, NEW f \in {"identity", "field"}, Protect(a, f) PROVE ArtistsFit'
    BY <1>0, <2>4, ProtectFits
  <2>5. ASSUME NEW a \in DOMAIN Relations, ResolveBase(a) \/ ResolveRelations(a) \/ ResolveFails(a)
        PROVE  ArtistsFit'
    BY <1>0, <2>5, ResolveKeeps
  <2>6. ASSUME UNCHANGED <<artist, resolver>> PROVE ArtistsFit'
    BY <1>0, <2>6, StatsFit
  <2>7. ASSUME NEW w \in Enrichers,
               \/ ClaimEnrichment(w) \/ ClaimStats(w) \/ Crash(w) \/ Begin(w) \/ Search(w) \/ Decide(w)
               \/ Finish(w) \/ StartStats(w) \/ StatsDone(w) \/ Lost(w) \/ ReleaseLease(w)
        PROVE  UNCHANGED <<artist, resolver>>
    BY <2>7 DEF ClaimEnrichment, ClaimStats, Crash, Begin, Search, Decide, Finish, StartStats, StatsDone,
       Lost, ReleaseLease
  <2>8. ASSUME Expire \/ Tick \/ \E a \in Artists : AddArtist(a) PROVE UNCHANGED <<artist, resolver>>
    BY <2>8 DEF Expire, Tick, AddArtist
  <2> QED BY <2>1, <2>2, <2>3, <2>4, <2>5, <2>6, <2>7, <2>8 DEF EnrichmentNext, Run
<1> QED BY <1>1, <1>2, CountersKept DEF EnrichmentInv

LEMMA EnrichmentStutters ==
    ASSUME EnrichmentInv, UNCHANGED enrichmentVars
    PROVE  EnrichmentInv' /\ Progressed(payload, payload')
<1>1. \A w \in Enrichers : Holds(w)' <=> Holds(w)
  BY DEF Holds, enrichmentVars
<1>2. CountersFit' /\ RunsFit'
  BY <1>1 DEF EnrichmentInv, CountersFit, RunsFit, enrichmentVars
<1>3. ArtistsFit'
  BY StatsFit DEF EnrichmentInv, enrichmentVars
<1> QED BY <1>2, <1>3 DEF EnrichmentInv, Progressed, enrichmentVars

\* The payload, the runs and the rows fit, in every state of every execution.
THEOREM EnrichmentInvariance == EnrichmentSpec => []EnrichmentInv
<1>1. EnrichmentInv /\ [EnrichmentNext]_enrichmentVars => EnrichmentInv'
  BY EnrichmentKept, EnrichmentStutters
<1> QED BY <1>1, EnrichmentStarts, PTL DEF EnrichmentSpec

\* An identity is published only out of a complete answer of the provider with
\* this one candidate, no two artists get the same one, and the two providers of
\* an artist name a pair the resolver linked, whatever runs died between a
\* request and its publication (artist-enrichment-publication.ts,
\* spotify-identity-publication.ts).
THEOREM IdentitiesAreSound == EnrichmentSpec => []IdentitiesSound
<1>1. EnrichmentInv => IdentitiesSound
  <2> SUFFICES ASSUME EnrichmentInv PROVE IdentitiesSound
    OBVIOUS
  <2>1. EnrichmentTyped
    BY DEF EnrichmentInv, EnrichmentTyped, CountersFit, RunsFit, PayloadFits, WorkFits, ArtistsFit, ArtistFits
  <2> QED BY <2>1 DEF EnrichmentInv, ArtistsFit, Backed, IdentitiesSound, IdentityBacked
<1> QED BY <1>1, EnrichmentInvariance, PTL

\* What a run has done over one catalogue is done: no later write of the row,
\* by whatever run, forgets a search or a decision of it (enrich-artists.mjs).
THEOREM ProgressIsKept == EnrichmentSpec => ProgressKept
<1>1. EnrichmentInv /\ [EnrichmentNext]_enrichmentVars => Progressed(payload, payload')
  BY EnrichmentKept, EnrichmentStutters
<1>2. EnrichmentInv /\ [EnrichmentNext]_enrichmentVars =>
        [payload.work # Absent /\ payload'.work # Absent /\ ~payload.work.complete
         /\ payload.work.names = payload'.work.names =>
           /\ payload.work.completed \subseteq payload'.work.completed
           /\ \A a \in Artists : payload.cache[a] # Absent => payload'.cache[a] = payload.cache[a]]_enrichmentVars
  BY <1>1 DEF Progressed
<1> QED BY <1>2, EnrichmentInvariance, PTL DEF EnrichmentSpec, ProgressKept
=============================================================================
