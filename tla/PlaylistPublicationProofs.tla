--------------------- MODULE PlaylistPublicationProofs ---------------------
(***************************************************************************)
(* Proofs about PlaylistPublication, for every number of jobs, editions,   *)
(* playlists and attempts and every history of bindings: an edition has    *)
(* one playlist.  What makes a second creation impossible is the intent    *)
(* that is committed before the request: only the transaction that writes  *)
(* the first intent of an edition leads to a request, and by then nothing  *)
(* was created for the edition nor bound to it.                            *)
(*                                                                         *)
(* The second part adds the lease: who holds it and has the newest plan is *)
(* the only one to write, unless a request outlives its sender.            *)
(*                                                                         *)
(* The third part is about YoutubePlaylist.                                *)
(***************************************************************************)
EXTENDS Playlists, FiniteSetTheorems, WellFoundedInduction, TLAPS

\* The steps at which a run has a marker, is without playlist, writes, has a plan, creates.
Marked == {"discover", "reserve", "guardCreate", "create", "verify"}
Unbound == Marked \cup {"intent"}
Writing == {"read", "guardWrite", "write", "readBack", "checkpoint", "commit"}
Planned == {"check"} \cup Unbound \cup Writing
Making == {"guardCreate", "create"}

QueueTyped ==
    /\ holder \in [{Festival} -> Jobs \cup {None}]
    /\ live \in [{Festival} -> BOOLEAN]
    /\ attempts \in [Jobs -> Nat]
    /\ done \subseteq Jobs

\* The playlist an edition may be bound to: the one it had, or the one made for it.
Own(e, p) ==
    /\ p \in Ids /\ playlists[p] # None
    /\ IF Prebound[e] # None THEN p = Prebound[e] ELSE p \in Created(e)

HasIntent(e) == \E k \in Jobs : EditionOf[k] = e /\ intent[k] # None
MayCreate(e) == Created(e) = {} /\ HasIntent(e) /\ Prebound[e] = None

\* What the record m of run h says.
Sound(h, m) ==
    /\ m.marker # None => EditionOf[m.marker] = EditionOfRun(h)
    /\ m.pc \in Marked => m.marker # None
    /\ m.pc \in Unbound => m.url = None
    /\ m.url # None => Own(EditionOfRun(h), m.url)
    /\ m.pc \in Writing => Own(EditionOfRun(h), m.id)
    /\ m.pc \in Planned => plan[JobOf(h)] # None /\ m.tracks = plan[JobOf(h)].tracks
    /\ m.pc \in Making => MayCreate(EditionOfRun(h))

RunsSound == \A h \in Runs : Sound(h, run[h])

IntentsSound ==
    \A k \in Jobs : intent[k] # None =>
        /\ intent[k].sent
        /\ EditionOf[intent[k].marker] = EditionOf[k]
        /\ intent[k].id # None => intent[k].id \in Created(EditionOf[k])

OldKept ==
    \A e \in Editions : Prebound[e] # None =>
        playlists[Prebound[e]] # None /\ playlists[Prebound[e]].marker = None

OneMaker ==
    \A g, h \in Runs :
        run[g].pc \in Making /\ run[h].pc \in Making /\ EditionOfRun(g) = EditionOfRun(h) => g = h

OneMade ==
    \A e \in Editions : /\ \A p, q \in Created(e) : p = q
                        /\ Created(e) # {} => HasIntent(e) /\ Prebound[e] = None

IInv == /\ TypeOK /\ QueueTyped /\ RunsSound /\ IntentsSound
        /\ OldKept /\ BoundToOwn /\ OneMaker /\ OneMade

-----------------------------------------------------------------------------
LEMMA Oldest ==
    ASSUME NEW T \in SUBSET Nat, T # {}
    PROVE  \E k \in T : \A i \in T : k <= i
<1>1. PICK k \in T : \A i \in T : ~(<<i, k>> \in OpToRel(<, Nat))
  BY NatLessThanWellFounded, WFMin, Zenon
<1>2. \A i \in T : ~(i < k)
  BY <1>1, Zenon DEF OpToRel
<1> QED BY <1>2

\* The case at hand.
LEMMA PastTyped ==
    ASSUME past \in Pasts
    PROVE  EditionOf \in [Jobs -> Editions] /\ Prebound \in [Editions -> Ids \cup {None}]
  BY PublicationAssumption DEF EditionOf, Prebound

LEMMA RunTyped ==
    ASSUME NEW h \in Runs
    PROVE  JobOf(h) \in Jobs /\ h[2] \in 1..MaxAttempts /\ h = <<JobOf(h), h[2]>>
  BY DEF Runs, JobOf

\* The intent of a job's edition is one of its rows' or a new one.
LEMMA IntentOfSound ==
    ASSUME TypeOK, IntentsSound, NEW j \in Jobs
    PROVE  /\ IntentOf(j) \in Intent
           /\ EditionOf[IntentOf(j).marker] = EditionOf[j]
           /\ IntentOf(j).id # None => IntentOf(j).id \in Created(EditionOf[j])
           /\ IntentOf(j).sent <=> HasIntent(EditionOf[j])
<1> DEFINE rows == {k \in Jobs : EditionOf[k] = EditionOf[j] /\ intent[k] # None}
           new == [marker |-> j, sent |-> FALSE, id |-> None]
<1>1. rows = {} <=> ~HasIntent(EditionOf[j])
  BY DEF HasIntent
<1>2. CASE rows = {}
  <2>1. IntentOf(j) = new
    BY <1>2 DEF IntentOf
  <2>2. new \in Intent /\ new.marker = j /\ new.id = None /\ ~new.sent
    BY DEF Intent
  <2> QED BY <1>1, <1>2, <2>1, <2>2
<1>3. CASE rows # {}
  <2>1. \E k \in rows : \A i \in rows : k <= i
    BY <1>3, Oldest, PublicationAssumption
  <2>2. PICK k \in rows : IntentOf(j) = intent[k]
    BY <1>3, <2>1 DEF IntentOf
  <2>3. k \in Jobs /\ EditionOf[k] = EditionOf[j] /\ intent[k] # None
    OBVIOUS
  <2>4. intent[k] \in Intent
    BY <2>3 DEF TypeOK
  <2>5. /\ intent[k].sent
        /\ EditionOf[intent[k].marker] = EditionOf[k]
        /\ intent[k].id # None => intent[k].id \in Created(EditionOf[k])
    BY <2>3 DEF IntentsSound
  <2> QED BY <1>1, <1>3, <2>2, <2>3, <2>4, <2>5
<1> QED BY <1>2, <1>3

\* An edition that is bound is bound to a playlist of its own.
LEMMA BindingOwn ==
    ASSUME TypeOK, OldKept, BoundToOwn, NEW e \in Editions
    PROVE  /\ binding[e] # None => Own(e, binding[e])
           /\ binding[e] = None => Prebound[e] = None
<1>1. binding[e] \in Ids \cup {None} /\ Prebound[e] \in Ids \cup {None}
  BY PastTyped DEF TypeOK
<1> QED BY <1>1 DEF OldKept, BoundToOwn, Own, Created

LEMMA InitInv == Init => IInv
<1> SUFFICES ASSUME Init PROVE IInv
  OBVIOUS
<1>1. past \in Pasts /\ EditionOf \in [Jobs -> Editions]
      /\ Prebound \in [Editions -> Ids \cup {None}]
  BY PastTyped DEF Init
<1>2. QueueTyped
  BY DEF Init, Queue!Init, QueueTyped
<1>3. Fresh \in Run /\ Fresh.pc = "idle" /\ Fresh.url = None /\ Fresh.marker = None
  BY PublicationAssumption DEF Fresh, Run, Pcs
<1>4. [marker |-> None, items |-> <<>>] \in Playlist
  BY DEF Playlist
<1>5. /\ playlists \in [Ids -> Playlist \cup {None}]
      /\ \A p \in Ids : playlists[p] # None => playlists[p].marker = None
      /\ \A e \in Editions : Prebound[e] # None => playlists[Prebound[e]] # None
  BY <1>1, <1>4, NoneAssumption DEF Init
<1>6. \A e \in Editions : Created(e) = {}
  BY <1>5 DEF Created
<1>7. TypeOK
  BY <1>1, <1>3, <1>5 DEF TypeOK, Init
<1>8. RunsSound /\ OneMaker
  <2>1. \A h \in Runs : run[h] = Fresh
    BY DEF Init
  <2>2. \A h : Sound(h, Fresh) /\ Fresh.pc \notin Making
    BY <1>3 DEF Sound, Marked, Unbound, Writing, Planned, Making
  <2> QED BY <2>1, <2>2, Zenon DEF RunsSound, OneMaker
<1>9. IntentsSound /\ OldKept /\ BoundToOwn /\ OneMade
  BY <1>1, <1>5, <1>6 DEF Init, IntentsSound, OldKept, BoundToOwn, OneMade
<1> QED BY <1>2, <1>7, <1>8, <1>9 DEF IInv

-----------------------------------------------------------------------------
\* What no step takes back: plans and intents are kept, playlists and their markers too.
Grows ==
    /\ past' = past
    /\ \A k \in Jobs : plan[k] # None => plan'[k] # None /\ plan'[k].tracks = plan[k].tracks
    /\ \A k \in Jobs : intent[k] # None => intent'[k] # None
    /\ \A p \in Ids : playlists[p] # None =>
          playlists'[p] # None /\ playlists'[p].marker = playlists[p].marker

LEMMA OwnKept ==
    ASSUME Grows
    PROVE  /\ \A e : HasIntent(e) => HasIntent(e)'
           /\ \A e, p : p \in Created(e) => p \in Created(e)'
           /\ \A e, p : Own(e, p) => Own(e, p)'
<1>1. \A e : HasIntent(e) => HasIntent(e)'
  BY DEF Grows, HasIntent, EditionOf
<1>2. \A e, p : p \in Created(e) => p \in Created(e)'
  BY DEF Grows, Created, EditionOf
<1>3. \A e, p : Own(e, p) => Own(e, p)'
  BY <1>2 DEF Grows, Own, Prebound
<1> QED BY <1>1, <1>2, <1>3

LEMMA SoundKept ==
    ASSUME Grows, NEW h \in Runs, NEW m, Sound(h, m),
           m.pc \in Making => Created(EditionOfRun(h))' = {}
    PROVE  Sound(h, m)'
<1>1. EditionOfRun(h)' = EditionOfRun(h) /\ EditionOf' = EditionOf /\ Prebound' = Prebound
  BY DEF Grows, EditionOfRun, EditionOf, Prebound
<1>2. m.marker # None => EditionOf'[m.marker] = EditionOfRun(h)'
  BY <1>1 DEF Sound
<1>3. (m.pc \in Marked => m.marker # None) /\ (m.pc \in Unbound => m.url = None)
  BY DEF Sound
<1>4. (m.url # None => Own(EditionOfRun(h), m.url)') /\ (m.pc \in Writing => Own(EditionOfRun(h), m.id)')
  BY <1>1, OwnKept DEF Sound
<1>5. m.pc \in Planned => plan'[JobOf(h)] # None /\ m.tracks = plan'[JobOf(h)].tracks
  BY RunTyped DEF Sound, Grows
<1>6. m.pc \in Making => MayCreate(EditionOfRun(h))'
  BY <1>1, OwnKept DEF Sound, MayCreate
<1> QED BY <1>2, <1>3, <1>4, <1>5, <1>6 DEF Sound

\* The steps of run h that create nothing.
LEMMA RunMoves ==
    ASSUME IInv, Grows, TypeOK', QueueTyped', IntentsSound', BoundToOwn',
           \A e : Created(e)' = Created(e),
           NEW h \in Runs, \A g \in Runs \ {h} : run'[g] = run[g],
           Sound(h, run[h])', run'[h].pc \in Making => run[h].pc \in Making
    PROVE  IInv'
<1>1. EditionOf' = EditionOf /\ Prebound' = Prebound /\ \A g : EditionOfRun(g)' = EditionOfRun(g)
  BY DEF Grows, EditionOfRun, EditionOf, Prebound
<1>2. RunsSound'
  <2> SUFFICES ASSUME NEW g \in Runs PROVE Sound(g, run[g])'
    BY DEF RunsSound
  <2>1. CASE g = h
    BY <2>1
  <2>2. CASE g # h
    <3>1. PICK m : m = run[g]
      OBVIOUS
    <3>2. Sound(g, m) /\ run'[g] = m
      BY <2>2, <3>1 DEF IInv, RunsSound
    <3>3. m.pc \in Making => Created(EditionOfRun(g))' = {}
      BY <1>1, <3>2 DEF Sound, MayCreate
    <3> QED BY <3>2, <3>3, SoundKept
  <2> QED BY <2>1, <2>2
<1>3. OldKept'
  BY <1>1, PastTyped DEF IInv, TypeOK, OldKept, Grows
<1>4. \A g \in Runs : run'[g].pc \in Making => run[g].pc \in Making
  BY DEF IInv
<1>5. OneMaker'
  BY <1>1, <1>4 DEF IInv, OneMaker
<1>6. OneMade'
  BY <1>1, OwnKept DEF IInv, OneMade
<1> QED BY <1>2, <1>3, <1>5, <1>6 DEF IInv
\* The steps of run h that change nothing but its record.
LEMMA RecordMoves ==
    ASSUME IInv, past' = past, UNCHANGED <<plan, intent, binding, playlists>>,
           QueueTyped', late' \in BOOLEAN,
           NEW h \in Runs, NEW m \in Run, run' = [run EXCEPT ![h] = m],
           Sound(h, m), m.pc \in Making => run[h].pc \in Making
    PROVE  IInv'
<1>1. Grows
  BY DEF Grows
<1>2. EditionOf' = EditionOf /\ Prebound' = Prebound
  BY DEF EditionOf, Prebound
<1>3. \A e : Created(e)' = Created(e)
  BY <1>2 DEF Created
<1>4. run' \in [Runs -> Run] /\ run'[h] = m /\ \A g \in Runs \ {h} : run'[g] = run[g]
  BY DEF IInv, TypeOK
<1>5. TypeOK'
  BY <1>4 DEF IInv, TypeOK
<1>6. BoundToOwn' /\ IntentsSound'
  BY <1>2, <1>3 DEF IInv, BoundToOwn, IntentsSound
<1>7. m.pc \in Making => Created(EditionOfRun(h))' = {}
  BY <1>2, <1>3 DEF Sound, MayCreate, EditionOfRun
<1>8. Sound(h, m)'
  BY <1>1, <1>7, SoundKept
<1>9. Sound(h, run[h])'
  BY <1>4, <1>8
<1> QED BY <1>1, <1>3, <1>4, <1>5, <1>6, <1>9, RunMoves

LEMMA QueueKept == ASSUME QueueTyped, UNCHANGED queueVars PROVE QueueTyped'
  BY DEF QueueTyped, queueVars

LEMMA QueueReleases ==
    ASSUME QueueTyped, NEW j \in Jobs, Queue!Release(j) PROVE QueueTyped'
  BY DEF QueueTyped, Queue!Release

\* The same for a run that only goes on, to a step that asks no more of it.
LEMMA Continues ==
    ASSUME IInv, past' = past, UNCHANGED <<plan, intent, binding, playlists>>,
           QueueTyped', late' \in BOOLEAN,
           NEW h \in Runs, NEW pc \in Pcs, Goes(h, pc),
           pc \in Marked => run[h].pc \in Marked,
           pc \in Unbound => run[h].pc \in Unbound,
           pc \in Writing => run[h].pc \in Writing,
           pc \in Planned => run[h].pc \in Planned,
           pc \in Making => run[h].pc \in Making
    PROVE  IInv'
<1> DEFINE m == [run[h] EXCEPT !.pc = pc]
<1>1. run[h] \in Run /\ Sound(h, run[h])
  BY DEF IInv, TypeOK, RunsSound
<1>2. m \in Run /\ m.pc = pc /\ m.url = run[h].url /\ m.marker = run[h].marker
      /\ m.id = run[h].id /\ m.tracks = run[h].tracks
  BY <1>1 DEF Run
<1>3. run' = [run EXCEPT ![h] = m]
  BY DEF Goes
<1>4. Sound(h, m)
  BY <1>1, <1>2 DEF Sound
<1> HIDE DEF m
<1> QED BY <1>2, <1>3, <1>4, RecordMoves

LEMMA Sets ==
    /\ Pcs \subseteq Planned \cup {"idle", "snapshot", "plan", "broken", "dead", "finished"}
    /\ Making \subseteq Marked /\ Marked \subseteq Unbound /\ Unbound \subseteq Planned
    /\ Writing \subseteq Planned /\ Planned \subseteq Pcs
    /\ Writing \cap Unbound = {}
  BY DEF Pcs, Planned, Marked, Unbound, Writing, Making
-----------------------------------------------------------------------------
\* One lemma per kind of step.

LEMMA SnapshotInv ==
    ASSUME IInv, past' = past, NEW h \in Runs, Snapshot(h) PROVE IInv'
<1> DEFINE e == EditionOfRun(h)
           m == [run[h] EXCEPT !.url = binding[e], !.pc = "plan"]
<1>1. run[h] \in Run /\ Sound(h, run[h]) /\ late \in BOOLEAN
  BY DEF IInv, TypeOK, RunsSound
<1>2. e \in Editions
  BY PastTyped, RunTyped DEF IInv, TypeOK, EditionOfRun
<1>3. binding[e] \in Ids \cup {None} /\ (binding[e] # None => Own(e, binding[e]))
  BY <1>2, BindingOwn DEF IInv, TypeOK
<1>4. m \in Run /\ m.pc = "plan" /\ m.url = binding[e] /\ m.marker = run[h].marker
  BY <1>1, <1>3 DEF Run, Pcs
<1>5. run' = [run EXCEPT ![h] = m]
  BY DEF Snapshot
<1>6. Sound(h, m) /\ m.pc \notin Making
  BY <1>1, <1>3, <1>4 DEF Sound, Marked, Unbound, Writing, Planned, Making
<1>7. QueueTyped'
  BY QueueKept DEF Snapshot, IInv
<1> HIDE DEF m
<1> QED BY <1>1, <1>4, <1>5, <1>6, <1>7, RecordMoves DEF Snapshot

LEMMA StagePlanInv ==
    ASSUME IInv, past' = past, NEW h \in Runs, StagePlan(h) PROVE IInv'
<1> DEFINE j == JobOf(h)
           p == IF plan[j] = None THEN [url |-> run[h].url, tracks |-> h] ELSE plan[j]
           m == [run[h] EXCEPT !.planUrl = p.url, !.tracks = p.tracks, !.pc = "check"]
<1>1. run[h] \in Run /\ Sound(h, run[h]) /\ late \in BOOLEAN /\ j \in Jobs
  BY RunTyped DEF IInv, TypeOK, RunsSound
<1>2. [url |-> run[h].url, tracks |-> h] \in Plan /\ plan[j] \in Plan \cup {None}
  BY <1>1 DEF IInv, TypeOK, Plan, Run
<1>3. p \in Plan /\ p # None
  BY <1>2, NoneAssumption
<1>4. plan' = [plan EXCEPT ![j] = p] /\ run' = [run EXCEPT ![h] = m]
  BY DEF StagePlan
<1>5. plan[j] # None => p = plan[j]
  OBVIOUS
<1> HIDE DEF p
<1>6. m \in Run /\ m.pc = "check" /\ m.url = run[h].url /\ m.marker = run[h].marker
      /\ m.tracks = p.tracks
  BY <1>1, <1>3 DEF Run, Pcs, Plan
<1> HIDE DEF m
<1>7. run' \in [Runs -> Run] /\ run'[h] = m /\ \A g \in Runs \ {h} : run'[g] = run[g]
  BY <1>4, <1>6, Zenon DEF IInv, TypeOK
<1>8. plan' \in [Jobs -> Plan \cup {None}] /\ plan'[j] = p
      /\ \A k \in Jobs \ {j} : plan'[k] = plan[k]
  BY <1>1, <1>3, <1>4, Zenon DEF IInv, TypeOK
<1>9. Grows
  BY <1>3, <1>5, <1>8 DEF Grows, StagePlan
<1>10. EditionOf' = EditionOf /\ Prebound' = Prebound
  BY DEF EditionOf, Prebound
<1>11. \A e : Created(e)' = Created(e)
  BY <1>10 DEF Created, StagePlan
<1>12. TypeOK' /\ BoundToOwn' /\ IntentsSound'
  BY <1>1, <1>7, <1>8, <1>10, <1>11 DEF IInv, TypeOK, BoundToOwn, IntentsSound, StagePlan
<1>13. Sound(h, run[h])'
  <2>1. PICK r : r = m
    OBVIOUS
  <2>2. r.marker # None => EditionOf'[r.marker] = EditionOfRun(h)'
    BY <1>1, <1>6, <1>10, <2>1 DEF Sound, EditionOfRun
  <2>3. r.url # None => Own(EditionOfRun(h), r.url)
    BY <1>1, <1>6, <2>1 DEF Sound
  <2>4. EditionOfRun(h)' = EditionOfRun(h)
    BY <1>10 DEF EditionOfRun
  <2>5. r.url # None => Own(EditionOfRun(h), r.url)'
    BY <1>9, <2>3, <2>4, OwnKept
  <2>6. plan'[JobOf(h)] # None /\ r.tracks = plan'[JobOf(h)].tracks
    BY <1>3, <1>6, <1>8, <2>1
  <2>7. Sound(h, r)'
    BY <1>6, <2>1, <2>2, <2>5, <2>6 DEF Sound, Marked, Unbound, Writing, Making
  <2> QED BY <1>7, <2>1, <2>7
<1>14. QueueTyped'
  BY QueueKept DEF StagePlan, IInv
<1>15. run'[h].pc \notin Making
  BY <1>6, <1>7 DEF Making
<1> QED BY <1>7, <1>9, <1>11, <1>12, <1>13, <1>14, <1>15, RunMoves DEF StagePlan

LEMMA CheckPlanInv ==
    ASSUME IInv, past' = past, NEW h \in Runs, CheckPlan(h) PROVE IInv'
<1> DEFINE pc == IF run[h].planUrl = None THEN "intent" ELSE "read"
           m == [run[h] EXCEPT !.id = run[h].planUrl, !.pc = pc]
<1>1. run[h] \in Run /\ Sound(h, run[h]) /\ late \in BOOLEAN
  BY DEF IInv, TypeOK, RunsSound
<1>2. m \in Run /\ m.pc = pc /\ m.url = run[h].url /\ m.marker = run[h].marker
      /\ m.id = run[h].planUrl /\ m.tracks = run[h].tracks
  BY <1>1 DEF Run, Pcs
<1>3. run' = [run EXCEPT ![h] = m] /\ run[h].planUrl = run[h].url /\ run[h].pc = "check"
  BY DEF CheckPlan
<1> HIDE DEF m
<1>4. Sound(h, m) /\ m.pc \notin Making
  BY <1>1, <1>2, <1>3 DEF Sound, Marked, Unbound, Writing, Planned, Making
<1>5. QueueTyped'
  BY QueueKept DEF CheckPlan, IInv
<1> QED BY <1>1, <1>2, <1>3, <1>4, <1>5, RecordMoves DEF CheckPlan

LEMMA ReadIntentInv ==
    ASSUME IInv, past' = past, NEW h \in Runs, ReadIntent(h) PROVE IInv'
<1> DEFINE i == IntentOf(JobOf(h))
           pc == IF i.id # None THEN "verify" ELSE IF i.sent THEN "discover" ELSE "reserve"
           m == [run[h] EXCEPT !.marker = i.marker, !.id = i.id, !.pc = pc]
<1>1. run[h] \in Run /\ Sound(h, run[h]) /\ late \in BOOLEAN
  BY DEF IInv, TypeOK, RunsSound
<1>2. i \in Intent /\ EditionOf[i.marker] = EditionOfRun(h)
  BY RunTyped, IntentOfSound DEF IInv, EditionOfRun
<1>3. i.marker \in Jobs /\ i.marker # None /\ i.id \in Ids \cup {None}
  BY <1>2, PublicationAssumption DEF Intent
<1>4. run' = [run EXCEPT ![h] = m] /\ run[h].pc = "intent"
  BY Zenon DEF ReadIntent
<1>5. pc \in Pcs /\ pc \in Marked \ Making
  BY DEF Pcs, Marked, Making
<1> HIDE DEF i, pc
<1>6. m \in Run /\ m.pc = pc /\ m.url = run[h].url /\ m.marker = i.marker
      /\ m.id = i.id /\ m.tracks = run[h].tracks
  BY <1>1, <1>3, <1>5 DEF Run
<1> HIDE DEF m
<1>7. Sound(h, m)
  BY <1>1, <1>2, <1>3, <1>4, <1>5, <1>6 DEF Sound, Marked, Unbound, Writing, Planned, Making
<1>8. QueueTyped'
  BY QueueKept DEF ReadIntent, IInv
<1> QED BY <1>1, <1>4, <1>5, <1>6, <1>7, <1>8, RecordMoves DEF ReadIntent

LEMMA DiscoverInv ==
    ASSUME IInv, past' = past, NEW h \in Runs, Discover(h) PROVE IInv'
<1>1. run[h] \in Run /\ Sound(h, run[h]) /\ late \in BOOLEAN /\ run[h].pc = "discover"
  BY DEF IInv, TypeOK, RunsSound, Discover
<1>2. PICK p \in Matching(run[h].marker) :
         run' = [run EXCEPT ![h].id = p, ![h].pc = "verify"]
  BY Zenon DEF Discover
<1> DEFINE m == [run[h] EXCEPT !.id = p, !.pc = "verify"]
<1>3. m \in Run /\ m.pc = "verify" /\ m.url = run[h].url /\ m.marker = run[h].marker
      /\ m.tracks = run[h].tracks
  BY <1>1 DEF Run, Pcs, Matching
<1>4. run' = [run EXCEPT ![h] = m]
  BY <1>2
<1> HIDE DEF m
<1>5. Sound(h, m) /\ m.pc \notin Making
  BY <1>1, <1>3 DEF Sound, Marked, Unbound, Writing, Planned, Making
<1>6. QueueTyped'
  BY QueueKept DEF Discover, IInv
<1> QED BY <1>1, <1>3, <1>4, <1>5, <1>6, RecordMoves DEF Discover
LEMMA ArmInv ==
    ASSUME IInv, past' = past, NEW h \in Runs, Arm(h) PROVE IInv'
<1>1. late' \in BOOLEAN /\ QueueTyped'
  BY QueueKept DEF IInv, TypeOK, Arm
<1>2. CASE run[h].pc = "guardCreate" /\ Goes(h, "create")
  BY <1>1, <1>2, Continues DEF Arm, Pcs, Marked, Unbound, Writing, Planned, Making
<1>3. CASE run[h].pc = "guardWrite" /\ Goes(h, "write")
  BY <1>1, <1>3, Continues DEF Arm, Pcs, Marked, Unbound, Writing, Planned, Making
<1> QED BY <1>2, <1>3 DEF Arm

\* An intent that is written is sound, and is one of its edition's.
LEMMA RecordedSound ==
    ASSUME IInv, past' = past, UNCHANGED playlists,
           NEW j \in Jobs, NEW i \in Intent, RecordIntent(j, i), i.sent,
           EditionOf[i.marker] = EditionOf[j],
           i.id # None => i.id \in Created(EditionOf[j])
    PROVE  /\ intent' \in [Jobs -> Intent \cup {None}] /\ IntentsSound'
           /\ HasIntent(EditionOf[j])'
           /\ \A k \in Jobs : intent[k] # None => intent'[k] # None
           /\ \A k \in Jobs : EditionOf[k] # EditionOf[j] => intent'[k] = intent[k]
<1>1. EditionOf' = EditionOf /\ i # None /\ \A e : Created(e)' = Created(e)
  BY NoneAssumption DEF EditionOf, Created
<1>2. PICK K \in SUBSET {k \in Jobs : EditionOf[k] = EditionOf[j]} :
         /\ j \in K
         /\ intent' = [k \in Jobs |-> IF k \in K THEN i ELSE intent[k]]
  <2> DEFINE rows == {k \in Jobs : EditionOf[k] = EditionOf[j] /\ intent[k] # None}
             K == {k \in Jobs : k = j \/ (k \in rows /\ \A n \in rows : k <= n)}
  <2>1. intent' = [k \in Jobs |-> IF k \in K THEN i ELSE intent[k]]
    BY DEF RecordIntent
  <2>2. K \in SUBSET {k \in Jobs : EditionOf[k] = EditionOf[j]} /\ j \in K
    OBVIOUS
  <2> HIDE DEF K
  <2> QED BY <2>1, <2>2
<1>3. intent \in [Jobs -> Intent \cup {None}]
  BY DEF IInv, TypeOK
<1>4. IntentsSound'
  <2> SUFFICES ASSUME NEW k \in Jobs, intent'[k] # None
               PROVE  /\ intent'[k].sent
                      /\ EditionOf[intent'[k].marker] = EditionOf[k]
                      /\ intent'[k].id # None => intent'[k].id \in Created(EditionOf[k])
    BY <1>1 DEF IntentsSound
  <2>1. CASE k \in K
    BY <1>2, <2>1
  <2>2. CASE k \notin K
    BY <1>2, <2>2 DEF IInv, IntentsSound
  <2> QED BY <2>1, <2>2
<1>5. HasIntent(EditionOf[j])'
  BY <1>1, <1>2 DEF HasIntent
<1> QED BY <1>1, <1>2, <1>3, <1>4, <1>5

\* An unbound run that the guard lets pass works for an edition that never had a playlist.
LEMMA NeverBound ==
    ASSUME IInv, NEW h \in Runs, Guard(h), run[h].url = None
    PROVE  EditionOfRun(h) \in Editions /\ Prebound[EditionOfRun(h)] = None
<1>1. EditionOfRun(h) \in Editions
  BY PastTyped, RunTyped DEF IInv, TypeOK, EditionOfRun
<1>2. binding[EditionOfRun(h)] = None
  BY DEF Guard, Current
<1> QED BY <1>1, <1>2, BindingOwn DEF IInv

\* Only a run that finds no intent of its edition becomes a maker.
LEMMA ReserveInv ==
    ASSUME IInv, past' = past, NEW h \in Runs, Reserve(h) PROVE IInv'
<1> DEFINE j == JobOf(h)
           e == EditionOfRun(h)
           i == [IntentOf(j) EXCEPT !.sent = TRUE]
<1>1. /\ j \in Jobs /\ e = EditionOf[j] /\ run[h] \in Run /\ Sound(h, run[h])
      /\ run[h].pc = "reserve"
  BY RunTyped DEF IInv, TypeOK, RunsSound, Reserve, EditionOfRun
<1>2. e \in Editions /\ Prebound[e] = None
  BY <1>1, NeverBound DEF Reserve, Sound, Unbound, Marked
<1>3. ~HasIntent(e) /\ IntentOf(j) \in Intent /\ EditionOf[IntentOf(j).marker] = e
      /\ (IntentOf(j).id # None => IntentOf(j).id \in Created(e))
  BY <1>1, IntentOfSound DEF IInv, Reserve
<1>4. Created(e) = {}
  BY <1>2, <1>3 DEF IInv, OneMade
<1>5. /\ i \in Intent /\ i.sent /\ EditionOf[i.marker] = EditionOf[j]
      /\ i.id # None => i.id \in Created(EditionOf[j])
  BY <1>1, <1>3 DEF Intent
<1>6. RecordIntent(j, i)
  BY DEF Reserve
<1> HIDE DEF i
<1>7. /\ intent' \in [Jobs -> Intent \cup {None}] /\ IntentsSound'
      /\ HasIntent(e)'
      /\ \A k \in Jobs : intent[k] # None => intent'[k] # None
  BY <1>1, <1>5, <1>6, RecordedSound DEF Reserve, EditionOfRun
<1>8. /\ EditionOf' = EditionOf /\ Prebound' = Prebound
      /\ (\A d : Created(d)' = Created(d)) /\ \A g : EditionOfRun(g)' = EditionOfRun(g)
  BY DEF EditionOf, Prebound, Created, EditionOfRun, Reserve
<1>9. Grows
  BY <1>7 DEF Grows, Reserve
<1> DEFINE m == [run[h] EXCEPT !.pc = "guardCreate"]
<1>10. m \in Run /\ m.pc = "guardCreate" /\ m.url = run[h].url /\ m.marker = run[h].marker
       /\ m.tracks = run[h].tracks /\ run' = [run EXCEPT ![h] = m]
  BY <1>1 DEF Run, Pcs, Reserve, Goes
<1> HIDE DEF m
<1>11. run' \in [Runs -> Run] /\ run'[h] = m /\ \A g \in Runs \ {h} : run'[g] = run[g]
  BY <1>10, Zenon DEF IInv, TypeOK
<1>12. TypeOK' /\ QueueTyped'
  BY <1>7, <1>11, QueueKept DEF IInv, TypeOK, Reserve
<1>13. RunsSound'
  <2> SUFFICES ASSUME NEW g \in Runs PROVE Sound(g, run[g])'
    BY DEF RunsSound
  <2>1. CASE g # h
    <3>1. PICK r : r = run[g]
      OBVIOUS
    <3>2. Sound(g, r) /\ run'[g] = r
      BY <1>11, <2>1, <3>1 DEF IInv, RunsSound
    <3>3. r.pc \in Making => Created(EditionOfRun(g))' = {}
      BY <1>8, <3>2 DEF Sound, MayCreate
    <3> QED BY <1>9, <3>2, <3>3, SoundKept
  <2>2. CASE g = h
    <3>1. PICK r : r = run[h] /\ Sound(h, r)
      BY <1>1
    <3>2. Sound(h, r)'
      BY <1>1, <1>9, <3>1, SoundKept DEF Making
    <3>3. MayCreate(e)'
      BY <1>2, <1>4, <1>7, <1>8 DEF MayCreate
    <3>4. PICK q : q = m
      OBVIOUS
    <3>5. Sound(h, q)'
      BY <1>1, <1>8, <1>10, <3>1, <3>2, <3>3, <3>4
         DEF Sound, Marked, Unbound, Writing, Planned, Making
    <3> QED BY <1>11, <2>2, <3>4, <3>5
  <2> QED BY <2>1, <2>2
<1>14. OneMaker'
  <2>1. ASSUME NEW g \in Runs, run[g].pc \in Making, EditionOfRun(g) = e PROVE FALSE
    BY <1>3, <2>1 DEF IInv, RunsSound, Sound, MayCreate
  <2> QED BY <1>8, <1>11, <2>1 DEF IInv, OneMaker
<1>15. BoundToOwn' /\ OldKept' /\ OneMade'
  <2>1. BoundToOwn'
    BY <1>8 DEF IInv, BoundToOwn, Reserve
  <2>2. OldKept'
    BY <1>8 DEF IInv, OldKept, Reserve
  <2>3. OneMade'
    BY <1>8, <1>9, OwnKept DEF IInv, OneMade
  <2> QED BY <2>1, <2>2, <2>3
<1> QED BY <1>7, <1>12, <1>13, <1>14, <1>15 DEF IInv
\* The request of the only maker is the first for its edition.
LEMMA CreateInv ==
    ASSUME IInv, past' = past, NEW h \in Runs, Create(h) PROVE IInv'
<1> DEFINE e == EditionOfRun(h)
<1>1. /\ run[h] \in Run /\ Sound(h, run[h]) /\ run[h].pc = "create"
      /\ late' \in BOOLEAN /\ QueueTyped'
  BY QueueKept DEF IInv, TypeOK, RunsSound, Create
<1>2. CASE Goes(h, "broken") /\ UNCHANGED playlists
  BY <1>1, <1>2, Continues DEF Create, Pcs, Marked, Unbound, Writing, Planned, Making
<1>3. ASSUME NEW p \in Ids, playlists[p] = None,
             playlists' = [playlists EXCEPT ![p] = [marker |-> run[h].marker, items |-> <<>>]],
             \/ run' = [run EXCEPT ![h].id = p, ![h].pc = "verify"]
             \/ Goes(h, "broken")
      PROVE  IInv'
  <2> DEFINE l == [marker |-> run[h].marker, items |-> <<>>]
  <2>1. /\ run[h].marker \in Jobs /\ EditionOf[run[h].marker] = e
        /\ MayCreate(e) /\ run[h].url = None
    BY <1>1 DEF Sound, Marked, Making, Unbound, Run
  <2>2. l \in Playlist /\ l # None /\ l.marker = run[h].marker
    <3>1. l \in Playlist
      BY <2>1 DEF Playlist
    <3> QED BY <3>1, NoneAssumption
  <2> HIDE DEF l
  <2>3. /\ playlists' \in [Ids -> Playlist \cup {None}] /\ playlists'[p] = l
        /\ \A q \in Ids \ {p} : playlists'[q] = playlists[q]
    BY <1>3, <2>2 DEF IInv, TypeOK, l
  <2>4. Grows
    BY <1>3, <2>3 DEF Grows, Create
  <2>5. EditionOf' = EditionOf /\ Prebound' = Prebound /\ \A g : EditionOfRun(g)' = EditionOfRun(g)
    BY DEF EditionOf, Prebound, EditionOfRun
  <2>6. \A d : Created(d)' = IF d = e THEN {p} ELSE Created(d)
    <3>1. run[h].marker # None
      BY <2>1, PublicationAssumption
    <3>2. Created(e)' = {p}
      BY <1>3, <2>1, <2>2, <2>3, <2>5, <3>1 DEF Created, MayCreate
    <3>3. ASSUME NEW d, d # e PROVE Created(d)' = Created(d)
      BY <1>3, <2>1, <2>2, <2>3, <2>5, <3>3 DEF Created
    <3> QED BY <2>5, <3>2, <3>3
  <2>7. PICK m \in Run : /\ run' = [run EXCEPT ![h] = m] /\ m.pc \in {"verify", "broken"}
                         /\ m.url = run[h].url /\ m.marker = run[h].marker
                         /\ m.tracks = run[h].tracks
    <3>1. CASE run' = [run EXCEPT ![h].id = p, ![h].pc = "verify"]
      <4> DEFINE m == [run[h] EXCEPT !.id = p, !.pc = "verify"]
      <4>1. run' = [run EXCEPT ![h] = m]
        BY <3>1
      <4>2. m \in Run /\ m.pc = "verify" /\ m.url = run[h].url /\ m.marker = run[h].marker
            /\ m.tracks = run[h].tracks
        BY <1>1 DEF Run, Pcs
      <4> HIDE DEF m
      <4> QED BY <4>1, <4>2
    <3>2. CASE Goes(h, "broken")
      <4> DEFINE m == [run[h] EXCEPT !.pc = "broken"]
      <4>1. run' = [run EXCEPT ![h] = m]
        BY <3>2 DEF Goes
      <4>2. m \in Run /\ m.pc = "broken" /\ m.url = run[h].url /\ m.marker = run[h].marker
            /\ m.tracks = run[h].tracks
        BY <1>1 DEF Run, Pcs
      <4> HIDE DEF m
      <4> QED BY <4>1, <4>2
    <3> QED BY <1>3, <3>1, <3>2
  <2>8. run' \in [Runs -> Run] /\ run'[h] = m /\ \A g \in Runs \ {h} : run'[g] = run[g]
    BY <2>7, Zenon DEF IInv, TypeOK
  <2>9. TypeOK'
    BY <1>1, <2>3, <2>8 DEF IInv, TypeOK, Create
  <2>10. RunsSound'
    <3> SUFFICES ASSUME NEW g \in Runs PROVE Sound(g, run[g])'
      BY DEF RunsSound
    <3>1. CASE g # h
      <4>1. PICK r : r = run[g]
        OBVIOUS
      <4>2. Sound(g, r) /\ run'[g] = r
        BY <2>8, <3>1, <4>1 DEF IInv, RunsSound
      <4>3. r.pc \in Making => EditionOfRun(g) # e
        BY <1>1, <3>1, <4>1 DEF IInv, OneMaker, Making
      <4>4. r.pc \in Making => Created(EditionOfRun(g))' = {}
        BY <2>5, <2>6, <4>2, <4>3 DEF Sound, MayCreate
      <4> QED BY <2>4, <4>2, <4>4, SoundKept
    <3>2. CASE g = h
      <4>1. Sound(h, m)
        BY <1>1, <2>7 DEF Sound, Marked, Unbound, Writing, Planned, Making
      <4>2. Sound(h, m)'
        BY <2>4, <2>7, <4>1, SoundKept DEF Making
      <4> QED BY <2>8, <3>2, <4>2
    <3> QED BY <3>1, <3>2
  <2>11. OneMaker'
    <3>1. \A g \in Runs : run'[g].pc \in Making => run[g].pc \in Making
      BY <2>7, <2>8 DEF Making
    <3> QED BY <2>5, <3>1 DEF IInv, OneMaker
  <2>12. IntentsSound'
    BY <2>5, <2>4, OwnKept DEF IInv, IntentsSound, Create
  <2>13. OldKept'
    BY <2>4, <2>5, PastTyped DEF IInv, TypeOK, OldKept, Grows
  <2>14. BoundToOwn'
    BY <2>4, <2>5, OwnKept DEF IInv, BoundToOwn, Create
  <2>15. OneMade'
    <3>1. HasIntent(e)' /\ Prebound[e] = None
      BY <2>1, <2>4, <2>5, OwnKept DEF MayCreate
    <3> QED BY <2>4, <2>5, <2>6, <3>1, OwnKept DEF IInv, OneMade
  <2> QED BY <1>1, <2>9, <2>10, <2>11, <2>12, <2>13, <2>14, <2>15 DEF IInv
<1> QED BY <1>2, <1>3, Zenon DEF Create

\* What is read back is the edition's own.
LEMMA VerifyInv ==
    ASSUME IInv, past' = past, NEW h \in Runs, Verify(h) PROVE IInv'
<1> DEFINE j == JobOf(h)
           e == EditionOfRun(h)
           i == [IntentOf(j) EXCEPT !.id = run[h].id]
           m == [run[h] EXCEPT !.pc = "read"]
<1>1. /\ j \in Jobs /\ e = EditionOf[j] /\ run[h] \in Run /\ Sound(h, run[h])
      /\ run[h].pc = "verify" /\ late' \in BOOLEAN /\ QueueTyped'
  BY RunTyped, QueueKept DEF IInv, TypeOK, RunsSound, Verify, EditionOfRun
<1>2. Prebound[e] = None
  BY <1>1, NeverBound DEF Verify, Sound, Unbound, Marked
<1>3. /\ run[h].id \in Created(e) /\ playlists[run[h].id] # None /\ run[h].id \in Ids
  BY <1>1 DEF Verify, Matching, Created, Sound, Marked
<1>4. IntentOf(j) \in Intent /\ EditionOf[IntentOf(j).marker] = e
  BY <1>1, IntentOfSound DEF IInv
<1>5. /\ i \in Intent /\ i.sent /\ EditionOf[i.marker] = EditionOf[j]
      /\ i.id \in Created(EditionOf[j])
  BY <1>1, <1>3, <1>4 DEF Intent, Verify
<1>6. RecordIntent(j, i)
  BY DEF Verify
<1> HIDE DEF i
<1>7. /\ intent' \in [Jobs -> Intent \cup {None}] /\ IntentsSound'
      /\ \A k \in Jobs : intent[k] # None => intent'[k] # None
  BY <1>1, <1>5, <1>6, RecordedSound DEF Verify
<1>8. EditionOf' = EditionOf /\ Prebound' = Prebound /\ \A d : Created(d)' = Created(d)
  BY DEF EditionOf, Prebound, Created, Verify
<1>9. Grows
  BY <1>7 DEF Grows, Verify
<1>10. m \in Run /\ m.pc = "read" /\ m.url = run[h].url /\ m.marker = run[h].marker
       /\ m.tracks = run[h].tracks /\ m.id = run[h].id /\ run' = [run EXCEPT ![h] = m]
  BY <1>1 DEF Run, Pcs, Verify, Goes
<1> HIDE DEF m
<1>11. Sound(h, m)
  BY <1>1, <1>2, <1>3, <1>10 DEF Sound, Own, Marked, Unbound, Writing, Planned, Making
<1>12. run' \in [Runs -> Run] /\ run'[h] = m /\ \A g \in Runs \ {h} : run'[g] = run[g]
  BY <1>10, Zenon DEF IInv, TypeOK
<1>13. TypeOK' /\ BoundToOwn'
  BY <1>1, <1>7, <1>8, <1>12 DEF IInv, TypeOK, BoundToOwn, Verify
<1>14. Sound(h, run[h])' /\ run'[h].pc \notin Making
  <2>1. PICK r : r = m
    OBVIOUS
  <2>2. Sound(h, r)' /\ r.pc \notin Making
    BY <1>9, <1>10, <1>11, <2>1, SoundKept DEF Making
  <2> QED BY <1>12, <2>1, <2>2
<1> QED BY <1>1, <1>7, <1>8, <1>9, <1>12, <1>13, <1>14, RunMoves
LEMMA ReadInv ==
    ASSUME IInv, past' = past, NEW h \in Runs, Read(h) \/ ReadBack(h) PROVE IInv'
<1>1. late' \in BOOLEAN /\ QueueTyped' /\ run[h].pc \in Writing
  BY QueueKept DEF IInv, TypeOK, Read, ReadBack, Writing
<1>2. CASE Goes(h, "checkpoint")
  BY <1>1, <1>2, Sets, Continues DEF Read, ReadBack, Pcs, Marked, Unbound, Writing, Planned, Making
<1>3. CASE Goes(h, "guardWrite")
  BY <1>1, <1>3, Sets, Continues DEF Read, ReadBack, Pcs, Marked, Unbound, Writing, Planned, Making
<1> QED BY <1>2, <1>3 DEF Read, ReadBack

LEMMA SequenceGrows ==
    ASSUME NEW S, NEW s \in Seq(S), NEW x \in S
    PROVE  Append(s, x) \in Seq(S) /\ <<x>> \in Seq(S)
  OBVIOUS

LEMMA WriteInv ==
    ASSUME IInv, past' = past, NEW h \in Runs, Write(h) PROVE IInv'
<1> DEFINE e == EditionOfRun(h)
           p == run[h].id
           n == run[h].part
           items == IF n = 1 THEN << <<run[h].tracks, 1>> >>
                    ELSE Append(playlists[p].items, <<run[h].tracks, n>>)
           l == [playlists[p] EXCEPT !.items = items]
<1>1. /\ run[h] \in Run /\ Sound(h, run[h]) /\ run[h].pc = "write" /\ n \in 1..Parts
      /\ late' \in BOOLEAN /\ QueueTyped'
  BY QueueKept DEF IInv, TypeOK, RunsSound, Write, Run
<1>2. CASE Goes(h, "broken") /\ UNCHANGED playlists
  BY <1>1, <1>2, Continues DEF Write, Pcs, Marked, Unbound, Writing, Planned, Making
<1>3. ASSUME playlists' = [playlists EXCEPT ![p] = l],
             \/ Goes(h, "readBack") \/ Goes(h, "broken")
             \/ n # Parts /\ run' = [run EXCEPT ![h].part = n + 1, ![h].pc = "guardWrite"]
      PROVE  IInv'
  <2>1. p \in Ids /\ playlists[p] \in Playlist /\ Own(e, p)
    BY <1>1 DEF IInv, TypeOK, Sound, Writing, Own
  <2>2. run[h].tracks \in Runs
    BY <1>1, RunTyped DEF IInv, TypeOK, Sound, Planned, Writing, Plan
  <2>3. items \in Seq(Runs \X (1..Parts))
    <3>1. <<run[h].tracks, n>> \in Runs \X (1..Parts)
      BY <1>1, <2>2
    <3>2. playlists[p].items \in Seq(Runs \X (1..Parts))
      BY <2>1 DEF Playlist
    <3> QED BY <3>1, <3>2, SequenceGrows
  <2> HIDE DEF items
  <2>4. l \in Playlist /\ l # None /\ l.marker = playlists[p].marker
    <3>1. l \in Playlist /\ l.marker = playlists[p].marker
      BY <2>1, <2>3 DEF Playlist
    <3> QED BY <3>1, NoneAssumption
  <2> HIDE DEF l
  <2>5. /\ playlists' \in [Ids -> Playlist \cup {None}] /\ playlists'[p] = l
        /\ \A q \in Ids \ {p} : playlists'[q] = playlists[q]
    BY <1>3, <2>1, <2>4 DEF IInv, TypeOK
  <2>6. playlists[p] # None
    BY <2>1 DEF Own
  <2>7. Grows
    BY <2>4, <2>5 DEF Grows, Write
  <2>8. EditionOf' = EditionOf /\ Prebound' = Prebound
    BY DEF EditionOf, Prebound
  <2>9. \A d : Created(d)' = Created(d)
    BY <2>1, <2>4, <2>5, <2>6, <2>8 DEF Created
  <2>10. PICK m \in Run : /\ run' = [run EXCEPT ![h] = m]
                          /\ m.pc \in {"readBack", "guardWrite", "broken"}
                          /\ m.url = run[h].url /\ m.marker = run[h].marker
                          /\ m.tracks = run[h].tracks /\ m.id = run[h].id
    <3>1. ASSUME NEW pc \in {"readBack", "broken"}, Goes(h, pc)
          PROVE  \E m \in Run : /\ run' = [run EXCEPT ![h] = m]
                                /\ m.pc = pc
                                /\ m.url = run[h].url /\ m.marker = run[h].marker
                                /\ m.tracks = run[h].tracks /\ m.id = run[h].id
      <4> DEFINE m == [run[h] EXCEPT !.pc = pc]
      <4>1. run' = [run EXCEPT ![h] = m]
        BY <3>1 DEF Goes
      <4>2. m \in Run /\ m.pc = pc /\ m.url = run[h].url /\ m.marker = run[h].marker
            /\ m.tracks = run[h].tracks /\ m.id = run[h].id
        BY <1>1 DEF Run, Pcs
      <4> HIDE DEF m
      <4> QED BY <4>1, <4>2
    <3>2. CASE n # Parts /\ run' = [run EXCEPT ![h].part = n + 1, ![h].pc = "guardWrite"]
      <4> DEFINE m == [run[h] EXCEPT !.part = n + 1, !.pc = "guardWrite"]
      <4>1. run' = [run EXCEPT ![h] = m]
        BY <3>2
      <4>2. n + 1 \in 1..Parts
        BY <1>1, <3>2, PublicationAssumption
      <4>3. m \in Run /\ m.pc = "guardWrite" /\ m.url = run[h].url /\ m.marker = run[h].marker
            /\ m.tracks = run[h].tracks /\ m.id = run[h].id
        BY <1>1, <4>2 DEF Run, Pcs
      <4> HIDE DEF m
      <4> QED BY <4>1, <4>3
    <3> QED BY <1>3, <3>1, <3>2
  <2>11. run' \in [Runs -> Run] /\ run'[h] = m /\ \A g \in Runs \ {h} : run'[g] = run[g]
    BY <2>10, Zenon DEF IInv, TypeOK
  <2>12. Sound(h, m) /\ m.pc \notin Making
    BY <1>1, <2>10 DEF Sound, Marked, Unbound, Writing, Planned, Making
  <2>13. Sound(h, run[h])'
    BY <2>7, <2>11, <2>12, SoundKept
  <2>14. TypeOK' /\ BoundToOwn' /\ IntentsSound'
    BY <1>1, <2>5, <2>8, <2>9, <2>11 DEF IInv, TypeOK, BoundToOwn, IntentsSound, Write
  <2> QED BY <1>1, <2>7, <2>9, <2>11, <2>12, <2>13, <2>14, RunMoves
<1>4. playlists' = [playlists EXCEPT ![p] = l] \/ (Goes(h, "broken") /\ UNCHANGED playlists)
  BY DEF Write
<1> QED BY <1>2, <1>3, <1>4 DEF Write

\* The playlist that is written to the binding is the edition's own.
LEMMA CheckpointInv ==
    ASSUME IInv, past' = past, NEW h \in Runs, Checkpoint(h) PROVE IInv'
<1> DEFINE j == JobOf(h)
           e == EditionOfRun(h)
           p == run[h].id
           q == [plan[j] EXCEPT !.url = p]
           m == [run[h] EXCEPT !.url = p, !.pc = "commit"]
<1>1. /\ j \in Jobs /\ e = EditionOf[j] /\ run[h] \in Run /\ Sound(h, run[h])
      /\ run[h].pc = "checkpoint" /\ late' \in BOOLEAN /\ QueueTyped'
  BY RunTyped, QueueKept DEF IInv, TypeOK, RunsSound, Checkpoint, EditionOfRun
<1>2. e \in Editions /\ Own(e, p) /\ p \in Ids
  BY <1>1, PastTyped DEF IInv, TypeOK, Sound, Writing, Own
<1>3. plan[j] \in Plan /\ plan[j] # None
  BY <1>1 DEF IInv, TypeOK, Sound, Planned, Writing
<1>4. q \in Plan /\ q # None /\ q.tracks = plan[j].tracks
  <2>1. q \in Plan /\ q.tracks = plan[j].tracks
    BY <1>2, <1>3 DEF Plan
  <2> QED BY <2>1, NoneAssumption
<1>5. plan' = [plan EXCEPT ![j] = q] /\ run' = [run EXCEPT ![h] = m]
      /\ binding' = [binding EXCEPT ![e] = p]
  BY DEF Checkpoint
<1> HIDE DEF q
<1>6. m \in Run /\ m.pc = "commit" /\ m.url = p /\ m.marker = run[h].marker
      /\ m.tracks = run[h].tracks /\ m.id = p
  BY <1>1, <1>2 DEF Run, Pcs
<1> HIDE DEF m
<1>7. run' \in [Runs -> Run] /\ run'[h] = m /\ \A g \in Runs \ {h} : run'[g] = run[g]
  BY <1>5, <1>6, Zenon DEF IInv, TypeOK
<1>8. plan' \in [Jobs -> Plan \cup {None}] /\ plan'[j] = q
      /\ \A k \in Jobs \ {j} : plan'[k] = plan[k]
  BY <1>1, <1>4, <1>5, Zenon DEF IInv, TypeOK
<1>9. binding' \in [Editions -> Ids \cup {None}] /\ binding'[e] = p
      /\ \A d \in Editions \ {e} : binding'[d] = binding[d]
  BY <1>2, <1>5 DEF IInv, TypeOK
<1>10. Grows
  BY <1>4, <1>8 DEF Grows, Checkpoint
<1>11. EditionOf' = EditionOf /\ Prebound' = Prebound
  BY DEF EditionOf, Prebound
<1>12. \A d : Created(d)' = Created(d)
  BY <1>11 DEF Created, Checkpoint
<1>13. TypeOK' /\ IntentsSound'
  BY <1>1, <1>7, <1>8, <1>9, <1>11, <1>12 DEF IInv, TypeOK, IntentsSound, Checkpoint
<1>14. BoundToOwn'
  BY <1>2, <1>9, <1>11, <1>12 DEF IInv, BoundToOwn, Own
<1>15. Sound(h, m) /\ m.pc \notin Making
  BY <1>1, <1>2, <1>6, PublicationAssumption DEF Sound, Marked, Unbound, Writing, Planned, Making
<1>16. Sound(h, run[h])'
  <2>1. PICK r : r = m
    OBVIOUS
  <2>2. Sound(h, r)'
    BY <1>10, <1>15, <2>1, SoundKept
  <2> QED BY <1>7, <2>1, <2>2
<1> QED BY <1>1, <1>7, <1>10, <1>12, <1>13, <1>14, <1>15, <1>16, RunMoves
\* The steps that change nothing but the queue.
LEMMA QueueMoves ==
    ASSUME IInv, past' = past, UNCHANGED <<plan, intent, binding, playlists, run>>,
           QueueTyped', late' \in BOOLEAN
    PROVE  IInv'
<1>1. EditionOf' = EditionOf /\ Prebound' = Prebound /\ \A g : EditionOfRun(g)' = EditionOfRun(g)
  BY DEF EditionOf, Prebound, EditionOfRun
<1>2. \A d : Created(d)' = Created(d)
  BY <1>1 DEF Created
<1>3. Grows
  BY DEF Grows
<1>4. TypeOK' /\ IntentsSound' /\ OldKept' /\ BoundToOwn'
  BY <1>1, <1>2 DEF IInv, TypeOK, IntentsSound, OldKept, BoundToOwn
<1>5. OneMaker' /\ OneMade'
  BY <1>1, <1>2, <1>3, OwnKept DEF IInv, OneMaker, OneMade
<1>6. RunsSound'
  <2> SUFFICES ASSUME NEW g \in Runs PROVE Sound(g, run[g])'
    BY DEF RunsSound
  <2>1. PICK r : r = run[g]
    OBVIOUS
  <2>2. Sound(g, r) /\ run'[g] = r
    BY <2>1 DEF IInv, RunsSound
  <2>3. r.pc \in Making => Created(EditionOfRun(g))' = {}
    BY <1>1, <1>2, <2>2 DEF Sound, MayCreate
  <2> QED BY <1>3, <2>2, <2>3, SoundKept
<1> QED BY <1>4, <1>5, <1>6 DEF IInv

LEMMA EndInv ==
    ASSUME IInv, past' = past, NEW h \in Runs, Commit(h) \/ Fail(h) \/ Die(h) PROVE IInv'
<1>1. late' \in BOOLEAN /\ UNCHANGED <<plan, intent, binding, playlists>>
  BY DEF IInv, TypeOK, Commit, Fail, Die, InFlight
<1>2. QueueTyped'
  <2>1. CASE Queue!Release(JobOf(h))
    BY <2>1, RunTyped, QueueReleases DEF IInv
  <2>2. CASE UNCHANGED queueVars
    BY <2>2, QueueKept DEF IInv
  <2> QED BY <2>1, <2>2 DEF Commit, Fail, Die
<1>3. CASE Goes(h, "finished")
  BY <1>1, <1>2, <1>3, Continues DEF Pcs, Marked, Unbound, Writing, Planned, Making
<1>4. CASE Goes(h, "dead")
  BY <1>1, <1>2, <1>4, Continues DEF Pcs, Marked, Unbound, Writing, Planned, Making
<1>5. CASE UNCHANGED run
  BY <1>1, <1>2, <1>5, QueueMoves
<1> QED BY <1>3, <1>4, <1>5 DEF Commit, Fail, Die

LEMMA ClaimInv ==
    ASSUME IInv, past' = past, NEW j \in Jobs, Claim(j) PROVE IInv'
<1> DEFINE h == <<j, attempts[j] + 1>>
<1>1. late' \in BOOLEAN /\ UNCHANGED <<plan, intent, binding, playlists>>
  BY DEF IInv, TypeOK, Claim
<1>2. QueueTyped'
  <2>1. QueueTyped /\ Queue!Acquire(j)
    BY DEF IInv, Claim
  <2> QED BY <2>1 DEF QueueTyped, Queue!Acquire
<1>3. run' = [run EXCEPT ![h].pc = "snapshot"]
  BY DEF Claim
<1>4. CASE h \in Runs
  <2>1. PICK g \in Runs : g = h
    BY <1>4
  <2>2. Goes(g, "snapshot")
    BY <1>3, <2>1 DEF Goes
  <2> QED BY <1>1, <1>2, <2>2, Continues DEF Pcs, Marked, Unbound, Writing, Planned, Making
<1>5. CASE h \notin Runs
  <2>1. UNCHANGED run
    BY <1>3, <1>5 DEF IInv, TypeOK
  <2> QED BY <1>1, <1>2, <2>1, QueueMoves
<1> QED BY <1>4, <1>5

LEMMA LapseInv ==
    ASSUME IInv, past' = past, Lapse PROVE IInv'
<1>1. late' \in BOOLEAN /\ UNCHANGED <<plan, intent, binding, playlists, run>>
  BY DEF IInv, TypeOK, Lapse
<1>2. QueueTyped'
  BY DEF IInv, Lapse, Queue!Lapse, QueueTyped
<1> QED BY <1>1, <1>2, QueueMoves

LEMMA NextInv == IInv /\ [Next]_vars => IInv'
<1> SUFFICES ASSUME IInv, [Next]_vars PROVE IInv'
  OBVIOUS
<1>1. CASE UNCHANGED vars
  <2>1. QueueTyped' /\ late' \in BOOLEAN
    BY <1>1, QueueKept DEF vars, queueVars, IInv, TypeOK
  <2> QED BY <1>1, <2>1, QueueMoves DEF vars
<1>2. CASE Next
  <2>1. past' = past
    BY <1>2 DEF Next
  <2>2. ASSUME NEW j \in Jobs, Claim(j) PROVE IInv'
    BY <2>1, <2>2, ClaimInv
  <2>3. ASSUME NEW h \in Runs,
               \/ Snapshot(h) \/ StagePlan(h) \/ CheckPlan(h)
               \/ ReadIntent(h) \/ Discover(h) \/ Reserve(h) \/ Arm(h) \/ Create(h) \/ Verify(h)
        PROVE  IInv'
    BY <2>1, <2>3, SnapshotInv, StagePlanInv, CheckPlanInv, ReadIntentInv, DiscoverInv,
       ReserveInv, ArmInv, CreateInv, VerifyInv
  <2>4. ASSUME NEW h \in Runs,
               \/ Read(h) \/ Write(h) \/ ReadBack(h)
               \/ Checkpoint(h) \/ Commit(h) \/ Fail(h) \/ Die(h)
        PROVE  IInv'
    BY <2>1, <2>4, ReadInv, WriteInv, CheckpointInv, EndInv
  <2>5. CASE Lapse
    BY <2>1, <2>5, LapseInv
  <2> QED BY <1>2, <2>2, <2>3, <2>4, <2>5 DEF Next
<1> QED BY <1>1, <1>2

-----------------------------------------------------------------------------
(* What the lease adds.  Nobody but the attempt that holds it changes plans, bindings and  *)
(* playlists, unless a request outlives its sender or its lease; so what an attempt has    *)
(* read and written stays what it was.                                                     *)

Fenced == \A h \in Runs : InFlight(h) /\ ~late => Held(h) /\ NewestStaged(JobOf(h))

SnapshotHolds ==
    \A h \in Runs : run[h].pc = "plan" /\ Held(h) => run[h].url = binding[EditionOfRun(h)]

Written ==
    \A h \in Runs : run[h].pc \in {"checkpoint", "commit"} /\ Held(h) /\ ~late =>
        playlists[run[h].id].items = Complete(run[h].tracks)

Checkpointed == \A h \in Runs : run[h].pc = "commit" => run[h].url = run[h].id

DonePlanned == \A j \in done : plan[j] # None /\ holder[Festival] # j

HInv == /\ IInv /\ Fenced /\ SnapshotHolds /\ Written /\ Checkpointed /\ DonePlanned
        /\ PlanFitsBinding /\ PublishedStays

LEMMA OneHolder ==
    ASSUME NEW g \in Runs, NEW h \in Runs, Held(g), Held(h)
    PROVE  g = h
<1>1. JobOf(g) = JobOf(h) /\ g[2] = h[2]
  BY DEF Held
<1>2. g = <<JobOf(g), g[2]>> /\ h = <<JobOf(h), h[2]>>
  BY RunTyped
<1> QED BY <1>1, <1>2, Zenon

\* Two editions never share a playlist.
LEMMA OwnApart ==
    ASSUME IInv, NEW d \in Editions, NEW e \in Editions, NEW p, Own(d, p), Own(e, p)
    PROVE  d = e
<1>1. \A a, b \in Editions : Prebound[a] = Prebound[b] => a = b \/ Prebound[a] = None
  BY PublicationAssumption DEF IInv, TypeOK, Prebound
<1>2. p \in Ids /\ p # None
  BY PublicationAssumption DEF Own
<1> QED BY <1>1, <1>2 DEF IInv, OldKept, Own, Created

\* The run that holds the lease and passes the guard is of the newest staged publication,
\* and no done one.
LEMMA GuardedIsNewest ==
    ASSUME HInv, NEW h \in Runs, Held(h), ~Superseded(JobOf(h)), plan[JobOf(h)] # None,
           NEW j \in Jobs, EditionOf[j] = EditionOfRun(h), plan[j] # None,
           NewestStaged(j)
    PROVE  j = JobOf(h) /\ j \notin done
<1>1. JobOf(h) \in Nat /\ j \in Nat /\ JobOf(h) \in Jobs
  BY RunTyped, PublicationAssumption
<1>2. ~(JobOf(h) > j)
  BY <1>1 DEF NewestStaged, EditionOfRun
<1>3. ~(j > JobOf(h))
  BY <1>1 DEF Superseded, EditionOfRun
<1>4. JobOf(h) \notin done
  BY DEF HInv, DonePlanned, Held
<1> QED BY <1>1, <1>2, <1>3, <1>4

LEMMA InitHInv == Init => HInv
<1> SUFFICES ASSUME Init PROVE HInv
  OBVIOUS
<1>1. \A h \in Runs : run[h] = Fresh
  BY DEF Init
<1>2. Fresh.pc = "idle"
  BY DEF Fresh
<1>3. Fenced /\ SnapshotHolds /\ Written /\ Checkpointed
  BY <1>1, <1>2 DEF Fenced, InFlight, SnapshotHolds, Written, Checkpointed
<1>4. done = {} /\ \A j \in Jobs : plan[j] = None
  BY DEF Init, Queue!Init
<1>5. DonePlanned /\ PlanFitsBinding /\ PublishedStays
  BY <1>4 DEF DonePlanned, PlanFitsBinding, PublishedStays
<1> QED BY <1>3, <1>5, InitInv DEF HInv

\* The steps of run h that change its record and intents only.
LEMMA HeldMoves ==
    ASSUME HInv, IInv', UNCHANGED <<past, queueVars, plan, binding, playlists, late>>,
           NEW h \in Runs, \A g \in Runs \ {h} : run'[g] = run[g],
           run'[h].pc = "plan" => run'[h].url = binding[EditionOfRun(h)],
           run'[h].pc \in {"create", "write"} => Held(h) /\ NewestStaged(JobOf(h)),
           run'[h].pc = "checkpoint" => playlists[run'[h].id].items = Complete(run'[h].tracks),
           run'[h].pc # "commit"
    PROVE  HInv'
<1>1. /\ EditionOf' = EditionOf /\ \A g : EditionOfRun(g)' = EditionOfRun(g)
      /\ \A g : Held(g)' = Held(g)
      /\ \A j : NewestStaged(j)' = NewestStaged(j)
  BY DEF EditionOf, EditionOfRun, Held, NewestStaged, queueVars
<1>2. \A t : Complete(t)' = Complete(t)
  BY DEF Complete
<1>3. Fenced' /\ Checkpointed'
  BY <1>1 DEF HInv, Fenced, InFlight, Checkpointed
<1>4. SnapshotHolds' /\ Written'
  BY <1>1, <1>2 DEF HInv, SnapshotHolds, Written
<1>5. DonePlanned' /\ PlanFitsBinding' /\ PublishedStays'
  BY <1>1, <1>2 DEF HInv, DonePlanned, PlanFitsBinding, PublishedStays, queueVars
<1> QED BY <1>3, <1>4, <1>5 DEF HInv
LEMMA Gone ==
    ASSUME IInv, NEW h \in Runs, NEW pc, Goes(h, pc)
    PROVE  /\ run'[h].pc = pc /\ run'[h].id = run[h].id
           /\ run'[h].url = run[h].url /\ run'[h].tracks = run[h].tracks
           /\ \A g \in Runs \ {h} : run'[g] = run[g]
<1> DEFINE m == [run[h] EXCEPT !.pc = pc]
<1>1. m.pc = pc /\ m.id = run[h].id /\ m.url = run[h].url /\ m.tracks = run[h].tracks
  BY DEF IInv, TypeOK, Run
<1>2. run' = [run EXCEPT ![h] = m]
  BY DEF Goes
<1> HIDE DEF m
<1> QED BY <1>1, <1>2 DEF IInv, TypeOK

LEMMA QuietInv ==
    ASSUME HInv, IInv', past' = past, NEW h \in Runs,
           \/ Snapshot(h) \/ CheckPlan(h) \/ ReadIntent(h) \/ Discover(h) \/ Reserve(h)
           \/ Arm(h) \/ Verify(h) \/ Read(h) \/ ReadBack(h) \/ Die(h)
    PROVE  HInv'
<1>1. IInv /\ run \in [Runs -> Run] /\ run[h] \in Run
  BY DEF HInv, IInv, TypeOK
<1>2. UNCHANGED <<queueVars, plan, binding, playlists, late>>
  BY DEF Snapshot, CheckPlan, ReadIntent, Discover, Reserve, Arm, Verify, Read, ReadBack, Die
<1>3. CASE Snapshot(h)
  <2> DEFINE m == [run[h] EXCEPT !.url = binding[EditionOfRun(h)], !.pc = "plan"]
  <2>1. m.pc = "plan" /\ m.url = binding[EditionOfRun(h)]
    BY <1>1 DEF Run
  <2>2. run' = [run EXCEPT ![h] = m]
    BY <1>3 DEF Snapshot
  <2> HIDE DEF m
  <2>3. run'[h] = m /\ \A g \in Runs \ {h} : run'[g] = run[g]
    BY <1>1, <2>2
  <2> QED BY <1>2, <2>1, <2>3, HeldMoves
<1>4. CASE CheckPlan(h) \/ ReadIntent(h) \/ Discover(h)
  <2>1. PICK m : /\ run' = [run EXCEPT ![h] = m]
                 /\ m.pc \in {"intent", "read", "verify", "discover", "reserve"}
    <3>1. CASE CheckPlan(h)
      <4> DEFINE m == [run[h] EXCEPT !.id = run[h].planUrl,
                          !.pc = IF run[h].planUrl = None THEN "intent" ELSE "read"]
      <4>1. run' = [run EXCEPT ![h] = m] /\ m.pc \in {"intent", "read"}
        BY <1>1, <3>1 DEF CheckPlan, Run
      <4> HIDE DEF m
      <4> QED BY <4>1
    <3>2. CASE ReadIntent(h)
      <4> DEFINE i == IntentOf(JobOf(h))
                 pc == IF i.id # None THEN "verify" ELSE IF i.sent THEN "discover" ELSE "reserve"
                 m == [run[h] EXCEPT !.marker = i.marker, !.id = i.id, !.pc = pc]
      <4>1. run' = [run EXCEPT ![h] = m]
        BY <3>2, Zenon DEF ReadIntent
      <4>2. m.pc = pc /\ pc \in {"verify", "discover", "reserve"}
        BY <1>1 DEF Run
      <4> HIDE DEF m, pc
      <4> QED BY <4>1, <4>2
    <3>3. CASE Discover(h)
      <4>1. PICK p : run' = [run EXCEPT ![h].id = p, ![h].pc = "verify"]
        BY <3>3, Zenon DEF Discover
      <4> DEFINE m == [run[h] EXCEPT !.id = p, !.pc = "verify"]
      <4>2. run' = [run EXCEPT ![h] = m] /\ m.pc = "verify"
        BY <1>1, <4>1 DEF Run
      <4> HIDE DEF m
      <4> QED BY <4>2
    <3> QED BY <1>4, <3>1, <3>2, <3>3
  <2>2. run'[h] = m /\ \A g \in Runs \ {h} : run'[g] = run[g]
    BY <1>1, <2>1
  <2> QED BY <1>2, <2>1, <2>2, HeldMoves
<1>5. CASE Reserve(h) \/ Verify(h) \/ Die(h)
  <2>1. PICK pc \in {"guardCreate", "read", "dead"} : Goes(h, pc)
    BY <1>5 DEF Reserve, Verify, Die
  <2> QED BY <1>1, <1>2, <2>1, Gone, HeldMoves
<1>6. CASE Arm(h)
  <2>1. PICK pc \in {"create", "write"} : Goes(h, pc)
    BY <1>6 DEF Arm
  <2>2. Held(h) /\ NewestStaged(JobOf(h))
    BY <1>6 DEF Arm, Guard, Current, Superseded, NewestStaged
  <2> QED BY <1>1, <1>2, <2>1, <2>2, Gone, HeldMoves
<1>7. CASE Read(h) \/ ReadBack(h)
  <2>1. CASE Goes(h, "guardWrite")
    BY <1>1, <1>2, <2>1, Gone, HeldMoves
  <2>2. CASE Goes(h, "checkpoint") /\ playlists[run[h].id].items = Complete(run[h].tracks)
    BY <1>1, <1>2, <2>2, Gone, HeldMoves
  <2> QED BY <1>7, <2>1, <2>2 DEF Read, ReadBack
<1> QED BY <1>3, <1>4, <1>5, <1>6, <1>7

\* A plan is staged with the binding that is still the edition's.
LEMMA StagePlanHInv ==
    ASSUME HInv, IInv', past' = past, NEW h \in Runs, StagePlan(h) PROVE HInv'
<1> DEFINE j == JobOf(h)
           p == IF plan[j] = None THEN [url |-> run[h].url, tracks |-> h] ELSE plan[j]
           m == [run[h] EXCEPT !.planUrl = p.url, !.tracks = p.tracks, !.pc = "check"]
<1>1. /\ run[h] \in Run /\ j \in Jobs /\ run[h].pc = "plan" /\ (plan[j] = None => Held(h))
      /\ run \in [Runs -> Run] /\ plan \in [Jobs -> Plan \cup {None}]
  BY RunTyped DEF HInv, IInv, TypeOK, StagePlan
<1>2. /\ plan[j] # None => p = plan[j]
      /\ plan[j] = None => p.url = run[h].url
  OBVIOUS
<1>3. plan' = [plan EXCEPT ![j] = p] /\ run' = [run EXCEPT ![h] = m]
  BY DEF StagePlan
<1> HIDE DEF p
<1>4. m.pc = "check"
  BY <1>1 DEF Run
<1> HIDE DEF m
<1>5. /\ run'[h] = m /\ \A g \in Runs \ {h} : run'[g] = run[g]
      /\ plan'[j] = p /\ \A k \in Jobs \ {j} : plan'[k] = plan[k]
      /\ \A k \in Jobs : plan[k] # None => plan'[k] = plan[k]
  BY <1>1, <1>2, <1>3
<1>6. /\ EditionOf' = EditionOf /\ \A g : EditionOfRun(g)' = EditionOfRun(g)
      /\ \A g : Held(g)' = Held(g)
      /\ UNCHANGED <<holder, live, attempts, done, binding, playlists, late>>
  BY DEF EditionOf, EditionOfRun, Held, StagePlan, queueVars
<1>7. \A k : NewestStaged(k)' => NewestStaged(k)
  BY <1>5, <1>6 DEF NewestStaged
<1>8. Fenced'
  <2> SUFFICES ASSUME NEW g \in Runs, InFlight(g)', ~late
               PROVE  Held(g) /\ NewestStaged(JobOf(g))'
    BY <1>6 DEF Fenced
  <2>1. InFlight(g) /\ g # h
    BY <1>4, <1>5 DEF InFlight
  <2>2. Held(g) /\ NewestStaged(JobOf(g))
    BY <2>1 DEF HInv, Fenced
  <2>3. plan[j] # None
    BY <1>1, <2>1, <2>2, OneHolder
  <2>4. plan' = plan
    BY <1>1, <1>2, <1>3, <2>3
  <2> QED BY <1>6, <2>2, <2>4 DEF NewestStaged
<1>9. \A t : Complete(t)' = Complete(t)
  BY DEF Complete
<1>10. SnapshotHolds' /\ Written' /\ Checkpointed'
  BY <1>4, <1>5, <1>6, <1>9 DEF HInv, SnapshotHolds, Written, Checkpointed
<1>11. DonePlanned'
  BY <1>5, <1>6 DEF HInv, DonePlanned, IInv, QueueTyped
<1>12. PlanFitsBinding'
  <2> SUFFICES ASSUME NEW k \in Jobs, plan'[k] # None, NewestStaged(k)'
               PROVE  plan'[k].url = binding[EditionOf[k]]
    BY <1>6 DEF PlanFitsBinding
  <2>1. CASE plan[k] # None
    BY <1>5, <1>7, <2>1 DEF HInv, PlanFitsBinding
  <2>2. CASE plan[k] = None
    <3>1. k = j
      BY <1>5, <2>2
    <3> QED BY <1>1, <1>2, <1>5, <2>2, <3>1 DEF HInv, SnapshotHolds, EditionOfRun
  <2> QED BY <2>1, <2>2
<1>13. PublishedStays'
  <2> SUFFICES ASSUME NEW k \in done, NewestStaged(k)', ~late
               PROVE  /\ binding[EditionOf[k]] # None
                      /\ playlists[binding[EditionOf[k]]].items = Complete(plan'[k].tracks)
    BY <1>6, <1>9 DEF PublishedStays
  <2>1. k \in Jobs /\ plan'[k] = plan[k]
    BY <1>5 DEF HInv, DonePlanned, IInv, QueueTyped
  <2> QED BY <1>7, <2>1 DEF HInv, PublishedStays
<1> QED BY <1>8, <1>10, <1>11, <1>12, <1>13 DEF HInv
\* A run that holds the lease of a staged publication writes to no playlist on which a newer
\* publication was completed, nor to one that another run has checked.
LEMMA WriterAlone ==
    ASSUME HInv, NEW h \in Runs, Held(h), ~Superseded(JobOf(h)),
           run[h].pc \in Writing
    PROVE  /\ \A j \in done : NewestStaged(j) => EditionOf[j] # EditionOfRun(h)
           /\ \A j \in done : NewestStaged(j) /\ binding[EditionOf[j]] # None =>
                 binding[EditionOf[j]] # run[h].id
           /\ EditionOfRun(h) \in Editions /\ done \subseteq Jobs
<1>1. /\ plan[JobOf(h)] # None /\ Own(EditionOfRun(h), run[h].id)
      /\ EditionOfRun(h) \in Editions /\ done \subseteq Jobs /\ IInv
  BY PastTyped, RunTyped DEF HInv, IInv, TypeOK, QueueTyped, RunsSound, Sound, Planned, EditionOfRun
<1>2. ASSUME NEW j \in done, NewestStaged(j) PROVE EditionOf[j] # EditionOfRun(h)
  <2>1. j \in Jobs /\ plan[j] # None
    BY <1>1 DEF HInv, DonePlanned
  <2> QED BY <1>1, <1>2, <2>1, GuardedIsNewest
<1>3. ASSUME NEW j \in done, NewestStaged(j), binding[EditionOf[j]] # None
      PROVE  binding[EditionOf[j]] # run[h].id
  <2>1. EditionOf[j] \in Editions
    BY <1>1, PastTyped DEF IInv, TypeOK
  <2>2. Own(EditionOf[j], binding[EditionOf[j]])
    BY <1>1, <1>3, <2>1, BindingOwn DEF IInv
  <2> QED BY <1>1, <1>2, <1>3, <2>1, <2>2, OwnApart
<1> QED BY <1>1, <1>2, <1>3

LEMMA CreateHInv ==
    ASSUME HInv, IInv', past' = past, NEW h \in Runs, Create(h) PROVE HInv'
<1>1. /\ IInv /\ run[h] \in Run /\ run \in [Runs -> Run] /\ run[h].pc = "create"
      /\ UNCHANGED <<queueVars, plan, binding, late>>
  BY DEF HInv, IInv, TypeOK, Create
<1>2. run'[h].pc \in {"verify", "broken"} /\ \A g \in Runs \ {h} : run'[g] = run[g]
  <2>1. CASE Goes(h, "broken")
    BY <1>1, <2>1, Gone
  <2>2. ASSUME NEW p \in Ids, run' = [run EXCEPT ![h].id = p, ![h].pc = "verify"]
        PROVE  run'[h].pc = "verify" /\ \A g \in Runs \ {h} : run'[g] = run[g]
    <3> DEFINE m == [run[h] EXCEPT !.id = p, !.pc = "verify"]
    <3>1. run' = [run EXCEPT ![h] = m] /\ m.pc = "verify"
      BY <1>1, <2>2 DEF Run
    <3> HIDE DEF m
    <3> QED BY <1>1, <3>1
  <2> QED BY <2>1, <2>2 DEF Create
<1>3. \A p \in Ids : playlists[p] # None => playlists'[p] = playlists[p]
  <2>1. CASE UNCHANGED playlists
    BY <2>1
  <2>2. ASSUME NEW p \in Ids, playlists[p] = None,
               playlists' = [playlists EXCEPT ![p] = [marker |-> run[h].marker, items |-> <<>>]]
        PROVE  \A q \in Ids : playlists[q] # None => playlists'[q] = playlists[q]
    BY <2>2 DEF HInv, IInv, TypeOK
  <2> QED BY <2>1, <2>2 DEF Create
<1>4. /\ EditionOf' = EditionOf /\ (\A g : EditionOfRun(g)' = EditionOfRun(g))
      /\ (\A g : Held(g)' = Held(g)) /\ (\A j : NewestStaged(j)' = NewestStaged(j))
      /\ \A t : Complete(t)' = Complete(t)
  BY <1>1 DEF EditionOf, EditionOfRun, Held, NewestStaged, Complete, queueVars
<1>5. Fenced' /\ SnapshotHolds' /\ Checkpointed'
  BY <1>1, <1>2, <1>4 DEF HInv, Fenced, InFlight, SnapshotHolds, Checkpointed
<1>6. Written'
  <2> SUFFICES ASSUME NEW g \in Runs, run'[g].pc \in {"checkpoint", "commit"}, Held(g), ~late
               PROVE  playlists'[run'[g].id].items = Complete(run'[g].tracks)
    BY <1>1, <1>4 DEF Written
  <2>1. g # h /\ run'[g] = run[g]
    BY <1>2
  <2>2. run[g].id \in Ids /\ playlists[run[g].id] # None
    BY <1>1, <2>1 DEF IInv, RunsSound, Sound, Own, Writing
  <2> QED BY <1>3, <2>1, <2>2 DEF HInv, Written
<1>7. DonePlanned' /\ PlanFitsBinding'
  BY <1>1, <1>4 DEF HInv, DonePlanned, PlanFitsBinding, queueVars
<1>8. PublishedStays'
  <2> SUFFICES ASSUME NEW j \in done, NewestStaged(j), ~late
               PROVE  /\ binding[EditionOf[j]] # None
                      /\ playlists'[binding[EditionOf[j]]].items = Complete(plan[j].tracks)
    BY <1>1, <1>4 DEF PublishedStays, queueVars
  <2>1. /\ binding[EditionOf[j]] # None
        /\ playlists[binding[EditionOf[j]]].items = Complete(plan[j].tracks)
    BY DEF HInv, PublishedStays
  <2>2. EditionOf[j] \in Editions
    BY <1>1, PastTyped DEF IInv, TypeOK, QueueTyped
  <2>3. binding[EditionOf[j]] \in Ids /\ playlists[binding[EditionOf[j]]] # None
    BY <1>1, <2>1, <2>2, BindingOwn DEF IInv, Own
  <2> QED BY <1>3, <2>1, <2>3
<1> QED BY <1>5, <1>6, <1>7, <1>8 DEF HInv

\* A request that does not outlive its lease changes nothing that was completed or checked.
LEMMA WriteHInv ==
    ASSUME HInv, IInv', past' = past, NEW h \in Runs, Write(h) PROVE HInv'
<1>1. /\ IInv /\ run[h] \in Run /\ run \in [Runs -> Run] /\ run[h].pc = "write"
      /\ UNCHANGED <<queueVars, plan, binding, late>>
  BY DEF HInv, IInv, TypeOK, Write
<1>2. /\ run'[h].pc \in {"readBack", "guardWrite", "broken"}
      /\ \A g \in Runs \ {h} : run'[g] = run[g]
  <2>1. ASSUME NEW pc \in {"readBack", "broken"}, Goes(h, pc)
        PROVE  run'[h].pc = pc /\ \A g \in Runs \ {h} : run'[g] = run[g]
    BY <1>1, <2>1, Gone
  <2>2. ASSUME run' = [run EXCEPT ![h].part = run[h].part + 1, ![h].pc = "guardWrite"]
        PROVE  run'[h].pc = "guardWrite" /\ \A g \in Runs \ {h} : run'[g] = run[g]
    <3> DEFINE m == [run[h] EXCEPT !.part = run[h].part + 1, !.pc = "guardWrite"]
    <3>1. run' = [run EXCEPT ![h] = m] /\ m.pc = "guardWrite"
      BY <1>1, <2>2 DEF Run
    <3> HIDE DEF m
    <3> QED BY <1>1, <3>1
  <2>3. Goes(h, "readBack") \/ Goes(h, "broken")
        \/ run' = [run EXCEPT ![h].part = run[h].part + 1, ![h].pc = "guardWrite"]
    BY DEF Write
  <2> QED BY <2>1, <2>2, <2>3
<1>3. \A q \in Ids \ {run[h].id} : playlists'[q] = playlists[q]
  <2> DEFINE p == run[h].id
             n == run[h].part
             l == [playlists[p] EXCEPT !.items =
                     IF n = 1 THEN << <<run[h].tracks, 1>> >> ELSE Append(@, <<run[h].tracks, n>>)]
  <2>1. playlists' = [playlists EXCEPT ![p] = l] \/ playlists' = playlists
    BY DEF Write
  <2> HIDE DEF l
  <2> QED BY <2>1 DEF HInv, IInv, TypeOK
<1>4. /\ EditionOf' = EditionOf /\ (\A g : EditionOfRun(g)' = EditionOfRun(g))
      /\ (\A g : Held(g)' = Held(g)) /\ (\A j : NewestStaged(j)' = NewestStaged(j))
      /\ \A t : Complete(t)' = Complete(t)
  BY <1>1 DEF EditionOf, EditionOfRun, Held, NewestStaged, Complete, queueVars
<1>5. Fenced' /\ SnapshotHolds' /\ Checkpointed'
  BY <1>1, <1>2, <1>4 DEF HInv, Fenced, InFlight, SnapshotHolds, Checkpointed
<1>6. ~late => Held(h) /\ ~Superseded(JobOf(h))
  BY <1>1 DEF HInv, Fenced, InFlight, NewestStaged, Superseded
<1>7. Written'
  <2> SUFFICES ASSUME NEW g \in Runs, run'[g].pc \in {"checkpoint", "commit"}, Held(g), ~late
               PROVE  FALSE
    BY <1>1, <1>4 DEF Written
  <2> QED BY <1>2, <1>6, OneHolder
<1>8. DonePlanned' /\ PlanFitsBinding'
  BY <1>1, <1>4 DEF HInv, DonePlanned, PlanFitsBinding, queueVars
<1>9. PublishedStays'
  <2> SUFFICES ASSUME NEW j \in done, NewestStaged(j), ~late
               PROVE  /\ binding[EditionOf[j]] # None
                      /\ playlists'[binding[EditionOf[j]]].items = Complete(plan[j].tracks)
    BY <1>1, <1>4 DEF PublishedStays, queueVars
  <2>1. /\ binding[EditionOf[j]] # None
        /\ playlists[binding[EditionOf[j]]].items = Complete(plan[j].tracks)
    BY DEF HInv, PublishedStays
  <2>2. binding[EditionOf[j]] # run[h].id
    BY <1>1, <1>6, <2>1, WriterAlone DEF Writing
  <2>3. EditionOf[j] \in Editions
    BY <1>1, PastTyped DEF IInv, TypeOK, QueueTyped
  <2>4. binding[EditionOf[j]] \in Ids
    BY <1>1, <2>1, <2>3 DEF IInv, TypeOK
  <2> QED BY <1>3, <2>1, <2>2, <2>4
<1> QED BY <1>5, <1>7, <1>8, <1>9 DEF HInv

\* Binding and plan move together, and only for the newest publication.
LEMMA CheckpointHInv ==
    ASSUME HInv, IInv', past' = past, NEW h \in Runs, Checkpoint(h) PROVE HInv'
<1> DEFINE j == JobOf(h)
           e == EditionOfRun(h)
           p == run[h].id
           m == [run[h] EXCEPT !.url = p, !.pc = "commit"]
           q == [plan[j] EXCEPT !.url = p]
<1>1. /\ IInv /\ run[h] \in Run /\ run \in [Runs -> Run] /\ run[h].pc = "checkpoint"
      /\ UNCHANGED <<queueVars, intent, playlists, late>>
      /\ j \in Jobs /\ plan \in [Jobs -> Plan \cup {None}]
      /\ binding \in [Editions -> Ids \cup {None}]
  BY RunTyped DEF HInv, IInv, TypeOK, Checkpoint
<1>2. Held(h) /\ ~Superseded(j)
  BY DEF Checkpoint, Guard, Current
<1>3. plan[j] \in Plan /\ plan[j] # None /\ e = EditionOf[j]
  BY <1>1 DEF IInv, RunsSound, Sound, Planned, Writing, EditionOfRun
<1>4. m.pc = "commit" /\ m.url = p /\ m.id = p /\ m.tracks = run[h].tracks
  BY <1>1 DEF Run
<1>5. q.url = p /\ q.tracks = plan[j].tracks
  BY <1>3 DEF Plan
<1>6. run' = [run EXCEPT ![h] = m] /\ plan' = [plan EXCEPT ![j] = q]
      /\ binding' = [binding EXCEPT ![e] = p]
  BY DEF Checkpoint
<1> HIDE DEF m, q
<1>7. /\ e \in Editions /\ done \subseteq Jobs
      /\ \A k \in done : NewestStaged(k) => EditionOf[k] # e
  BY <1>1, <1>2, WriterAlone DEF Writing
<1>8. /\ run'[h] = m /\ \A g \in Runs \ {h} : run'[g] = run[g]
      /\ plan'[j] = q /\ \A k \in Jobs \ {j} : plan'[k] = plan[k]
      /\ binding'[e] = p /\ \A d \in Editions \ {e} : binding'[d] = binding[d]
  BY <1>1, <1>6, <1>7
<1>9. \A k \in Jobs : (plan'[k] = None <=> plan[k] = None) /\ plan'[k].tracks = plan[k].tracks
  <2>1. plan'[j] # None
    <3>1. run'[h].pc \in Planned
      BY <1>4, <1>8 DEF Planned, Writing
    <3> QED BY <3>1 DEF IInv, RunsSound, Sound
  <2> QED BY <1>3, <1>5, <1>8, <2>1
<1>10. /\ EditionOf' = EditionOf /\ (\A g : EditionOfRun(g)' = EditionOfRun(g))
       /\ (\A g : Held(g)' = Held(g)) /\ \A t : Complete(t)' = Complete(t)
  BY <1>1 DEF EditionOf, EditionOfRun, Held, Complete, queueVars
<1>11. \A k : NewestStaged(k)' <=> NewestStaged(k)
  BY <1>9, <1>10 DEF NewestStaged
<1>12. Fenced' /\ Checkpointed'
  BY <1>1, <1>4, <1>8, <1>10, <1>11 DEF HInv, Fenced, InFlight, Checkpointed
<1>13. SnapshotHolds'
  <2> SUFFICES ASSUME NEW g \in Runs, run'[g].pc = "plan", Held(g) PROVE FALSE
    BY <1>10 DEF SnapshotHolds
  <2> QED BY <1>1, <1>2, <1>4, <1>8, OneHolder
<1>14. Written'
  <2> SUFFICES ASSUME NEW g \in Runs, run'[g].pc \in {"checkpoint", "commit"}, Held(g), ~late
               PROVE  playlists[run'[g].id].items = Complete(run'[g].tracks)
    BY <1>1, <1>10 DEF Written
  <2>1. g = h
    BY <1>2, OneHolder
  <2> QED BY <1>1, <1>4, <1>8, <2>1 DEF HInv, Written
<1>15. DonePlanned'
  BY <1>1, <1>7, <1>9 DEF HInv, DonePlanned, queueVars
<1>16. PlanFitsBinding'
  <2> SUFFICES ASSUME NEW k \in Jobs, plan[k] # None, NewestStaged(k)
               PROVE  plan'[k].url = binding'[EditionOf[k]]
    BY <1>9, <1>10, <1>11 DEF PlanFitsBinding
  <2>1. CASE EditionOf[k] = e
    <3>1. k = j
      BY <1>2, <1>3, <2>1, GuardedIsNewest
    <3> QED BY <1>3, <1>5, <1>8, <3>1
  <2>2. CASE EditionOf[k] # e
    <3>1. EditionOf[k] \in Editions
      BY <1>1, PastTyped DEF IInv, TypeOK
    <3> QED BY <1>3, <1>8, <2>2, <3>1 DEF HInv, PlanFitsBinding
  <2> QED BY <2>1, <2>2
<1>17. PublishedStays'
  <2> SUFFICES ASSUME NEW k \in done, NewestStaged(k), ~late
               PROVE  /\ binding'[EditionOf[k]] # None
                      /\ playlists[binding'[EditionOf[k]]].items = Complete(plan'[k].tracks)
    BY <1>1, <1>10, <1>11 DEF PublishedStays, queueVars
  <2>1. EditionOf[k] \in Editions \ {e} /\ k \in Jobs
    BY <1>1, <1>7, PastTyped DEF IInv, TypeOK
  <2> QED BY <1>8, <1>9, <2>1 DEF HInv, PublishedStays
<1> QED BY <1>12, <1>13, <1>14, <1>15, <1>16, <1>17 DEF HInv
\* Without a live lease nobody holds one.
LEMMA Unheld == ASSUME ~live[Festival], NEW h PROVE ~Held(h)
  BY DEF Held

LEMMA Released ==
    ASSUME QueueTyped, NEW j \in Jobs, Queue!Release(j)
    PROVE  ~live'[Festival] /\ holder'[Festival] = None /\ attempts' = attempts
  BY DEF QueueTyped, Queue!Release

\* What a run completes is in the playlist, and the edition is bound to it.
LEMMA CommitHInv ==
    ASSUME HInv, IInv', past' = past, NEW h \in Runs, Commit(h) PROVE HInv'
<1> DEFINE j == JobOf(h)
<1>1. /\ IInv /\ run[h].pc = "commit" /\ Held(h) /\ j \in Jobs /\ Goes(h, "finished")
      /\ binding[EditionOfRun(h)] = run[h].url /\ done' = done \cup {j}
      /\ UNCHANGED <<plan, binding, playlists, late>> /\ EditionOfRun(h) = EditionOf[j]
  BY RunTyped DEF HInv, Commit, Guard, Current, EditionOfRun
<1>2. ~live'[Festival] /\ holder'[Festival] = None
  BY <1>1, Released DEF IInv, Commit
<1>3. run'[h].pc = "finished" /\ \A g \in Runs \ {h} : run'[g] = run[g]
  BY <1>1, Gone
<1>4. /\ EditionOf' = EditionOf /\ (\A k : NewestStaged(k)' = NewestStaged(k))
      /\ (\A t : Complete(t)' = Complete(t))
  BY <1>1 DEF EditionOf, NewestStaged, Complete
<1>5. \A g : ~Held(g)'
  BY <1>2 DEF Held
<1>6. Fenced'
  <2> SUFFICES ASSUME NEW g \in Runs, InFlight(g)', ~late PROVE FALSE
    BY <1>1 DEF Fenced
  <2>1. InFlight(g) /\ g # h
    BY <1>3 DEF InFlight
  <2> QED BY <1>1, <2>1, OneHolder DEF HInv, Fenced
<1>7. SnapshotHolds' /\ Written' /\ Checkpointed'
  BY <1>3, <1>5 DEF HInv, SnapshotHolds, Written, Checkpointed
<1>8. plan[j] # None /\ run[h].tracks = plan[j].tracks /\ Own(EditionOfRun(h), run[h].id)
  BY <1>1 DEF IInv, RunsSound, Sound, Planned, Writing
<1>9. DonePlanned'
  <2>1. \A k \in Jobs : k # None
    BY PublicationAssumption
  <2>2. done \subseteq Jobs
    BY <1>1 DEF IInv, QueueTyped
  <2> QED BY <1>1, <1>2, <1>8, <2>1, <2>2 DEF HInv, DonePlanned
<1>10. PlanFitsBinding'
  BY <1>1, <1>4 DEF HInv, PlanFitsBinding
<1>11. PublishedStays'
  <2> SUFFICES ASSUME NEW k \in done', NewestStaged(k), ~late
               PROVE  /\ binding[EditionOf[k]] # None
                      /\ playlists[binding[EditionOf[k]]].items = Complete(plan[k].tracks)
    BY <1>1, <1>4 DEF PublishedStays
  <2>1. CASE k \in done
    BY <2>1 DEF HInv, PublishedStays
  <2>2. CASE k = j
    <3>1. binding[EditionOf[j]] = run[h].id
      BY <1>1 DEF HInv, Checkpointed
    <3>2. run[h].id # None
      BY <1>8, PublicationAssumption DEF Own
    <3>3. playlists[run[h].id].items = Complete(run[h].tracks)
      BY <1>1 DEF HInv, Written
    <3> QED BY <1>8, <2>2, <3>1, <3>2, <3>3
  <2> QED BY <1>1, <2>1, <2>2
<1> QED BY <1>6, <1>7, <1>9, <1>10, <1>11 DEF HInv

\* The end of an attempt, and a lease that lapses, leave a request behind only as a late one.
LEMMA FailHInv ==
    ASSUME HInv, IInv', past' = past, NEW h \in Runs, Fail(h) PROVE HInv'
<1>1. /\ IInv /\ JobOf(h) \in Jobs /\ UNCHANGED <<plan, binding, playlists, done>>
      /\ late' = (late \/ InFlight(h))
      /\ \/ Goes(h, "dead")
         \/ Held(h) /\ InFlight(h) /\ UNCHANGED run
  BY RunTyped DEF HInv, Fail, queueVars
<1>2. \/ Held(h) /\ ~live'[Festival] /\ holder'[Festival] = None
      \/ ~Held(h) /\ UNCHANGED queueVars
  BY <1>1, Released DEF IInv, Fail
<1>3. \A g \in Runs : run'[g] = run[g] \/ (g = h /\ run'[g].pc = "dead")
  BY <1>1, Gone
<1>4. /\ EditionOf' = EditionOf /\ (\A g : EditionOfRun(g)' = EditionOfRun(g))
      /\ (\A k : NewestStaged(k)' = NewestStaged(k))
      /\ (\A t : Complete(t)' = Complete(t))
  BY <1>1 DEF EditionOf, EditionOfRun, NewestStaged, Complete
<1>5. \A g : Held(g)' => Held(g)
  BY <1>2 DEF Held, queueVars
<1>6. Fenced'
  <2> SUFFICES ASSUME NEW g \in Runs, InFlight(g)', ~late, ~InFlight(h)
               PROVE  Held(g)' /\ NewestStaged(JobOf(g))
    BY <1>1, <1>4 DEF Fenced
  <2>1. InFlight(g) /\ g # h
    BY <1>3 DEF InFlight
  <2>2. Held(g) /\ NewestStaged(JobOf(g))
    BY <2>1 DEF HInv, Fenced
  <2>3. ~Held(h)
    BY <2>1, <2>2, OneHolder
  <2> QED BY <1>2, <2>2, <2>3 DEF Held, queueVars
<1>7. SnapshotHolds' /\ Written' /\ Checkpointed'
  BY <1>1, <1>3, <1>4, <1>5 DEF HInv, SnapshotHolds, Written, Checkpointed
<1>8. DonePlanned'
  <2>1. done \subseteq Jobs /\ None \notin Jobs
    BY <1>1, PublicationAssumption DEF IInv, QueueTyped
  <2> QED BY <1>1, <1>2, <2>1 DEF HInv, DonePlanned, queueVars
<1>9. PlanFitsBinding' /\ PublishedStays'
  BY <1>1, <1>4 DEF HInv, PlanFitsBinding, PublishedStays
<1> QED BY <1>6, <1>7, <1>8, <1>9 DEF HInv

LEMMA LapseHInv ==
    ASSUME HInv, IInv', past' = past, Lapse PROVE HInv'
<1>1. /\ UNCHANGED <<plan, binding, playlists, run, holder, attempts, done>>
      /\ late' = (late \/ \E h \in Runs : Held(h) /\ InFlight(h))
      /\ live'[Festival] => live[Festival]
  BY DEF Lapse, Queue!Lapse
<1>2. /\ EditionOf' = EditionOf /\ (\A g : EditionOfRun(g)' = EditionOfRun(g))
      /\ (\A k : NewestStaged(k)' = NewestStaged(k))
      /\ (\A t : Complete(t)' = Complete(t))
      /\ \A g : Held(g)' => Held(g)
  BY <1>1 DEF EditionOf, EditionOfRun, NewestStaged, Complete, Held
<1>3. Fenced'
  BY <1>1 DEF HInv, Fenced, InFlight
<1>4. SnapshotHolds' /\ Written' /\ Checkpointed'
  BY <1>1, <1>2 DEF HInv, SnapshotHolds, Written, Checkpointed
<1>5. DonePlanned' /\ PlanFitsBinding' /\ PublishedStays'
  BY <1>1, <1>2 DEF HInv, DonePlanned, PlanFitsBinding, PublishedStays
<1> QED BY <1>3, <1>4, <1>5 DEF HInv

\* A new attempt has no predecessor in flight.
LEMMA ClaimHInv ==
    ASSUME HInv, IInv', past' = past, NEW j \in Jobs, Claim(j) PROVE HInv'
<1> DEFINE n == attempts[j] + 1
<1>1. /\ IInv /\ UNCHANGED <<plan, binding, playlists, late, done>> /\ j \notin done
      /\ ~live[Festival] /\ holder'[Festival] = j
      /\ attempts'[j] = n
      /\ run' = [run EXCEPT ![<<j, n>>].pc = "snapshot"]
  BY DEF HInv, IInv, QueueTyped, Claim, Queue!Acquire
<1>2. \A g \in Runs : run'[g] = run[g] \/ (g = <<j, n>> /\ run'[g].pc = "snapshot")
  <2> SUFFICES ASSUME NEW g \in Runs, g = <<j, n>> PROVE run'[g].pc = "snapshot"
    BY <1>1 DEF IInv, TypeOK
  <2>1. Goes(g, "snapshot")
    BY <1>1 DEF Goes
  <2> QED BY <1>1, <2>1, Gone
<1>3. \A g \in Runs : Held(g)' => g = <<j, n>>
  <2> SUFFICES ASSUME NEW g \in Runs, Held(g)' PROVE g = <<j, n>>
    OBVIOUS
  <2>1. JobOf(g) = j /\ g[2] = n
    BY <1>1 DEF Held
  <2> QED BY <2>1, RunTyped, Zenon
<1>4. /\ EditionOf' = EditionOf /\ (\A k : NewestStaged(k)' = NewestStaged(k))
      /\ (\A t : Complete(t)' = Complete(t))
  BY <1>1 DEF EditionOf, NewestStaged, Complete
<1>5. Fenced'
  <2> SUFFICES ASSUME NEW g \in Runs, InFlight(g)', ~late PROVE FALSE
    BY <1>1 DEF Fenced
  <2>1. InFlight(g)
    BY <1>2 DEF InFlight
  <2> QED BY <1>1, <2>1, Unheld DEF HInv, Fenced
<1>6. Checkpointed'
  BY <1>2 DEF HInv, Checkpointed
<1>7. \A g \in Runs : Held(g)' => run'[g].pc = "snapshot"
  <2> SUFFICES ASSUME NEW g \in Runs, Held(g)' PROVE run'[g].pc = "snapshot"
    OBVIOUS
  <2>1. g = <<j, n>>
    BY <1>3
  <2>2. Goes(g, "snapshot")
    BY <1>1, <2>1 DEF Goes
  <2> QED BY <1>1, <2>2, Gone
<1>8. SnapshotHolds' /\ Written'
  BY <1>7 DEF SnapshotHolds, Written
<1>9. DonePlanned'
  BY <1>1 DEF HInv, DonePlanned
<1>10. PlanFitsBinding' /\ PublishedStays'
  BY <1>1, <1>4 DEF HInv, PlanFitsBinding, PublishedStays
<1> QED BY <1>5, <1>6, <1>8, <1>9, <1>10 DEF HInv
LEMMA NextHInv == HInv /\ [Next]_vars => HInv'
<1> SUFFICES ASSUME HInv, [Next]_vars PROVE HInv'
  OBVIOUS
<1>1. IInv'
  BY NextInv DEF HInv
<1>2. CASE UNCHANGED vars
  <2>1. /\ EditionOf' = EditionOf /\ (\A g : EditionOfRun(g)' = EditionOfRun(g))
        /\ (\A k : NewestStaged(k)' = NewestStaged(k))
        /\ (\A t : Complete(t)' = Complete(t))
        /\ \A g : Held(g)' = Held(g)
    BY <1>2 DEF EditionOf, EditionOfRun, NewestStaged, Complete, Held, vars
  <2>2. Fenced' /\ SnapshotHolds' /\ Written' /\ Checkpointed'
    BY <1>2, <2>1 DEF vars, HInv, Fenced, InFlight, SnapshotHolds, Written, Checkpointed
  <2>3. DonePlanned' /\ PlanFitsBinding' /\ PublishedStays'
    BY <1>2, <2>1 DEF vars, HInv, DonePlanned, PlanFitsBinding, PublishedStays
  <2> QED BY <1>1, <2>2, <2>3 DEF HInv
<1>3. CASE Next
  <2>1. past' = past
    BY <1>3 DEF Next
  <2>2. ASSUME NEW j \in Jobs, Claim(j) PROVE HInv'
    BY <1>1, <2>1, <2>2, ClaimHInv
  <2>3. ASSUME NEW h \in Runs,
               \/ Snapshot(h) \/ StagePlan(h) \/ CheckPlan(h)
               \/ ReadIntent(h) \/ Discover(h) \/ Reserve(h) \/ Arm(h) \/ Create(h) \/ Verify(h)
        PROVE  HInv'
    BY <1>1, <2>1, <2>3, QuietInv, StagePlanHInv, CreateHInv
  <2>4. ASSUME NEW h \in Runs,
               \/ Read(h) \/ Write(h) \/ ReadBack(h)
               \/ Checkpoint(h) \/ Commit(h) \/ Fail(h) \/ Die(h)
        PROVE  HInv'
    BY <1>1, <2>1, <2>4, QuietInv, WriteHInv, CheckpointHInv, CommitHInv, FailHInv
  <2>5. CASE Lapse
    BY <1>1, <2>1, <2>5, LapseHInv
  <2> QED BY <1>3, <2>2, <2>3, <2>4, <2>5 DEF Next
<1> QED BY <1>2, <1>3

LEMMA OneCreationHolds == IInv => OneCreation
<1> SUFFICES ASSUME IInv, NEW e \in Editions
             PROVE  Cardinality(Created(e)) <= 1 /\ (Prebound[e] # None => Created(e) = {})
  BY DEF OneCreation
<1>1. Prebound[e] # None => Created(e) = {}
  BY DEF IInv, OneMade
<1>2. CASE Created(e) = {}
  BY <1>1, <1>2, FS_EmptySet
<1>3. CASE Created(e) # {}
  <2>1. PICK p : p \in Created(e)
    BY <1>3
  <2>2. \A q \in Created(e) : q = p
    BY <2>1 DEF IInv, OneMade
  <2>3. Created(e) = {p}
    BY <2>1, <2>2
  <2>4. Cardinality(Created(e)) = 1
    BY <2>3, FS_Singleton, Zenon
  <2> QED BY <1>1, <2>4
<1> QED BY <1>2, <1>3

-----------------------------------------------------------------------------
\* An edition never gets a second playlist from the worker, and none if it had one.
THEOREM CreatedOnce == Spec => []OneCreation
  BY InitInv, NextInv, OneCreationHolds, PTL DEF Spec

\* The inductive invariant: what the holder of the lease has read and written stays as it is.
THEOREM Inductive == Spec => []HInv
  BY InitHInv, NextHInv, PTL DEF Spec

\* An edition has one playlist and is bound to it, the newest plan fits the binding, and what
\* the last publication put in stays there until a newer one is staged.
THEOREM Kept == Spec => []PublishedIsKept
<1>1. HInv => PublishedIsKept
  BY OneCreationHolds DEF HInv, IInv, PublishedIsKept
<1> QED BY <1>1, Inductive, PTL

\* No publication writes to a playlist once a newer one has staged its plan, unless a request
\* outlives its sender.
THEOREM Guarded == Spec => NoStaleWrite
<1>1. HInv /\ [Next]_vars =>
         [\A h \in Runs : run[h].pc = "write" /\ playlists' # playlists /\ run'[h] # run[h] /\ ~late
             => NewestStaged(JobOf(h))]_vars
  BY DEF HInv, Fenced, InFlight
<1> QED BY <1>1, Inductive, PTL DEF Spec, NoStaleWrite

-----------------------------------------------------------------------------
\* The third part is about YoutubePlaylist: what a request that is still out may do, and
\* what the running attempt may rely on.

\* The steps at which the attempt works on the playlist it has found.
Applying == {"describe", "put", "cut", "fill", "post", "commit"}
Settled == {"settle"} \cup Applying

YtRequests ==
    [do : {"create"}, id : {Nothing}, arg : YtJobs]
      \cup [do : {"put"}, id : Playlists, arg : {0} \cup YtJobs]
      \cup [do : {"delete"}, id : Playlists, arg : Nat]
      \cup [do : {"insert"}, id : Playlists, arg : Videos]

Item == [n : Nat, video : Videos]

YoutubeTyped ==
    /\ ytPlan \in [YtJobs -> VideoPlan \cup {Nothing}]
    /\ ytState \in [YtJobs -> YoutubeState \cup {Nothing}]
    /\ ytBinding \in Playlists \cup {Nothing}
    /\ provider \in [Playlists -> Listing \cup {Nothing}]
    /\ serial \in Nat
    /\ \A r \in flight : r \in YtRequests /\ r.do \in Late /\ YtJobs # {}

AttemptTyped ==
    /\ att.at \in {"idle", "read", "create", "bind", "settle"} \cup Applying
    /\ att.at # "idle" =>
         /\ att.job \in YtJobs
         /\ ytPlan[att.job] # Nothing
         /\ att.url \in Playlists \cup {Nothing}
    /\ att.at \notin {"idle", "read"} => att.state \in YoutubeState
    /\ att.items \in Seq(Item)
    /\ att.kept \in Nat

\* No video is twice among the items.
Distinct(items) == \A i, k \in 1..Len(items) : items[i].video = items[k].video => i = k
ListsDistinct == \A p \in Playlists : provider[p] # Nothing => Distinct(provider[p].items)

Untouched == (\A p \in New : ~Made(p)) /\ (\A r \in flight : r.do # "create")

\* A second playlist is out of reach: as long as none was sent for there is none, and the
\* one request there may be finds none.
CreationFits ==
    /\ \A p, q \in New : Made(p) /\ Made(q) => p = q
    /\ \A r, t \in flight : r.do = "create" /\ t.do = "create" => r = t
    /\ \A r \in flight : r.do = "create" => \A p \in New : ~Made(p)
    /\ \A j \in YtJobs : ~Stored(j).sent => Untouched
    /\ att.at = "create" => Untouched /\ Stored(att.job).sent

Has(p, v) == \E i \in 1..Len(provider[p].items) : provider[p].items[i].video = v

\* What a request without answer was meant to do is recorded and has not happened.
OutInsert(r, s) ==
    /\ ~Has(r.id, r.arg)
    /\ s.insert # Nothing
    /\ s.insert.id = r.id
    /\ s.insert.videos # <<>> /\ s.insert.videos[Len(s.insert.videos)] = r.arg
OutPut(r, s) ==
    /\ provider[r.id].mark # r.arg
    /\ s.meta # Nothing /\ s.meta.id = r.id /\ s.meta.mark = r.arg

FlightFits ==
    \A r \in flight :
        /\ r.do # "create" => provider[r.id] # Nothing
        /\ r.do = "insert" => \A j \in YtJobs : OutInsert(r, Stored(j))
        /\ r.do = "put" => \A j \in YtJobs : OutPut(r, Stored(j))

\* Nothing is out that would write.
Calm == \A r \in flight : r.do \notin {"insert", "put"}

\* The intents the attempt has read are those that are recorded.
Knows ==
    att.at \in {"create", "bind", "settle"} =>
        att.state.insert = Stored(att.job).insert /\ att.state.meta = Stored(att.job).meta

\* The attempt works on the playlist of the edition.
Aims ==
    /\ att.at \in {"create", "bind"} => att.url = Nothing
    /\ att.at = "bind" => att.id \in Playlists
    /\ att.at \in Settled =>
         /\ att.id \in Playlists
         /\ Bound(att, Stored(att.job)) = att.id

\* Which intents are recorded while the attempt works on the playlist.
Recorded(s) ==
    /\ att.at \in Applying \ {"post"} => s.insert = Nothing
    /\ att.at \in Applying \ {"put"} => s.meta = Nothing
    /\ att.at = "put" =>
         /\ s.meta = [id |-> att.id, mark |-> Wanted]
         /\ provider[att.id].mark # Wanted
    /\ att.at = "post" =>
         s.insert = [id |-> att.id, videos |-> SubSeq(Desired, 1, att.kept + 1)]

Progress ==
    /\ att.at \in Applying => provider[att.id] # Nothing /\ Calm /\ Recorded(Stored(att.job))
    /\ att.at \in {"cut", "fill", "post"} => att.kept \in 0..Len(Desired)
    /\ att.at = "post" => att.kept < Len(Desired)
    /\ att.at \in {"fill", "post"} =>
         \A v \in Videos : Has(att.id, v) => \E k \in 1..att.kept : Desired[k] = v
    /\ att.at = "commit" /\ "delete" \notin Late => Content(att.id) = Desired

YoutubeInv ==
    /\ YoutubeTyped /\ AttemptTyped /\ ListsDistinct
    /\ CreationFits /\ FlightFits
    /\ Knows /\ Aims /\ Progress

\* What a transaction finds: the oldest state, or a new one.
LEMMA OldestRowIs ==
    ASSUME YoutubeAssumption, History # {}
    PROVE  OldestRow \in History /\ \A l \in History : OldestRow <= l
<1>1. History \in SUBSET Nat
  BY DEF YoutubeAssumption, History
<1>2. \E k \in History : \A l \in History : k <= l
  BY <1>1, Oldest
<1> QED BY <1>2 DEF OldestRow

LEMMA StoredTyped ==
    ASSUME YoutubeAssumption, YoutubeTyped, NEW j \in YtJobs
    PROVE  Stored(j) \in YoutubeState
<1>1. CASE History = {}
  <2>1. Stored(j) = Unsent(j)
    BY <1>1 DEF Stored
  <2> QED BY <2>1 DEF Unsent, YoutubeState
<1>2. CASE History # {}
  <2>1. OldestRow \in YtJobs /\ ytState[OldestRow] # Nothing
    BY <1>2, OldestRowIs DEF History
  <2> QED BY <1>2, <2>1 DEF Stored, YoutubeTyped
<1> QED BY <1>1, <1>2

\* All jobs of the edition find the same state, once there is one.
LEMMA StoredShared ==
    ASSUME NEW j \in YtJobs, NEW k \in YtJobs
    PROVE  \/ Stored(j) = Stored(k)
           \/ Stored(j) = Unsent(j) /\ Stored(k) = Unsent(k)
  BY DEF Stored

\* What is stored is what the next transaction finds, whichever job it is for.
LEMMA Stores ==
    ASSUME YoutubeAssumption, YoutubeTyped, NEW j \in YtJobs, NEW s \in YoutubeState, Store(j, s)
    PROVE  /\ ytState' \in [YtJobs -> YoutubeState \cup {Nothing}]
           /\ ytPlan' = ytPlan
           /\ \A k \in YtJobs : Stored(k)' = s
<1> DEFINE Hit(k) == k = j \/ (History # {} /\ k = OldestRow)
<1>1. /\ ytState' = [k \in YtJobs |-> IF Hit(k) THEN s ELSE ytState[k]]
      /\ ytPlan' = ytPlan
  BY DEF Store
<1>2. \A k \in YtJobs : ytState[k] \in YoutubeState \cup {Nothing}
  BY DEF YoutubeTyped
<1>3. s # Nothing
  BY DEF YoutubeAssumption
<1>4. History # {} => OldestRow \in History /\ \A l \in History : OldestRow <= l
  BY OldestRowIs
<1>5. History' = History \cup {j}
  BY <1>1, <1>3, <1>4 DEF History
<1>6. History' \in SUBSET Nat /\ History \in SUBSET Nat /\ j \in Nat
  BY <1>5 DEF YoutubeAssumption, History
<1>7. \E k \in History' : \A l \in History' : k <= l
  BY <1>5, <1>6, Oldest
<1>8. OldestRow' \in History' /\ \A l \in History' : OldestRow' <= l
  BY <1>7 DEF OldestRow
<1>9. Hit(OldestRow')
  <2>1. CASE OldestRow' = j
    BY <2>1
  <2>2. CASE OldestRow' # j
    <3>1. OldestRow' \in History /\ History # {}
      BY <1>5, <1>8, <2>2
    <3>2. OldestRow \in History' /\ OldestRow <= OldestRow'
      BY <1>4, <1>5, <3>1
    <3>3. OldestRow' <= OldestRow
      BY <1>8, <3>2
    <3>4. OldestRow' \in Nat /\ OldestRow \in Nat
      BY <1>6, <3>1, <1>4
    <3>5. OldestRow' = OldestRow
      BY <3>2, <3>3, <3>4
    <3> QED BY <3>1, <3>5
  <2> QED BY <2>1, <2>2
<1>10. OldestRow' \in YtJobs /\ History' # {}
  BY <1>5, <1>8 DEF History
<1>11. ytState'[OldestRow'] = s
  BY <1>1, <1>9, <1>10
<1>12. \A k \in YtJobs : Stored(k)' = s
  BY <1>10, <1>11 DEF Stored
<1>13. ytState' \in [YtJobs -> YoutubeState \cup {Nothing}]
  BY <1>1, <1>2
<1> QED BY <1>1, <1>12, <1>13

LEMMA StoredStays ==
    ASSUME ytState' = ytState, NEW j
    PROVE  Stored(j)' = Stored(j)
<1>1. History' = History
  BY DEF History
<1> QED BY <1>1 DEF Stored, OldestRow

LEMMA StateTyped ==
    ASSUME NEW s \in YoutubeState
    PROVE  /\ s.marker \in YtJobs /\ s.sent \in BOOLEAN /\ s.adopted \in BOOLEAN
           /\ s.id \in Playlists \cup {Nothing}
           /\ s.insert \in Insertion \cup {Nothing} /\ s.meta \in Description \cup {Nothing}
  BY DEF YoutubeState

\* What each action of youtubeProviderState makes of the state.
LEMMA Changes ==
    ASSUME NEW s \in YoutubeState, NEW p \in Playlists
    PROVE  /\ Adopted(s, p) \in YoutubeState
           /\ Adopted(s, p).sent /\ Adopted(s, p).insert = s.insert /\ Adopted(s, p).meta = s.meta
           /\ Identified(s, p) \in YoutubeState
           /\ Identified(s, p).id = p /\ Identified(s, p).sent = s.sent
           /\ Identified(s, p).insert = s.insert /\ Identified(s, p).meta = s.meta
  BY DEF Adopted, Identified, Changed, YoutubeState

LEMMA Sends ==
    ASSUME NEW s \in YoutubeState
    PROVE  /\ Reserved(s) \in YoutubeState
           /\ Reserved(s).sent /\ Reserved(s).insert = s.insert /\ Reserved(s).meta = s.meta
           /\ Reopened(s) \in YoutubeState
           /\ Reopened(s).insert = s.insert /\ Reopened(s).meta = s.meta
  BY DEF Reserved, Reopened, Changed, YoutubeState

LEMMA Intends ==
    ASSUME NEW s \in YoutubeState, NEW p \in Playlists
    PROVE  /\ \A m \in {0} \cup YtJobs :
                 LET t == Describing(s, p, m)
                 IN  /\ t \in YoutubeState /\ t.sent = s.sent /\ t.id = s.id
                     /\ t.insert = s.insert /\ t.meta = [id |-> p, mark |-> m]
           /\ \A videos \in Seq(Videos) :
                 LET t == Inserting(s, p, videos)
                 IN  /\ t \in YoutubeState /\ t.sent = s.sent /\ t.id = s.id
                     /\ t.insert = [id |-> p, videos |-> videos] /\ t.meta = s.meta
           /\ Confirmed(s) \in YoutubeState
           /\ Confirmed(s).sent = s.sent /\ Confirmed(s).id = s.id
           /\ Confirmed(s).insert = Nothing /\ Confirmed(s).meta = Nothing
<1>1. \A m \in {0} \cup YtJobs : [id |-> p, mark |-> m] \in Description
  BY DEF Description
<1>2. \A videos \in Seq(Videos) : [id |-> p, videos |-> videos] \in Insertion
  BY DEF Insertion
<1> QED BY <1>1, <1>2 DEF Describing, Inserting, Confirmed, Changed, YoutubeState

LEMMA ListingTyped ==
    ASSUME YoutubeTyped, NEW p \in Playlists, provider[p] # Nothing
    PROVE  /\ provider[p] \in Listing
           /\ provider[p].mark \in {0} \cup YtJobs
           /\ provider[p].items \in Seq(Item)
           /\ Len(provider[p].items) \in Nat
<1>1. provider[p] \in Listing
  BY DEF YoutubeTyped
<1> QED BY <1>1 DEF Listing, Item

LEMMA ListedTyped ==
    ASSUME NEW m \in {0} \cup YtJobs, NEW items \in Seq(Item), YoutubeAssumption
    PROVE  LET l == [mark |-> m, items |-> items]
           IN  l \in Listing /\ l # Nothing /\ l.mark = m /\ l.items = items
  BY DEF Listing, Item, YoutubeAssumption

LEMMA Removed ==
    ASSUME NEW items \in Seq(Item), NEW i \in 1..Len(items)
    PROVE  /\ RemoveAt(items, i) \in Seq(Item)
           /\ Len(RemoveAt(items, i)) = Len(items) - 1
           /\ \A k \in 1..(Len(items) - 1) :
                 RemoveAt(items, i)[k] = items[IF k < i THEN k ELSE k + 1]
<1> DEFINE front == SubSeq(items, 1, i - 1)
           back == SubSeq(items, i + 1, Len(items))
<1>1. front \in Seq(Item) /\ Len(front) = i - 1 /\ \A k \in 1..(i - 1) : front[k] = items[k]
  OBVIOUS
<1>2. back \in Seq(Item) /\ Len(back) = Len(items) - i
      /\ \A k \in 1..(Len(items) - i) : back[k] = items[k + i]
  OBVIOUS
<1>3. RemoveAt(items, i) = front \o back
  BY DEF RemoveAt
<1> HIDE DEF front, back
<1>4. front \o back \in Seq(Item) /\ Len(front \o back) = Len(items) - 1
  BY <1>1, <1>2
<1>5. \A k \in 1..(Len(items) - 1) :
         (front \o back)[k] = IF k < i THEN front[k] ELSE back[k - (i - 1)]
  BY <1>1, <1>2
<1>6. \A k \in 1..(Len(items) - 1) : (front \o back)[k] = items[IF k < i THEN k ELSE k + 1]
  <2> SUFFICES ASSUME NEW k \in 1..(Len(items) - 1)
               PROVE  (front \o back)[k] = items[IF k < i THEN k ELSE k + 1]
    OBVIOUS
  <2>1. CASE k < i
    BY <1>1, <1>5, <2>1
  <2>2. CASE ~(k < i)
    <3>1. k - (i - 1) \in 1..(Len(items) - i) /\ k - (i - 1) + i = k + 1
      BY <2>2
    <3>2. back[k - (i - 1)] = items[k + 1]
      BY <1>2, <3>1
    <3> QED BY <1>5, <2>2, <3>2
  <2> QED BY <2>1, <2>2
<1> QED BY <1>3, <1>4, <1>6

\* A deletion takes away and adds nothing.
LEMMA WithoutIs ==
    ASSUME NEW items \in Seq(Item), NEW n
    PROVE  /\ Without(items, n) \in Seq(Item)
           /\ \A k \in 1..Len(Without(items, n)) : \E i \in 1..Len(items) :
                 Without(items, n)[k] = items[i]
           /\ Distinct(items) => Distinct(Without(items, n))
<1>1. CASE ~\E i \in 1..Len(items) : items[i].n = n
  BY <1>1 DEF Without
<1>2. CASE \E i \in 1..Len(items) : items[i].n = n
  <2>1. PICK i \in 1..Len(items) : Without(items, n) = RemoveAt(items, i)
    BY <1>2 DEF Without
  <2> DEFINE rest == RemoveAt(items, i)
             At(k) == IF k < i THEN k ELSE k + 1
  <2>2. /\ rest \in Seq(Item) /\ Len(rest) = Len(items) - 1
        /\ \A k \in 1..(Len(items) - 1) : rest[k] = items[At(k)]
    BY Removed
  <2>3. \A k \in 1..(Len(items) - 1) : At(k) \in 1..Len(items)
    OBVIOUS
  <2>4. \A k, l \in 1..(Len(items) - 1) : At(k) = At(l) => k = l
    OBVIOUS
  <2> HIDE DEF rest, At
  <2>5. \A k \in 1..Len(rest) : \E x \in 1..Len(items) : rest[k] = items[x]
    BY <2>2, <2>3
  <2>6. Distinct(items) => Distinct(rest)
    BY <2>2, <2>3, <2>4 DEF Distinct
  <2>7. Without(items, n) = rest
    BY <2>1 DEF rest
  <2> QED BY <2>2, <2>5, <2>6, <2>7
<1> QED BY <1>1, <1>2

LEMMA AppendIs ==
    ASSUME NEW items \in Seq(Item), NEW n \in Nat, NEW v \in Videos
    PROVE  LET more == Append(items, [n |-> n, video |-> v])
           IN  /\ more \in Seq(Item) /\ Len(more) = Len(items) + 1
               /\ \A k \in 1..Len(items) : more[k] = items[k]
               /\ more[Len(items) + 1].video = v
<1> DEFINE i == [n |-> n, video |-> v]
<1>1. i \in Item /\ i.video = v
  BY DEF Item
<1> HIDE DEF i
<1>2. LET more == Append(items, i)
      IN  /\ more \in Seq(Item) /\ Len(more) = Len(items) + 1
          /\ \A k \in 1..Len(items) : more[k] = items[k]
          /\ more[Len(items) + 1] = i
  BY <1>1
<1> QED BY <1>1, <1>2 DEF i

\* One playlist is listed anew, the others stay.
Relists(p, l) ==
    /\ provider' = [provider EXCEPT ![p] = l]
    /\ l \in Listing /\ Distinct(l.items)

LEMMA Relisted ==
    ASSUME YoutubeAssumption, YoutubeTyped, ListsDistinct, NEW p \in Playlists, NEW l, Relists(p, l)
    PROVE  /\ provider' \in [Playlists -> Listing \cup {Nothing}]
           /\ provider'[p] = l /\ l # Nothing
           /\ \A q \in Playlists : q # p => provider'[q] = provider[q]
           /\ \A q \in Playlists : provider[q] # Nothing => provider'[q] # Nothing
           /\ ListsDistinct'
<1>1. /\ provider' \in [Playlists -> Listing \cup {Nothing}]
      /\ provider'[p] = l
      /\ \A q \in Playlists : q # p => provider'[q] = provider[q]
  BY DEF YoutubeTyped, Relists
<1>2. l # Nothing
  BY DEF YoutubeAssumption, Relists
<1>3. ListsDistinct'
  BY <1>1 DEF ListsDistinct, Relists
<1> QED BY <1>1, <1>2, <1>3

LEMMA RequestTyped ==
    ASSUME NEW r \in YtRequests
    PROVE  /\ r.do \in {"create", "put", "delete", "insert"}
           /\ r.do = "create" => r.arg \in YtJobs
           /\ r.do # "create" => r.id \in Playlists
           /\ r.do = "put" => r.arg \in {0} \cup YtJobs
           /\ r.do = "delete" => r.arg \in Nat
           /\ r.do = "insert" => r.arg \in Videos
           /\ r = [do |-> r.do, id |-> r.id, arg |-> r.arg]
  BY DEF YtRequests

\* What stays as it is when a request lands that is not for a new playlist.
ListsStay ==
    /\ provider' \in [Playlists -> Listing \cup {Nothing}]
    /\ serial' \in Nat
    /\ ListsDistinct'
    /\ \A q \in Playlists : provider'[q] # Nothing <=> provider[q] # Nothing

LEMMA PutLands ==
    ASSUME YoutubeAssumption, YoutubeTyped, ListsDistinct,
           NEW r \in YtRequests, r.do # "create", provider[r.id] # Nothing, LandsPut(r)
    PROVE  /\ ListsStay
           /\ provider'[r.id].mark = r.arg
           /\ \A q \in Playlists : q # r.id => provider'[q] = provider[q]
           /\ \A q \in Playlists : \A v : Has(q, v)' <=> Has(q, v)
<1> DEFINE l == [mark |-> r.arg, items |-> provider[r.id].items]
<1>1. r.id \in Playlists /\ r.do = "put" /\ r.arg \in {0} \cup YtJobs
  BY RequestTyped DEF LandsPut
<1>2. provider[r.id].items \in Seq(Item) /\ Distinct(provider[r.id].items)
  BY <1>1, ListingTyped DEF ListsDistinct
<1>3. l \in Listing /\ l.mark = r.arg /\ l.items = provider[r.id].items
  BY <1>1, <1>2, ListedTyped
<1>4. serial' = serial /\ provider' = [provider EXCEPT ![r.id] = l]
  BY <1>1 DEF LandsPut, YoutubeTyped
<1> HIDE DEF l
<1>5. Relists(r.id, l)
  BY <1>2, <1>3, <1>4 DEF Relists
<1>6. /\ provider' \in [Playlists -> Listing \cup {Nothing}]
      /\ provider'[r.id] = l /\ l # Nothing
      /\ \A q \in Playlists : q # r.id => provider'[q] = provider[q]
      /\ ListsDistinct'
  BY <1>1, <1>5, Relisted
<1>7. \A q \in Playlists : \A v : Has(q, v)' <=> Has(q, v)
  <2> SUFFICES ASSUME NEW q \in Playlists, NEW v PROVE Has(q, v)' <=> Has(q, v)
    OBVIOUS
  <2>1. provider'[q].items = provider[q].items
    BY <1>3, <1>6
  <2> QED BY <2>1 DEF Has
<1>8. serial' \in Nat
  BY <1>4 DEF YoutubeTyped
<1> QED BY <1>3, <1>6, <1>7, <1>8 DEF ListsStay

LEMMA DeleteLands ==
    ASSUME YoutubeAssumption, YoutubeTyped, ListsDistinct,
           NEW r \in YtRequests, r.do # "create", provider[r.id] # Nothing, LandsDelete(r)
    PROVE  /\ ListsStay
           /\ \A q \in Playlists : q # r.id => provider'[q] = provider[q]
           /\ \A q \in Playlists : provider[q] # Nothing => provider'[q].mark = provider[q].mark
           /\ \A q \in Playlists : \A v : Has(q, v)' => Has(q, v)
<1> DEFINE old == provider[r.id].items
           new == Without(old, r.arg)
           l == [mark |-> provider[r.id].mark, items |-> new]
<1>1. r.id \in Playlists
  BY RequestTyped
<1>2. old \in Seq(Item) /\ Distinct(old) /\ provider[r.id].mark \in {0} \cup YtJobs
  BY <1>1, ListingTyped DEF ListsDistinct
<1>3. serial' = serial /\ provider' = [provider EXCEPT ![r.id] = l]
  BY <1>1 DEF LandsDelete, YoutubeTyped
<1> HIDE DEF old
<1>4. /\ new \in Seq(Item) /\ Distinct(new)
      /\ \A k \in 1..Len(new) : \E i \in 1..Len(old) : new[k] = old[i]
  BY <1>2, WithoutIs
<1> HIDE DEF new
<1>5. l \in Listing /\ l.mark = provider[r.id].mark /\ l.items = new
  BY <1>2, <1>4, ListedTyped
<1> HIDE DEF l
<1>6. Relists(r.id, l)
  BY <1>3, <1>4, <1>5 DEF Relists
<1>7. /\ provider' \in [Playlists -> Listing \cup {Nothing}]
      /\ provider'[r.id] = l /\ l # Nothing
      /\ \A q \in Playlists : q # r.id => provider'[q] = provider[q]
      /\ ListsDistinct'
  BY <1>1, <1>6, Relisted
<1>8. \A q \in Playlists : \A v : Has(q, v)' => Has(q, v)
  <2> SUFFICES ASSUME NEW q \in Playlists, NEW v, Has(q, v)' PROVE Has(q, v)
    OBVIOUS
  <2>1. CASE q # r.id
    BY <1>7, <2>1 DEF Has
  <2>2. CASE q = r.id
    <3>1. \E k \in 1..Len(new) : new[k].video = v
      BY <1>5, <1>7, <2>2 DEF Has
    <3>2. \E i \in 1..Len(old) : old[i].video = v
      BY <1>4, <3>1
    <3> QED BY <2>2, <3>2 DEF Has, old
  <2> QED BY <2>1, <2>2
<1>9. serial' \in Nat
  BY <1>3 DEF YoutubeTyped
<1> QED BY <1>5, <1>7, <1>8, <1>9 DEF ListsStay

LEMMA InsertLands ==
    ASSUME YoutubeAssumption, YoutubeTyped, ListsDistinct,
           NEW r \in YtRequests, r.do # "create", provider[r.id] # Nothing, LandsInsert(r),
           ~Has(r.id, r.arg)
    PROVE  /\ ListsStay
           /\ \A q \in Playlists : q # r.id => provider'[q] = provider[q]
           /\ \A q \in Playlists : provider[q] # Nothing => provider'[q].mark = provider[q].mark
           /\ \A q \in Playlists : \A v : Has(q, v)' => Has(q, v) \/ (q = r.id /\ v = r.arg)
<1> DEFINE old == provider[r.id].items
           new == Append(old, [n |-> serial + 1, video |-> r.arg])
           l == [mark |-> provider[r.id].mark, items |-> new]
<1>1. r.id \in Playlists /\ r.arg \in Videos /\ serial + 1 \in Nat
  BY RequestTyped DEF LandsInsert, YoutubeTyped
<1>2. old \in Seq(Item) /\ Distinct(old) /\ provider[r.id].mark \in {0} \cup YtJobs
  BY <1>1, ListingTyped DEF ListsDistinct
<1>3. serial' = serial + 1 /\ provider' = [provider EXCEPT ![r.id] = l]
  BY <1>1 DEF LandsInsert, YoutubeTyped
<1>4. \A i \in 1..Len(old) : old[i].video # r.arg
  BY DEF Has
<1> HIDE DEF old
<1>5. /\ new \in Seq(Item) /\ Len(new) = Len(old) + 1
      /\ \A k \in 1..Len(old) : new[k] = old[k]
      /\ new[Len(old) + 1].video = r.arg
  BY <1>1, <1>2, AppendIs
<1> HIDE DEF new
<1>6. Len(old) \in Nat
  BY <1>2
<1>7. \A k \in 1..Len(new) : k \in 1..Len(old) \/ k = Len(old) + 1
  BY <1>5, <1>6
<1>8. Distinct(new)
  BY <1>2, <1>4, <1>5, <1>7 DEF Distinct
<1>9. l \in Listing /\ l.mark = provider[r.id].mark /\ l.items = new
  BY <1>2, <1>5, ListedTyped
<1> HIDE DEF l
<1>10. Relists(r.id, l)
  BY <1>3, <1>8, <1>9 DEF Relists
<1>11. /\ provider' \in [Playlists -> Listing \cup {Nothing}]
       /\ provider'[r.id] = l /\ l # Nothing
       /\ \A q \in Playlists : q # r.id => provider'[q] = provider[q]
       /\ ListsDistinct'
  BY <1>1, <1>10, Relisted
<1>12. \A q \in Playlists : \A v : Has(q, v)' => Has(q, v) \/ (q = r.id /\ v = r.arg)
  <2> SUFFICES ASSUME NEW q \in Playlists, NEW v, Has(q, v)', ~(q = r.id /\ v = r.arg)
               PROVE  Has(q, v)
    OBVIOUS
  <2>1. CASE q # r.id
    BY <1>11, <2>1 DEF Has
  <2>2. CASE q = r.id
    <3>1. \E k \in 1..Len(new) : new[k].video = v
      BY <1>9, <1>11, <2>2 DEF Has
    <3>2. \E i \in 1..Len(old) : old[i].video = v
      BY <1>5, <1>7, <2>2, <3>1
    <3> QED BY <2>2, <3>2 DEF Has, old
  <2> QED BY <2>1, <2>2
<1>13. serial' \in Nat
  BY <1>1, <1>3
<1> QED BY <1>9, <1>11, <1>12, <1>13 DEF ListsStay

LEMMA CreateLands ==
    ASSUME YoutubeAssumption, YoutubeTyped, ListsDistinct,
           NEW r \in YtRequests, LandsCreate(r)
    PROVE  /\ NextMade \in New /\ provider[NextMade] = Nothing /\ provider'[NextMade] # Nothing
           /\ provider' \in [Playlists -> Listing \cup {Nothing}]
           /\ serial' \in Nat
           /\ ListsDistinct'
           /\ \A q \in Playlists : q # NextMade => provider'[q] = provider[q]
<1> DEFINE l == [mark |-> r.arg, items |-> <<>>]
<1>1. NextMade \in Unmade
  BY DEF LandsCreate, NextMade
<1>2. NextMade \in New /\ NextMade \in Playlists /\ provider[NextMade] = Nothing
  BY <1>1 DEF Unmade, Playlists
<1>3. r.arg \in {0} \cup YtJobs
  BY RequestTyped DEF LandsCreate
<1>4. <<>> \in Seq(Item) /\ Distinct(<<>>)
  BY DEF Distinct
<1>5. l \in Listing /\ l.items = <<>>
  BY <1>3, <1>4, ListedTyped
<1>6. provider' = [provider EXCEPT ![NextMade] = l] /\ serial' = serial
  BY DEF LandsCreate
<1> HIDE DEF l
<1>7. Relists(NextMade, l)
  BY <1>4, <1>5, <1>6 DEF Relists
<1>8. /\ provider' \in [Playlists -> Listing \cup {Nothing}]
      /\ provider'[NextMade] = l /\ l # Nothing
      /\ \A q \in Playlists : q # NextMade => provider'[q] = provider[q]
      /\ ListsDistinct'
  BY <1>2, <1>7, Relisted
<1> QED BY <1>2, <1>6, <1>8 DEF YoutubeTyped

\* The jobs of the edition agree on what is recorded.
LEMMA Agreed ==
    ASSUME NEW j \in YtJobs, NEW k \in YtJobs
    PROVE  /\ Stored(j).insert = Stored(k).insert /\ Stored(j).meta = Stored(k).meta
           /\ Stored(j).sent = Stored(k).sent /\ Stored(j).id = Stored(k).id
<1>1. \A i : /\ Unsent(i).insert = Nothing /\ Unsent(i).meta = Nothing
            /\ Unsent(i).sent = FALSE /\ Unsent(i).id = Nothing
  BY DEF Unsent
<1>2. CASE Stored(j) = Stored(k)
  BY <1>2
<1>3. CASE Stored(j) = Unsent(j) /\ Stored(k) = Unsent(k)
  BY <1>1, <1>3
<1> QED BY <1>2, <1>3, StoredShared

LEMMA DesiredTyped ==
    ASSUME YoutubeAssumption, YoutubeTyped, AttemptTyped, att.at # "idle"
    PROVE  /\ Desired \in Seq(Videos) /\ Len(Desired) \in Nat
           /\ \A i, k \in 1..Len(Desired) : Desired[i] = Desired[k] => i = k
<1>1. ytPlan[att.job] \in VideoPlan
  BY DEF YoutubeTyped, AttemptTyped
<1>2. Desired \in Orders
  BY <1>1 DEF VideoPlan, Desired
<1>3. PICK n \in 1..Cardinality(Videos) : Desired \in [1..n -> Videos]
  BY <1>2 DEF Orders
<1>4. n \in Nat
  <2>1. Cardinality(Videos) \in Nat
    BY FS_CardinalityType DEF YoutubeAssumption
  <2> QED BY <2>1
<1>5. Desired \in Seq(Videos) /\ Len(Desired) = n
  BY <1>3, <1>4
<1>6. IsInjective(Desired)
  BY <1>2 DEF Orders
<1>7. DOMAIN Desired = 1..n
  BY <1>3
<1> QED BY <1>4, <1>5, <1>6, <1>7 DEF IsInjective

\* Intents may be forgotten only when nothing is out that would write.
LEMMA FlightKept ==
    ASSUME FlightFits, UNCHANGED <<provider, flight>>,
           Calm \/ \A k \in YtJobs :
              Stored(k)'.insert = Stored(k).insert /\ Stored(k)'.meta = Stored(k).meta
    PROVE  FlightFits'
<1> SUFFICES ASSUME NEW r \in flight
             PROVE  /\ r.do # "create" => provider[r.id] # Nothing
                    /\ r.do = "insert" => \A j \in YtJobs : OutInsert(r, Stored(j))'
                    /\ r.do = "put" => \A j \in YtJobs : OutPut(r, Stored(j))'
  BY DEF FlightFits
<1>1. CASE Calm
  BY <1>1 DEF FlightFits, Calm
<1>2. CASE \A k \in YtJobs :
              Stored(k)'.insert = Stored(k).insert /\ Stored(k)'.meta = Stored(k).meta
  <2>1. r.do = "insert" => \A j \in YtJobs : OutInsert(r, Stored(j))'
    BY <1>2 DEF FlightFits, OutInsert, Has
  <2>2. r.do = "put" => \A j \in YtJobs : OutPut(r, Stored(j))'
    BY <1>2 DEF FlightFits, OutPut
  <2> QED BY <2>1, <2>2 DEF FlightFits
<1> QED BY <1>1, <1>2

LEMMA CreationKept ==
    ASSUME CreationFits, UNCHANGED <<provider, flight>>,
           \A k \in YtJobs : ~Stored(k)'.sent => Untouched,
           att'.at = "create" => Untouched /\ Stored(att.job)'.sent
    PROVE  CreationFits'
<1>1. \A p \in New : Made(p)' <=> Made(p)
  BY DEF Made
<1>2. Untouched => Untouched'
  BY <1>1 DEF Untouched
<1> QED BY <1>1, <1>2 DEF CreationFits

\* The attempt is over.
LEMMA Stopped ==
    ASSUME Stop
    PROVE  /\ AttemptTyped' /\ Knows' /\ Aims' /\ Progress'
           /\ att'.at # "create"
<1>1. /\ att'.at = "idle" /\ att'.items = <<>> /\ att'.kept = 0
  BY DEF Stop, NoAttempt
<1>2. AttemptTyped'
  BY <1>1 DEF AttemptTyped
<1>3. Knows' /\ Aims'
  BY <1>1 DEF Knows, Aims, Settled, Applying
<1>4. Progress'
  BY <1>1 DEF Progress, Applying
<1> QED BY <1>1, <1>2, <1>3, <1>4

\* The attempt ends, and with it perhaps the intent it has recorded.
LEMMA OverInv ==
    ASSUME YoutubeAssumption, YoutubeInv, Stop, UNCHANGED <<ytPlan, provider, serial, flight>>,
           ytBinding' \in Playlists \cup {Nothing},
           ytState' \in [YtJobs -> YoutubeState \cup {Nothing}],
           \A k \in YtJobs : ~Stored(k)'.sent => Untouched,
           Calm \/ \A k \in YtJobs :
              Stored(k)'.insert = Stored(k).insert /\ Stored(k)'.meta = Stored(k).meta
    PROVE  YoutubeInv'
<1>1. YoutubeTyped /\ CreationFits /\ FlightFits /\ ListsDistinct
  BY DEF YoutubeInv
<1>2. YoutubeTyped' /\ ListsDistinct'
  BY <1>1 DEF YoutubeTyped, ListsDistinct
<1>3. FlightFits'
  BY <1>1, FlightKept
<1>4. AttemptTyped' /\ Knows' /\ Aims' /\ Progress' /\ att'.at # "create"
  BY Stopped
<1>5. CreationFits'
  BY <1>1, <1>4, CreationKept
<1> QED BY <1>2, <1>3, <1>4, <1>5 DEF YoutubeInv

LEMMA QuitInv ==
    ASSUME YoutubeAssumption, YoutubeInv, CommitBinding \/ GiveUp
    PROVE  YoutubeInv'
<1>1. YoutubeTyped /\ CreationFits /\ Aims
  BY DEF YoutubeInv
<1>2. Stop /\ UNCHANGED <<ytPlan, ytState, provider, serial, flight>>
  BY DEF CommitBinding, GiveUp, jobVars
<1>3. ytBinding' \in Playlists \cup {Nothing}
  BY <1>1 DEF CommitBinding, GiveUp, Aims, Settled, Applying, outside, YoutubeTyped
<1>4. \A k \in YtJobs : Stored(k)' = Stored(k)
  BY <1>2, StoredStays
<1>5. \A k \in YtJobs : ~Stored(k)'.sent => Untouched
  BY <1>1, <1>4 DEF CreationFits
<1>6. ytState' \in [YtJobs -> YoutubeState \cup {Nothing}]
  BY <1>1, <1>2 DEF YoutubeTyped
<1> QED BY <1>2, <1>3, <1>4, <1>5, <1>6, OverInv

\* The rejection of a request that left no trace: what was recorded is taken back.
LEMMA RejectInv ==
    ASSUME YoutubeAssumption, YoutubeInv, NEW s \in YoutubeState, att.at # "idle", Reject(att, s),
           ~s.sent => Untouched,
           Calm \/ (s.insert = Stored(att.job).insert /\ s.meta = Stored(att.job).meta)
    PROVE  YoutubeInv'
<1>1. YoutubeTyped /\ AttemptTyped
  BY DEF YoutubeInv
<1>2. att.job \in YtJobs
  BY <1>1 DEF AttemptTyped
<1>3. Store(att.job, s) /\ Stop /\ UNCHANGED <<ytBinding, provider, serial, flight>>
  BY DEF Reject, outside
<1>4. /\ ytState' \in [YtJobs -> YoutubeState \cup {Nothing}]
      /\ ytPlan' = ytPlan
      /\ \A k \in YtJobs : Stored(k)' = s
  BY <1>1, <1>2, <1>3, Stores
<1>5. ytBinding' \in Playlists \cup {Nothing}
  BY <1>1, <1>3 DEF YoutubeTyped
<1>6. \A k \in YtJobs : ~Stored(k)'.sent => Untouched
  BY <1>4
<1>7. Calm \/ \A k \in YtJobs :
              Stored(k)'.insert = Stored(k).insert /\ Stored(k)'.meta = Stored(k).meta
  BY <1>2, <1>4, Agreed
<1> QED BY <1>3, <1>4, <1>5, <1>6, <1>7, OverInv

\* The attempt moves on and sends nothing.
LEMMA StepInv ==
    ASSUME YoutubeAssumption, YoutubeInv, UNCHANGED <<ytBinding, provider, serial, flight>>,
           ytPlan' \in [YtJobs -> VideoPlan \cup {Nothing}],
           ytState' \in [YtJobs -> YoutubeState \cup {Nothing}],
           \A k \in YtJobs : ~Stored(k)'.sent => Untouched,
           Calm \/ \A k \in YtJobs :
              Stored(k)'.insert = Stored(k).insert /\ Stored(k)'.meta = Stored(k).meta,
           AttemptTyped', Knows', Aims', Progress',
           att'.at = "create" => Untouched /\ Stored(att.job)'.sent
    PROVE  YoutubeInv'
<1>1. YoutubeTyped /\ CreationFits /\ FlightFits /\ ListsDistinct
  BY DEF YoutubeInv
<1>2. YoutubeTyped' /\ ListsDistinct'
  BY <1>1 DEF YoutubeTyped, ListsDistinct
<1>3. FlightFits'
  BY <1>1, FlightKept
<1>4. CreationFits'
  BY <1>1, CreationKept
<1> QED BY <1>2, <1>3, <1>4 DEF YoutubeInv

LEMMA MovesOn ==
    ASSUME AttemptTyped, att.at # "idle", ytPlan' = ytPlan,
           NEW step \in {"create", "bind", "settle"} \cup Applying, NEW id,
           NEW s \in YoutubeState, NEW items \in Seq(Item), NEW kept \in Nat,
           Go(step, id, s, items, kept)
    PROVE  /\ AttemptTyped'
           /\ att'.at = step /\ att'.id = id /\ att'.state = s
           /\ att'.items = items /\ att'.kept = kept
           /\ att'.job = att.job /\ att'.url = att.url
           /\ Desired' = Desired
<1>1. /\ att'.at = step /\ att'.id = id /\ att'.state = s
      /\ att'.items = items /\ att'.kept = kept
      /\ att'.job = att.job /\ att'.url = att.url
  BY DEF Go
<1>2. AttemptTyped'
  BY <1>1 DEF AttemptTyped, Applying
<1>3. Desired' = Desired
  BY <1>1 DEF Desired
<1> QED BY <1>1, <1>2, <1>3

LEMMA NoItems == <<>> \in Seq(Item) /\ 0 \in Nat
  OBVIOUS

LEMMA StartInv ==
    ASSUME YoutubeAssumption, YoutubeInv, NEW j \in YtJobs, Start(j)
    PROVE  YoutubeInv'
<1>1. YoutubeTyped /\ CreationFits
  BY DEF YoutubeInv
<1>2. PICK p : /\ p \in IF ytPlan[j] # Nothing THEN {ytPlan[j]}
                        ELSE {[url |-> ytBinding, videos |-> s] : s \in Orders}
               /\ ytPlan' = [ytPlan EXCEPT ![j] = p]
  BY DEF Start
<1>3. p \in VideoPlan
  <2>1. CASE ytPlan[j] # Nothing
    BY <1>1, <1>2, <2>1 DEF YoutubeTyped
  <2>2. CASE ytPlan[j] = Nothing
    <3>1. PICK s \in Orders : p = [url |-> ytBinding, videos |-> s]
      BY <1>2, <2>2
    <3> QED BY <1>1, <3>1 DEF YoutubeTyped, VideoPlan
  <2> QED BY <2>1, <2>2
<1>4. /\ ytPlan' \in [YtJobs -> VideoPlan \cup {Nothing}]
      /\ ytPlan'[j] # Nothing
  BY <1>1, <1>2, <1>3 DEF YoutubeTyped, YoutubeAssumption
<1>5. /\ att'.at = "read" /\ att'.job = j /\ att'.url = ytBinding
      /\ att'.items = <<>> /\ att'.kept = 0
  BY DEF Start
<1>6. UNCHANGED <<ytBinding, provider, serial, flight, ytState>>
  BY DEF Start, outside
<1>7. AttemptTyped'
  BY <1>1, <1>4, <1>5, NoItems DEF AttemptTyped, YoutubeTyped
<1>8. Knows' /\ Aims'
  BY <1>5 DEF Knows, Aims, Settled, Applying
<1>9. Progress'
  BY <1>5 DEF Progress, Applying
<1>10. \A k \in YtJobs : Stored(k)' = Stored(k)
  BY <1>6, StoredStays
<1>11. \A k \in YtJobs : ~Stored(k)'.sent => Untouched
  BY <1>1, <1>10 DEF CreationFits
<1>12. ytState' \in [YtJobs -> YoutubeState \cup {Nothing}]
  BY <1>1, <1>6 DEF YoutubeTyped
<1> QED BY <1>4, <1>5, <1>6, <1>7, <1>8, <1>9, <1>10, <1>11, <1>12, StepInv

\* The attempt goes to a step at which it has not settled what was outstanding.
LEMMA SeekInv ==
    ASSUME YoutubeAssumption, YoutubeInv, att.at # "idle",
           UNCHANGED <<ytPlan, ytBinding, provider, serial, flight>>,
           ytState' \in [YtJobs -> YoutubeState \cup {Nothing}],
           \A k \in YtJobs : ~Stored(k)'.sent => Untouched,
           \A k \in YtJobs :
              Stored(k)'.insert = Stored(k).insert /\ Stored(k)'.meta = Stored(k).meta,
           NEW step \in {"create", "bind", "settle"}, NEW id, NEW s \in YoutubeState,
           NEW items \in Seq(Item), NEW kept \in Nat, Go(step, id, s, items, kept),
           s.insert = Stored(att.job).insert, s.meta = Stored(att.job).meta,
           step \in {"create", "bind"} => att.url = Nothing,
           step \in {"bind", "settle"} => id \in Playlists,
           step = "settle" => IF att.url = Nothing THEN \A k \in YtJobs : Stored(k)'.id = id
                              ELSE att.url = id,
           step = "create" => Untouched /\ \A k \in YtJobs : Stored(k)'.sent
    PROVE  YoutubeInv'
<1>1. AttemptTyped
  BY DEF YoutubeInv
<1>2. /\ AttemptTyped'
      /\ att'.at = step /\ att'.id = id /\ att'.state = s
      /\ att'.job = att.job /\ att'.url = att.url
  BY <1>1, MovesOn
<1>3. att.job \in YtJobs
  BY <1>1 DEF AttemptTyped
<1>4. Knows'
  BY <1>2, <1>3 DEF Knows
<1>5. Aims'
  BY <1>2, <1>3 DEF Aims, Settled, Applying, Bound
<1>6. Progress'
  BY <1>2 DEF Progress, Applying
<1>7. ytPlan' \in [YtJobs -> VideoPlan \cup {Nothing}]
  BY DEF YoutubeInv, YoutubeTyped
<1>8. att'.at = "create" => Untouched /\ Stored(att.job)'.sent
  BY <1>2, <1>3
<1> QED BY <1>2, <1>4, <1>5, <1>6, <1>7, <1>8, StepInv

LEMMA LookupInv ==
    ASSUME YoutubeAssumption, YoutubeInv, Lookup
    PROVE  YoutubeInv'
<1> DEFINE s == Stored(att.job)
<1>1. YoutubeTyped /\ AttemptTyped /\ CreationFits
  BY DEF YoutubeInv
<1>2. att.at = "read" /\ UNCHANGED <<ytBinding, provider, serial, flight>>
  BY DEF Lookup, outside
<1>3. att.job \in YtJobs /\ att.url \in Playlists \cup {Nothing}
  BY <1>1, <1>2 DEF AttemptTyped
<1>4. s \in YoutubeState
  BY <1>1, <1>3, StoredTyped
<1>5. /\ s.id \in Playlists \cup {Nothing} /\ s.adopted \in BOOLEAN /\ s.sent \in BOOLEAN
      /\ s.insert \in Insertion \cup {Nothing} /\ s.meta \in Description \cup {Nothing}
  BY <1>4, StateTyped
<1>6. \A k \in YtJobs : s.insert = Stored(k).insert /\ s.meta = Stored(k).meta
                        /\ s.sent = Stored(k).sent
  BY <1>3, Agreed
<1>7. ~s.sent => Untouched
  BY <1>1, <1>3 DEF CreationFits
<1>8. ASSUME UNCHANGED jobVars
      PROVE  /\ UNCHANGED <<ytPlan, ytState>>
             /\ ytState' \in [YtJobs -> YoutubeState \cup {Nothing}]
             /\ \A k \in YtJobs : Stored(k)' = Stored(k)
             /\ \A k \in YtJobs : ~Stored(k)'.sent => Untouched
             /\ \A k \in YtJobs :
                   Stored(k)'.insert = Stored(k).insert /\ Stored(k)'.meta = Stored(k).meta
  <2>1. UNCHANGED <<ytPlan, ytState>>
    BY <1>8 DEF jobVars
  <2>2. \A k \in YtJobs : Stored(k)' = Stored(k)
    BY <2>1, StoredStays
  <2> QED BY <1>1, <2>1, <2>2 DEF YoutubeTyped, CreationFits
<1>9. ASSUME NEW t \in YoutubeState, Store(att.job, t), t.insert = s.insert, t.meta = s.meta
      PROVE  /\ ytPlan' = ytPlan
             /\ ytState' \in [YtJobs -> YoutubeState \cup {Nothing}]
             /\ \A k \in YtJobs : Stored(k)' = t
             /\ \A k \in YtJobs :
                   Stored(k)'.insert = Stored(k).insert /\ Stored(k)'.meta = Stored(k).meta
  <2>1. /\ ytPlan' = ytPlan
        /\ ytState' \in [YtJobs -> YoutubeState \cup {Nothing}]
        /\ \A k \in YtJobs : Stored(k)' = t
    BY <1>1, <1>3, <1>9, Stores
  <2> QED BY <1>6, <1>9, <2>1
<1>10. CASE att.url # Nothing /\ Go("settle", att.url, s, <<>>, 0) /\ UNCHANGED jobVars
  BY <1>2, <1>3, <1>4, <1>8, <1>10, NoItems, SeekInv
<1>11. CASE att.url = Nothing /\ s.id # Nothing /\ Found(s.id, s) /\ UNCHANGED jobVars
  BY <1>2, <1>3, <1>4, <1>5, <1>8, <1>11, NoItems, SeekInv DEF Found
<1>12. CASE /\ att.url = Nothing /\ \E p \in Owned({s.marker}) : Found(p, s)
            /\ UNCHANGED jobVars
  <2>1. PICK p \in Playlists : Found(p, s)
    BY <1>12 DEF Owned
  <2> QED BY <1>2, <1>3, <1>4, <1>8, <1>12, <2>1, NoItems, SeekInv DEF Found
<1>13. CASE /\ att.url = Nothing
            /\ \E p \in Owned({0}) : Store(att.job, Adopted(s, p)) /\ Found(p, Adopted(s, p))
  <2>1. PICK p \in Playlists : Store(att.job, Adopted(s, p)) /\ Found(p, Adopted(s, p))
    BY <1>13 DEF Owned
  <2> DEFINE t == Adopted(s, p)
  <2>2. t \in YoutubeState /\ t.sent /\ t.insert = s.insert /\ t.meta = s.meta
    BY <1>4, Changes
  <2>3. Store(att.job, t) /\ Go("bind", p, t, <<>>, 0)
    BY <2>1 DEF Found
  <2> HIDE DEF t
  <2>4. /\ ytPlan' = ytPlan
        /\ ytState' \in [YtJobs -> YoutubeState \cup {Nothing}]
        /\ \A k \in YtJobs : Stored(k)' = t
        /\ \A k \in YtJobs :
              Stored(k)'.insert = Stored(k).insert /\ Stored(k)'.meta = Stored(k).meta
    BY <1>9, <2>2, <2>3
  <2>5. \A k \in YtJobs : ~Stored(k)'.sent => Untouched
    BY <2>2, <2>4
  <2> QED BY <1>2, <1>13, <2>2, <2>3, <2>4, <2>5, NoItems, SeekInv
<1>14. CASE /\ att.url = Nothing /\ s.id = Nothing /\ ~s.sent
            /\ Store(att.job, Reserved(s)) /\ Go("create", Nothing, s, <<>>, 0)
  <2> DEFINE t == Reserved(s)
  <2>1. t \in YoutubeState /\ t.sent /\ t.insert = s.insert /\ t.meta = s.meta
    BY <1>4, Sends
  <2>2. Store(att.job, t)
    BY <1>14
  <2> HIDE DEF t
  <2>3. /\ ytPlan' = ytPlan
        /\ ytState' \in [YtJobs -> YoutubeState \cup {Nothing}]
        /\ \A k \in YtJobs : Stored(k)' = t
        /\ \A k \in YtJobs :
              Stored(k)'.insert = Stored(k).insert /\ Stored(k)'.meta = Stored(k).meta
    BY <1>9, <2>1, <2>2
  <2>4. \A k \in YtJobs : Stored(k)'.sent
    BY <2>1, <2>3
  <2> QED BY <1>2, <1>4, <1>7, <1>14, <2>3, <2>4, NoItems, SeekInv
<1> QED BY <1>10, <1>11, <1>12, <1>13, <1>14 DEF Lookup

LEMMA BindInv ==
    ASSUME YoutubeAssumption, YoutubeInv, Bind
    PROVE  YoutubeInv'
<1> DEFINE s == Stored(att.job)
           t == Identified(s, att.id)
<1>1. YoutubeTyped /\ AttemptTyped /\ CreationFits /\ Knows /\ Aims
  BY DEF YoutubeInv
<1>2. /\ att.at = "bind" /\ UNCHANGED <<ytBinding, provider, serial, flight>>
      /\ s.sent /\ Store(att.job, t) /\ GoOn("settle")
  BY DEF Bind, outside
<1>3. /\ att.job \in YtJobs /\ att.url = Nothing /\ att.id \in Playlists
      /\ att.state \in YoutubeState /\ att.items \in Seq(Item) /\ att.kept \in Nat
      /\ att.state.insert = s.insert /\ att.state.meta = s.meta
  BY <1>1, <1>2 DEF AttemptTyped, Aims, Knows
<1>4. s \in YoutubeState
  BY <1>1, <1>3, StoredTyped
<1>5. t \in YoutubeState /\ t.sent = s.sent /\ t.insert = s.insert /\ t.meta = s.meta
      /\ t.id = att.id
  BY <1>3, <1>4, Changes
<1>6. \A k \in YtJobs : s.insert = Stored(k).insert /\ s.meta = Stored(k).meta
  BY <1>3, Agreed
<1> HIDE DEF t
<1>7. /\ ytPlan' = ytPlan
      /\ ytState' \in [YtJobs -> YoutubeState \cup {Nothing}]
      /\ \A k \in YtJobs : Stored(k)' = t
  BY <1>1, <1>2, <1>3, <1>5, Stores
<1>8. /\ \A k \in YtJobs : ~Stored(k)'.sent => Untouched
      /\ \A k \in YtJobs :
            Stored(k)'.insert = Stored(k).insert /\ Stored(k)'.meta = Stored(k).meta
      /\ \A k \in YtJobs : Stored(k)'.id = att.id
  BY <1>2, <1>5, <1>6, <1>7
<1>9. Go("settle", att.id, att.state, att.items, att.kept)
  BY <1>2 DEF GoOn
<1> QED BY <1>2, <1>3, <1>7, <1>8, <1>9, SeekInv

\* What the jobs of the edition find, whichever it is.
Finds(t) ==
    \A k \in YtJobs : /\ Stored(k).insert = t.insert /\ Stored(k).meta = t.meta
                      /\ Stored(k).id = t.id /\ Stored(k).sent = t.sent

\* The attempt goes to a step at which it works on the playlist.
LEMMA Applies ==
    ASSUME YoutubeInv, att.at \in Settled, ytPlan' = ytPlan,
           NEW t, Finds(t)', t.id = Stored(att.job).id,
           NEW step \in Applying, NEW p \in Playlists, p = att.id,
           NEW items \in Seq(Item), NEW kept \in Nat, Go(step, p, att.state, items, kept),
           provider'[p] # Nothing, Calm',
           step # "post" => t.insert = Nothing,
           step # "put" => t.meta = Nothing,
           step = "put" => t.meta = [id |-> p, mark |-> Wanted] /\ provider'[p].mark # Wanted,
           step = "post" => /\ t.insert = [id |-> p, videos |-> SubSeq(Desired, 1, kept + 1)]
                            /\ kept < Len(Desired),
           step \in {"cut", "fill", "post"} => kept \in 0..Len(Desired),
           step \in {"fill", "post"} =>
              \A v \in Videos : Has(p, v)' => \E k \in 1..kept : Desired[k] = v,
           step = "commit" /\ "delete" \notin Late => Content(p)' = Desired
    PROVE  AttemptTyped' /\ Knows' /\ Aims' /\ Progress' /\ att'.at # "create"
<1>1. AttemptTyped /\ Aims
  BY DEF YoutubeInv
<1>2. /\ att.job \in YtJobs /\ att.at # "idle" /\ att.state \in YoutubeState
      /\ Bound(att, Stored(att.job)) = p
  BY <1>1 DEF AttemptTyped, Aims, Settled, Applying
<1>3. /\ AttemptTyped'
      /\ att'.at = step /\ att'.id = p /\ att'.state = att.state /\ att'.kept = kept
      /\ att'.job = att.job /\ att'.url = att.url
      /\ Desired' = Desired
  BY <1>1, <1>2, MovesOn
<1>4. /\ Stored(att.job)'.insert = t.insert /\ Stored(att.job)'.meta = t.meta
      /\ Stored(att.job)'.id = t.id
  BY <1>2, <1>3 DEF Finds
<1>5. Knows'
  BY <1>3 DEF Knows, Applying
<1>6. Aims'
  BY <1>2, <1>3, <1>4 DEF Aims, Settled, Applying, Bound
<1>7. Wanted' = Wanted
  BY <1>3 DEF Wanted
<1>8. Recorded(Stored(att.job))'
  BY <1>3, <1>4, <1>7 DEF Recorded, Applying
<1>9. step \in {"fill", "post"} =>
          \A v \in Videos : Has(att.id, v)' => \E k \in 1..kept : Desired[k] = v
  BY <1>3 DEF Has
<1>10. step = "commit" /\ "delete" \notin Late => Content(att.id)' = Desired
  BY <1>3 DEF Content
<1>11. Progress'
  BY <1>3, <1>8, <1>9, <1>10 DEF Progress
<1> QED BY <1>3, <1>5, <1>6, <1>11 DEF Applying

\* The same for a step that sends nothing.
LEMMA ApplyInv ==
    ASSUME YoutubeAssumption, YoutubeInv, att.at \in Settled,
           UNCHANGED <<ytPlan, ytBinding, provider, serial, flight>>, Calm,
           ytState' \in [YtJobs -> YoutubeState \cup {Nothing}],
           NEW t, Finds(t)',
           t.id = Stored(att.job).id, t.sent = Stored(att.job).sent,
           NEW step \in Applying, NEW p \in Playlists, p = att.id,
           NEW items \in Seq(Item), NEW kept \in Nat, Go(step, p, att.state, items, kept),
           provider[p] # Nothing,
           step # "post" => t.insert = Nothing,
           step # "put" => t.meta = Nothing,
           step = "put" => t.meta = [id |-> p, mark |-> Wanted] /\ provider[p].mark # Wanted,
           step = "post" => /\ t.insert = [id |-> p, videos |-> SubSeq(Desired, 1, kept + 1)]
                            /\ kept < Len(Desired),
           step \in {"cut", "fill", "post"} => kept \in 0..Len(Desired),
           step \in {"fill", "post"} =>
              \A v \in Videos : Has(p, v) => \E k \in 1..kept : Desired[k] = v,
           step = "commit" /\ "delete" \notin Late => Content(p) = Desired
    PROVE  YoutubeInv'
<1>1. YoutubeTyped /\ CreationFits /\ AttemptTyped
  BY DEF YoutubeInv
<1>2. Calm'
  BY DEF Calm
<1>3. \A v : Has(p, v)' <=> Has(p, v)
  BY DEF Has
<1>4. Content(p)' = Content(p)
  BY DEF Content
<1>5. AttemptTyped' /\ Knows' /\ Aims' /\ Progress' /\ att'.at # "create"
  BY <1>2, <1>3, <1>4, Applies
<1>6. att.job \in YtJobs
  BY <1>1 DEF AttemptTyped, Settled, Applying
<1>7. ~t.sent => Untouched
  BY <1>1, <1>6 DEF CreationFits
<1>8. \A k \in YtJobs : ~Stored(k)'.sent => Untouched
  BY <1>7 DEF Finds
<1>9. ytPlan' \in [YtJobs -> VideoPlan \cup {Nothing}]
  BY <1>1 DEF YoutubeTyped
<1> QED BY <1>5, <1>8, <1>9, StepInv

\* What an attempt that works on the playlist may assume.
LEMMA Working ==
    ASSUME YoutubeAssumption, YoutubeInv, att.at \in Settled
    PROVE  /\ att.job \in YtJobs /\ att.at # "idle" /\ att.id \in Playlists
           /\ att.state \in YoutubeState /\ att.items \in Seq(Item) /\ att.kept \in Nat
           /\ Stored(att.job) \in YoutubeState
           /\ Bound(att, Stored(att.job)) = att.id
           /\ Wanted \in {0} \cup YtJobs
           /\ Desired \in Seq(Videos) /\ Len(Desired) \in Nat
           /\ \A i, k \in 1..Len(Desired) : Desired[i] = Desired[k] => i = k
           /\ att.at \in Applying =>
                 provider[att.id] # Nothing /\ Calm /\ Recorded(Stored(att.job))
<1>1. YoutubeTyped /\ AttemptTyped /\ Aims /\ Progress
  BY DEF YoutubeInv
<1>2. /\ att.job \in YtJobs /\ att.at # "idle" /\ att.id \in Playlists
      /\ att.state \in YoutubeState /\ att.items \in Seq(Item) /\ att.kept \in Nat
      /\ Bound(att, Stored(att.job)) = att.id
  BY <1>1 DEF AttemptTyped, Aims, Settled, Applying
<1>3. Wanted \in {0} \cup YtJobs
  BY <1>2, StateTyped DEF Wanted
<1>4. att.at \in Applying =>
         provider[att.id] # Nothing /\ Calm /\ Recorded(Stored(att.job))
  BY <1>1 DEF Progress
<1> QED BY <1>1, <1>2, <1>3, <1>4, StoredTyped, DesiredTyped

\* What they find when the attempt stores nothing, and when it stores t.
LEMMA StaysFound ==
    ASSUME YoutubeTyped, UNCHANGED <<ytPlan, ytState>>, NEW j \in YtJobs, NEW t, t = Stored(j)
    PROVE  /\ Finds(t)'
           /\ ytState' \in [YtJobs -> YoutubeState \cup {Nothing}]
           /\ ytPlan' \in [YtJobs -> VideoPlan \cup {Nothing}]
<1>1. \A k \in YtJobs : Stored(k)' = Stored(k)
  BY StoredStays
<1>2. Finds(t)'
  BY <1>1, Agreed DEF Finds
<1> QED BY <1>2 DEF YoutubeTyped

LEMMA IsFound ==
    ASSUME YoutubeAssumption, YoutubeTyped, NEW j \in YtJobs, NEW t \in YoutubeState, Store(j, t)
    PROVE  /\ Finds(t)'
           /\ ytPlan' = ytPlan
           /\ ytState' \in [YtJobs -> YoutubeState \cup {Nothing}]
           /\ ytPlan' \in [YtJobs -> VideoPlan \cup {Nothing}]
<1>1. /\ ytPlan' = ytPlan
      /\ ytState' \in [YtJobs -> YoutubeState \cup {Nothing}]
      /\ \A k \in YtJobs : Stored(k)' = t
  BY Stores
<1> QED BY <1>1 DEF Finds, YoutubeTyped

LEMMA SettleInv ==
    ASSUME YoutubeAssumption, YoutubeInv, SettleIntents
    PROVE  YoutubeInv'
<1> DEFINE s == Stored(att.job)
<1>1. YoutubeTyped /\ FlightFits /\ Knows
  BY DEF YoutubeInv
<1>2. /\ att.at = "settle" /\ att.at \in Settled /\ Fence(att) /\ provider[att.id] # Nothing
      /\ Inserted /\ (att.state.meta # Nothing => provider[att.id].mark = att.state.meta.mark)
      /\ UNCHANGED <<ytBinding, provider, serial, flight>>
      /\ Go("describe", att.id, att.state, provider[att.id].items, 0)
  BY DEF SettleIntents, outside, Settled
<1>3. /\ att.job \in YtJobs /\ att.id \in Playlists /\ s \in YoutubeState
      /\ Bound(att, s) = att.id
  BY <1>2, Working
<1>4. att.state.insert = s.insert /\ att.state.meta = s.meta
  BY <1>1, <1>2 DEF Knows
<1>5. /\ s.insert # Nothing => s.insert.id = att.id
      /\ s.meta # Nothing => s.meta.id = att.id
  BY <1>2, <1>3 DEF Fence
<1>6. provider[att.id].items \in Seq(Item) /\ Len(provider[att.id].items) \in Nat
  BY <1>1, <1>2, <1>3, ListingTyped
<1>7. ASSUME NEW r \in flight, r.do = "insert" PROVE FALSE
  <2>1. OutInsert(r, s)
    BY <1>1, <1>3, <1>7 DEF FlightFits
  <2>2. /\ s.insert # Nothing /\ r.id = att.id /\ ~Has(att.id, r.arg)
        /\ s.insert.videos # <<>> /\ s.insert.videos[Len(s.insert.videos)] = r.arg
    BY <1>5, <2>1 DEF OutInsert
  <2>3. Content(att.id) = s.insert.videos
    BY <1>2, <1>4, <2>2 DEF Inserted
  <2>4. s.insert.videos \in Seq(Videos)
    BY <1>3, <2>2, StateTyped DEF Insertion
  <2>5. Len(s.insert.videos) \in DOMAIN s.insert.videos
    BY <2>2, <2>4
  <2>6. Len(s.insert.videos) \in 1..Len(provider[att.id].items)
    BY <2>3, <2>5 DEF Content
  <2>7. provider[att.id].items[Len(s.insert.videos)].video = r.arg
    BY <2>2, <2>3, <2>6 DEF Content
  <2> QED BY <2>2, <2>6, <2>7 DEF Has
<1>8. ASSUME NEW r \in flight, r.do = "put" PROVE FALSE
  <2>1. OutPut(r, s)
    BY <1>1, <1>3, <1>8 DEF FlightFits
  <2> QED BY <1>2, <1>4, <1>5, <2>1 DEF OutPut
<1>9. Calm
  BY <1>7, <1>8 DEF Calm
<1>10. PICK p \in Playlists : p = att.id
  BY <1>3
<1>11. CASE att.state.insert = Nothing /\ att.state.meta = Nothing /\ UNCHANGED jobVars
  <2>1. PICK t \in YoutubeState : t = s
    BY <1>3
  <2>2. UNCHANGED <<ytPlan, ytState>>
    BY <1>11 DEF jobVars
  <2>3. Finds(t)' /\ ytState' \in [YtJobs -> YoutubeState \cup {Nothing}]
    BY <1>1, <1>3, <2>1, <2>2, StaysFound
  <2>4. t.insert = Nothing /\ t.meta = Nothing /\ t.id = s.id /\ t.sent = s.sent
    BY <1>4, <1>11, <2>1
  <2> QED BY <1>2, <1>6, <1>9, <1>10, <2>2, <2>3, <2>4, NoItems, ApplyInv DEF Applying
<1>12. CASE Store(att.job, Confirmed(s))
  <2>1. PICK t : t = Confirmed(s)
    OBVIOUS
  <2>2. /\ t \in YoutubeState /\ t.sent = s.sent /\ t.id = s.id
        /\ t.insert = Nothing /\ t.meta = Nothing
    BY <1>3, <2>1, Intends
  <2>3. Finds(t)' /\ ytPlan' = ytPlan /\ ytState' \in [YtJobs -> YoutubeState \cup {Nothing}]
    BY <1>1, <1>3, <1>12, <2>1, <2>2, IsFound
  <2> QED BY <1>2, <1>6, <1>9, <1>10, <2>2, <2>3, NoItems, ApplyInv DEF Applying
<1> QED BY <1>11, <1>12 DEF SettleIntents

\* There is a longest beginning of the list that is as desired.
LEMMA KeptItemsIs ==
    ASSUME NEW items \in Seq(Item), Desired \in Seq(Videos)
    PROVE  KeptItems(items) \in 0..Len(Desired)
<1> DEFINE L == Len(items)
           D == Len(Desired)
           Same(n) == n <= D /\ \A i \in 1..n : items[i].video = Desired[i]
           T == {m \in 0..L : Same(L - m)}
<1>1. L \in Nat /\ D \in Nat
  OBVIOUS
<1>2. L \in T
  BY <1>1
<1> HIDE DEF L, D
<1>3. PICK m \in T : \A k \in T : m <= k
  <2>1. \A m \in 0..L : m \in Nat
    BY <1>1
  <2> HIDE DEF Same
  <2>2. T \in SUBSET Nat
    BY <2>1, Zenon
  <2> HIDE DEF T
  <2> QED BY <1>2, <2>2, Oldest
<1>4. m \in 0..L /\ Same(L - m)
  BY <1>3
<1>5. L - m \in 0..L
  BY <1>1, <1>4
<1>6. ASSUME L - m < L, L - m < D PROVE items[L - m + 1].video # Desired[L - m + 1]
  <2>1. SUFFICES ASSUME items[L - m + 1].video = Desired[L - m + 1] PROVE FALSE
    OBVIOUS
  <2>2. m - 1 \in 0..L /\ L - (m - 1) = L - m + 1 /\ L - m + 1 <= D
    BY <1>1, <1>4, <1>5, <1>6
  <2>3. \A i \in 1..(L - m + 1) : i \in 1..(L - m) \/ i = L - m + 1
    BY <1>1, <1>4
  <2>4. Same(L - m + 1)
    BY <1>4, <2>1, <2>2, <2>3
  <2>5. m - 1 \in T
    BY <2>2, <2>4
  <2>6. m <= m - 1
    BY <1>3, <2>5
  <2> QED BY <1>1, <1>4, <2>6
<1>7. \E n \in 0..Len(items) :
        /\ n <= Len(Desired)
        /\ \A i \in 1..n : items[i].video = Desired[i]
        /\ (n < Len(items) /\ n < Len(Desired)) => items[n + 1].video # Desired[n + 1]
  BY <1>4, <1>5, <1>6 DEF L, D
<1>8. KeptItems(items) \in 0..Len(items) /\ KeptItems(items) <= Len(Desired)
  BY <1>7 DEF KeptItems
<1> QED BY <1>1, <1>8 DEF L, D

LEMMA DescribeInv ==
    ASSUME YoutubeAssumption, YoutubeInv, Describe
    PROVE  YoutubeInv'
<1> DEFINE s == Stored(att.job)
<1>1. YoutubeTyped
  BY DEF YoutubeInv
<1>2. /\ att.at = "describe" /\ att.at \in Settled /\ att.at \in Applying
      /\ UNCHANGED <<ytBinding, provider, serial, flight>>
  BY DEF Describe, outside, Settled, Applying
<1>3. /\ att.job \in YtJobs /\ att.id \in Playlists /\ s \in YoutubeState
      /\ Wanted \in {0} \cup YtJobs /\ att.items \in Seq(Item) /\ att.kept \in Nat
      /\ Desired \in Seq(Videos) /\ Len(Desired) \in Nat
      /\ provider[att.id] # Nothing /\ Calm /\ Recorded(s)
  BY <1>2, Working
<1>4. s.insert = Nothing /\ s.meta = Nothing
  BY <1>2, <1>3 DEF Recorded, Applying
<1>5. PICK p \in Playlists : p = att.id
  BY <1>3
<1>6. CASE Go("cut", att.id, att.state, att.items, KeptItems(att.items)) /\ UNCHANGED jobVars
  <2>1. PICK t \in YoutubeState : t = s
    BY <1>3
  <2>2. UNCHANGED <<ytPlan, ytState>>
    BY <1>6 DEF jobVars
  <2>3. Finds(t)' /\ ytState' \in [YtJobs -> YoutubeState \cup {Nothing}]
    BY <1>1, <1>3, <2>1, <2>2, StaysFound
  <2>4. PICK n \in 0..Len(Desired) : n = KeptItems(att.items)
    BY <1>3, KeptItemsIs
  <2>5. n \in Nat
    BY <1>3
  <2>6. Go("cut", p, att.state, att.items, n)
    BY <1>5, <1>6, <2>4
  <2> QED BY <1>2, <1>3, <1>4, <1>5, <2>1, <2>2, <2>3, <2>4, <2>5, <2>6, ApplyInv DEF Applying
<1>7. CASE /\ provider[att.id].mark # Wanted /\ Store(att.job, Describing(s, att.id, Wanted))
           /\ GoOn("put")
  <2>1. PICK t : t = Describing(s, att.id, Wanted)
    OBVIOUS
  <2>2. /\ t \in YoutubeState /\ t.sent = s.sent /\ t.id = s.id
        /\ t.insert = Nothing /\ t.meta = [id |-> att.id, mark |-> Wanted]
    BY <1>3, <1>4, <2>1, Intends
  <2>3. Finds(t)' /\ ytPlan' = ytPlan /\ ytState' \in [YtJobs -> YoutubeState \cup {Nothing}]
    BY <1>1, <1>3, <1>7, <2>1, <2>2, IsFound
  <2>4. Go("put", p, att.state, att.items, att.kept)
    BY <1>5, <1>7 DEF GoOn
  <2> QED BY <1>2, <1>3, <1>5, <1>7, <2>2, <2>3, <2>4, ApplyInv DEF Applying
<1> QED BY <1>6, <1>7 DEF Describe

LEMMA FillInv ==
    ASSUME YoutubeAssumption, YoutubeInv, Fill
    PROVE  YoutubeInv'
<1> DEFINE s == Stored(att.job)
           new == SubSeq(Desired, 1, att.kept + 1)
<1>1. YoutubeTyped /\ Progress
  BY DEF YoutubeInv
<1>2. /\ att.at = "fill" /\ att.at \in Settled /\ att.at \in Applying
      /\ att.kept < Len(Desired) /\ s.meta = Nothing
      /\ Store(att.job, Inserting(s, att.id, new)) /\ GoOn("post")
      /\ UNCHANGED <<ytBinding, provider, serial, flight>>
  BY DEF Fill, outside, Settled, Applying
<1>3. /\ att.job \in YtJobs /\ att.id \in Playlists /\ s \in YoutubeState
      /\ att.items \in Seq(Item) /\ att.kept \in Nat
      /\ Desired \in Seq(Videos) /\ Len(Desired) \in Nat
      /\ provider[att.id] # Nothing /\ Calm
  BY <1>2, Working
<1>4. new \in Seq(Videos)
  BY <1>2, <1>3
<1>5. PICK p \in Playlists : p = att.id
  BY <1>3
<1>6. PICK t : t = Inserting(s, att.id, new)
  OBVIOUS
<1>7. /\ t \in YoutubeState /\ t.sent = s.sent /\ t.id = s.id
      /\ t.insert = [id |-> att.id, videos |-> new] /\ t.meta = Nothing
  BY <1>2, <1>3, <1>4, <1>6, Intends
<1>8. Finds(t)' /\ ytPlan' = ytPlan /\ ytState' \in [YtJobs -> YoutubeState \cup {Nothing}]
  BY <1>1, <1>2, <1>3, <1>6, <1>7, IsFound
<1>9. PICK n \in Nat : n = att.kept
  BY <1>3
<1>10. /\ Go("post", p, att.state, att.items, n)
       /\ t.insert = [id |-> p, videos |-> SubSeq(Desired, 1, n + 1)]
  BY <1>2, <1>5, <1>7, <1>9 DEF GoOn
<1>11. n \in 0..Len(Desired) /\ n < Len(Desired)
  BY <1>2, <1>3, <1>9
<1>12. \A v \in Videos : Has(p, v) => \E k \in 1..n : Desired[k] = v
  BY <1>1, <1>2, <1>5, <1>9 DEF Progress
<1>13. PICK step \in Applying : step = "post"
  BY DEF Applying
<1>14. PICK items \in Seq(Item) : items = att.items
  BY <1>3
<1>15. Go(step, p, att.state, items, n) /\ att.at \in Settled
  BY <1>2, <1>10, <1>13, <1>14
<1>16. UNCHANGED <<ytPlan, ytBinding, provider, serial, flight>> /\ Calm /\ provider[p] # Nothing
  BY <1>2, <1>3, <1>5, <1>8
<1>17. t.id = Stored(att.job).id /\ t.sent = Stored(att.job).sent /\ t.meta = Nothing
  BY <1>7
<1> HIDE DEF s, new
<1> QED BY <1>5, <1>8, <1>10, <1>11, <1>12, <1>13, <1>15, <1>16, <1>17, ApplyInv

\* The last look, and the end of the deletions: the content is known exactly.
LEMMA SeenInv ==
    ASSUME YoutubeAssumption, YoutubeInv, att.at \in {"cut", "fill"},
           UNCHANGED <<jobVars, ytBinding, provider, serial, flight>>,
           NEW step \in {"fill", "commit"}, GoOn(step),
           step = "fill" => Content(att.id) = SubSeq(Desired, 1, att.kept),
           step = "commit" => Content(att.id) = Desired
    PROVE  YoutubeInv'
<1> DEFINE s == Stored(att.job)
<1>1. YoutubeTyped /\ Progress
  BY DEF YoutubeInv
<1>2. att.at \in Settled /\ att.at \in Applying
  BY DEF Settled, Applying
<1>3. /\ att.job \in YtJobs /\ att.id \in Playlists /\ s \in YoutubeState
      /\ att.items \in Seq(Item) /\ att.kept \in Nat
      /\ Desired \in Seq(Videos) /\ Len(Desired) \in Nat
      /\ provider[att.id] # Nothing /\ Calm /\ Recorded(s)
  BY <1>2, Working
<1>4. s.insert = Nothing /\ s.meta = Nothing
  BY <1>2, <1>3 DEF Recorded, Applying
<1>5. PICK p \in Playlists : p = att.id
  BY <1>3
<1>6. PICK n \in Nat : n = att.kept
  BY <1>3
<1>7. n \in 0..Len(Desired)
  BY <1>1, <1>6 DEF Progress
<1>8. PICK t \in YoutubeState : t = s
  BY <1>3
<1>9. UNCHANGED <<ytPlan, ytState>>
  BY DEF jobVars
<1>10. Finds(t)' /\ ytState' \in [YtJobs -> YoutubeState \cup {Nothing}]
  BY <1>1, <1>3, <1>8, <1>9, StaysFound
<1>11. Go(step, p, att.state, att.items, n)
  BY <1>5, <1>6 DEF GoOn
<1>12. step = "fill" => \A v \in Videos : Has(p, v) => \E k \in 1..n : Desired[k] = v
  <2> SUFFICES ASSUME step = "fill", NEW v \in Videos, Has(p, v)
               PROVE  \E k \in 1..n : Desired[k] = v
    OBVIOUS
  <2>1. PICK i \in 1..Len(provider[p].items) : provider[p].items[i].video = v
    BY DEF Has
  <2>2. Content(p) = SubSeq(Desired, 1, n)
    BY <1>5, <1>6
  <2>3. SubSeq(Desired, 1, n)[i] = v /\ i \in DOMAIN SubSeq(Desired, 1, n)
    BY <2>1, <2>2 DEF Content
  <2>4. DOMAIN SubSeq(Desired, 1, n) = 1..n /\ \A k \in 1..n : SubSeq(Desired, 1, n)[k] = Desired[k]
    BY <1>3, <1>7
  <2> QED BY <2>3, <2>4
<1>13. step = "commit" => Content(p) = Desired
  BY <1>5
<1> QED BY <1>2, <1>3, <1>4, <1>5, <1>7, <1>8, <1>9, <1>10, <1>11, <1>12, <1>13, ApplyInv
        DEF Applying

\* A request has landed on a playlist, and perhaps the attempt has moved on.
LEMMA LandedInv ==
    ASSUME YoutubeInv, ListsStay, ytBinding' = ytBinding,
           ytPlan' \in [YtJobs -> VideoPlan \cup {Nothing}],
           ytState' \in [YtJobs -> YoutubeState \cup {Nothing}],
           \A k \in YtJobs : ~Stored(k)'.sent => Untouched,
           att'.at = "create" => Untouched /\ Stored(att.job)'.sent,
           flight' \subseteq flight,
           Calm \/ \A k \in YtJobs :
              Stored(k)'.insert = Stored(k).insert /\ Stored(k)'.meta = Stored(k).meta,
           \A t \in flight' : /\ t.do = "insert" => ~Has(t.id, t.arg)'
                              /\ t.do = "put" => provider'[t.id].mark # t.arg,
           AttemptTyped', Knows', Aims', Progress'
    PROVE  YoutubeInv'
<1>1. YoutubeTyped /\ CreationFits /\ FlightFits
  BY DEF YoutubeInv
<1>2. YoutubeTyped' /\ ListsDistinct'
  BY <1>1 DEF YoutubeTyped, ListsStay
<1>3. \A q \in New : Made(q)' <=> Made(q)
  BY DEF Made, ListsStay, Playlists
<1>4. Untouched => Untouched'
  BY <1>3 DEF Untouched
<1>5. CreationFits'
  BY <1>1, <1>3, <1>4 DEF CreationFits
<1>6. FlightFits'
  <2> SUFFICES ASSUME NEW t \in flight'
               PROVE  /\ t.do # "create" => provider'[t.id] # Nothing
                      /\ t.do = "insert" => \A j \in YtJobs : OutInsert(t, Stored(j))'
                      /\ t.do = "put" => \A j \in YtJobs : OutPut(t, Stored(j))'
    BY DEF FlightFits
  <2>1. t \in flight /\ t \in YtRequests
    BY <1>1 DEF YoutubeTyped
  <2>2. t.do # "create" => provider'[t.id] # Nothing
    BY <1>1, <2>1, RequestTyped DEF FlightFits, ListsStay
  <2>3. CASE Calm
    BY <2>1, <2>2, <2>3 DEF Calm
  <2>4. CASE \A k \in YtJobs :
              Stored(k)'.insert = Stored(k).insert /\ Stored(k)'.meta = Stored(k).meta
    BY <1>1, <2>1, <2>2, <2>4 DEF FlightFits, OutInsert, OutPut
  <2> QED BY <2>3, <2>4
<1> QED BY <1>2, <1>5, <1>6 DEF YoutubeInv

\* The answer does not come: what the request was meant to do is recorded, see FlightFits.
LEMMA LoseInv ==
    ASSUME YoutubeAssumption, YoutubeInv, NEW r \in YtRequests, Lose(r), att.job \in YtJobs,
           r.do # "create" => provider[r.id] # Nothing,
           r.do = "create" => Untouched /\ \A j \in YtJobs : Stored(j).sent,
           r.do = "insert" => \A j \in YtJobs : OutInsert(r, Stored(j)),
           r.do = "put" => \A j \in YtJobs : OutPut(r, Stored(j))
    PROVE  YoutubeInv'
<1>1. YoutubeTyped /\ CreationFits /\ FlightFits /\ ListsDistinct
  BY DEF YoutubeInv
<1>2. /\ r.do \in Late /\ flight' = flight \cup {r} /\ Stop
      /\ UNCHANGED <<ytPlan, ytState, ytBinding, provider, serial>>
  BY DEF Lose, jobVars, outside
<1>3. \A k \in YtJobs : Stored(k)' = Stored(k)
  BY <1>2, StoredStays
<1>4. YoutubeTyped' /\ ListsDistinct'
  BY <1>1, <1>2 DEF YoutubeTyped, ListsDistinct
<1>5. AttemptTyped' /\ Knows' /\ Aims' /\ Progress' /\ att'.at # "create"
  BY <1>2, Stopped
<1>6. \A q \in New : Made(q)' <=> Made(q)
  BY <1>2 DEF Made
<1>7. CreationFits'
  <2>1. CASE r.do = "create"
    <3>1. \A t \in flight' : t.do = "create" => t = r
      BY <1>2, <2>1 DEF Untouched
    <3>2. \A q \in New : ~Made(q)'
      BY <1>6, <2>1 DEF Untouched
    <3> QED BY <1>3, <1>5, <2>1, <3>1, <3>2 DEF CreationFits
  <2>2. CASE r.do # "create"
    <3>1. \A t \in flight' : t.do = "create" => t \in flight
      BY <1>2, <2>2
    <3>2. Untouched => Untouched'
      BY <1>6, <3>1 DEF Untouched
    <3> QED BY <1>1, <1>3, <1>5, <1>6, <3>1, <3>2 DEF CreationFits
  <2> QED BY <2>1, <2>2
<1>8. FlightFits'
  <2> SUFFICES ASSUME NEW t \in flight'
               PROVE  /\ t.do # "create" => provider[t.id] # Nothing
                      /\ t.do = "insert" => \A j \in YtJobs : OutInsert(t, Stored(j))'
                      /\ t.do = "put" => \A j \in YtJobs : OutPut(t, Stored(j))'
    BY <1>2 DEF FlightFits
  <2>1. /\ t.do # "create" => provider[t.id] # Nothing
        /\ t.do = "insert" => \A j \in YtJobs : OutInsert(t, Stored(j))
        /\ t.do = "put" => \A j \in YtJobs : OutPut(t, Stored(j))
    BY <1>1, <1>2 DEF FlightFits
  <2> QED BY <1>2, <1>3, <2>1 DEF OutInsert, OutPut, Has
<1> QED BY <1>4, <1>5, <1>7, <1>8 DEF YoutubeInv

LEMMA RequestIs ==
    ASSUME NEW do, NEW id, NEW arg
    PROVE  LET r == Request(do, id, arg)
           IN  /\ r.do = do /\ r.id = id /\ r.arg = arg
               /\ do = "create" /\ id = Nothing /\ arg \in YtJobs => r \in YtRequests
               /\ do = "put" /\ id \in Playlists /\ arg \in {0} \cup YtJobs => r \in YtRequests
               /\ do = "delete" /\ id \in Playlists /\ arg \in Nat => r \in YtRequests
               /\ do = "insert" /\ id \in Playlists /\ arg \in Videos => r \in YtRequests
  BY DEF Request, YtRequests

LEMMA LandsByKind ==
    ASSUME NEW r, Lands(r)
    PROVE  /\ r.do = "create" => LandsCreate(r)
           /\ r.do = "put" => LandsPut(r)
           /\ r.do = "delete" => LandsDelete(r)
           /\ r.do = "insert" => LandsInsert(r)
           /\ r.do \in {"create", "put", "delete", "insert"}
  BY DEF Lands, LandsCreate, LandsPut, LandsDelete, LandsInsert

\* A playlist has been made, the only one.
LEMMA MadeInv ==
    ASSUME YoutubeAssumption, YoutubeInv, NEW r \in YtRequests, LandsCreate(r),
           ytBinding' = ytBinding, UNCHANGED <<ytPlan, ytState>>, flight' \subseteq flight,
           \A t \in flight' : t.do # "create", \A q \in New : ~Made(q),
           \A j \in YtJobs : Stored(j).sent,
           AttemptTyped', Knows', Aims', Progress', att'.at # "create"
    PROVE  YoutubeInv'
<1>1. YoutubeTyped /\ FlightFits /\ ListsDistinct
  BY DEF YoutubeInv
<1>2. /\ NextMade \in New /\ provider[NextMade] = Nothing /\ provider'[NextMade] # Nothing
      /\ provider' \in [Playlists -> Listing \cup {Nothing}]
      /\ serial' \in Nat
      /\ ListsDistinct'
      /\ \A q \in Playlists : q # NextMade => provider'[q] = provider[q]
  BY <1>1, CreateLands
<1>3. YoutubeTyped'
  BY <1>1, <1>2 DEF YoutubeTyped
<1>4. \A k \in YtJobs : Stored(k)' = Stored(k)
  BY StoredStays
<1>5. \A q \in New : Made(q)' => q = NextMade
  BY <1>2 DEF Made, Playlists
<1>6. CreationFits'
  BY <1>4, <1>5 DEF CreationFits
<1>7. FlightFits'
  <2> SUFFICES ASSUME NEW t \in flight'
               PROVE  /\ t.do # "create" => provider'[t.id] # Nothing
                      /\ t.do = "insert" => \A j \in YtJobs : OutInsert(t, Stored(j))'
                      /\ t.do = "put" => \A j \in YtJobs : OutPut(t, Stored(j))'
    BY DEF FlightFits
  <2>1. t \in YtRequests /\ t.do # "create"
    BY <1>1 DEF YoutubeTyped
  <2>2. provider[t.id] # Nothing /\ t.id \in Playlists
    BY <1>1, <2>1, RequestTyped DEF FlightFits
  <2>3. provider'[t.id] = provider[t.id]
    BY <1>2, <2>2
  <2> QED BY <1>1, <1>4, <2>2, <2>3 DEF FlightFits, OutInsert, OutPut, Has
<1> QED BY <1>1, <1>2, <1>3, <1>6, <1>7 DEF YoutubeInv

LEMMA CreatePlaylistInv ==
    ASSUME YoutubeAssumption, YoutubeInv, CreatePlaylist
    PROVE  YoutubeInv'
<1> DEFINE s == Stored(att.job)
           r == Request("create", Nothing, att.state.marker)
<1>1. YoutubeTyped /\ AttemptTyped /\ CreationFits /\ Knows /\ Aims /\ ListsDistinct
  BY DEF YoutubeInv
<1>2. att.at = "create"
  BY DEF CreatePlaylist
<1>3. /\ att.job \in YtJobs /\ att.url = Nothing /\ att.state \in YoutubeState
      /\ att.state.insert = s.insert /\ att.state.meta = s.meta
  BY <1>1, <1>2 DEF AttemptTyped, Aims, Knows
<1>4. s \in YoutubeState /\ att.state.marker \in YtJobs
  BY <1>1, <1>3, StoredTyped, StateTyped
<1>5. r \in YtRequests /\ r.do = "create"
  BY <1>4, RequestIs
<1>6. Untouched /\ s.sent
  BY <1>1, <1>2 DEF CreationFits
<1>7. \A j \in YtJobs : Stored(j).sent
  BY <1>3, <1>6, Agreed
<1> HIDE DEF r
<1>8. CASE Lands(r) /\ Found(NextMade, att.state) /\ UNCHANGED <<jobVars, outside, flight>>
  <2>1. LandsCreate(r)
    BY <1>5, <1>8, LandsByKind
  <2>2. NextMade \in Playlists
    BY <1>1, <1>5, <2>1, CreateLands DEF Playlists
  <2>3. UNCHANGED <<ytPlan, ytState, ytBinding, flight>>
    BY <1>8 DEF jobVars, outside
  <2>4. Go("bind", NextMade, att.state, <<>>, 0)
    BY <1>8 DEF Found
  <2>5. /\ AttemptTyped'
        /\ att'.at = "bind" /\ att'.id = NextMade /\ att'.state = att.state
        /\ att'.job = att.job /\ att'.url = att.url
    BY <1>1, <1>2, <1>3, <2>3, <2>4, NoItems, MovesOn
  <2>6. \A k \in YtJobs : Stored(k)' = Stored(k)
    BY <2>3, StoredStays
  <2>7. Knows' /\ Aims' /\ Progress'
    BY <1>3, <2>2, <2>5, <2>6 DEF Knows, Aims, Progress, Settled, Applying
  <2> QED BY <1>5, <1>6, <1>7, <2>1, <2>3, <2>5, <2>7, MadeInv DEF Untouched
<1>9. CASE Lose(r)
  BY <1>3, <1>5, <1>6, <1>7, <1>9, LoseInv
<1>10. CASE Reject(att, Reopened(s))
  BY <1>2, <1>4, <1>6, <1>10, Sends, RejectInv
<1> QED BY <1>8, <1>9, <1>10 DEF CreatePlaylist, r

\* The attempt's own request lands and is answered.
LEMMA OwnInv ==
    ASSUME YoutubeAssumption, YoutubeInv, att.at \in Applying, ListsStay,
           UNCHANGED <<ytBinding, ytPlan, flight>>,
           ytState' \in [YtJobs -> YoutubeState \cup {Nothing}],
           NEW t, Finds(t)', t.id = Stored(att.job).id, t.sent = Stored(att.job).sent,
           t.insert = Nothing, t.meta = Nothing,
           NEW step \in {"describe", "cut", "fill"}, NEW items \in Seq(Item), NEW kept \in Nat,
           Go(step, att.id, att.state, items, kept),
           step # "describe" => kept \in 0..Len(Desired),
           step = "fill" => \A p \in Playlists : p = att.id =>
              \A v \in Videos : Has(p, v)' => \E k \in 1..kept : Desired[k] = v
    PROVE  YoutubeInv'
<1>1. att.at \in Settled
  BY DEF Settled
<1>2. YoutubeTyped /\ CreationFits
  BY DEF YoutubeInv
<1>3. att.job \in YtJobs /\ att.id \in Playlists /\ provider[att.id] # Nothing /\ Calm
  BY <1>1, Working
<1>4. PICK p \in Playlists : p = att.id
  BY <1>3
<1>5. provider'[p] # Nothing
  BY <1>3, <1>4 DEF ListsStay
<1>6. Calm'
  BY <1>3 DEF Calm
<1>7. step \in Applying /\ step \notin {"post", "put", "commit"}
  BY DEF Applying
<1>8. AttemptTyped' /\ Knows' /\ Aims' /\ Progress' /\ att'.at # "create"
  BY <1>1, <1>4, <1>5, <1>6, <1>7, Applies
<1>9. \A k \in YtJobs : ~Stored(k)'.sent => Untouched
  BY <1>2, <1>3 DEF CreationFits, Finds
<1>10. ytPlan' \in [YtJobs -> VideoPlan \cup {Nothing}]
  BY <1>2 DEF YoutubeTyped
<1>11. \A x \in flight' : x.do # "insert" /\ x.do # "put"
  BY <1>3 DEF Calm
<1> QED BY <1>3, <1>8, <1>9, <1>10, <1>11, LandedInv

LEMMA PutInv ==
    ASSUME YoutubeAssumption, YoutubeInv, Put
    PROVE  YoutubeInv'
<1> DEFINE s == Stored(att.job)
           r == Request("put", att.id, Wanted)
<1>1. YoutubeTyped /\ CreationFits /\ ListsDistinct
  BY DEF YoutubeInv
<1>2. att.at = "put" /\ att.at \in Settled /\ att.at \in Applying
  BY DEF Put, Settled, Applying
<1>3. /\ att.job \in YtJobs /\ att.id \in Playlists /\ s \in YoutubeState /\ att.at # "idle"
      /\ Wanted \in {0} \cup YtJobs /\ att.items \in Seq(Item) /\ att.kept \in Nat
      /\ provider[att.id] # Nothing /\ Calm /\ Recorded(s)
  BY <1>2, Working
<1>4. /\ s.meta = [id |-> att.id, mark |-> Wanted] /\ s.meta # Nothing
      /\ provider[att.id].mark # Wanted
  <2>1. /\ s.meta = [id |-> att.id, mark |-> Wanted]
        /\ provider[att.id].mark # Wanted
    BY <1>2, <1>3 DEF Recorded
  <2>2. [id |-> att.id, mark |-> Wanted] \in Description
    BY <1>3 DEF Description
  <2> QED BY <2>1, <2>2 DEF YoutubeAssumption
<1>5. r \in YtRequests /\ r.do = "put" /\ r.id = att.id /\ r.arg = Wanted
  BY <1>3, RequestIs
<1>6. PICK t : t = Confirmed(s)
  OBVIOUS
<1>7. t \in YoutubeState /\ t.sent = s.sent /\ t.id = s.id /\ t.insert = Nothing /\ t.meta = Nothing
  BY <1>3, <1>6, Intends
<1> HIDE DEF r
<1>8. CASE Lands(r) /\ Store(att.job, t) /\ GoOn("describe") /\ UNCHANGED <<outside, flight>>
  <2>1. ListsStay
    BY <1>1, <1>3, <1>5, <1>8, LandsByKind, PutLands
  <2>2. Finds(t)' /\ ytPlan' = ytPlan /\ ytState' \in [YtJobs -> YoutubeState \cup {Nothing}]
    BY <1>1, <1>3, <1>7, <1>8, IsFound
  <2>3. Go("describe", att.id, att.state, att.items, att.kept)
    BY <1>8 DEF GoOn
  <2> QED BY <1>2, <1>3, <1>7, <1>8, <2>1, <2>2, <2>3, OwnInv DEF outside
<1>9. CASE Lose(r)
  <2>1. \A j \in YtJobs : OutPut(r, Stored(j))
    BY <1>3, <1>4, <1>5, Agreed DEF OutPut
  <2> QED BY <1>3, <1>5, <1>9, <2>1, LoseInv
<1>10. CASE Reject(att, t)
  <2>1. ~t.sent => Untouched
    BY <1>1, <1>3, <1>7 DEF CreationFits
  <2> QED BY <1>3, <1>7, <1>10, <2>1, RejectInv
<1> QED BY <1>6, <1>8, <1>9, <1>10 DEF Put, r

LEMMA CutInv ==
    ASSUME YoutubeAssumption, YoutubeInv, Cut
    PROVE  YoutubeInv'
<1> DEFINE s == Stored(att.job)
           r == Request("delete", att.id, Last(att.items).n)
<1>1. YoutubeTyped /\ ListsDistinct /\ Progress
  BY DEF YoutubeInv
<1>2. att.at = "cut" /\ att.at \in Settled /\ att.at \in Applying
  BY DEF Cut, Settled, Applying
<1>3. /\ att.job \in YtJobs /\ att.id \in Playlists /\ s \in YoutubeState
      /\ att.items \in Seq(Item) /\ att.kept \in Nat
      /\ provider[att.id] # Nothing /\ Recorded(s)
  BY <1>2, Working
<1>4. s.insert = Nothing /\ s.meta = Nothing
  BY <1>2, <1>3 DEF Recorded, Applying
<1>5. att.kept \in 0..Len(Desired)
  BY <1>1, <1>2 DEF Progress
<1>6. ASSUME Len(att.items) > att.kept
      PROVE  r \in YtRequests /\ r.do = "delete" /\ r.id = att.id /\ Front(att.items) \in Seq(Item)
  <2>1. Len(att.items) \in 1..Len(att.items)
    BY <1>3, <1>6
  <2>2. Last(att.items) \in Item
    BY <1>3, <2>1 DEF Last
  <2>3. Last(att.items).n \in Nat
    BY <2>2 DEF Item
  <2>4. Front(att.items) \in Seq(Item)
    BY <1>3, <2>1 DEF Front
  <2> QED BY <1>3, <2>3, <2>4, RequestIs
<1> HIDE DEF r
<1>7. CASE /\ Len(att.items) > att.kept /\ Lands(r)
           /\ Go("cut", att.id, att.state, Front(att.items), att.kept)
           /\ UNCHANGED <<jobVars, outside, flight>>
  <2>1. ListsStay
    BY <1>1, <1>3, <1>6, <1>7, LandsByKind, DeleteLands
  <2>2. PICK t \in YoutubeState : t = s
    BY <1>3
  <2>3. UNCHANGED <<ytPlan, ytState, ytBinding, flight>>
    BY <1>7 DEF jobVars, outside
  <2>4. Finds(t)' /\ ytState' \in [YtJobs -> YoutubeState \cup {Nothing}]
    BY <1>1, <1>3, <2>2, <2>3, StaysFound
  <2> QED BY <1>2, <1>3, <1>4, <1>5, <1>6, <1>7, <2>1, <2>2, <2>3, <2>4, OwnInv
<1>8. CASE Len(att.items) > att.kept /\ Lose(r)
  BY <1>3, <1>6, <1>8, LoseInv
<1>9. CASE /\ Content(att.id) = SubSeq(Desired, 1, att.kept)
           /\ GoOn("fill")
           /\ UNCHANGED <<jobVars, outside, provider, serial, flight>>
  <2>1. UNCHANGED <<jobVars, ytBinding, provider, serial, flight>>
    BY <1>9 DEF outside
  <2> QED BY <1>2, <1>9, <2>1, SeenInv
<1> QED BY <1>7, <1>8, <1>9 DEF Cut, r

LEMMA PostInv ==
    ASSUME YoutubeAssumption, YoutubeInv, Post
    PROVE  YoutubeInv'
<1> DEFINE s == Stored(att.job)
           v == Desired[att.kept + 1]
           r == Request("insert", att.id, v)
<1>1. YoutubeTyped /\ CreationFits /\ ListsDistinct /\ Progress
  BY DEF YoutubeInv
<1>2. att.at = "post" /\ att.at \in Settled /\ att.at \in Applying
  BY DEF Post, Settled, Applying
<1>3. /\ att.job \in YtJobs /\ att.id \in Playlists /\ s \in YoutubeState /\ att.at # "idle"
      /\ att.items \in Seq(Item) /\ att.kept \in Nat
      /\ Desired \in Seq(Videos) /\ Len(Desired) \in Nat
      /\ \A i, k \in 1..Len(Desired) : Desired[i] = Desired[k] => i = k
      /\ provider[att.id] # Nothing /\ Calm /\ Recorded(s)
  BY <1>2, Working
<1>4. /\ att.kept < Len(Desired)
      /\ \A w \in Videos : Has(att.id, w) => \E k \in 1..att.kept : Desired[k] = w
  BY <1>1, <1>2 DEF Progress
<1>5. v \in Videos /\ att.kept + 1 \in 1..Len(Desired)
  BY <1>3, <1>4
<1>6. ~Has(att.id, v)
  <2> SUFFICES ASSUME Has(att.id, v) PROVE FALSE
    OBVIOUS
  <2>1. PICK k \in 1..att.kept : Desired[k] = v
    BY <1>4, <1>5
  <2>2. k \in 1..Len(Desired) /\ k # att.kept + 1
    BY <1>3, <1>4
  <2> QED BY <1>3, <1>5, <2>1, <2>2
<1>7. r \in YtRequests /\ r.do = "insert" /\ r.id = att.id /\ r.arg = v
  BY <1>3, <1>5, RequestIs
<1>8. PICK t : t = Confirmed(s)
  OBVIOUS
<1>9. t \in YoutubeState /\ t.sent = s.sent /\ t.id = s.id /\ t.insert = Nothing /\ t.meta = Nothing
  BY <1>3, <1>8, Intends
<1> HIDE DEF r
<1>10. CASE /\ Lands(r) /\ Store(att.job, t)
            /\ Go("fill", att.id, att.state, att.items, att.kept + 1)
            /\ UNCHANGED <<outside, flight>>
  <2>1. /\ ListsStay
        /\ \A q \in Playlists : \A w : Has(q, w)' => Has(q, w) \/ (q = r.id /\ w = r.arg)
    BY <1>1, <1>3, <1>6, <1>7, <1>10, LandsByKind, InsertLands
  <2>2. Finds(t)' /\ ytPlan' = ytPlan /\ ytState' \in [YtJobs -> YoutubeState \cup {Nothing}]
    BY <1>1, <1>3, <1>9, <1>10, IsFound
  <2>3. att.kept + 1 \in Nat /\ att.kept + 1 \in 0..Len(Desired)
    BY <1>3, <1>5
  <2>4. \A p \in Playlists : p = att.id =>
           \A w \in Videos : Has(p, w)' => \E k \in 1..(att.kept + 1) : Desired[k] = w
    <3> SUFFICES ASSUME NEW p \in Playlists, p = att.id, NEW w \in Videos, Has(p, w)'
                 PROVE  \E k \in 1..(att.kept + 1) : Desired[k] = w
      OBVIOUS
    <3>1. CASE w = v
      BY <1>3, <3>1
    <3>2. CASE w # v
      <4>1. Has(p, w)
        BY <1>7, <2>1, <3>2
      <4>2. Has(att.id, w)
        BY <4>1
      <4>3. PICK k \in 1..att.kept : Desired[k] = w
        BY <1>4, <4>2
      <4>4. k \in 1..(att.kept + 1)
        BY <1>3
      <4> QED BY <4>3, <4>4
    <3> QED BY <3>1, <3>2
  <2> QED BY <1>2, <1>3, <1>9, <1>10, <2>1, <2>2, <2>3, <2>4, OwnInv DEF outside
<1>11. CASE Lose(r)
  <2>1. s.insert = [id |-> att.id, videos |-> SubSeq(Desired, 1, att.kept + 1)]
    BY <1>2, <1>3 DEF Recorded
  <2>2. SubSeq(Desired, 1, att.kept + 1) \in Seq(Videos)
        /\ Len(SubSeq(Desired, 1, att.kept + 1)) = att.kept + 1
        /\ SubSeq(Desired, 1, att.kept + 1)[att.kept + 1] = v
    BY <1>3, <1>5
  <2>3. SubSeq(Desired, 1, att.kept + 1) # <<>>
    <3>1. PICK new : new = SubSeq(Desired, 1, att.kept + 1)
      OBVIOUS
    <3>2. Len(new) = att.kept + 1
      BY <2>2, <3>1
    <3>3. Len(new) # 0
      BY <1>3, <3>2
    <3> QED BY <3>1, <3>3
  <2>4. [id |-> att.id, videos |-> SubSeq(Desired, 1, att.kept + 1)] \in Insertion
    BY <1>3, <2>2 DEF Insertion
  <2>5. s.insert # Nothing
    BY <2>1, <2>4 DEF YoutubeAssumption
  <2>6. OutInsert(r, s)
    BY <1>6, <1>7, <2>1, <2>2, <2>3, <2>5 DEF OutInsert
  <2>7. \A j \in YtJobs : OutInsert(r, Stored(j))
    BY <1>3, <2>6, Agreed DEF OutInsert
  <2> QED BY <1>3, <1>7, <1>11, <2>7, LoseInv
<1>12. CASE Reject(att, t)
  <2>1. ~t.sent => Untouched
    BY <1>1, <1>3, <1>9 DEF CreationFits
  <2> QED BY <1>3, <1>9, <1>12, <2>1, RejectInv
<1> QED BY <1>8, <1>10, <1>11, <1>12 DEF Post, r

LEMMA ReadItemsInv ==
    ASSUME YoutubeAssumption, YoutubeInv, ReadItems
    PROVE  YoutubeInv'
<1>1. /\ att.at = "fill" /\ GoOn("commit") /\ Content(att.id) = Desired
      /\ UNCHANGED <<jobVars, ytBinding, provider, serial, flight>>
  BY DEF ReadItems, Final, outside
<1> QED BY <1>1, SeenInv

\* A request lands that outlived its attempt.
LEMMA LandInv ==
    ASSUME YoutubeAssumption, YoutubeInv, NEW r \in flight, Land(r)
    PROVE  YoutubeInv'
<1>1. YoutubeTyped /\ AttemptTyped /\ CreationFits /\ FlightFits /\ ListsDistinct
      /\ Knows /\ Aims /\ Progress
  BY DEF YoutubeInv
<1>2. /\ r \in YtRequests /\ r.do \in Late /\ Lands(r) /\ flight' = flight \ {r}
      /\ UNCHANGED <<ytPlan, ytState, ytBinding, att>>
  BY <1>1 DEF Land, jobVars, outside, YoutubeTyped
<1>3. \A k \in YtJobs : Stored(k)' = Stored(k)
  BY <1>2, StoredStays
<1>4. r.do # "create" => provider[r.id] # Nothing /\ r.id \in Playlists
  BY <1>1, <1>2, RequestTyped DEF FlightFits
<1>5. AttemptTyped' /\ Knows'
  BY <1>1, <1>2, <1>3 DEF AttemptTyped, Knows
<1>6. Aims' /\ (att.at \in Settled => att.job \in YtJobs /\ att.id \in Playlists)
  BY <1>1, <1>2, <1>3 DEF AttemptTyped, Aims, Bound, Settled, Applying
<1>7. /\ ytPlan' \in [YtJobs -> VideoPlan \cup {Nothing}]
      /\ ytState' \in [YtJobs -> YoutubeState \cup {Nothing}]
      /\ \A k \in YtJobs : ~Stored(k)'.sent => Untouched
      /\ att'.at = "create" => Untouched /\ Stored(att.job)'.sent
      /\ flight' \subseteq flight
      /\ \A k \in YtJobs :
            Stored(k)'.insert = Stored(k).insert /\ Stored(k)'.meta = Stored(k).meta
  <2>1. /\ ytPlan' \in [YtJobs -> VideoPlan \cup {Nothing}]
        /\ ytState' \in [YtJobs -> YoutubeState \cup {Nothing}]
    BY <1>1, <1>2 DEF YoutubeTyped
  <2>2. \A k \in YtJobs : ~Stored(k)'.sent => Untouched
    BY <1>1, <1>3 DEF CreationFits
  <2>3. att'.at = "create" => Untouched /\ Stored(att.job)'.sent
    BY <1>1, <1>2, <1>3 DEF CreationFits, AttemptTyped
  <2> QED BY <1>2, <1>3, <2>1, <2>2, <2>3
<1>8. Wanted' = Wanted /\ Desired' = Desired
  BY <1>2 DEF Wanted, Desired
<1>9. CASE r.do = "create"
  <2>1. LandsCreate(r)
    BY <1>2, <1>9, LandsByKind
  <2>2. \A t \in flight' : t \in flight /\ t.do # "create"
    BY <1>1, <1>2, <1>9 DEF CreationFits
  <2>3. (\A q \in New : ~Made(q)) /\ \A j \in YtJobs : Stored(j).sent
    BY <1>1, <1>9 DEF CreationFits, Untouched
  <2>4. att'.at # "create"
    BY <1>1, <1>2, <1>9 DEF CreationFits, Untouched
  <2>5. /\ provider[NextMade] = Nothing
        /\ \A q \in Playlists : q # NextMade => provider'[q] = provider[q]
    BY <1>1, <1>2, <2>1, CreateLands
  <2>6. att.at \in Applying => provider'[att.id] = provider[att.id]
    BY <1>1, <1>6, <2>5 DEF Progress, Settled
  <2>7. Progress'
    <3>1. att.at \in Applying => provider'[att.id] # Nothing /\ Calm'
      BY <1>1, <2>2, <2>6 DEF Progress, Calm
    <3>2. att.at \in Applying => Recorded(Stored(att.job))'
      BY <1>1, <1>2, <1>3, <1>6, <1>8, <2>6 DEF Progress, Recorded, Settled, Applying
    <3>3. att.at \in {"fill", "post"} =>
            \A v \in Videos : Has(att.id, v)' => \E k \in 1..att.kept : Desired[k] = v
      BY <1>1, <1>2, <2>6 DEF Progress, Has, Applying
    <3>4. att.at = "commit" /\ "delete" \notin Late => Content(att.id)' = Desired
      BY <1>1, <1>2, <2>6 DEF Progress, Content, Applying
    <3> QED BY <1>1, <1>2, <1>8, <3>1, <3>2, <3>3, <3>4 DEF Progress
  <2> QED BY <1>2, <1>5, <1>6, <1>7, <2>1, <2>2, <2>3, <2>4, <2>7, MadeInv
<1>10. CASE r.do = "put"
  <2>1. /\ ListsStay
        /\ \A q \in Playlists : q # r.id => provider'[q] = provider[q]
        /\ \A q \in Playlists : \A v : Has(q, v)' <=> Has(q, v)
    BY <1>1, <1>2, <1>4, <1>10, LandsByKind, PutLands
  <2>2. att.at \notin Applying
    BY <1>1, <1>10 DEF Progress, Calm
  <2>3. Progress'
    BY <1>2, <2>2 DEF Progress, Applying
  <2>4. \A t \in flight' : t.do = "insert" => ~Has(t.id, t.arg)'
    <3> SUFFICES ASSUME NEW t \in flight', t.do = "insert" PROVE ~Has(t.id, t.arg)'
      OBVIOUS
    <3>1. t \in flight /\ t \in YtRequests
      BY <1>1, <1>2 DEF YoutubeTyped
    <3>2. t.id \in Playlists
      BY <3>1, RequestTyped
    <3>3. ~Has(t.id, t.arg)
      BY <1>1, <3>1 DEF FlightFits, OutInsert, YoutubeTyped
    <3> QED BY <2>1, <3>2, <3>3
  <2>5. ASSUME NEW t \in flight', t.do = "put" PROVE FALSE
    <3>1. t \in flight /\ t \in YtRequests /\ t # r
      BY <1>1, <1>2 DEF YoutubeTyped
    <3>2. PICK j \in YtJobs : TRUE
      BY <1>1, <3>1 DEF YoutubeTyped
    <3>3. OutPut(t, Stored(j)) /\ OutPut(r, Stored(j))
      BY <1>1, <1>10, <2>5, <3>1 DEF FlightFits
    <3>4. t.do = r.do /\ t.id = r.id /\ t.arg = r.arg
      BY <1>10, <2>5, <3>3 DEF OutPut
    <3> QED BY <1>2, <3>1, <3>4, RequestTyped
  <2> QED BY <1>1, <1>2, <1>5, <1>6, <1>7, <2>1, <2>3, <2>4, <2>5, LandedInv DEF YoutubeInv
<1>11. CASE r.do = "delete"
  <2>1. /\ ListsStay
        /\ \A q \in Playlists : provider[q] # Nothing => provider'[q].mark = provider[q].mark
        /\ \A q \in Playlists : \A v : Has(q, v)' => Has(q, v)
    BY <1>1, <1>2, <1>4, <1>11, LandsByKind, DeleteLands
  <2>2. Progress'
    <3>1. att.at \in Applying => provider'[att.id] # Nothing /\ Calm'
      BY <1>1, <1>2, <1>6, <2>1 DEF Progress, Calm, ListsStay, Settled
    <3>2. att.at \in Applying => Recorded(Stored(att.job))'
      BY <1>1, <1>2, <1>3, <1>6, <1>8, <2>1 DEF Progress, Recorded, Settled, Applying
    <3>3. att.at \in {"fill", "post"} =>
            \A v \in Videos : Has(att.id, v)' => \E k \in 1..att.kept : Desired[k] = v
      <4> SUFFICES ASSUME att.at \in {"fill", "post"}, NEW v \in Videos, Has(att.id, v)'
                   PROVE  \E k \in 1..att.kept : Desired[k] = v
        OBVIOUS
      <4>1. PICK p \in Playlists : p = att.id
        BY <1>6 DEF Settled, Applying
      <4>2. Has(p, v)'
        BY <1>2, <4>1 DEF Has
      <4>3. Has(att.id, v)
        BY <2>1, <4>1, <4>2
      <4> QED BY <1>1, <4>3 DEF Progress
    <3> QED BY <1>1, <1>2, <1>8, <1>11, <3>1, <3>2, <3>3 DEF Progress
  <2>3. \A t \in flight' : /\ t.do = "insert" => ~Has(t.id, t.arg)'
                           /\ t.do = "put" => provider'[t.id].mark # t.arg
    <3> SUFFICES ASSUME NEW t \in flight', t.do \in {"insert", "put"}
                 PROVE  /\ t.do = "insert" => ~Has(t.id, t.arg)'
                        /\ t.do = "put" => provider'[t.id].mark # t.arg
      OBVIOUS
    <3>1. t \in flight /\ t \in YtRequests
      BY <1>1, <1>2 DEF YoutubeTyped
    <3>2. t.id \in Playlists /\ provider[t.id] # Nothing
      BY <1>1, <3>1, RequestTyped DEF FlightFits
    <3>3. /\ t.do = "insert" => ~Has(t.id, t.arg)
          /\ t.do = "put" => provider[t.id].mark # t.arg
      BY <1>1, <3>1 DEF FlightFits, OutInsert, OutPut, YoutubeTyped
    <3> QED BY <2>1, <3>2, <3>3
  <2> QED BY <1>1, <1>2, <1>5, <1>6, <1>7, <2>1, <2>2, <2>3, LandedInv DEF YoutubeInv
<1>12. CASE r.do = "insert"
  <2>1. PICK j \in YtJobs : TRUE
    BY <1>1 DEF YoutubeTyped
  <2>2. OutInsert(r, Stored(j))
    BY <1>1, <1>12, <2>1 DEF FlightFits
  <2>3. /\ ListsStay
        /\ \A q \in Playlists : provider[q] # Nothing => provider'[q].mark = provider[q].mark
        /\ \A q \in Playlists : \A v : Has(q, v)' => Has(q, v) \/ (q = r.id /\ v = r.arg)
    BY <1>1, <1>2, <1>4, <1>12, <2>2, LandsByKind, InsertLands DEF OutInsert
  <2>4. att.at \notin Applying
    BY <1>1, <1>12 DEF Progress, Calm
  <2>5. Progress'
    BY <1>2, <2>4 DEF Progress, Applying
  <2>6. \A t \in flight' : /\ t.do = "insert" => ~Has(t.id, t.arg)'
                           /\ t.do = "put" => provider'[t.id].mark # t.arg
    <3> SUFFICES ASSUME NEW t \in flight', t.do \in {"insert", "put"}
                 PROVE  /\ t.do # "insert"
                        /\ t.do = "put" => provider'[t.id].mark # t.arg
      OBVIOUS
    <3>1. t \in flight /\ t \in YtRequests /\ t # r
      BY <1>1, <1>2 DEF YoutubeTyped
    <3>2. t.id \in Playlists /\ provider[t.id] # Nothing
      BY <1>1, <3>1, RequestTyped DEF FlightFits
    <3>3. t.do # "insert"
      <4>1. SUFFICES ASSUME t.do = "insert" PROVE FALSE
        OBVIOUS
      <4>2. OutInsert(t, Stored(j))
        BY <1>1, <2>1, <3>1, <4>1 DEF FlightFits
      <4>3. t.do = r.do /\ t.id = r.id /\ t.arg = r.arg
        BY <1>12, <2>2, <4>1, <4>2 DEF OutInsert
      <4> QED BY <1>2, <3>1, <4>3, RequestTyped
    <3>4. t.do = "put" => provider[t.id].mark # t.arg
      BY <1>1, <2>1, <3>1 DEF FlightFits, OutPut
    <3> QED BY <2>3, <3>2, <3>3, <3>4
  <2> QED BY <1>1, <1>2, <1>5, <1>6, <1>7, <2>3, <2>5, <2>6, LandedInv DEF YoutubeInv
<1> QED BY <1>2, <1>9, <1>10, <1>11, <1>12, RequestTyped

\* Nothing but the binding and the archive changes.
LEMMA AsideInv ==
    ASSUME YoutubeInv, UNCHANGED <<ytPlan, ytState, provider, serial, flight, att>>,
           ytBinding' \in Playlists \cup {Nothing}
    PROVE  YoutubeInv'
<1>1. YoutubeTyped /\ CreationFits /\ FlightFits /\ ListsDistinct /\ AttemptTyped
      /\ Knows /\ Aims /\ Progress
  BY DEF YoutubeInv
<1>2. UNCHANGED <<ytPlan, ytState, provider, serial, flight, att>>
  OBVIOUS
<1>3. \A k \in YtJobs : Stored(k)' = Stored(k)
  BY <1>2, StoredStays
<1>4. att.at # "idle" => att.job \in YtJobs /\ Stored(att.job)' = Stored(att.job)
  BY <1>1, <1>2, <1>3 DEF AttemptTyped
<1>5. YoutubeTyped' /\ ListsDistinct'
  BY <1>1, <1>2 DEF YoutubeTyped, ListsDistinct
<1>6. FlightFits'
  BY <1>1, <1>2, <1>3, FlightKept
<1>7. CreationFits'
  BY <1>1, <1>2, <1>3, <1>4, CreationKept DEF CreationFits
<1>8. AttemptTyped' /\ Knows'
  BY <1>1, <1>2, <1>4 DEF AttemptTyped, Knows
<1>9. Aims'
  BY <1>1, <1>2, <1>4 DEF Aims, Bound, Settled, Applying
<1>10. Wanted' = Wanted /\ Desired' = Desired /\ Content(att.id)' = Content(att.id)
       /\ Calm' = Calm /\ \A v : Has(att.id, v)' = Has(att.id, v)
  BY <1>2 DEF Wanted, Desired, Content, Calm, Has
<1>11. att.at \in Applying => Recorded(Stored(att.job))' = Recorded(Stored(att.job))
  BY <1>2, <1>4, <1>10 DEF Recorded, Applying
<1>12. Progress'
  BY <1>1, <1>2, <1>10, <1>11 DEF Progress
<1> QED BY <1>5, <1>6, <1>7, <1>8, <1>9, <1>12 DEF YoutubeInv

LEMMA OperatorInv ==
    ASSUME YoutubeAssumption, YoutubeInv,
           (\E u \in Rebinds : Rebind(u)) \/ (\E p \in Playlists : Archive(p))
    PROVE  YoutubeInv'
<1>1. /\ UNCHANGED <<ytPlan, ytState, provider, serial, flight, att>>
      /\ ytBinding' \in Playlists \cup {Nothing}
  BY DEF Rebind, Archive, jobVars, YoutubeAssumption, YoutubeInv, YoutubeTyped
<1> QED BY <1>1, AsideInv

LEMMA YoutubeInitInv == ASSUME YoutubeAssumption, YoutubeInit PROVE YoutubeInv
<1>1. /\ ytPlan = [j \in YtJobs |-> Nothing] /\ ytState = [j \in YtJobs |-> Nothing]
      /\ ytBinding = Nothing /\ serial = 0 /\ flight = {} /\ att = NoAttempt
  BY DEF YoutubeInit
<1>2. PICK has \in {<<>>} \cup {<<v>> : v \in Videos} :
         provider = [p \in Playlists |->
             IF p = Legacy /\ has # <<>>
               THEN [mark |-> 0, items |-> <<[n |-> 0, video |-> has[1]]>>]
               ELSE Nothing]
  BY DEF YoutubeInit
<1> DEFINE old == [mark |-> 0, items |-> <<[n |-> 0, video |-> has[1]]>>]
<1>3. has # <<>> => old \in Listing /\ Distinct(old.items)
  <2> SUFFICES ASSUME has # <<>> PROVE old \in Listing /\ Distinct(old.items)
    OBVIOUS
  <2>1. PICK v \in Videos : has = <<v>>
    BY <1>2
  <2>2. [n |-> 0, video |-> v] \in Item
    BY DEF Item
  <2>3. <<[n |-> 0, video |-> v]>> \in Seq(Item) /\ Len(<<[n |-> 0, video |-> v]>>) = 1
    BY <2>2
  <2>4. old.items = <<[n |-> 0, video |-> v]>>
    BY <2>1
  <2>5. old \in Listing
    BY <2>3, <2>4 DEF Listing, Item
  <2> QED BY <2>3, <2>4, <2>5 DEF Distinct
<1> HIDE DEF old
<1>4. /\ provider \in [Playlists -> Listing \cup {Nothing}]
      /\ ListsDistinct
      /\ \A p \in New : provider[p] = Nothing
  BY <1>2, <1>3 DEF old, Playlists, YoutubeAssumption, ListsDistinct
<1>5. YoutubeTyped
  BY <1>1, <1>4 DEF YoutubeTyped
<1>6. att.at = "idle" /\ att.items = <<>> /\ att.kept = 0
  BY <1>1 DEF NoAttempt
<1>7. AttemptTyped /\ Knows /\ Aims
  BY <1>6 DEF AttemptTyped, Knows, Aims, Settled, Applying
<1>8. Progress
  BY <1>6 DEF Progress, Applying
<1>9. CreationFits
  BY <1>1, <1>4, <1>6 DEF CreationFits, Untouched, Made
<1>10. FlightFits
  BY <1>1 DEF FlightFits
<1> QED BY <1>4, <1>5, <1>7, <1>8, <1>9, <1>10 DEF YoutubeInv

LEMMA YoutubeNextInv ==
    ASSUME YoutubeAssumption, YoutubeInv, [YoutubeNext]_youtubeVars
    PROVE  YoutubeInv'
<1>1. CASE UNCHANGED youtubeVars
  BY <1>1, AsideInv DEF youtubeVars, YoutubeInv, YoutubeTyped
<1>2. ASSUME NEW j \in YtJobs, Start(j) PROVE YoutubeInv'
  BY <1>2, StartInv
<1>3. CASE Lookup \/ CreatePlaylist \/ Bind \/ SettleIntents \/ Describe
  BY <1>3, LookupInv, CreatePlaylistInv, BindInv, SettleInv, DescribeInv
<1>4. CASE Put \/ Cut \/ Fill \/ Post \/ ReadItems
  BY <1>4, PutInv, CutInv, FillInv, PostInv, ReadItemsInv
<1>5. CASE CommitBinding \/ GiveUp
  BY <1>5, QuitInv
<1>6. ASSUME NEW r \in flight, Land(r) PROVE YoutubeInv'
  BY <1>6, LandInv
<1>7. CASE (\E u \in Rebinds : Rebind(u)) \/ (\E p \in Playlists : Archive(p))
  BY <1>7, OperatorInv
<1> QED BY <1>1, <1>2, <1>3, <1>4, <1>5, <1>6, <1>7 DEF YoutubeNext

LEMMA OnePlaylistHolds == ASSUME YoutubeInv PROVE OneYoutubePlaylist
<1> DEFINE M == {p \in New : Made(p)}
<1>1. CASE M = {}
  BY <1>1, FS_EmptySet DEF OneYoutubePlaylist
<1>2. CASE M # {}
  <2>1. PICK p : p \in M
    BY <1>2
  <2>2. \A q \in M : q = p
    BY <2>1 DEF YoutubeInv, CreationFits
  <2>3. M = {p}
    BY <2>1, <2>2
  <2>4. Cardinality(M) = 1
    BY <2>3, FS_Singleton, Zenon
  <2> QED BY <2>4 DEF OneYoutubePlaylist
<1> QED BY <1>1, <1>2

LEMMA NoRepeatsHold == ASSUME YoutubeInv PROVE NoRepeats
<1> SUFFICES ASSUME NEW p \in Playlists, provider[p] # Nothing,
                    NEW i \in DOMAIN Content(p), NEW k \in DOMAIN Content(p),
                    Content(p)[i] = Content(p)[k]
             PROVE  i = k
  BY DEF NoRepeats, IsInjective
<1>1. i \in 1..Len(provider[p].items) /\ k \in 1..Len(provider[p].items)
      /\ provider[p].items[i].video = provider[p].items[k].video
  BY DEF Content
<1> QED BY <1>1 DEF YoutubeInv, ListsDistinct, Distinct

\* A deletion has no intent: that none lands late is assumed.
LEMMA PlanHolds ==
    ASSUME YoutubeInv, "delete" \notin Late
    PROVE  PublishedIsPlan
<1> SUFFICES ASSUME att.at = "commit"
             PROVE  Content(att.id) = Desired /\ Pending(att.id) = {}
  BY DEF PublishedIsPlan
<1>1. Content(att.id) = Desired /\ Calm
  BY DEF YoutubeInv, Progress, Applying
<1>2. \A r \in flight : r.do # "delete"
  BY DEF YoutubeInv, YoutubeTyped
<1>3. Pending(att.id) = {}
  BY <1>1, <1>2 DEF Pending, Calm
<1> QED BY <1>1, <1>3

\* An attempt writes to the playlist it was fenced for.
LEMMA ArchiveHolds ==
    ASSUME YoutubeAssumption, YoutubeInv, [YoutubeNext]_youtubeVars,
           att.at \in {"put", "cut", "post"}, provider' # provider, att' # att,
           NEW p \in archived, p \in Playlists
    PROVE  provider'[p] = provider[p]
<1>1. YoutubeTyped
  BY DEF YoutubeInv
<1>2. Put \/ Cut \/ Post
  BY DEF YoutubeNext, youtubeVars, Start, NoAttempt, Lookup, CreatePlaylist, Bind, SettleIntents,
     Describe, Fill, ReadItems, CommitBinding, GiveUp, Land, Rebind, Archive
<1>3. Fence(att) /\ \E do, arg : do # "create" /\ Lands(Request(do, att.id, arg))
  BY <1>2 DEF Put, Cut, Post, Lose, Reject
<1>4. PICK do, arg : do # "create" /\ Lands(Request(do, att.id, arg))
  BY <1>3
<1>5. att.id \in Playlists /\ Bound(att, Stored(att.job)) = att.id
  BY Working DEF Settled, Applying
<1>6. p # att.id
  BY <1>3, <1>5 DEF Fence, Touched
<1>7. \E l : provider' = [provider EXCEPT ![att.id] = l]
  BY <1>4 DEF Lands, LandsCreate, LandsPut, LandsDelete, LandsInsert, Request
<1> QED BY <1>1, <1>6, <1>7 DEF YoutubeTyped

LEMMA ArchivesTyped ==
    ASSUME archived \subseteq Playlists, [YoutubeNext]_youtubeVars
    PROVE  (archived \subseteq Playlists)'
  BY DEF YoutubeNext, youtubeVars, outside, Start, Lookup, CreatePlaylist, Bind, SettleIntents,
     Describe, Put, Cut, Fill, Post, ReadItems, CommitBinding, GiveUp, Lose, Reject, Land,
     Rebind, Archive

-----------------------------------------------------------------------------
\* The inductive invariant: what is out is recorded, and what an attempt has settled stays so.
THEOREM YoutubeInductive ==
    ASSUME YoutubeAssumption
    PROVE  YoutubeSpec => []YoutubeInv
<1>1. YoutubeInit => YoutubeInv
  BY YoutubeInitInv
<1>2. YoutubeInv /\ [YoutubeNext]_youtubeVars => YoutubeInv'
  BY YoutubeNextInv
<1> QED BY <1>1, <1>2, PTL DEF YoutubeSpec

\* An edition gets one YouTube playlist and no video twice, however many attempts end anywhere
\* and whatever lands late, deletions included.
THEOREM MirrorIsOne ==
    ASSUME YoutubeAssumption
    PROVE  YoutubeSpec => [](OneYoutubePlaylist /\ NoRepeats)
<1>1. YoutubeInv => OneYoutubePlaylist /\ NoRepeats
  BY OnePlaylistHolds, NoRepeatsHold
<1> QED BY <1>1, YoutubeInductive, PTL

\* Unless a deletion lands late: what was read back as complete is the plan, and nothing sent
\* before can land on it any more.
THEOREM MirrorIsKept ==
    ASSUME YoutubeAssumption, "delete" \notin Late
    PROVE  YoutubeSpec => []YoutubeKept
<1>1. YoutubeInv => YoutubeKept
  BY OnePlaylistHolds, NoRepeatsHold, PlanHolds DEF YoutubeKept
<1> QED BY <1>1, YoutubeInductive, PTL

\* No attempt writes to a playlist that was archived since it began.
THEOREM MirrorRespectsArchive ==
    ASSUME YoutubeAssumption
    PROVE  YoutubeSpec => ArchiveKept
<1>1. YoutubeInit => archived \subseteq Playlists
  BY DEF YoutubeInit
<1>2. archived \subseteq Playlists /\ [YoutubeNext]_youtubeVars => (archived \subseteq Playlists)'
  BY ArchivesTyped
<1>3. YoutubeInv /\ archived \subseteq Playlists /\ [YoutubeNext]_youtubeVars =>
         [att.at \in {"put", "cut", "post"} /\ provider' # provider /\ att' # att
             => \A p \in archived : provider'[p] = provider[p]]_youtubeVars
  BY ArchiveHolds
<1> QED BY <1>1, <1>2, <1>3, YoutubeInductive, PTL DEF YoutubeSpec, ArchiveKept

\* No publication writes late, to Spotify or to YouTube: neither one that was overtaken nor one
\* whose playlist was archived since.
THEOREM NeitherWritesLate ==
    ASSUME YoutubeAssumption
    PROVE  Spec /\ YoutubeSpec => NoLateWrite
  BY Guarded, MirrorRespectsArchive, PTL DEF NoLateWrite
=============================================================================
