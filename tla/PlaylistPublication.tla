------------------------- MODULE PlaylistPublication -------------------------
(***************************************************************************)
(* How a festival's lineup reaches its Spotify playlist: the steps of the  *)
(* playlist worker (lib/catalog/playlist-worker.ts, scripts/               *)
(* playlist-worker.ts), of the adapter it starts (apply_playlist_plan.py)  *)
(* and of the guard the adapter runs before every request (scripts/        *)
(* playlist-lease-guard.ts), for the editions of one festival.             *)
(*                                                                         *)
(* The queue is used through what it promises, PlaylistExclusion, which    *)
(* PlaylistQueue implements: Held(h) says that attempt h holds the lease.  *)
(*                                                                         *)
(* Spotify keeps what it was sent; answers get lost.  A process may die at *)
(* any step, and a request may reach Spotify although its sender has died, *)
(* timed out or lost the lease: late records that this may have happened.  *)
(***************************************************************************)
EXTENDS Naturals, FiniteSets, Sequences, Functions

CONSTANTS
    Jobs,           \* queue rows, numbered in the order of their publications
    Editions,
    Ids,            \* Spotify playlist ids
    Pasts,          \* which edition each publication is about, and the bindings that
                    \* are older than the queue: the cases to consider
    Parts,          \* requests needed to write a track list (100 tracks each)
    MaxAttempts,    \* bound on the attempts of all jobs together
    None            \* SQL NULL, the empty playlist url, and "nothing"

ASSUME PublicationAssumption ==
    /\ Jobs \subseteq Nat
    /\ Pasts \subseteq [edition : [Jobs -> Editions], bound : [Editions -> Ids \cup {None}]]
    /\ \A past \in Pasts : \A d, e \in Editions :
          past.bound[d] = past.bound[e] => d = e \/ past.bound[d] = None
    /\ Parts \in Nat \ {0}
    /\ MaxAttempts \in Nat
    /\ None \notin Jobs \cup Ids

VARIABLES
    past,       \* the case at hand, one of Pasts
    holder, live, attempts, done,   \* the queue, as in PlaylistExclusion
    plan,       \* [Jobs -> Plan or None]: desiredPlan
    intent,     \* [Jobs -> Intent or None]: spotifyCreation
    binding,    \* [Editions -> Ids or None]: the FestivalPlaylist row of spotify
    playlists,  \* [Ids -> Playlist or None]: what exists at Spotify
    run,        \* [Runs -> Run]: the worker process of each attempt
    late        \* has a request outlived its sender or its sender's lease?

queueVars == <<holder, live, attempts, done>>
vars == <<past, holder, live, attempts, done, plan, intent, binding, playlists, run, late>>

EditionOf == past.edition
Prebound == past.bound

Festival == "festival"

Queue == INSTANCE PlaylistExclusion WITH
    Festivals <- {Festival},
    FestivalOf <- [j \in Jobs |-> Festival],
    NoJob <- None

\* One worker process per claimed attempt.  A plan's tracks are named by the
\* attempt that discovered them: every discovery may choose other tracks.
Runs == Jobs \X (1..MaxAttempts)

Plan == [url : Ids \cup {None}, tracks : Runs]
Intent == [marker : Jobs, sent : BOOLEAN, id : Ids \cup {None}]
Playlist == [marker : Jobs \cup {None}, items : Seq(Runs \X (1..Parts))]

Pcs == {"idle", "snapshot", "plan", "check", "intent", "discover", "reserve",
        "guardCreate", "create", "verify", "read", "guardWrite", "write",
        "readBack", "checkpoint", "commit", "broken", "dead", "finished"}

\* url is the binding the attempt expects; tracks and planUrl are the plan it
\* read or staged; marker and id are the playlist it creates or writes; part is
\* the next part of the track list to write.
Run == [pc : Pcs, url : Ids \cup {None}, planUrl : Ids \cup {None}, tracks : Runs \cup {None},
        marker : Jobs \cup {None}, id : Ids \cup {None}, part : 1..Parts]

\* NULL is told from every plan, intent and playlist.
ASSUME NoneAssumption == None \notin Plan \cup Intent \cup Playlist

Fresh == [pc |-> "idle", url |-> None, planUrl |-> None, tracks |-> None,
          marker |-> None, id |-> None, part |-> 1]

Init ==
    /\ past \in Pasts
    /\ Queue!Init
    /\ plan = [j \in Jobs |-> None]
    /\ intent = [j \in Jobs |-> None]
    /\ binding = Prebound
    /\ playlists = [p \in Ids |-> IF \E e \in Editions : Prebound[e] = p
                                    THEN [marker |-> None, items |-> <<>>] ELSE None]
    /\ run = [h \in Runs |-> Fresh]
    /\ late = FALSE

-----------------------------------------------------------------------------
\* What the transactions check.  A definition named "...Mutant" is the next one
\* with a plausible bug: no action uses it, and the property it is paired with in
\* PROJECT.json fails when it takes that definition's place.

JobOf(h) == h[1]
EditionOfRun(h) == EditionOf[JobOf(h)]

Held(h) ==
    /\ holder[Festival] = JobOf(h)
    /\ live[Festival]
    /\ attempts[JobOf(h)] = h[2]

\* Superseded only by a publication that completed.
SupersededMutant(j) == \E k \in done : k > j /\ EditionOf[k] = EditionOf[j]

\* assertSpotifyPlanCurrent: a newer publication of the edition has a plan.
Superseded(j) == \E k \in Jobs : k > j /\ EditionOf[k] = EditionOf[j] /\ plan[k] # None

\* A newer publication of the festival, of whatever edition, has SUCCEEDED.
NewerDone(j) == \E k \in done : k > j

Current(h) == ~Superseded(JobOf(h)) /\ ~NewerDone(JobOf(h)) /\ binding[EditionOfRun(h)] = run[h].url

\* guardSpotify: the lease, the plan, the newer publications and the binding.
Guard(h) == Held(h) /\ Current(h)

\* The oldest creation intent among the jobs of the edition, else a new one.
IntentOf(j) ==
    LET rows == {k \in Jobs : EditionOf[k] = EditionOf[j] /\ intent[k] # None}
    IN  IF rows = {} THEN [marker |-> j, sent |-> FALSE, id |-> None]
        ELSE intent[CHOOSE k \in rows : \A i \in rows : k <= i]

\* An intent is written to the row it was found in and to the job's own.
RecordIntent(j, i) ==
    LET rows == {k \in Jobs : EditionOf[k] = EditionOf[j] /\ intent[k] # None}
    IN  intent' = [k \in Jobs |-> IF k = j \/ (k \in rows /\ \A n \in rows : k <= n)
                                    THEN i ELSE intent[k]]

\* Discovery and read-back compare the description with the marker.
Matching(marker) == {p \in Ids : playlists[p] # None /\ playlists[p].marker = marker}

\* The ordered track list that a complete write leaves in the playlist.
Complete(tracks) == [i \in 1..Parts |-> <<tracks, i>>]

InFlight(h) == run[h].pc \in {"create", "write"}

Goes(h, pc) == run' = [run EXCEPT ![h].pc = pc]
-----------------------------------------------------------------------------
(* The worker process *)

\* claimPlaylistRefresh gives the job to a new worker process.
Claim(j) ==
    /\ FoldFunction(+, 0, attempts) < MaxAttempts
    /\ Queue!Acquire(j)
    /\ run' = [run EXCEPT ![<<j, attempts[j] + 1>>].pc = "snapshot"]
    /\ UNCHANGED <<plan, intent, binding, playlists, late>>

\* readCatalog: the binding is read once, long before it is used.
Snapshot(h) ==
    /\ run[h].pc = "snapshot"
    /\ run' = [run EXCEPT ![h].url = binding[EditionOfRun(h)], ![h].pc = "plan"]
    /\ UNCHANGED <<queueVars, plan, intent, binding, playlists, late>>

\* The durable plan is read, or discovered and staged under the lease.
StagePlan(h) ==
    LET j == JobOf(h)
        p == IF plan[j] = None THEN [url |-> run[h].url, tracks |-> h] ELSE plan[j]
    IN  /\ run[h].pc = "plan"
        /\ plan[j] = None => Held(h)
        /\ plan' = [plan EXCEPT ![j] = p]
        /\ run' = [run EXCEPT ![h].planUrl = p.url, ![h].tracks = p.tracks, ![h].pc = "check"]
        /\ UNCHANGED <<queueVars, intent, binding, playlists, late>>

\* "Durable plan binding mismatch", the lease and the newer plans are checked,
\* and the adapter starts: with a playlist to find or create, or with the bound one.
CheckPlan(h) ==
    /\ run[h].pc = "check"
    /\ run[h].planUrl = run[h].url
    /\ Held(h) /\ ~Superseded(JobOf(h))
    /\ run' = [run EXCEPT ![h].id = run[h].planUrl,
                          ![h].pc = IF run[h].planUrl = None THEN "intent" ELSE "read"]
    /\ UNCHANGED <<queueVars, plan, intent, binding, playlists, late>>

-----------------------------------------------------------------------------
(* ensure_playlist *)

ReadIntent(h) ==
    LET i == IntentOf(JobOf(h)) IN
    /\ run[h].pc = "intent"
    /\ Guard(h)
    /\ run' = [run EXCEPT ![h].marker = i.marker, ![h].id = i.id,
                  ![h].pc = IF i.id # None THEN "verify" ELSE IF i.sent THEN "discover" ELSE "reserve"]
    /\ UNCHANGED <<queueVars, plan, intent, binding, playlists, late>>

\* Discovery must find exactly one playlist; a new one may not be listed yet.
Discover(h) ==
    /\ run[h].pc = "discover"
    /\ Guard(h)
    /\ Cardinality(Matching(run[h].marker)) = 1
    /\ \E p \in Matching(run[h].marker) :
          run' = [run EXCEPT ![h].id = p, ![h].pc = "verify"]
    /\ UNCHANGED <<queueVars, plan, intent, binding, playlists, late>>

\* The create request is sent before the reservation is committed.
ReserveMutant(h) ==
    /\ run[h].pc = "reserve"
    /\ Guard(h)
    /\ ~IntentOf(JobOf(h)).sent
    /\ Goes(h, "guardCreate")
    /\ UNCHANGED <<queueVars, plan, intent, binding, playlists, late>>

\* The reservation is committed before the create request is sent.
Reserve(h) ==
    /\ run[h].pc = "reserve"
    /\ Guard(h)
    /\ ~IntentOf(JobOf(h)).sent
    /\ RecordIntent(JobOf(h), [IntentOf(JobOf(h)) EXCEPT !.sent = TRUE])
    /\ Goes(h, "guardCreate")
    /\ UNCHANGED <<queueVars, plan, binding, playlists, late>>

\* The guard right before a request that changes something at Spotify.
Arm(h) ==
    /\ \/ run[h].pc = "guardCreate" /\ Goes(h, "create")
       \/ run[h].pc = "guardWrite" /\ Goes(h, "write")
    /\ Guard(h)
    /\ UNCHANGED <<queueVars, plan, intent, binding, playlists, late>>

\* The POST: executed and answered, executed with the answer lost, or not executed.
Create(h) ==
    /\ run[h].pc = "create"
    /\ \/ \E p \in Ids :
             /\ playlists[p] = None
             /\ playlists' = [playlists EXCEPT ![p] = [marker |-> run[h].marker, items |-> <<>>]]
             /\ \/ run' = [run EXCEPT ![h].id = p, ![h].pc = "verify"]
                \/ Goes(h, "broken")
       \/ Goes(h, "broken") /\ UNCHANGED playlists
    /\ UNCHANGED <<queueVars, plan, intent, binding, late>>

\* Metadata read-back, then the id is bound to the intent.
Verify(h) ==
    LET i == IntentOf(JobOf(h)) IN
    /\ run[h].pc = "verify"
    /\ Guard(h)
    /\ run[h].id \in Matching(run[h].marker)
    /\ i.sent /\ i.id \in {None, run[h].id}
    /\ RecordIntent(JobOf(h), [i EXCEPT !.id = run[h].id])
    /\ Goes(h, "read")
    /\ UNCHANGED <<queueVars, plan, binding, playlists, late>>

-----------------------------------------------------------------------------
(* apply_plan *)

\* Nothing is written when the wanted tracks are already there.
Read(h) ==
    /\ run[h].pc = "read"
    /\ Guard(h)
    /\ \/ playlists[run[h].id].items = Complete(run[h].tracks) /\ Goes(h, "checkpoint")
       \/ Goes(h, "guardWrite")     \* different, or an earlier write not visible yet
    /\ UNCHANGED <<queueVars, plan, intent, binding, playlists, late>>

\* The PUT of the first part replaces all items, the POSTs of the others append.
Write(h) ==
    LET p == run[h].id
        n == run[h].part
    IN  /\ run[h].pc = "write"
        /\ \/ /\ playlists' = [playlists EXCEPT ![p].items =
                    IF n = 1 THEN << <<run[h].tracks, 1>> >> ELSE Append(@, <<run[h].tracks, n>>)]
              /\ \/ IF n = Parts THEN Goes(h, "readBack")
                    ELSE run' = [run EXCEPT ![h].part = n + 1, ![h].pc = "guardWrite"]
                 \/ Goes(h, "broken")
           \/ Goes(h, "broken") /\ UNCHANGED playlists
        /\ UNCHANGED <<queueVars, plan, intent, binding, late>>

ReadBack(h) ==
    /\ run[h].pc = "readBack"
    /\ Guard(h)
    /\ playlists[run[h].id].items = Complete(run[h].tracks)
    /\ Goes(h, "checkpoint")
    /\ UNCHANGED <<queueVars, plan, intent, binding, playlists, late>>

-----------------------------------------------------------------------------
(* Publication in the database *)

\* publishSpotifyCheckpoint: the binding and the plan's url, in one transaction.
Checkpoint(h) ==
    LET j == JobOf(h)
        p == run[h].id
    IN  /\ run[h].pc = "checkpoint"
        /\ Guard(h)
        /\ plan[j].url = run[h].url
        /\ p # run[h].url => run[h].url = None /\ intent[j] # None /\ intent[j].sent /\ intent[j].id = p
        /\ binding' = [binding EXCEPT ![EditionOfRun(h)] = p]
        /\ plan' = [plan EXCEPT ![j].url = p]
        /\ run' = [run EXCEPT ![h].url = p, ![h].pc = "commit"]
        /\ UNCHANGED <<queueVars, intent, playlists, late>>

\* commitPlaylistRefresh, once YouTube is complete too.
Commit(h) ==
    /\ run[h].pc = "commit"
    /\ Guard(h)
    /\ Queue!Release(JobOf(h))
    /\ done' = done \cup {JobOf(h)}
    /\ Goes(h, "finished")
    /\ UNCHANGED <<plan, intent, binding, playlists, late>>

\* Any error ends the attempt: the adapter is stopped, and the job is FAILED if the
\* attempt still holds its lease.  A request already sent may still arrive.
Fail(h) ==
    /\ run[h].pc \notin {"idle", "dead", "finished"}
    /\ late' = (late \/ InFlight(h))
    /\ IF Held(h) THEN Queue!Release(JobOf(h)) /\ done' = done
                  ELSE UNCHANGED queueVars
    /\ \/ Goes(h, "dead")
       \/ Held(h) /\ InFlight(h) /\ UNCHANGED run
    /\ UNCHANGED <<plan, intent, binding, playlists>>

\* The worker dies, and with it the adapter.
Die(h) ==
    /\ run[h].pc \notin {"idle", "dead", "finished"}
    /\ Goes(h, "dead")
    /\ UNCHANGED <<queueVars, plan, intent, binding, playlists, late>>

\* The guard leaves a request twice its timeout, so a lease does not lapse while
\* one is in flight, unless the process is suspended or Spotify acts late.
Lapse ==
    /\ live[Festival]
    /\ Queue!Lapse
    /\ late' = (late \/ \E h \in Runs : Held(h) /\ InFlight(h))
    /\ UNCHANGED <<plan, intent, binding, playlists, run>>

Next ==
    /\ UNCHANGED past
    /\ \/ \E j \in Jobs : Claim(j)
       \/ \E h \in Runs :
             \/ Snapshot(h) \/ StagePlan(h) \/ CheckPlan(h)
             \/ ReadIntent(h) \/ Discover(h) \/ Reserve(h) \/ Arm(h) \/ Create(h) \/ Verify(h)
             \/ Read(h) \/ Write(h) \/ ReadBack(h)
             \/ Checkpoint(h) \/ Commit(h) \/ Fail(h) \/ Die(h)
       \/ Lapse

Spec == Init /\ [][Next]_vars

-----------------------------------------------------------------------------
(* Properties *)

\* Every variable has its type.
TypeOK ==
    /\ past \in Pasts
    /\ plan \in [Jobs -> Plan \cup {None}]
    /\ intent \in [Jobs -> Intent \cup {None}]
    /\ binding \in [Editions -> Ids \cup {None}]
    /\ playlists \in [Ids -> Playlist \cup {None}]
    /\ run \in [Runs -> Run]
    /\ late \in BOOLEAN

Created(e) == {p \in Ids : /\ playlists[p] # None /\ playlists[p].marker # None
                           /\ EditionOf[playlists[p].marker] = e}

\* The queue never creates a second playlist for an edition, whatever is lost,
\* retried, late or taken over by a newer publication (spotifyCreationState,
\* ensure_playlist), and none for an edition that has one.
OneCreation ==
    \A e \in Editions : /\ Cardinality(Created(e)) <= 1
                        /\ Prebound[e] # None => Created(e) = {}

\* An edition is only ever bound to its own playlist, and stays bound to it: the
\* one it had, or the one created for it and read back.
BoundToOwn ==
    \A e \in Editions :
        IF Prebound[e] # None THEN binding[e] = Prebound[e]
        ELSE binding[e] # None => binding[e] \in Created(e)

NewestStaged(j) == \A k \in Jobs : k > j /\ EditionOf[k] = EditionOf[j] => plan[k] = None

\* A staged plan that no newer one has replaced always fits the edition's binding,
\* so "Durable plan binding mismatch" never stops the newest publication, although
\* the plan's url comes from a binding read before the plan was discovered.
PlanFitsBinding ==
    \A j \in Jobs : plan[j] # None /\ NewestStaged(j) => plan[j].url = binding[EditionOf[j]]

\* What the last completed publication of an edition put in the playlist stays
\* there, complete and in order, until a newer one has staged its plan, unless a
\* request outlives its sender.
PublishedStays ==
    \A j \in done : NewestStaged(j) /\ ~late =>
        /\ binding[EditionOf[j]] # None
        /\ playlists[binding[EditionOf[j]]].items = Complete(plan[j].tracks)

\* An edition has one playlist, and what was published last is in it: the four together,
\* each of which the next publication of the edition relies on.
PublishedIsKept == TypeOK /\ OneCreation /\ BoundToOwn /\ PlanFitsBinding /\ PublishedStays

\* No publication writes tracks to a playlist once a newer publication of the
\* edition has staged its plan (the guard before every request), unless a request
\* outlives its sender.
NoStaleWrite ==
    [][\A h \in Runs : run[h].pc = "write" /\ playlists' # playlists /\ run'[h] # run[h] /\ ~late
          => NewestStaged(JobOf(h))]_vars
=============================================================================
