----------------------------- MODULE MCProgress -----------------------------
(***************************************************************************)
(* The instance that TLC checks of what timers keep going, in spite of     *)
(* what fails: the scheduler of the deployed units (DueScheduler), the     *)
(* checks of the sources (SourceIngestion), the calls of the import agent  *)
(* (ImportEvents), the watcher of its cases (AgentWatch) and the           *)
(* enrichment of the artists (ArtistEnrichment).  They share no variable:  *)
(* a behaviour here is a behaviour of one of them, "part" says of which,   *)
(* and the others stay as they began.                                      *)
(***************************************************************************)
EXTENDS DueScheduler, AgentWatch, Sequences, TLC

CONSTANTS
    Sources, Workers, Configs, Values, Reviewed, MaxFailures, MaxFaults, MaxChanges, LostAcks,
    None,
    failure, Drains, MaxWork,
    a1, a2, m1, Absent, Dead, Enrichers, MaxDays, MaxCrashes

VARIABLES part,
    row, page, catalog, worker, fetched, faults, changes,
    asked, edition, state, repair, claims, checks, edits,
    queue, call, receiver, receipts, filed, admitted, doubts, moot, obsolete, eventFaults,
    known, artist, enriching, payload, resolver, enricher, clock, crashes

Ingestion == INSTANCE SourceIngestion

(* One failing source, one check, two capabilities.                         *)
Issues == {failure}
Kind == [i \in Issues |-> "failure"]
ConfigOf == [i \in Issues |-> "adapter"]

Events == INSTANCE ImportEvents WITH
    Configs <- {"adapter"}, Values <- {"value"}, Feedback <- Issues,
    MaxChecks <- 1, MaxClaims <- 2, MaxEdits <- 0, MaxFaults <- 1,
    source <- asked, faults <- eventFaults

(* Two artists, the second one added later; MusicBrainz names the same     *)
(* candidate for both.                                                     *)
Artists == {a1, a2}
Answers == [a \in Artists |-> {[count |-> 1, size |-> 1, ids |-> {m1}]}]
NoArtist == [a \in Artists |-> Absent]
Payloads ==
    {[profiles |-> NoArtist, cache |-> NoArtist, reviews |-> {}, day |-> Absent,
      work |-> Absent, nextRun |-> 0, receipt |-> Absent]}

Enrichment == INSTANCE ArtistEnrichment WITH
    Order <- <<a1, a2>>, Early <- {a1}, Namesakes <- {}, Protected <- {<<a1, "identity">>},
    Relations <- [a \in {} |-> {}],
    lease <- enriching

sourceVars == <<row, page, catalog, worker, fetched, faults, changes>>
eventVars ==
    <<asked, edition, state, repair, claims, checks, edits, queue, call, receiver, receipts,
      filed, admitted, doubts, moot, obsolete, eventFaults>>
artistVars == <<known, artist, enriching, payload, resolver, enricher, clock, crashes>>

PartsInit ==
    /\ part \in {"scheduler", "source", "events", "watch", "artists"}
    /\ SchedulerInit /\ Ingestion!Init /\ Events!EventInit /\ WatchInit /\ Enrichment!EnrichmentInit
    /\ part # "source" => /\ page = [c \in Configs |-> 0] /\ catalog = 0
                          /\ \A s \in Sources : row[s].config = CHOOSE c \in Configs : TRUE

PartsNext ==
    \/ /\ part = "scheduler" /\ SchedulerNext
       /\ UNCHANGED <<part, sourceVars, eventVars, watchVars, artistVars>>
    \/ /\ part = "source" /\ Ingestion!Next
       /\ UNCHANGED <<part, schedulerVars, eventVars, watchVars, artistVars>>
    \/ /\ part = "events" /\ Events!Next
       /\ UNCHANGED <<part, schedulerVars, sourceVars, watchVars, artistVars>>
    \/ /\ part = "watch" /\ WatchNext
       /\ UNCHANGED <<part, schedulerVars, sourceVars, eventVars, artistVars>>
    \/ /\ part = "artists" /\ Enrichment!EnrichmentNext
       /\ UNCHANGED <<part, schedulerVars, sourceVars, eventVars, watchVars>>

-----------------------------------------------------------------------------
(* Fairness: what is going on goes on, and what is tried again and again   *)
(* succeeds some time.                                                     *)

\* A unit runs to its end within its time limit, and a waiting wrapper sees that.
SchedulerGoesOn ==
    /\ \A q \in Posts : /\ WF_schedulerVars(part = "scheduler" /\ (LegacyLock(q) \/ LegacyGate(q)))
                        /\ WF_schedulerVars(part = "scheduler" /\ \E ok \in BOOLEAN : LegacyRun(q, ok))
    /\ WF_schedulerVars(part = "scheduler" /\ (Halt \/ Verify \/ WriteMode \/ Enable \/ FailClosed))
    /\ WF_schedulerVars(part = "scheduler" /\ \E found \in {"ok", "idle", "error"} : DueFetch(found))
    /\ WF_schedulerVars(part = "scheduler" /\ (\E ok \in BOOLEAN : DueDrain(ok)))
    /\ WF_schedulerVars(part = "scheduler" /\ TickEnds)
    /\ WF_schedulerVars(part = "scheduler" /\ (PilotFetch \/ PilotRefused))
    /\ WF_schedulerVars(part = "scheduler" /\ (\E ok \in BOOLEAN : PilotFetched(ok)))
    /\ WF_schedulerVars(part = "scheduler" /\ PilotEnds)

\* The timer starts a worker again and again, a started process runs, time passes.
SourcesGoOn ==
    /\ \A w \in Workers : WF_sourceVars(part = "source" /\ Ingestion!Step(w))
    /\ \A s \in Sources : /\ WF_sourceVars(part = "source" /\ Ingestion!Lapse(s))
                          /\ WF_sourceVars(part = "source" /\ Ingestion!BecomeDue(s))

Elsewhere == UNCHANGED <<queue, call, receiver, receipts, filed, admitted, doubts, moot,
                         obsolete, eventFaults>>

\* A running drain and a running receiver go on or fail, checks end, leases and waits run out.
EventsGoOn ==
    /\ \A d \in Drains : WF_eventVars(part = "events" /\ Events!DrainStep(d))
    /\ WF_eventVars(part = "events" /\ Events!ReceiverStep)
    /\ WF_eventVars(part = "events" /\ Elsewhere /\
          (Events!SourceSucceeds \/ Events!SourceFails \/ Events!SourceLapse))
    /\ WF_eventVars(part = "events" /\ Elsewhere /\ Events!SourceDue)
    /\ \A i \in Issues : WF_eventVars(part = "events" /\ Elsewhere /\ Events!Clock(i))

\* A run of the agent ends, and time passes.
WatchGoesOn ==
    /\ WF_watchVars(part = "watch" /\ Tick)
    /\ \A r \in Runs : WF_watchVars(part = "watch" /\ Stop(r))

\* A run goes on until it ends or dies; the lease of a dead one expires.
EnrichmentGoesOn ==
    /\ \A w \in Enrichers : WF_artistVars(part = "artists" /\ Enrichment!Run(w))
    /\ WF_artistVars(part = "artists" /\ enriching.owner = Dead /\ Enrichment!Expire)

\* What is tried again until it succeeds, three things of each part at most.  The ten-minute
\* timer finds the locks free, and a drain succeeds; drains take the oldest event; polls get
\* their answer, an agent's run the answer to its claim, and a run settles what it holds in
\* time; the daily timer finds the lease free.
Retried(n) ==
    \/ /\ part = "scheduler"
       /\ \/ n = 1 /\ TickStart
          \/ n = 2 /\ DueDrain(TRUE)
       /\ UNCHANGED <<sourceVars, eventVars, watchVars, artistVars>>
    \/ /\ part = "events"
       /\ LET q == <<<<"source", 1>>, <<"repair", failure, 0>>, <<"repair", failure, 2>>>>[n]
          IN  /\ ~Events!WorkedOn(q)
              /\ \E d \in Drains : Events!DrainClaim(d, q)
       /\ UNCHANGED <<schedulerVars, sourceVars, watchVars, artistVars>>
    \/ /\ part = "watch"
       /\ \/ n = 1 /\ PollSignal
          \/ n = 2 /\ \E r \in Runs, c \in Cases : ClaimSaved(r, c)
          \/ n = 3 /\ \E r \in Runs, c \in Cases : SettleHeld(r, c) /\ Holds(r, c)
       /\ UNCHANGED <<schedulerVars, sourceVars, eventVars, artistVars>>
    \/ /\ part = "artists" /\ n = 1 /\ \E w \in Enrichers : Enrichment!ClaimEnrichment(w)
       /\ UNCHANGED <<schedulerVars, sourceVars, eventVars, watchVars>>

PartsSpec ==
    /\ PartsInit /\ [][PartsNext]_<<part, schedulerVars, sourceVars, eventVars, watchVars, artistVars>>
    /\ SchedulerGoesOn /\ SourcesGoOn /\ EventsGoOn /\ WatchGoesOn /\ EnrichmentGoesOn
    /\ \A n \in 1..3 :
          SF_<<schedulerVars, sourceVars, eventVars, watchVars, artistVars>>(Retried(n))

-----------------------------------------------------------------------------
(* Properties.                                                             *)

\* What the part has to get done and has not.
Awaited ==
    CASE part = "scheduler" -> Undrained
      [] part = "source" -> Ingestion!Overdue \/ Ingestion!Behind
      [] part = "events" -> Events!Undelivered
      [] part = "watch" -> Neglected
      [] part = "artists" -> ~Enrichment!Enriched

\* Nothing waits for ever, whatever died, failed or got lost on the way: while the new timer
\* stays on, the outbox is drained again and again, also when every fetch fails
\* (db-due-tick.mjs); a due source is checked and the catalogue follows its page, unless
\* it is disabled (ingest-festivals.mjs); a queued event is delivered (import-events.ts);
\* an open case is settled or made to wait (import-agent-watch.mjs); every artist is handled
\* and what was found is published (enrich-artists.mjs).
WorkGetsDone == []<>~Awaited
=============================================================================
