---------------------------- MODULE DueScheduler ----------------------------
(***************************************************************************)
(* Who fetches the festivals' sources.  Three ways lead to a fetch: the    *)
(* HTTP route (posted to by the old timer's unit and by hand), the ticks   *)
(* of the new timer, and the operator's one-source pilot.  A mode file     *)
(* says which of them is on; the controller's switch rewrites it.          *)
(*                                                                         *)
(* The wrappers (switch, tick, pilot) hold two host locks, the deployment  *)
(* lock and the source-fetch lock; a legacy fetch holds the second itself. *)
(* Wrappers start their fetch as a unit of its own and wait for it, so a   *)
(* wrapper that is killed drops its locks while the unit goes on.          *)
(***************************************************************************)
EXTENDS Naturals, FiniteSets

CONSTANTS
    Posts,      \* requests of the legacy route in progress
    Killable,   \* wrappers that may be killed while they wait
    Modes       \* what the controller may switch to

Wrappers == {"switch", "tick", "pilot"}

\* What the constants are taken to be.
ASSUME SchedulerAssumption ==
    Killable \subseteq Wrappers /\ Posts \cap Wrappers = {} /\ Modes \subseteq {"legacy", "db-due"}

VARIABLES
    mode,       \* the mode file, "absent" if there is none
    timers,     \* the timers that are enabled
    fetchLock,  \* holders of source-fetch.lock
    deployLock, \* holders of the activation lock
    post,       \* the legacy requests
    byUnit,     \* the request that the old timer's unit waits for
    legacyUnit, \* state of that unit
    wrapper,    \* the wrappers' progress
    target,     \* what the switch is switching to
    due,        \* the tick's unit: which half it is in
    pilotUnit,  \* the pilot's unit is fetching
    source,     \* a source as the due health counts it
    pending,    \* there are events in the outbox
    last        \* the heartbeat of the last tick

gate  == <<mode, timers, target>>
locks == <<fetchLock, deployLock>>
units == <<byUnit, legacyUnit, due, pilotUnit>>
data  == <<source, pending, last>>
schedulerVars  == <<gate, locks, units, data, post, wrapper>>

NoTick == [fetch |-> "none", drain |-> "none"]

SchedulerTypeOK ==
    /\ mode \in {"legacy", "db-due", "absent"} /\ timers \subseteq {"legacy", "db-due"}
    /\ fetchLock \subseteq Posts \cup Wrappers /\ deployLock \subseteq Wrappers
    /\ post \in [Posts -> {"idle", "probed", "locked", "running"}]
    /\ byUnit \in SUBSET Posts /\ legacyUnit \in {"inactive", "active", "failed"}
    /\ wrapper \in [Wrappers -> {"idle", "locked", "halted", "verified", "written", "waiting"}]
    /\ target \in {"legacy", "db-due"} /\ due \in {"none", "fetch", "drain"}
    /\ pilotUnit \in BOOLEAN /\ pending \in BOOLEAN
    /\ source \in [due : BOOLEAN, lease : {"none", "live", "lapsed"}, failing : BOOLEAN]
    /\ last \in [fetch : {"none", "ok", "idle", "error"}, drain : {"none", "ok", "error"}]

SchedulerInit ==
    /\ mode = "legacy" /\ timers = {"legacy"} /\ target = "legacy"
    /\ fetchLock = {} /\ deployLock = {}
    /\ post = [q \in Posts |-> "idle"] /\ byUnit = {} /\ legacyUnit = "inactive"
    /\ wrapper = [w \in Wrappers |-> "idle"]
    /\ due = "none" /\ pilotUnit = FALSE
    /\ source = [due |-> TRUE, lease |-> "none", failing |-> FALSE]
    /\ pending = FALSE /\ last = NoTick

\* What a fetch may make of the source, and of the outbox.
Checked(ok) ==
    /\ source' = [due |-> FALSE, lease |-> "none", failing |-> ~ok]
    /\ pending' \in {pending, pending \/ ok}

----------------------------------------------------------------------------
(* The legacy route. *)

LegacyRouteActive == mode = "legacy"

\* The answer ends the unit's wait, well or badly.
Answer(q, ok) ==
    /\ post' = [post EXCEPT ![q] = "idle"] /\ fetchLock' = fetchLock \ {q}
    /\ byUnit' = byUnit \ {q}
    /\ legacyUnit' = IF q \notin byUnit THEN legacyUnit ELSE IF ok THEN "inactive" ELSE "failed"

\* The probe comes before authorization is even needed and before any lock.
Post(q, unit) ==
    /\ post[q] = "idle"
    /\ unit => "legacy" \in timers /\ byUnit = {} /\ wrapper["switch"] = "idle"
    /\ post' = [post EXCEPT ![q] = IF LegacyRouteActive THEN "probed" ELSE "idle"]
    /\ byUnit' = IF unit /\ LegacyRouteActive THEN {q} ELSE byUnit
    /\ legacyUnit' = IF ~unit THEN legacyUnit ELSE IF LegacyRouteActive THEN "active" ELSE "failed"
    /\ UNCHANGED <<gate, locks, data, wrapper, due, pilotUnit>>

\* flock -n: the lock is there at once or the request fails.
LegacyLock(q) ==
    /\ post[q] = "probed"
    /\ IF fetchLock = {}
       THEN /\ fetchLock' = {q} /\ post' = [post EXCEPT ![q] = "locked"]
            /\ UNCHANGED <<byUnit, legacyUnit>>
       ELSE Answer(q, FALSE)
    /\ UNCHANGED <<gate, data, wrapper, deployLock, due, pilotUnit>>

(* Mutant: the probe before the lock is the only look at the mode. *)
GatedMutant == TRUE

Gated == mode = "legacy"

\* run-legacy-ingestion.sh reads the mode again, inside the lock.
LegacyGate(q) ==
    /\ post[q] = "locked"
    /\ IF Gated
       THEN post' = [post EXCEPT ![q] = "running"] /\ UNCHANGED <<fetchLock, byUnit, legacyUnit>>
       ELSE Answer(q, FALSE)
    /\ UNCHANGED <<gate, data, wrapper, deployLock, due, pilotUnit>>

\* The answer is good only if the run and its publications read back.  This
\* way of fetching takes no leases and stages no events in the outbox.
LegacyRun(q, ok) ==
    /\ post[q] = "running"
    /\ Answer(q, ok)
    /\ UNCHANGED <<gate, data, wrapper, deployLock, due, pilotUnit>>

\* The application stops: a request that has started its fetch leaves it
\* running, and the lock is the fetch's own.
AppStops ==
    /\ post' = [q \in Posts |-> IF post[q] = "probed" THEN "idle" ELSE post[q]]
    /\ legacyUnit' = IF byUnit = {} THEN legacyUnit ELSE "failed"
    /\ byUnit' = {}
    /\ UNCHANGED <<gate, locks, data, wrapper, due, pilotUnit>>

----------------------------------------------------------------------------
(* The wrappers. *)

Take(w) == fetchLock = {} /\ deployLock = {} /\ fetchLock' = {w} /\ deployLock' = {w}

Drop(w) ==
    /\ fetchLock' = fetchLock \ {w} /\ deployLock' = deployLock \ {w}
    /\ wrapper' = [wrapper EXCEPT ![w] = "idle"]

At(w, from, to) == wrapper[w] = from /\ wrapper' = [wrapper EXCEPT ![w] = to]

SwitchStart(m) ==
    /\ At("switch", "idle", "locked") /\ Take("switch") /\ target' = m
    /\ UNCHANGED <<mode, timers, units, data, post>>

Stopped(stage) == "none"

\* Stopping the old unit ends its wait; one that failed stays failed.  A due
\* fetch that is stopped may leave its lease behind.
StopUnits ==
    /\ timers' = {} /\ byUnit' = {}
    /\ legacyUnit' = IF legacyUnit = "active" THEN "inactive" ELSE legacyUnit
    /\ due' = Stopped(due)
    /\ source' \in {source, [source EXCEPT !.lease = IF due = "fetch" THEN "live" ELSE @]}
    /\ UNCHANGED <<target, post, pilotUnit, pending, last>>

Halt == At("switch", "locked", "halted") /\ StopUnits /\ UNCHANGED <<mode, locks>>

Verify ==
    /\ At("switch", "halted", "verified") /\ legacyUnit = "inactive"
    /\ UNCHANGED <<gate, locks, units, data, post>>

WriteMode ==
    /\ At("switch", "verified", "written") /\ mode' = target
    /\ UNCHANGED <<timers, target, locks, units, data, post>>

\* The route must answer as the mode says; only then is the timer enabled.
Enable ==
    /\ wrapper["switch"] = "written" /\ LegacyRouteActive = (target = "legacy")
    /\ timers' = {target} /\ Drop("switch")
    /\ UNCHANGED <<mode, target, units, data, post>>

\* Any failing step removes the mode first and inhibits both paths.
FailClosed ==
    /\ wrapper["switch"] \in {"locked", "halted", "verified", "written"}
    /\ mode' = "absent" /\ StopUnits /\ Drop("switch")

\* The operator pauses the old timer and clears its unit's failed state.
ResetFailed ==
    /\ fetchLock = {} /\ deployLock = {} /\ mode = "legacy" /\ legacyUnit = "failed"
    /\ timers' = {} /\ legacyUnit' = "inactive"
    /\ UNCHANGED <<mode, target, locks, data, post, wrapper, byUnit, due, pilotUnit>>

\* A tick that finds its unit running waits for it instead of starting one.
TickStart ==
    /\ "db-due" \in timers /\ mode = "db-due"
    /\ "legacy" \notin timers /\ legacyUnit = "inactive"
    /\ At("tick", "idle", "waiting") /\ Take("tick")
    /\ due' = IF due = "none" THEN "fetch" ELSE due
    /\ UNCHANGED <<gate, data, post, byUnit, legacyUnit, pilotUnit>>

NextHalf(fetched) == "drain"

\* The fetch claims the source under a lease if it is due.
DueFetch(fetched) ==
    /\ due = "fetch"
    /\ \/ fetched = "idle" /\ (~source.due \/ source.lease = "live") /\ UNCHANGED <<source, pending>>
       \/ fetched = "ok" /\ source.due /\ source.lease # "live" /\ Checked(TRUE)
       \/ fetched = "error" /\ Checked(FALSE)
       \/ fetched = "error" /\ source' = [source EXCEPT !.lease = "lapsed"] /\ UNCHANGED pending
    /\ due' = NextHalf(fetched)
    /\ last' = [fetch |-> fetched, drain |-> "none"]
    /\ UNCHANGED <<gate, locks, post, wrapper, byUnit, legacyUnit, pilotUnit>>

DueDrain(ok) ==
    /\ due = "drain" /\ due' = "none"
    /\ pending' = (pending /\ ~ok)
    /\ last' = [last EXCEPT !.drain = IF ok THEN "ok" ELSE "error"]
    /\ UNCHANGED <<gate, locks, post, wrapper, byUnit, legacyUnit, pilotUnit, source>>

TickEnds ==
    /\ wrapper["tick"] = "waiting" /\ due = "none" /\ Drop("tick")
    /\ UNCHANGED <<gate, units, data, post>>

PilotStart ==
    /\ At("pilot", "idle", "locked") /\ Take("pilot")
    /\ mode = "legacy" /\ legacyUnit = "inactive"
    /\ UNCHANGED <<gate, units, data, post>>

DueHealth == [due     |-> IF source.due /\ source.lease # "live" THEN 1 ELSE 0,
              active  |-> IF source.lease = "live" THEN 1 ELSE 0,
              expired |-> IF source.lease = "lapsed" THEN 1 ELSE 0,
              error   |-> IF source.failing THEN 1 ELSE 0]

\* The preflight's counts must be clean, under both locks.
PilotFetch ==
    /\ At("pilot", "locked", "waiting") /\ legacyUnit = "inactive"
    /\ DueHealth = [due |-> 1, active |-> 0, expired |-> 0, error |-> 0]
    /\ pilotUnit' = TRUE /\ source' = [source EXCEPT !.lease = "live"]
    /\ UNCHANGED <<gate, locks, post, byUnit, legacyUnit, due, pending, last>>

PilotRefused ==
    /\ wrapper["pilot"] = "locked" /\ Drop("pilot")
    /\ UNCHANGED <<gate, units, data, post>>

PilotFetched(ok) ==
    /\ pilotUnit /\ pilotUnit' = FALSE
    /\ Checked(ok)
    /\ UNCHANGED <<gate, locks, post, wrapper, byUnit, legacyUnit, due, last>>

\* The pilot accepts a summary of exactly one attempt without fetch errors.
PilotEnds ==
    /\ wrapper["pilot"] = "waiting" /\ ~pilotUnit /\ Drop("pilot")
    /\ UNCHANGED <<gate, units, data, post>>

Kill(w) ==
    /\ w \in Killable /\ wrapper[w] # "idle" /\ Drop(w)
    /\ UNCHANGED <<gate, units, data, post>>

\* The source is due again later; an abandoned lease lapses, and is cleared.
Later ==
    /\ source' = [source EXCEPT !.due = TRUE,
                     !.lease = CASE @ = "lapsed" -> "none"
                                 [] @ = "live" /\ due # "fetch" /\ ~pilotUnit -> "lapsed"
                                 [] OTHER -> @]
    /\ UNCHANGED <<gate, locks, units, post, wrapper, pending, last>>

SchedulerNext ==
    \/ \E q \in Posts :
         \/ \E unit \in BOOLEAN : Post(q, unit)
         \/ LegacyLock(q) \/ LegacyGate(q)
         \/ \E ok \in BOOLEAN : LegacyRun(q, ok)
    \/ AppStops \/ Later \/ ResetFailed
    \/ \E m \in Modes : SwitchStart(m)
    \/ Halt \/ Verify \/ WriteMode \/ Enable \/ FailClosed
    \/ TickStart \/ TickEnds
    \/ \E fetched \in {"ok", "idle", "error"} : DueFetch(fetched)
    \/ \E ok \in BOOLEAN : DueDrain(ok) \/ PilotFetched(ok)
    \/ PilotStart \/ PilotFetch \/ PilotRefused \/ PilotEnds
    \/ \E w \in Wrappers : Kill(w)

SchedulerSpec == SchedulerInit /\ [][SchedulerNext]_schedulerVars

----------------------------------------------------------------------------
(* No two source fetches run at the same time, whichever way they were     *)
(* started: not even when a wrapper is killed and its unit outlives the    *)
(* locks, or the application stops under a legacy fetch.                   *)
Fetching == {q \in Posts : post[q] = "running"}
OneFetch ==
    Cardinality(Fetching) + (IF due = "fetch" THEN 1 ELSE 0) + (IF pilotUnit THEN 1 ELSE 0) <= 1

(* Once the mode is not "legacy" no legacy fetch runs, even one whose      *)
(* request was let through before the switch.                              *)
GateHolds == mode # "legacy" => Fetching = {}

\* No two source fetches run at the same time, and none of the old kind once the mode is
\* not "legacy" (db-due-scheduler, run-legacy-ingestion.sh).
SchedulerSafe == SchedulerTypeOK /\ OneFetch /\ GateHolds

(* Events wait in the outbox although the new timer is on. *)
Undrained == pending /\ "db-due" \in timers
=============================================================================
