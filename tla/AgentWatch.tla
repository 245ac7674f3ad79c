----------------------------- MODULE AgentWatch -----------------------------
(* The client of the import agent (scripts/import-agent-client.mjs) and the  *)
(* list it polls (listAgentIssues behind app/api/ingestion/agent).  The      *)
(* watcher is a function of one poll and of the state its caller hands back  *)
(* from the poll before; when it fires, an agent run is started, which       *)
(* claims a case, keeps the claim in a private file and settles the case     *)
(* with that file.  What settling does is the subject of AgentIssues.        *)
(*                                                                           *)
(* Clocks are ages that stop counting at the largest limit they are compared *)
(* with.  A revision is the set of ready cases with a mark that every write  *)
(* to a case flips, so that two writes between two polls look like none.     *)
EXTENDS Naturals, FiniteSets

CONSTANTS Cases, Runs,
          Rescue,        \* 15 minutes
          Alarm,         \* an hour
          Lease,         \* the lease of a claim, two hours
          NoClaim

VARIABLES status,     \* "none", "open" or "waiting" (needs_user, retryAt)
          mark,       \* updatedAt and attempt of a case
          lease,      \* a case's lease: its run and the time left, or NoClaim
          run,        \* "off" or "on"
          file,       \* the claim a run has saved, or NoClaim
          deployed,   \* whether the server has the agent route
          watch,      \* the watcher's state
          age,        \* time since watch.lastFire
          log         \* history: what fired last, since when, what was seen

watchVars == <<status, mark, lease, run, file, deployed, watch, age, log>>
caseVars == <<status, mark, lease>>
polledVars == <<watch, age, log>>

WatchInit ==
    /\ status = [c \in Cases |-> "none"]
    /\ mark = [c \in Cases |-> FALSE]
    /\ lease = [c \in Cases |-> NoClaim]
    /\ run = [r \in Runs |-> "off"]
    /\ file = [r \in Runs |-> NoClaim]
    /\ deployed = FALSE
    /\ watch = [apiSeen |-> FALSE, error |-> FALSE, revision |-> NoClaim]
    /\ age = Alarm
    /\ log = [seen |-> NoClaim, calm |-> FALSE, since |-> Alarm, fired |-> FALSE]

(* --- The list of ready cases ---------------------------------------------*)

(* leaseOwner with leaseExpiresAt in the future *)
CaseLeased(c) == lease[c] # NoClaim /\ lease[c].left > 0

ReadyCases == {c \in Cases : status[c] = "open" /\ ~CaseLeased(c)}

(* The fingerprint of the ready cases. *)
Revision == {<<c, mark[c]>> : c \in ReadyCases}

Signal == [failed |-> FALSE, revision |-> Revision]

(* A call that fails, is too large or unreadable, or an incomplete signal:   *)
(* thrown inside the same try, so all alike.                                 *)
Failure == [failed |-> TRUE, revision |-> NoClaim]

(* --- The watcher ---------------------------------------------------------*)

(* Mutant: only a new revision fires. *)
FiresMutant(o) ==
    IF o.failed THEN ~watch.error \/ age >= Alarm
    ELSE o.revision # {} /\ (watch.error \/ watch.revision # o.revision)

(* watcherDecision after the case of a missing route *)
Fires(o) ==
    IF o.failed THEN ~watch.error \/ age >= Alarm
    ELSE /\ o.revision # {}
         /\ \/ watch.error
            \/ watch.revision # o.revision
            \/ age >= Rescue

(* Mutant: a poll that does not fire forgets when the last one did. *)
AgeAfterMutant(fire) == IF fire THEN 0 ELSE Alarm

(* lastFire: fire ? now : previous.lastFire *)
AgeAfter(fire) == IF fire THEN 0 ELSE age

(* A failed poll keeps apiSeen and forgets the revision. *)
WatchAfter(o) == [apiSeen |-> watch.apiSeen \/ ~o.failed, error |-> o.failed,
                  revision |-> o.revision]

Poll(o) ==
    LET fire == Fires(o) IN
    /\ watch' = WatchAfter(o)
    /\ age' = AgeAfter(fire)
    /\ log' = IF fire
                THEN [seen |-> o, calm |-> TRUE, since |-> 0, fired |-> TRUE]
                ELSE [log EXCEPT !.calm = @ /\ log.seen = o, !.fired = FALSE]
    /\ IF fire /\ \E r \in Runs : run[r] = "off"
         THEN \E r \in Runs : run[r] = "off" /\ run' = [run EXCEPT ![r] = "on"]
         ELSE UNCHANGED run
    /\ UNCHANGED <<caseVars, file, deployed>>

PollSignal == deployed /\ Poll(Signal)
PollFails == Poll(Failure)

(* HTTP 404: silent until the first answer, a failure ever after. *)
PollMissing ==
    /\ ~deployed
    /\ IF watch.apiSeen THEN Poll(Failure)
       ELSE /\ log' = [log EXCEPT !.fired = FALSE, !.calm = FALSE]
            /\ UNCHANGED <<caseVars, run, file, deployed, watch, age>>

(* --- An agent run --------------------------------------------------------*)

Changed(c) == mark' = [mark EXCEPT ![c] = ~@]

(* claim: the case is leased on the server; the answer is then saved, unless *)
(* it is lost or the file cannot be written.                                 *)
ClaimReady(r, c) ==
    /\ deployed
    /\ run[r] = "on"
    /\ file[r] = NoClaim
    /\ c \in ReadyCases
    /\ lease' = [lease EXCEPT ![c] = [by |-> r, left |-> Lease]]
    /\ Changed(c)
    /\ UNCHANGED <<status, run, deployed, polledVars>>

ClaimSaved(r, c) == ClaimReady(r, c) /\ file' = [file EXCEPT ![r] = c]
ClaimLost(r, c) == ClaimReady(r, c) /\ UNCHANGED file

Holds(r, c) == CaseLeased(c) /\ lease[c].by = r

(* resolve with the saved claim: refused unless its lease lasts.  The case   *)
(* is settled or waits for its retry or an answer.                           *)
SettleHeld(r, c) ==
    /\ deployed
    /\ run[r] = "on"
    /\ file[r] = c
    /\ file' = [file EXCEPT ![r] = NoClaim]
    /\ IF Holds(r, c)
         THEN /\ status' \in {[status EXCEPT ![c] = s] : s \in {"none", "waiting"}}
              /\ lease' = [lease EXCEPT ![c] = NoClaim]
              /\ Changed(c)
         ELSE UNCHANGED caseVars
    /\ UNCHANGED <<run, deployed, polledVars>>

(* release with the saved claim, which may have run out but not have been    *)
(* taken over: the case is open to the next claim.                           *)
Release(r, c) ==
    /\ deployed
    /\ run[r] = "on"
    /\ file[r] = c
    /\ lease[c] # NoClaim
    /\ lease[c].by = r
    /\ file' = [file EXCEPT ![r] = NoClaim]
    /\ lease' = [lease EXCEPT ![c] = NoClaim]
    /\ Changed(c)
    /\ UNCHANGED <<status, run, deployed, polledVars>>

(* The run is over, or died: what it holds is left to the lease. *)
Stop(r) ==
    /\ run[r] = "on"
    /\ run' = [run EXCEPT ![r] = "off"]
    /\ file' = [file EXCEPT ![r] = NoClaim]
    /\ UNCHANGED <<caseVars, deployed, polledVars>>

(* --- The rest of the system ----------------------------------------------*)

(* A new attempt of the importer makes or renews a case; it replaces the     *)
(* case that waited, not the lease.                                          *)
Attempt(c) ==
    /\ status' = [status EXCEPT ![c] = "open"]
    /\ Changed(c)
    /\ UNCHANGED <<lease, run, file, deployed, polledVars>>

(* resume: the user answered; retryAt passing has the same effect. *)
Resume(c) ==
    /\ status[c] = "waiting"
    /\ status' = [status EXCEPT ![c] = "open"]
    /\ Changed(c)
    /\ UNCHANGED <<lease, run, file, deployed, polledVars>>

Deploy == ~deployed /\ deployed' = TRUE
          /\ UNCHANGED <<caseVars, run, file, polledVars>>

Older(n) == IF n < Alarm THEN n + 1 ELSE n

Tick ==
    /\ age' = Older(age)
    /\ log' = [log EXCEPT !.since = Older(@), !.fired = FALSE]
    /\ lease' = [c \in Cases |-> IF lease[c] # NoClaim /\ lease[c].left > 0
                                   THEN [lease[c] EXCEPT !.left = @ - 1]
                                   ELSE lease[c]]
    /\ UNCHANGED <<status, mark, run, file, deployed, watch>>

WatchNext ==
    \/ PollSignal
    \/ PollFails
    \/ PollMissing
    \/ \E r \in Runs : \/ Stop(r)
                       \/ \E c \in Cases : \/ ClaimSaved(r, c)
                                           \/ ClaimLost(r, c)
                                           \/ SettleHeld(r, c)
                                           \/ Release(r, c)
    \/ \E c \in Cases : Attempt(c) \/ Resume(c)
    \/ Deploy
    \/ Tick

WatchSpec == WatchInit /\ [][WatchNext]_watchVars

(* ---- Properties -------------------------------------------------------- *)

(* No storm of calls: while every poll since the last call shows what that   *)
(* poll showed, the next call is a quarter of an hour away, and in a stretch *)
(* of failures an hour, however many polls there are in between.             *)
WatcherQuiet == [][
    (log'.fired /\ log.calm /\ log'.seen = log.seen)
        => log.since >= (IF log.seen.failed THEN Alarm ELSE Rescue)]_log

(* A case waits for a run to settle it, or to make it wait for something. *)
Neglected == deployed /\ \E c \in Cases : status[c] = "open"

=============================================================================
