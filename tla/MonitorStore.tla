---------------------------- MODULE MonitorStore ----------------------------
(***************************************************************************)
(* The monitor's event store: class Store of store.py with the projections *)
(* of projection.py and the incidents of health.py.  The HTTP server calls *)
(* it under one lock and every method is one SQLite transaction, so an     *)
(* action is one method call; a crash leaves the state before or after it. *)
(* Events arrive late, out of order and more than once: producers retry,   *)
(* and their outboxes send again what they cannot know was stored.         *)
(***************************************************************************)
EXTENDS Projection, FiniteSets

CONSTANTS
    Timeout,    \* LIVENESS_TIMEOUT_SECONDS
    Retention,  \* RETENTION_DAYS
    MaxNow,     \* bound: the clock
    MaxLog      \* bound: event rows kept at a time

ASSUME StoreAssumption ==
    /\ Timeout \in Nat /\ Retention \in Nat /\ MaxNow \in Nat /\ MaxLog \in Nat

Conditions == {"explicit_shutdown", "heartbeat_timeout"}

VARIABLES
    db,             \* runner_state, job_state, producer_watermarks
    log,            \* the rows of the events table
    incidents,      \* [runner -> conditions of its active incidents]
    firstIncident,  \* [runner -> condition of its incident row created first]
    jobIncidents,   \* jobs with an active incident
    complete,       \* monitor_meta: no event row was ever pruned
    now,            \* the monitor's clock
    applied,        \* history: [event -> how often it advanced the state]
    shown           \* history: [runner -> jobs that were its current job]

alarmVars == <<incidents, firstIncident, jobIncidents>>
historyVars == <<applied, shown>>
vars == <<db, log, alarmVars, complete, now, historyVars>>

Entry == [row : Nat, event : Events, at : 0..MaxNow, applied : BOOLEAN]

\* Mutant of Logged: a duplicate is one that advanced the state.
LoggedApplied(e) == \E x \in log : x.event.id = e.id /\ x.applied

Logged(e) == \E x \in log : x.event.id = e.id

\* SQLite gives a new row the highest event_row_id in the table plus one.
NextRow(n) == \A x \in log : x.row < n
NewRows == {1} \cup {x.row + 1 : x \in log}

-----------------------------------------------------------------------------
\* Mutant of Opened: an incident that was closed is not opened again.
OpenedOnce(rs, condition) ==
    /\ incidents' = [r \in Runners |->
         incidents[r] \cup (IF r \in rs /\ firstIncident[r] = None
                           THEN {condition} ELSE {})]
    /\ firstIncident' = [r \in Runners |->
         IF r \in rs /\ firstIncident[r] = None THEN condition ELSE firstIncident[r]]

\* open_incident, and which row of a runner has the lower incident_id.
Opened(rs, condition) ==
    /\ incidents' = [r \in Runners |->
         incidents[r] \cup (IF r \in rs THEN {condition} ELSE {})]
    /\ firstIncident' = [r \in Runners |->
         IF r \in rs /\ firstIncident[r] = None THEN condition ELSE firstIncident[r]]

\* ingest of a new event.  One that does not advance the state is kept in the
\* log all the same.  An event id that is in the log is answered "duplicate"
\* and changes nothing: no step.
Ingest(e) ==
    /\ Cardinality(log) < MaxLog
    /\ now + Timeout < MaxNow
    /\ ~Logged(e)
    /\ \E n \in NewRows :
         /\ NextRow(n)
         /\ log' = log \cup {[row |-> n, event |-> e, at |-> now,
                             applied |-> Accepts(db, e)]}
    /\ db' = Project(db, e, now)
    /\ IF ~Accepts(db, e) THEN UNCHANGED <<alarmVars, historyVars>>
       ELSE /\ IF e.type = "runner.offline"
               THEN Opened({e.runner}, "explicit_shutdown")
               ELSE /\ incidents' = [incidents EXCEPT ![e.runner] = {}]
                    /\ UNCHANGED firstIncident
            /\ jobIncidents' = IF e.type \in JobTypes THEN jobIncidents \ {e.job}
                                                      ELSE jobIncidents
            /\ applied' = [applied EXCEPT ![e] = @ + 1]
            /\ shown' = IF e.type \in JobTypes
                        THEN [shown EXCEPT ![e.runner] = @ \cup {e.job}]
                        ELSE shown
    /\ UNCHANGED <<complete, now>>

\* Mutant of StaleRunners: a runner with a running job is never stale.
StaleIdleRunners == {r \in Runners : /\ db.runner[r].liveness = "online"
                                     /\ db.runner[r].activity = "idle"
                                     /\ db.runner[r].seen + Timeout < now}

\* Rows whose last event is more than Timeout old.
StaleRunners == {r \in Runners : /\ db.runner[r].liveness = "online"
                                 /\ db.runner[r].seen + Timeout < now}
StaleJobs == {j \in Jobs : /\ db.job[j].state = "running"
                           /\ db.job[j].liveness = "online"
                           /\ db.job[j].seen + Timeout < now}

RefreshLiveness ==
    /\ db' = [db EXCEPT
         !.runner = [r \in Runners |->
            IF r \in StaleRunners
            THEN [db.runner[r] EXCEPT !.liveness = "offline",
                                      !.reason = "heartbeat_timeout"]
            ELSE db.runner[r]],
         !.job = [j \in Jobs |->
            IF j \in StaleJobs THEN [db.job[j] EXCEPT !.liveness = "offline"]
                               ELSE db.job[j]]]
    /\ Opened(StaleRunners, "heartbeat_timeout")
    /\ jobIncidents' = jobIncidents \cup StaleJobs
    /\ UNCHANGED <<log, complete, now, historyVars>>

PruneHistory ==
    /\ log' = {x \in log : x.at + Retention >= now}
    /\ complete' = (complete /\ log' = log)
    /\ UNCHANGED <<db, alarmVars, now, historyVars>>

\* Time passes.
Tick == /\ now < MaxNow
        /\ now' = now + 1
        /\ UNCHANGED <<db, log, alarmVars, complete, historyVars>>

-----------------------------------------------------------------------------
Init ==
    /\ db = EmptyDb
    /\ log = {}
    /\ incidents = [r \in Runners |-> {}]
    /\ firstIncident = [r \in Runners |-> None]
    /\ jobIncidents = {}
    /\ complete = TRUE
    /\ now = 0
    /\ applied = [e \in Events |-> 0]
    /\ shown = [r \in Runners |-> {}]

Next == \/ \E e \in Events : Ingest(e)
        \/ RefreshLiveness
        \/ PruneHistory
        \/ Tick

Spec == Init /\ [][Next]_vars

-----------------------------------------------------------------------------
(* Properties *)

RunnerView == [liveness : {"unseen", "online", "offline"},
               activity : {"idle", "running"}, seen : 0..MaxNow,
               job : Jobs \cup {None}, outcome : Outcomes \cup {None},
               reason : Conditions \cup {None}]
JobView == [state : {"unseen", "running", "finished"},
            outcome : Outcomes \cup {None},
            liveness : {"online", "offline"}, seen : 0..MaxNow]

TypeOK ==
    /\ db \in [runner : [Runners -> RunnerView], job : [Jobs -> JobView],
               mark : [Runners -> [Streams -> Nat]]]
    /\ log \subseteq Entry
    /\ incidents \in [Runners -> SUBSET Conditions]
    /\ firstIncident \in [Runners -> Conditions \cup {None}]
    /\ jobIncidents \subseteq Jobs
    /\ complete \in BOOLEAN
    /\ now \in 0..MaxNow
    /\ applied \in [Events -> Nat]
    /\ shown \in [Runners -> SUBSET Jobs]

\* What the dashboard shows as offline is exactly what has an active incident,
\* and the reason shown is one of them: an incident outlives neither the
\* recovery of its runner or job nor is it forgotten while that is offline.
OfflineIffIncident ==
    /\ \A r \in Runners :
         /\ db.runner[r].liveness = "offline" <=> incidents[r] # {}
         /\ incidents[r] # {} => db.runner[r].reason \in incidents[r]
    /\ \A j \in Jobs :
         /\ db.job[j].liveness = "offline" <=> j \in jobIncidents
         /\ j \in jobIncidents => db.job[j].state = "running"

\* An event advances the state once, although it may be delivered again after
\* its row was pruned, when its id is no longer known.
AppliedAtMostOnce == \A e \in Events : applied[e] <= 1

\* A runner shown as running has a current job, and that job is running: no
\* late, older or repeated event separates the two tables.
RunningRunnerHasRunningJob ==
    \A r \in Runners : db.runner[r].activity = "running" =>
        /\ db.runner[r].job # None
        /\ db.job[db.runner[r].job].state = "running"

\* The first terminal outcome of a job stays, whatever arrives later.
TerminalNeverRegresses ==
    [][\A j \in Jobs : db.job[j].state = "finished" =>
          /\ db'.job[j].state = "finished"
          /\ db'.job[j].outcome = db.job[j].outcome]_vars

\* When its events stop, a runner is not shown online for ever, nor is a
\* running job (refresh_liveness, under the fairness of MonitorRestart).
SilenceIsNoticed ==
    /\ \A r \in Runners : <>[](db.runner[r].liveness # "online")
    /\ \A j \in Jobs : <>[](db.job[j].state = "running"
                               => db.job[j].liveness = "offline")

\* "Older attempt cannot replace newer attempt runner activity" (the name of a
\* test of test_resilience.py): once a runner has shown an attempt of a run, it
\* shows no older attempt of that run.
AttemptsNeverGoBack ==
    \A r \in Runners : \A j \in shown[r] :
        LET current == db.runner[r].job
        IN current.run = j.run => current.attempt >= j.attempt

(***************************************************************************)
(* The inductive strengthening of AppliedAtMostOnce and                    *)
(* RunningRunnerHasRunningJob: what was applied is behind its watermark    *)
(* for ever, which is why pruning the log may forget event ids; and a job  *)
(* belongs to the runner its events name.                                  *)
(***************************************************************************)
AppliedBehindMark ==
    \A e \in Events : applied[e] > 0 => e.seq <= db.mark[e.runner][e.stream]

CurrentJobIsOwn ==
    \A r \in Runners : db.runner[r].job # None =>
        \E e \in Events : /\ e.type \in JobTypes
                          /\ e.job = db.runner[r].job
                          /\ e.runner = r

IInv == /\ TypeOK /\ OfflineIffIncident
        /\ AppliedAtMostOnce /\ AppliedBehindMark
        /\ RunningRunnerHasRunningJob /\ CurrentJobIsOwn
=============================================================================
