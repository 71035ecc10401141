----------------------------- MODULE Projection -----------------------------
(***************************************************************************)
(* projection.py: how one validated event changes the current view of its  *)
(* runner and its job.  The tables runner_state, job_state and             *)
(* producer_watermarks are the three fields of one record db, so that the  *)
(* store can apply events to its tables and replay can apply them to empty *)
(* ones.  A row that does not exist yet is "unseen"; a watermark of 0 is a *)
(* missing one (sequences start at 1, contracts.py).                       *)
(***************************************************************************)
EXTENDS Naturals

CONSTANTS
    Runners,
    Streams,    \* producer_id and producer_epoch of a producer
    Jobs,       \* job attempts: [run, attempt, no]; run names its repository
    Outcomes,   \* succeeded, failed, cancelled
    Events,     \* the validated events producers may send
    None        \* SQL NULL

JobTypes == {"job.started", "job.heartbeat", "job.finished"}
Reports == {"job.progress", "job.fallback"}
Types == JobTypes \cup Reports \cup {"runner.heartbeat", "runner.offline"}

ASSUME ProjectionAssumption ==
    /\ None \notin Jobs \cup Outcomes
    /\ \A j \in Jobs : j.attempt \in Nat
    /\ \A e \in Events :
         /\ e.type \in Types /\ e.runner \in Runners /\ e.stream \in Streams
         /\ e.seq \in Nat \ {0}
         /\ e.type \in JobTypes => e.job \in Jobs
         /\ e.type = "job.finished" => e.outcome \in Outcomes
    \* one job attempt runs on one runner
    /\ \A e, f \in Events : e.type \in JobTypes /\ f.type \in JobTypes
                              /\ e.job = f.job => e.runner = f.runner

EmptyDb ==
    [runner |-> [r \in Runners |->
        [liveness |-> "unseen", activity |-> "idle", seen |-> 0,
         job |-> None, outcome |-> None, reason |-> None]],
     job |-> [j \in Jobs |->
        [state |-> "unseen", outcome |-> None, liveness |-> "online", seen |-> 0]],
     mark |-> [r \in Runners |-> [s \in Streams |-> 0]]]

-----------------------------------------------------------------------------
\* Mutant of OlderAttempt: the attempt that is shown counts as older.
OlderAttemptOrSame(db, e) ==
    LET current == db.runner[e.runner].job
    IN /\ current # None
       /\ current.run = e.job.run
       /\ e.job.attempt <= current.attempt

\* Only the job the runner shows is compared, and only within one run.
OlderAttempt(db, e) ==
    LET current == db.runner[e.runner].job
    IN /\ current # None
       /\ current.run = e.job.run
       /\ e.job.attempt < current.attempt

\* Mutants of Accepts: the last sequence is accepted again; a finished job
\* accepts more events.
AcceptsSameSequence(db, e) ==
    /\ e.type \notin Reports
    /\ e.seq >= db.mark[e.runner][e.stream]
    /\ e.type \in JobTypes => /\ db.job[e.job].state # "finished"
                              /\ ~OlderAttempt(db, e)
AcceptsFinished(db, e) ==
    /\ e.type \notin Reports
    /\ e.seq > db.mark[e.runner][e.stream]
    /\ e.type \in JobTypes => ~OlderAttempt(db, e)

\* apply_event returns True: the event advances the current state.
Accepts(db, e) ==
    /\ e.type \notin Reports
    /\ e.seq > db.mark[e.runner][e.stream]
    /\ e.type \in JobTypes => /\ db.job[e.job].state # "finished"
                              /\ ~OlderAttempt(db, e)

\* Mutant of RunnerRow: a finished job leaves its runner running.
RunnerRowStaysRunning(row, e, at) ==
    [row EXCEPT !.liveness = IF e.type = "runner.offline" THEN "offline" ELSE "online",
                !.reason = IF e.type = "runner.offline" THEN "explicit_shutdown" ELSE None,
                !.seen = at,
                !.activity = IF e.type \in JobTypes THEN "running" ELSE @,
                !.job = IF e.type \in JobTypes THEN e.job ELSE @]

\* _upsert_runner with the arguments apply_event gives it for each type.
RunnerRow(row, e, at) ==
    CASE e.type = "runner.heartbeat" ->
           [row EXCEPT !.liveness = "online", !.reason = None, !.seen = at]
      [] e.type = "runner.offline" ->
           [row EXCEPT !.liveness = "offline", !.reason = "explicit_shutdown",
                       !.seen = at]
      [] e.type \in {"job.started", "job.heartbeat"} ->
           [row EXCEPT !.liveness = "online", !.reason = None, !.seen = at,
                       !.activity = "running", !.job = e.job]
      [] OTHER ->
           [row EXCEPT !.liveness = "online", !.reason = None, !.seen = at,
                       !.activity = "idle", !.job = e.job, !.outcome = e.outcome]

\* Mutant of JobRow: the outcome is stored as the state.
JobRowMixed(e, at) ==
    [state |-> IF e.type = "job.finished" THEN e.outcome ELSE "running",
     outcome |-> None, liveness |-> "online", seen |-> at]

\* _upsert_job.
JobRow(e, at) ==
    LET finished == e.type = "job.finished"
    IN [state |-> IF finished THEN "finished" ELSE "running",
        outcome |-> IF finished THEN e.outcome ELSE None,
        liveness |-> "online",
        seen |-> at]

Apply(db, e, at) ==
    [runner |-> [db.runner EXCEPT ![e.runner] = RunnerRow(@, e, at)],
     job |-> IF e.type \in JobTypes THEN [db.job EXCEPT ![e.job] = JobRow(e, at)]
                                    ELSE db.job,
     mark |-> [db.mark EXCEPT ![e.runner][e.stream] = e.seq]]

Project(db, e, at) == IF Accepts(db, e) THEN Apply(db, e, at) ELSE db
=============================================================================
