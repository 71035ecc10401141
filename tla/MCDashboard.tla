----------------------------- MODULE MCDashboard -----------------------------
(***************************************************************************)
(* The read side in its two parts: how the monitor puts a snapshot together *)
(* (Snapshot) and what the page makes of snapshots and history pages        *)
(* (Dashboard).  A behaviour is one of `subject` alone, the other stays as  *)
(* it begins.                                                              *)
(*                                                                         *)
(* The page has a runner that only sends heartbeats beside one that runs    *)
(* the watched job; the snapshot has a job of a quiet runner, which reports  *)
(* one stage from two producer epochs, beside a busy runner.                *)
(***************************************************************************)
EXTENDS Dashboard, Snapshot

CONSTANTS Subjects, quiet, busy, old, new, agent, succeeded, J, K

MCRunners == {quiet, busy}
MCStored == {[kind |-> "runner.heartbeat", runner |-> busy],
             [kind |-> "job.progress", runner |-> quiet]}
MCOutcomes == {succeeded}
MCStreams == {old, new, agent}
JobOf(n) == [run |-> n, attempt |-> 1, no |-> 1]
MCJobs == {JobOf(J), JobOf(K)}

Event(id, type, r, stream, seq, job) ==
    [id |-> id, type |-> type, runner |-> r, stream |-> stream, seq |-> seq,
     job |-> job, outcome |-> succeeded, stage |-> "lint_check", edge |-> FALSE]

JobStart == Event(1, "job.started", quiet, agent, 1, JobOf(J))
Progress1 == Event(2, "job.progress", quiet, old, 9, JobOf(J))
Progress2 == Event(3, "job.progress", quiet, new, 1, JobOf(J))
Fallback == Event(4, "job.fallback", quiet, new, 2, JobOf(J))
Beat == Event(5, "runner.heartbeat", busy, agent, 1, None)
BusyStart == Event(6, "job.started", busy, agent, 2, JobOf(K))
JobEnd == Event(7, "job.finished", quiet, agent, 2, JobOf(J))
OddStage == [Progress2 EXCEPT !.id = 8, !.seq = 3, !.stage = "some_test"]
EndOfTime == [Fallback EXCEPT !.id = 9, !.seq = 4, !.edge = TRUE]

Fleet == {JobStart, Progress1, Progress2, OddStage, Fallback, EndOfTime, Beat,
          BusyStart, JobEnd}

VARIABLE subject

ReadSideInit == subject \in Subjects /\ DashboardInit /\ SnapshotInit

ReadSideNext ==
    \/ /\ subject = "page" /\ DashboardNext
       /\ UNCHANGED <<subject, snapshotVars>>
    \/ /\ subject = "snapshot" /\ SnapshotNext
       /\ UNCHANGED <<subject, dashboardVars>>

readSideVars == <<subject, dashboardVars, snapshotVars>>

(* The fairness of Dashboard, where it moves.                               *)
ReadSideSpec ==
    /\ ReadSideInit /\ [][ReadSideNext]_readSideVars
    /\ WF_dashboardVars(subject = "page" /\ AutoRefresh)
    /\ WF_dashboardVars(subject = "page" /\ Monitor)
    /\ WF_dashboardVars(subject = "page" /\ Answer)
=============================================================================
