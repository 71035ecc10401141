----------------------------- MODULE MCTelemetry -----------------------------
(***************************************************************************)
(* Model values for Telemetry: the start and the end of a job, and a        *)
(* number that SQLite does not hold.                                       *)
(***************************************************************************)
EXTENDS Telemetry

CONSTANTS runner, succeeded

MCRunners == {runner}
MCOutcomes == {succeeded}
A1 == [run |-> "A", attempt |-> 1, no |-> 1]
MCJobs == {A1}

JobEvent(id, type, job, seq, outcome) ==
    [id |-> id, type |-> type, runner |-> runner, stream |-> job, seq |-> seq,
     job |-> job, outcome |-> outcome]

Start1 == JobEvent(1, "job.started", A1, 1, None)
End1 == JobEvent(2, "job.finished", A1, 2, succeeded)
\* With MaxInteger = 2, too large for SQLite.
Huge1 == JobEvent(3, "job.heartbeat", A1, 3, None)

MCEvents == {Start1, End1, Huge1}
StartOrHuge == {Start1, Huge1}

\* The end of the job, kept beside the number the store refuses.
MCFollowed == {End1}
=============================================================================
