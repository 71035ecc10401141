------------------------------ MODULE MCMonitor ------------------------------
(***************************************************************************)
(* Model values for MonitorRestart: one runner, its heartbeat service and    *)
(* the agents of three job attempts (two attempts of one run, one of       *)
(* another run), each with a producer stream of its own.                   *)
(***************************************************************************)
EXTENDS MonitorRestart

CONSTANTS runner, service, succeeded, failed

MCRunners == {runner}
MCOutcomes == {succeeded, failed}
A1 == [run |-> "A", attempt |-> 1, no |-> 1]
A2 == [run |-> "A", attempt |-> 2, no |-> 1]
B1 == [run |-> "B", attempt |-> 1, no |-> 1]
MCJobs == {A1, A2, B1}
MCStreams == {service} \cup MCJobs

RunnerEvent(id, type, seq) ==
    [id |-> id, type |-> type, runner |-> runner, stream |-> service, seq |-> seq,
     job |-> None, outcome |-> None]
JobEvent(id, type, job, seq, outcome) ==
    [id |-> id, type |-> type, runner |-> runner, stream |-> job, seq |-> seq,
     job |-> job, outcome |-> outcome]

Beat1 == RunnerEvent(1, "runner.heartbeat", 1)
Off1 == RunnerEvent(3, "runner.offline", 2)
StartA1 == JobEvent(5, "job.started", A1, 1, None)
EndA1 == JobEvent(6, "job.finished", A1, 3, succeeded)
FailA1 == JobEvent(7, "job.finished", A1, 4, failed)
StartA2 == JobEvent(9, "job.started", A2, 1, None)
StartB1 == JobEvent(10, "job.started", B1, 1, None)

\* The runner comes and goes while the attempts of two runs cross on it.
Crossing == {Beat1, Off1, StartA1, EndA1, FailA1, StartA2, StartB1}
=============================================================================
