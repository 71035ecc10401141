---------------------------- MODULE ServiceHost ----------------------------
(***************************************************************************)
(* service.py: the Windows service that keeps one monitor process as its   *)
(* child.  Two threads of the host share it: "run" is SvcDoRun, in           *)
(* MonitorChildSupervisor.run; "control" is the service control handler, in  *)
(* SvcStop.  Both may be inside MonitorChildSupervisor.stop at once.  The    *)
(* stop event is an auto-reset Win32 event: a successful wait, also the      *)
(* zero-timeout wait of is_set, takes the signal away.                      *)
(***************************************************************************)
EXTENDS Naturals

CONSTANTS
    MaxStarts,      \* bound on the times SCM starts the service
    KillMayFail     \* TRUE: a kill, too, may raise or leave the child running

ASSUME ServiceHostAssumption ==
    /\ MaxStarts \in Nat \ {0}
    /\ KillMayFail \in BOOLEAN

VARIABLES
    pc,         \* the next step of each thread
    child,      \* the process self._child stands for
    event,      \* the stop event is signalled
    log,        \* what SvcDoRun logged when it last returned
    starts,     \* times the service was started, up to MaxStarts
    requested,  \* history: SCM asked this run of the service to stop
    killFailed, \* history: a kill did not end the child
    orphans     \* history: monitors left running by earlier runs of the service

serviceVars == <<pc, child, event, log, starts, requested, killFailed, orphans>>

Threads == {"run", "control"}

\* Finished and failed: ended by itself, with exit code 0 or another one;
\* terminated: ended by terminate or kill, which is never exit code 0.
ChildStates == {"none", "running", "finished", "failed", "terminated"}

StopSteps == {"stop", "terminate", "kill"}

ServiceTypeOK ==
    /\ pc \in [run : {"down", "spawn", "poll", "isset", "wait", "final"} \cup StopSteps,
               control : {"idle", "signal"} \cup StopSteps]
    /\ child \in ChildStates
    /\ event \in BOOLEAN
    /\ log \in {"nothing", "child_start_failed", "child_failed"}
    /\ starts \in 0 .. MaxStarts
    /\ requested \in BOOLEAN
    /\ killFailed \in BOOLEAN
    /\ orphans \in 0 .. MaxStarts

ServiceInit ==
    /\ pc = [run |-> "down", control |-> "idle"]
    /\ child = "none" /\ event = FALSE /\ log = "nothing"
    /\ starts = 0 /\ requested = FALSE /\ killFailed = FALSE /\ orphans = 0

Goto(t, step) == pc' = [pc EXCEPT ![t] = step]

Ended == child \in {"finished", "failed", "terminated"}

history == <<starts, requested, killFailed, orphans>>

-----------------------------------------------------------------------------
(* SCM starts the service: a new host with a new event and no child.         *)
ScmStart ==
    /\ pc.run = "down" /\ starts < MaxStarts
    /\ pc' = [run |-> "spawn", control |-> "idle"]
    /\ starts' = starts + 1
    /\ orphans' = orphans + (IF child = "running" THEN 1 ELSE 0)
    /\ child' = "none" /\ event' = FALSE /\ log' = "nothing" /\ requested' = FALSE
    /\ UNCHANGED killFailed

Spawn ==
    /\ pc.run = "spawn"
    /\ \/ child' = "running" /\ Goto("run", "poll") /\ UNCHANGED log
       \/ log' = "child_start_failed" /\ Goto("run", "down") /\ UNCHANGED child
    /\ UNCHANGED <<event, history>>

\* SvcDoRun: a return code other than 0 is logged as a failure of the child.
Return ==
    /\ Goto("run", "down")
    /\ log' = IF child \in {"failed", "terminated"} THEN "child_failed" ELSE log

Poll ==
    /\ pc.run = "poll"
    /\ \/ Ended /\ Return
       \/ ~Ended /\ Goto("run", "isset") /\ UNCHANGED log
    /\ UNCHANGED <<child, event, history>>

IsSet ==
    /\ pc.run = "isset"
    /\ event' = FALSE
    /\ Goto("run", IF event THEN "stop" ELSE "wait")
    /\ UNCHANGED <<child, log, history>>

\* The wait takes a signal at once or runs into the poll interval; run ignores
\* which of the two it was.
Wait ==
    /\ pc.run = "wait"
    /\ event' = FALSE
    /\ Goto("run", "poll")
    /\ UNCHANGED <<child, log, history>>

\* Where a thread goes on after stop().
AfterStop(t) == IF t = "run" THEN "final" ELSE "signal"

Final ==
    /\ pc.run = "final"
    /\ Return
    /\ UNCHANGED <<child, event, history>>

StopCheck(t) ==
    /\ pc[t] = "stop"
    /\ Goto(t, IF child = "none" \/ Ended THEN AfterStop(t) ELSE "terminate")
    /\ UNCHANGED <<child, event, log, history>>

\* terminate raises, or the child is still there after stop_timeout.
Terminate(t) ==
    /\ pc[t] = "terminate"
    /\ \/ child = "running" /\ child' = "terminated" /\ Goto(t, AfterStop(t))
       \/ child # "running" /\ UNCHANGED child /\ Goto(t, AfterStop(t))
       \/ UNCHANGED child /\ Goto(t, "kill")
    /\ UNCHANGED <<event, log, history>>

\* Mutant of KillChild: the second attempt is not made.
KillSkipped(t) ==
    /\ pc[t] = "kill" /\ Goto(t, AfterStop(t))
    /\ UNCHANGED <<child, event, log, history>>

\* Mutant of KillChild: an exception of kill is not told from its success.
KillAssumed(t) ==
    /\ pc[t] = "kill" /\ Goto(t, AfterStop(t))
    /\ child' = "killed"
    /\ UNCHANGED <<event, log, history>>

KillChild(t) ==
    /\ pc[t] = "kill" /\ Goto(t, AfterStop(t))
    /\ \/ /\ child' = IF child = "running" THEN "terminated" ELSE child
          /\ UNCHANGED killFailed
       \/ KillMayFail /\ child = "running" /\ killFailed' = TRUE /\ UNCHANGED child
    /\ UNCHANGED <<event, log, starts, requested, orphans>>

(* SvcStop: SCM asks once per run of the service.                            *)
StopRequest ==
    /\ pc.run # "down" /\ pc.control = "idle" /\ ~requested
    /\ requested' = TRUE
    /\ Goto("control", "stop")
    /\ UNCHANGED <<child, event, log, starts, killFailed, orphans>>

SetEvent ==
    /\ pc.control = "signal"
    /\ event' = TRUE
    /\ Goto("control", "idle")
    /\ UNCHANGED <<child, log, history>>

(* The monitor process ends by itself.                                       *)
ChildExits ==
    /\ child = "running"
    /\ child' \in {"finished", "failed"}
    /\ UNCHANGED <<pc, event, log, history>>

StopChild(t) == StopCheck(t) \/ Terminate(t) \/ KillChild(t)

RunThread == Spawn \/ Poll \/ IsSet \/ Wait \/ Final \/ StopChild("run")

Control == SetEvent \/ StopChild("control")

ServiceNext == ScmStart \/ RunThread \/ StopRequest \/ Control \/ ChildExits

ServiceSpec == ServiceInit /\ [][ServiceNext]_serviceVars

(* Both threads run: every wait of theirs has a timeout.                     *)
ServiceFairSpec == ServiceSpec /\ WF_serviceVars(RunThread) /\ WF_serviceVars(Control)

-----------------------------------------------------------------------------
(* When the service is down no monitor of it runs on, and a restart never     *)
(* brings up a second one beside the first, unless a kill failed: whichever   *)
(* thread ends the child, before, while or after it is spawned.              *)
NoMonitorLeftBehind ==
    ~killFailed => orphans = 0 /\ (pc.run = "down" => child # "running")

(* A stop that finds the monitor running brings the service down, whichever   *)
(* thread ends the child and whoever takes the signal of the stop event, unless *)
(* a kill failed.                                                            *)
StopOfRunningMonitorEndsService ==
    pc.control = "terminate" ~> (pc.run = "down" \/ killFailed)

(* Every stop request brings the service down (the design document: ask the   *)
(* child to end, kill it on timeout, then report stopped).                    *)
StopEndsService == requested ~> pc.run = "down"
=============================================================================
