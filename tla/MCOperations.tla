---------------------------- MODULE MCOperations ----------------------------
(***************************************************************************)
(* What an operator runs or sets up around the sender and the monitor: the  *)
(* Runner's heartbeat service, the monitor's service host, the deployment,  *)
(* the local gate and the hosts file.  They share no state; a behaviour is  *)
(* one of `subject` alone, the others stay as they begin.                   *)
(***************************************************************************)
EXTENDS Heartbeat, ServiceHost, Deploy, Gate, Hosts

CONSTANTS
    Subjects,               \* the components that move
    r1, r2,                 \* Revisions
    restart, notification   \* two drills, standing for the five

MCRevisions == {r1, r2}
MCDrills == {restart, notification}

VARIABLE subject

OperationsInit ==
    /\ subject \in Subjects
    /\ HeartbeatInit /\ ServiceInit /\ DeployInit /\ GateInit /\ HostsInit
    /\ subject # "deploy" => attempt.revision = r1

OperationsNext ==
    \/ /\ subject = "heartbeat" /\ HeartbeatNext
       /\ UNCHANGED <<subject, serviceVars, deployVars, gateVars, hostsVars>>
    \/ /\ subject = "service" /\ ServiceNext
       /\ UNCHANGED <<subject, heartbeatVars, deployVars, gateVars, hostsVars>>
    \/ /\ subject = "deploy" /\ DeployNext
       /\ UNCHANGED <<subject, heartbeatVars, serviceVars, gateVars, hostsVars>>
    \/ /\ subject = "gate" /\ GateNext
       /\ UNCHANGED <<subject, heartbeatVars, serviceVars, deployVars, hostsVars>>
    \/ /\ subject = "hosts" /\ HostsNext
       /\ UNCHANGED <<subject, heartbeatVars, serviceVars, deployVars, gateVars>>

operationsVars ==
    <<subject, heartbeatVars, serviceVars, deployVars, gateVars, hostsVars>>

(* The fairness of the two services; one that stays as it begins has nothing  *)
(* to do.                                                                   *)
OperationsSpec ==
    /\ OperationsInit /\ [][OperationsNext]_operationsVars
    /\ WF_heartbeatVars(LoopWait \/ Turn)
    /\ WF_serviceVars(RunThread) /\ WF_serviceVars(Control)
=============================================================================
