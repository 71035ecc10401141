------------------------------ MODULE MCOutbox ------------------------------
(***************************************************************************)
(* Model values for Outbox: the heartbeat service and one CI job's agent   *)
(* share a directory.                                                      *)
(***************************************************************************)
EXTENDS Outbox

CONSTANTS heartbeat, agent, small, large, refused, broken

MCProcs == {heartbeat, agent}
MCPayloads == {small, large}
MCReasons == {refused, broken}
MCPayloadBytes == [v \in MCPayloads |-> IF v = small THEN 2 ELSE 3]
=============================================================================
