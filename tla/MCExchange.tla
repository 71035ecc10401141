----------------------------- MODULE MCExchange -----------------------------
(***************************************************************************)
(* The way of one event from `emit` to an answer, in four parts: what is    *)
(* made of its text at both ends (Contract), the clock of a drain           *)
(* (Delivery), one attempt on the network (Transport), and the monitor's    *)
(* process with its threads (Server).  A behaviour is one of `subject`      *)
(* alone, the others stay as they begin.                                    *)
(*                                                                         *)
(* The process meets an event, a dashboard load and a client that says      *)
(* nothing.                                                                *)
(***************************************************************************)
EXTENDS Contract, Delivery, Transport, Server, TLC

CONSTANTS e, d, s

MCConnections == {e, d, s}
MCAsks == e :> "event" @@ d :> "dashboard" @@ s :> "silence"

VARIABLE subject

\* What a part that does not move begins with makes no difference.
Plain == [defects |-> {}, plain |-> 2, wide |-> 0, padding |-> 0, escaped |-> FALSE]

ExchangeInit ==
    /\ subject \in {"contract", "delivery", "transport", "server"}
    /\ ContractInit /\ DeliveryInit /\ TransportInit /\ ServerInit
    /\ subject # "contract" => text = Plain /\ sender = "emit"
    /\ subject # "delivery" => caller = "agent"

ExchangeNext ==
    \/ /\ subject = "contract" /\ ContractNext
       /\ UNCHANGED <<subject, deliveryVars, transportVars, serverVars>>
    \/ /\ subject = "delivery" /\ DeliveryNext
       /\ UNCHANGED <<subject, contractVars, transportVars, serverVars>>
    \/ /\ subject = "transport" /\ TransportNext
       /\ UNCHANGED <<subject, contractVars, deliveryVars, serverVars>>
    \/ /\ subject = "server" /\ ServerNext
       /\ UNCHANGED <<subject, contractVars, deliveryVars, transportVars>>

exchangeVars == <<subject, contractVars, deliveryVars, transportVars, serverVars>>

(* The fairness of Transport and Server; one that stays as it begins has      *)
(* nothing to do.                                                           *)
ExchangeSpec ==
    /\ ExchangeInit /\ [][ExchangeNext]_exchangeVars
    /\ WF_transportVars(Caller) /\ WF_transportVars(Tick)
    /\ ServerFairness
=============================================================================
