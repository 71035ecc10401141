---------------------------- MODULE OutboxPromise ----------------------------
(***************************************************************************)
(* What a durable outbox promises its callers, with no word of files, the  *)
(* lock, drains or crashes: an event it has accepted it keeps, until the   *)
(* monitor has answered 2xx to it; an event the monitor refuses for good   *)
(* it keeps for ever, as a dead letter.  Outbox implements it, and         *)
(* Telemetry composes it with the HTTP server and the event store.         *)
(***************************************************************************)
EXTENDS Naturals

CONSTANTS
    Items,      \* the events callers may hand over
    NameOf      \* [Items -> event id]

VARIABLES
    kept,       \* events in pending/ or dead-letter/
    buried,     \* events in dead-letter/
    accepted,   \* events enqueue answered "queued" or "duplicate" to
    received    \* events the monitor answered 2xx to

promiseVars == <<kept, buried, accepted, received>>

Init == kept = {} /\ buried = {} /\ accepted = {} /\ received = {}

\* enqueue: "queued" for an event id that is not here, "duplicate" for the
\* same event again.
Put(a) ==
    /\ \A k \in kept : NameOf[k] = NameOf[a] => k = a
    /\ kept' = kept \cup {a}
    /\ accepted' = accepted \cup {a}
    /\ UNCHANGED <<buried, received>>

\* Only what is kept is sent.
Receive(a) ==
    /\ a \in kept
    /\ received' = received \cup {a}
    /\ UNCHANGED <<kept, buried, accepted>>

\* Mutant of Remove: the event is removed without an answer.
RemoveUnanswered(a) ==
    /\ a \in kept \ buried
    /\ kept' = kept \ {a}
    /\ UNCHANGED <<buried, accepted, received>>

\* Only what was received, and was not buried, goes.
Remove(a) ==
    /\ a \in received /\ a \notin buried
    /\ kept' = kept \ {a}
    /\ UNCHANGED <<buried, accepted, received>>

Bury(a) ==
    /\ a \in kept
    /\ buried' = buried \cup {a}
    /\ UNCHANGED <<kept, accepted, received>>

Next == \E a \in Items : Put(a) \/ Receive(a) \/ Remove(a) \/ Bury(a)

Spec == Init /\ [][Next]_promiseVars
=============================================================================
