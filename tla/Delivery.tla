------------------------------ MODULE Delivery ------------------------------
(***************************************************************************)
(* One drain of the outbox seen from the clock: agent.py's deliver_event,    *)
(* with its attempts, backoff and budget, called for one pending event after *)
(* another by outbox.py's _drain_locked.  Two callers hand it the time of one *)
(* delivery: `emit` and `flush` the rest of the drain's budget                *)
(* (agent._drain_outbox), the heartbeat service the full delivery budget      *)
(* (HeartbeatLoop._deliver).  The files and their crashes are module          *)
(* Outbox's.                                                               *)
(*                                                                         *)
(* Time is counted in whole units and passes in attempts and backoffs only.  *)
(***************************************************************************)
EXTENDS Naturals, Sequences, SequencesExt

CONSTANTS
    Events,         \* number of pending events
    DrainEvents,    \* max_drain_events
    DrainSeconds,   \* max_drain_seconds
    DeliverySeconds,\* MAX_DELIVERY_SECONDS
    MaxRetries      \* MAX_RETRIES

ASSUME DeliveryAssumption ==
    /\ Events \in Nat /\ DrainEvents \in Nat /\ MaxRetries \in Nat
    /\ DrainSeconds \in Nat \ {0} /\ DeliverySeconds \in Nat \ {0}

VARIABLES
    caller,     \* who drains, "agent" or "heartbeat"
    drainTime,  \* time since the drain began
    drainStep,  \* "next" event, "attempt", "backoff" or "done"
    index,      \* events dealt with
    deadline,   \* when the delivery in progress must be over
    attempts,   \* attempts of the delivery in progress
    answers,    \* history: what the attempts for each event met, in order
    fate        \* what became of each event

deliveryVars == <<caller, drainTime, drainStep, index, deadline, attempts, answers, fate>>

\* 2xx; another definite status; 429 or 5xx; an OSError or the timeout; any
\* other exception of the transport.
Retryable == {"busy", "network"}
Answers == {"accepted", "rejected", "broken"} \cup Retryable

Horizon == DrainSeconds + DeliverySeconds

DeliveryTypeOK ==
    /\ caller \in {"agent", "heartbeat"}
    /\ drainTime \in 0 .. Horizon
    /\ drainStep \in {"next", "attempt", "backoff", "done"}
    /\ index \in 0 .. Events
    /\ deadline \in 0 .. Horizon
    /\ attempts \in 0 .. MaxRetries + 1
    /\ answers \in [1 .. Events -> Seq(Answers)]
    /\ fate \in [1 .. Events -> {"pending", "removed", "dead_letter"}]

DeliveryInit ==
    /\ caller \in {"agent", "heartbeat"}
    /\ drainTime = 0 /\ drainStep = "next" /\ index = 0 /\ deadline = 0 /\ attempts = 0
    /\ answers = [e \in 1 .. Events |-> <<>>]
    /\ fate = [e \in 1 .. Events |-> "pending"]

Least(a, b) == IF a < b THEN a ELSE b

-----------------------------------------------------------------------------
\* Mutant of Granted: the time of the drain is added to that of the delivery.
GrantedSum == DeliverySeconds + DrainSeconds

\* Mutant of Granted: the drain's clock starts again with every delivery.
GrantedAnew == Least(DeliverySeconds, DrainSeconds)

\* The budget a caller gives one delivery.
Granted == IF caller = "agent" THEN Least(DeliverySeconds, DrainSeconds - drainTime)
                               ELSE DeliverySeconds

(* The head of _drain_locked's loop, and the start of deliver_event.         *)
NextEvent ==
    /\ drainStep = "next" /\ index < Events /\ index < DrainEvents /\ drainTime < DrainSeconds
    /\ drainStep' = "attempt" /\ deadline' = drainTime + Granted /\ attempts' = 0
    /\ UNCHANGED <<caller, drainTime, index, answers, fate>>

EndDrain ==
    /\ drainStep = "next" /\ (index = Events \/ index >= DrainEvents \/ drainTime >= DrainSeconds)
    /\ drainStep' = "done"
    /\ UNCHANGED <<caller, drainTime, index, deadline, attempts, answers, fate>>

\* Mutant of Fate: an unexpected status is taken for delivered.
FateLenient(answer, time) ==
    IF time >= DrainSeconds \/ answer \in Retryable THEN "pending"
    ELSE IF answer \in {"accepted", "rejected"} THEN "removed" ELSE "dead_letter"

\* What _drain_locked does with an event after its delivery came back.
Fate(answer, time) ==
    IF time >= DrainSeconds \/ answer \in Retryable THEN "pending"
    ELSE IF answer = "accepted" THEN "removed" ELSE "dead_letter"

Finish(answer) ==
    /\ drainStep' = "next" /\ index' = index + 1
    /\ fate' = [fate EXCEPT ![index + 1] = Fate(answer, drainTime')]

\* Mutant of MayRetry: a definite refusal is retried as well.
MayRetryRejected(answer) ==
    answer \in Retryable \cup {"rejected"} /\ attempts' <= MaxRetries /\ drainTime' < deadline

MayRetry(answer) == answer \in Retryable /\ attempts' <= MaxRetries /\ drainTime' < deadline

\* When an attempt may end: the resolver, the connection, the handshake, the
\* request and the answer each keep to the deadline.
AttemptEnds == drainTime .. deadline

(* One attempt of deliver_event; one that runs into its deadline is a network *)
(* error.                                                                   *)
Attempt ==
    /\ drainStep = "attempt"
    /\ attempts' = attempts + 1
    /\ \E answer \in Answers, time \in AttemptEnds :
           /\ drainTime' = time
           /\ answers' = [answers EXCEPT ![index + 1] = Append(@, answer)]
           /\ IF MayRetry(answer) THEN drainStep' = "backoff" /\ UNCHANGED <<index, fate>>
                                  ELSE Finish(answer)
    /\ UNCHANGED <<caller, deadline>>

\* 2 ** (attempts - 1).
Pause[n \in Nat] == IF n <= 1 THEN 1 ELSE 2 * Pause[n - 1]

(* The backoff of 1, 2, ... units, cut at the deadline; then the loop's head   *)
(* gives up when no time is left.                                            *)
Backoff ==
    /\ drainStep = "backoff"
    /\ drainTime' = Least(drainTime + Pause[attempts], deadline)
    /\ IF drainTime' < deadline THEN drainStep' = "attempt" /\ UNCHANGED <<index, fate>>
                          ELSE Finish(Last(answers[index + 1]))
    /\ UNCHANGED <<caller, deadline, attempts, answers>>

Done == drainStep = "done" /\ UNCHANGED deliveryVars

Step == NextEvent \/ EndDrain \/ Attempt \/ Backoff

DeliveryNext == Step \/ Done

DeliverySpec == DeliveryInit /\ [][DeliveryNext]_deliveryVars

-----------------------------------------------------------------------------
(* An event is sent again only after answers that say nothing definite, at    *)
(* most MaxRetries times, and never in the same drain once it was accepted    *)
(* or refused.                                                              *)
OnlyTransientIsRetried ==
    \A e \in 1 .. Events :
        /\ Len(answers[e]) <= MaxRetries + 1
        /\ \A i \in 1 .. Len(answers[e]) - 1 : answers[e][i] \in Retryable

(* A pending file is removed only when the Monitor's last answer was a 2xx    *)
(* and buried only on a definite failure, both within the drain's time;       *)
(* later events wait for earlier ones.                                      *)
FateMatchesAnswer ==
    \A e \in 1 .. Events :
        /\ fate[e] = "removed" => answers[e] # <<>> /\ Last(answers[e]) = "accepted"
        /\ fate[e] = "dead_letter" => answers[e] # <<>> /\ Last(answers[e]) \in {"rejected", "broken"}
        /\ answers[e] # <<>> => \A d \in 1 .. e : answers[d] # <<>>

(* A drain of emit or flush takes no longer than max_drain_seconds.  One of    *)
(* the heartbeat service may overrun it, by less than the time of a single    *)
(* delivery, and starts no delivery after it.                                *)
DrainWithinBudget ==
    IF caller = "agent" THEN drainTime <= DrainSeconds
                        ELSE drainTime < DrainSeconds + DeliverySeconds

\* A drain repeats nothing definite, settles files by what was answered, and keeps
\* to its time, all at once: a retry that is cut short leaves its event pending.
RetriesAreSafe ==
    DeliveryTypeOK /\ OnlyTransientIsRetried /\ FateMatchesAnswer /\ DrainWithinBudget

\* The inductive strengthening: events are taken one after another, the one in
\* progress has met nothing definite and has a deadline within the drain's time
\* (within that of a delivery, for the heartbeat service).
Busy == drainStep \in {"attempt", "backoff"}

OneAfterAnother ==
    \A e \in 1 .. Events :
        /\ e <= index => answers[e] # <<>>
        /\ e > index => fate[e] = "pending"
        /\ e > index + 1 \/ (e > index /\ ~Busy) => answers[e] = <<>>

InProgress ==
    Busy => /\ index < Events /\ attempts <= MaxRetries
            /\ Len(answers[index + 1]) = attempts
            /\ \A i \in 1 .. attempts : answers[index + 1][i] \in Retryable
            /\ drainStep = "backoff" => attempts > 0

InTime ==
    Busy => /\ drainTime <= deadline /\ deadline < Horizon
            /\ caller = "agent" => deadline <= DrainSeconds

DeliveryIInv == RetriesAreSafe /\ OneAfterAnother /\ InProgress /\ InTime
=============================================================================
