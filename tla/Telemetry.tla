------------------------------ MODULE Telemetry ------------------------------
(***************************************************************************)
(* One event on its way from `emit` to the dashboard: the outbox of a      *)
(* runner (as OutboxPromise states it and Outbox implements it), the HTTP  *)
(* request of a drain, do_POST of server.py in one thread per connection,  *)
(* and the store (MonitorStore).  A client that gives up on a request does *)
(* not stop the thread that serves it, so the monitor may take an event    *)
(* long after the client sent it again, and after events that came later.  *)
(***************************************************************************)
EXTENDS MonitorStore

CONSTANTS
    MaxInteger,     \* what an SQLite INTEGER holds, 2^63 - 1
    MaxRotations,   \* bound: how often the token is rotated
    Followed        \* events that liveness is about

ASSUME TelemetryAssumption ==
    MaxInteger \in Nat /\ MaxRotations \in Nat /\ Followed \subseteq Events

VARIABLES
    kept, buried, accepted, received,   \* OutboxPromise
    requests,   \* connections with a handler thread
    rotated,    \* the runner's token is not the monitor's
    rotations

outboxVars == <<kept, buried, accepted, received>>
tokenVars == <<rotated, rotations>>
telemetryVars == <<vars, outboxVars, requests, tokenVars>>

Outbox == INSTANCE OutboxPromise WITH Items <- Events,
                                      NameOf <- [e \in Events |-> e.id]

\* A request is the one a drain waits for, or one it has given up on.  Two of
\* those with the same event at the same stage count as one.
Request == [event : Events, stage : {"reading", "validated"}, waited : BOOLEAN]
Waited == {r \in requests : r.waited}

\* validate_event asks for positive integers and sets no upper limit.
Storable(e) == e.seq <= MaxInteger

-----------------------------------------------------------------------------
(* The runner: enqueue, and a drain. *)

\* A producer numbers its events upwards; some may be refused by the outbox.
Emit(e) ==
    /\ \A f \in accepted : f.stream = e.stream => f.seq < e.seq
    /\ Outbox!Put(e)
    /\ UNCHANGED <<vars, requests, tokenVars>>

\* deliver_event, again and again while the answer is a transient failure.
Send(e) ==
    /\ Waited = {}
    /\ e \in kept \ buried
    /\ requests' = requests \cup {[event |-> e, stage |-> "reading", waited |-> TRUE]}
    /\ UNCHANGED <<vars, outboxVars, tokenVars>>

\* The deadline, or a connection that broke.
GiveUp ==
    /\ Waited # {}
    /\ requests' = {[r EXCEPT !.waited = FALSE] : r \in requests}
    /\ UNCHANGED <<vars, outboxVars, tokenVars>>

Settle(e) ==
    /\ Outbox!Remove(e)
    /\ UNCHANGED <<vars, requests, tokenVars>>

-----------------------------------------------------------------------------
(* The monitor: do_POST. *)

\* The request is over.  The answer arrives if somebody still waits for it and
\* it is not lost on the way: then a drain marks the event received, or buries
\* it.
Answer(r, status) ==
    /\ requests' = requests \ {r}
    /\ \/ r.waited /\ IF status = 202 THEN Outbox!Receive(r.event)
                                      ELSE Outbox!Bury(r.event)
       \/ UNCHANGED outboxVars

\* _authorized fails: 401 before the body is looked at.
Unauthorized(r) ==
    /\ r.stage = "reading" /\ rotated
    /\ Answer(r, 401)
    /\ UNCHANGED <<vars, tokenVars>>

\* The body is there, parses and validates: it was validated by the outbox.
ReadBody(r) ==
    /\ r.stage = "reading" /\ ~rotated
    /\ requests' = (requests \ {r}) \cup {[r EXCEPT !.stage = "validated"]}
    /\ UNCHANGED <<vars, outboxVars, tokenVars>>

\* It takes longer than REQUEST_READ_TIMEOUT_SECONDS to come: 408.
SlowBody(r) ==
    /\ r.stage = "reading" /\ ~rotated
    /\ Answer(r, 408)
    /\ UNCHANGED <<vars, tokenVars>>

\* Mutant of Accept: the answer does not wait for the commit.
AnswerBeforeCommit(r) ==
    /\ r.stage = "validated" /\ Storable(r.event)
    /\ IF Logged(r.event) \/ ~r.waited THEN UNCHANGED vars
       ELSE Ingest(r.event) \/ UNCHANGED vars
    /\ Answer(r, 202)
    /\ UNCHANGED tokenVars

\* store.ingest under store_lock, and 202 for new and duplicate events alike.
Accept(r) ==
    /\ r.stage = "validated" /\ Storable(r.event)
    /\ IF Logged(r.event) THEN UNCHANGED vars ELSE Ingest(r.event)
    /\ Answer(r, 202)
    /\ UNCHANGED tokenVars

\* SQLite refuses the number, and the handler dies: no answer.
Overflow(r) ==
    /\ r.stage = "validated" /\ ~Storable(r.event)
    /\ requests' = requests \ {r}
    /\ UNCHANGED <<vars, outboxVars, tokenVars>>

\* The monitor stops with requests in hand; MonitorRestart tells what becomes
\* of the store.
MonitorStops ==
    /\ requests # {}
    /\ requests' = {}
    /\ UNCHANGED <<vars, outboxVars, tokenVars>>

\* An operator rotates the token, on the monitor first.
Rotate ==
    /\ ~rotated /\ rotations < MaxRotations
    /\ rotated' = TRUE /\ rotations' = rotations + 1
    /\ UNCHANGED <<vars, outboxVars, requests>>

RotateRunner ==
    /\ rotated /\ rotated' = FALSE
    /\ UNCHANGED <<vars, outboxVars, requests, rotations>>

-----------------------------------------------------------------------------
TelemetryInit ==
    /\ Init /\ Outbox!Init
    /\ requests = {} /\ rotated = FALSE /\ rotations = 0

Serve(r) == Unauthorized(r) \/ ReadBody(r) \/ SlowBody(r) \/ Accept(r) \/ Overflow(r)

TelemetryNext ==
    \/ \E e \in Events : Emit(e) \/ Send(e) \/ Settle(e)
    \/ GiveUp
    \/ \E r \in requests : Serve(r)
    \/ MonitorStops
    \/ Rotate \/ RotateRunner

TelemetrySpec == TelemetryInit /\ [][TelemetryNext]_telemetryVars

(***************************************************************************)
(* Fairness.  Drains go on: a kept event is sent again and again whenever  *)
(* no other request is waited for (PendingEventuallyLeaves of Outbox), and *)
(* a waiting client gives up some time.  Handler threads run.  A request   *)
(* that is read again and again is served in time now and then.  What      *)
(* becomes of an event takes no fairness for another one.                  *)
(***************************************************************************)
Fairness ==
    /\ \A e \in Followed : /\ SF_telemetryVars(Send(e))
                           /\ SF_telemetryVars(\E r \in requests :
                                 r.event = e /\ ReadBody(r))
                           /\ SF_telemetryVars(\E r \in requests :
                                 r.event = e /\ Accept(r))
    /\ WF_telemetryVars(GiveUp)
    /\ WF_telemetryVars(\E r \in requests : Serve(r))
    /\ WF_telemetryVars(RotateRunner)

FairTelemetry == TelemetrySpec /\ Fairness

-----------------------------------------------------------------------------
(* Properties *)

TelemetryTypeOK ==
    /\ TypeOK
    /\ kept \subseteq Events /\ buried \subseteq Events
    /\ accepted \subseteq Events /\ received \subseteq Events
    /\ requests \subseteq Request
    /\ rotated \in BOOLEAN /\ rotations \in 0 .. MaxRotations

\* End to end, an event that emit reported as accepted is in the runner's
\* outbox or in the monitor's log, however requests are lost, repeated and
\* served late: the 202 that lets the outbox forget it is sent after the commit.
AcceptedIsHeld == \A e \in accepted : e \in kept \/ Logged(e)

\* An event in the log twice would show a job twice in the history.
LoggedOnce == \A x, y \in log : x.event.id = y.event.id => x = y

\* Kept until it is stored, and stored once: the outbox repeats what was not
\* answered and the store drops what it has.
ExactlyOnce == AcceptedIsHeld /\ LoggedOnce

\* A job whose end has reached the monitor is not shown as running: no copy of
\* an older event that is served late brings it back.  Two exceptions: the end
\* itself was overtaken by a later event of its stream, and an older attempt
\* cannot replace a newer one of its run.
FinishedIsShown ==
    \A x \in log :
        LET e == x.event
        IN e.type = "job.finished" =>
             \/ db.job[e.job].state = "finished"
             \/ \E y \in log : /\ y.event.runner = e.runner
                               /\ y.event.stream = e.stream
                               /\ y.event.seq >= e.seq /\ y.row < x.row
             \/ \E j \in shown[e.runner] : j.run = e.job.run /\ j.attempt > e.job.attempt

\* Every accepted event the store can hold ends in the log or as a dead letter,
\* also behind one that is refused again and again without a word.
AcceptedSettles ==
    \A e \in Followed : Storable(e) =>
        (e \in accepted ~> Logged(e) \/ e \in buried)

\* "An immutable event that is safe to hand to persistence and display layers."
\* (ValidatedEvent, contracts.py): what validation let through does not come
\* back to the outbox for ever.
ValidatedIsSafeToPersist ==
    \A e \in Followed : e \in accepted ~> Logged(e) \/ e \in buried

(***************************************************************************)
(* The inductive strengthening: what was accepted is kept until it was     *)
(* received, and what was received is in the log; a watermark is the       *)
(* number of an event in the log, and the job a runner shows was shown.    *)
(***************************************************************************)
HeldInv == /\ accepted \subseteq kept \cup received
           /\ \A e \in received : Logged(e)

MarkInv == \A r \in Runners, s \in Streams : db.mark[r][s] > 0 =>
             \E y \in log : /\ y.event.runner = r /\ y.event.stream = s
                            /\ y.event.seq = db.mark[r][s]

ShownInv == \A r \in Runners : db.runner[r].job # None => db.runner[r].job \in shown[r]
=============================================================================
