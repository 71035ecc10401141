--------------------------- MODULE TelemetryProofs ---------------------------
(***************************************************************************)
(* Telemetry, for any events, runners, jobs and limits: the composition    *)
(* implements the store and the outbox it is made of, an accepted event is *)
(* held somewhere until the monitor has it, and a job whose end arrived is *)
(* shown as finished.                                                      *)
(***************************************************************************)
EXTENDS Telemetry, MonitorProofs

-----------------------------------------------------------------------------
(* The parts and the whole. *)

\* An answer is received or buried by the outbox, or nobody hears it.
LEMMA AnswerIs ==
    ASSUME NEW r, NEW status, Answer(r, status)
    PROVE  /\ requests' \subseteq requests
           /\ \/ r.waited /\ status = 202 /\ Outbox!Receive(r.event)
              \/ r.waited /\ status # 202 /\ Outbox!Bury(r.event)
              \/ UNCHANGED outboxVars
  BY DEF Answer

\* The store only ever takes a step of its own: one ingest, or none.
LEMMA StoreStep ==
    ASSUME TelemetryNext
    PROVE  \/ \E r \in requests : /\ Accept(r) /\ ~Logged(r.event) /\ Ingest(r.event)
                                  /\ Answer(r, 202)
           \/ UNCHANGED vars
<1>1. CASE \E e \in Events : Emit(e) \/ Send(e) \/ Settle(e)
  BY <1>1 DEF Emit, Send, Settle
<1>2. CASE GiveUp \/ MonitorStops \/ Rotate \/ RotateRunner
  BY <1>2 DEF GiveUp, MonitorStops, Rotate, RotateRunner
<1>3. CASE \E r \in requests : Serve(r)
  BY <1>3 DEF Serve, Unauthorized, ReadBody, SlowBody, Accept, Overflow
<1> QED
  BY <1>1, <1>2, <1>3 DEF TelemetryNext

\* The types of the outbox, the requests and the token.
WireType ==
    /\ kept \subseteq Events /\ buried \subseteq Events
    /\ accepted \subseteq Events /\ received \subseteq Events
    /\ requests \subseteq Request
    /\ rotated \in BOOLEAN /\ rotations \in 0 .. MaxRotations

\* The runner's steps and those of the operator keep them.
LEMMA RunnerWire ==
    ASSUME WireType,
           \/ \E e \in Events : Emit(e) \/ Send(e) \/ Settle(e)
           \/ GiveUp \/ MonitorStops \/ Rotate \/ RotateRunner
    PROVE  WireType'
<1> USE DEF WireType
<1>1. CASE \E e \in Events : Emit(e)
  BY <1>1 DEF Emit, Outbox!Put, tokenVars
<1>2. CASE \E e \in Events : Send(e)
  <2>1. PICK e \in Events : Send(e)
    BY <1>2
  <2>2. [event |-> e, stage |-> "reading", waited |-> TRUE] \in Request
    BY DEF Request
  <2> QED
    BY <2>1, <2>2 DEF Send, outboxVars, tokenVars
<1>3. CASE \E e \in Events : Settle(e)
  BY <1>3 DEF Settle, Outbox!Remove, tokenVars
<1>4. CASE GiveUp
  <2>1. \A r \in Request : [r EXCEPT !.waited = FALSE] \in Request
    BY DEF Request
  <2> QED
    BY <1>4, <2>1 DEF GiveUp, outboxVars, tokenVars
<1>5. CASE MonitorStops
  BY <1>5 DEF MonitorStops, outboxVars, tokenVars
<1>6. CASE Rotate
  BY <1>6, TelemetryAssumption DEF Rotate, outboxVars, TelemetryAssumption
<1>7. CASE RotateRunner
  BY <1>7 DEF RotateRunner, outboxVars
<1> QED
  BY <1>1, <1>2, <1>3, <1>4, <1>5, <1>6, <1>7

\* So do those of a handler.
LEMMA ServeWire ==
    ASSUME WireType, NEW r \in requests, Serve(r)
    PROVE  WireType' /\ (Outbox!Next \/ UNCHANGED outboxVars)
<1> USE DEF WireType
<1>1. r \in Request /\ r.event \in Events
  BY DEF Request
<1>2. CASE ReadBody(r)
  <2>1. [r EXCEPT !.stage = "validated"] \in Request
    BY <1>1 DEF Request
  <2> QED
    BY <1>2, <2>1 DEF ReadBody, outboxVars, tokenVars
<1>3. CASE Overflow(r)
  BY <1>3 DEF Overflow, outboxVars, tokenVars
<1>4. CASE \E status \in {202, 401, 408} : Answer(r, status) /\ UNCHANGED tokenVars
  <2>1. /\ requests' \subseteq requests /\ UNCHANGED tokenVars
        /\ Outbox!Receive(r.event) \/ Outbox!Bury(r.event) \/ UNCHANGED outboxVars
    BY <1>4, AnswerIs
  <2>2. Outbox!Next \/ UNCHANGED outboxVars
    BY <1>1, <2>1 DEF Outbox!Next
  <2>3. WireType'
    BY <1>1, <2>1 DEF Outbox!Receive, Outbox!Bury, outboxVars, tokenVars
  <2> QED
    BY <2>2, <2>3
<1> QED
  BY <1>2, <1>3, <1>4 DEF Serve, Unauthorized, SlowBody, Accept

\* The types hold in every reachable state.
LEMMA WireTyped == TelemetrySpec => []WireType
<1>1. TelemetryInit => WireType
  <2> SUFFICES ASSUME TelemetryInit PROVE WireType
    OBVIOUS
  <2>1. /\ kept = {} /\ buried = {} /\ accepted = {} /\ received = {}
        /\ requests = {} /\ rotated = FALSE /\ rotations = 0
    BY DEF TelemetryInit, Outbox!Init
  <2>2. 0 \in 0 .. MaxRotations
    BY TelemetryAssumption DEF TelemetryAssumption
  <2> QED
    BY <2>1, <2>2 DEF WireType
<1>2. WireType /\ [TelemetryNext]_telemetryVars => WireType'
  <2> SUFFICES ASSUME WireType, [TelemetryNext]_telemetryVars PROVE WireType'
    OBVIOUS
  <2>1. CASE UNCHANGED telemetryVars
    BY <2>1 DEF telemetryVars, outboxVars, tokenVars, WireType
  <2> QED
    BY <2>1, RunnerWire, ServeWire DEF TelemetryNext
<1> QED
  BY <1>1, <1>2, PTL DEF TelemetrySpec

\* What the monitor does to its store is what MonitorStore allows, so everything
\* that was proved of it holds of the composition.
THEOREM StoreIsImplemented == TelemetrySpec => Spec
<1>1. TelemetryInit => Init
  BY DEF TelemetryInit
<1>2. WireType /\ [TelemetryNext]_telemetryVars => [Next]_vars
  <2> SUFFICES ASSUME WireType, [TelemetryNext]_telemetryVars PROVE [Next]_vars
    OBVIOUS
  <2>1. CASE UNCHANGED telemetryVars
    BY <2>1 DEF telemetryVars
  <2>2. CASE \E r \in requests : Ingest(r.event)
    BY <2>2 DEF WireType, Request, Next
  <2> QED
    BY <2>1, <2>2, StoreStep
<1> QED
  BY <1>1, <1>2, WireTyped, PTL DEF TelemetrySpec, Spec

\* The drains and answers of the composition are those of the abstract outbox,
\* which is what the directory of Outbox implements (OutboxKeepsPromise).
THEOREM OutboxIsUsedAsPromised == TelemetrySpec => Outbox!Spec
<1>1. TelemetryInit => Outbox!Init
  BY DEF TelemetryInit
<1>2. WireType /\ [TelemetryNext]_telemetryVars => [Outbox!Next]_(Outbox!promiseVars)
  <2> SUFFICES ASSUME WireType, [TelemetryNext]_telemetryVars
               PROVE  Outbox!Next \/ UNCHANGED outboxVars
    BY DEF Outbox!promiseVars, outboxVars
  <2>1. CASE UNCHANGED telemetryVars
    BY <2>1 DEF telemetryVars
  <2>2. CASE \E e \in Events : Emit(e) \/ Settle(e)
    BY <2>2 DEF Emit, Settle, Outbox!Next
  <2>3. CASE (\E e \in Events : Send(e)) \/ GiveUp \/ MonitorStops \/ Rotate \/ RotateRunner
    BY <2>3 DEF Send, GiveUp, MonitorStops, Rotate, RotateRunner
  <2>4. CASE \E r \in requests : Serve(r)
    BY <2>4, ServeWire
  <2> QED
    BY <2>1, <2>2, <2>3, <2>4 DEF TelemetryNext
<1> QED
  BY <1>1, <1>2, WireTyped, PTL DEF TelemetrySpec, Outbox!Spec

\* Every variable keeps its type.
THEOREM TelemetryTypeCorrect == TelemetrySpec => []TelemetryTypeOK
<1>1. TypeOK /\ WireType => TelemetryTypeOK
  BY DEF WireType, TelemetryTypeOK
<1> QED
  BY <1>1, StoreIsImplemented, TypeCorrect, WireTyped, PTL

-----------------------------------------------------------------------------
(* Held until it is in the log. *)

\* A row that is logged stays: nothing here prunes.
LEMMA LogGrows ==
    ASSUME TelemetryNext \/ UNCHANGED telemetryVars
    PROVE  log \subseteq log'
  BY StoreStep DEF Ingest, vars, telemetryVars

\* 202 is answered for what is in the log, and only then the outbox lets go.
LEMMA HeldStep ==
    ASSUME HeldInv, [TelemetryNext]_telemetryVars
    PROVE  HeldInv'
<1> USE DEF HeldInv
<1>1. \A e : Logged(e) => Logged(e)'
  BY LogGrows DEF Logged
<1>2. CASE UNCHANGED outboxVars
  BY <1>1, <1>2 DEF outboxVars
<1>3. CASE \E e \in Events : Emit(e)
  BY <1>1, <1>3 DEF Emit, Outbox!Put
<1>4. CASE \E e \in Events : Settle(e)
  BY <1>1, <1>4 DEF Settle, Outbox!Remove
<1>5. CASE \E r \in requests : Answer(r, 401) \/ Answer(r, 408)
  <2>1. PICK r \in requests : Outbox!Bury(r.event) \/ UNCHANGED outboxVars
    BY <1>5, AnswerIs
  <2> QED
    BY <1>1, <1>2, <2>1 DEF Outbox!Bury
<1>6. CASE \E r \in requests : Accept(r)
  <2>1. PICK r \in requests : Accept(r)
    BY <1>6
  <2>2. Logged(r.event)'
    <3>1. CASE Logged(r.event)
      BY <1>1, <3>1
    <3>2. CASE ~Logged(r.event)
      <4>1. Ingest(r.event)
        BY <2>1, <3>2 DEF Accept
      <4>2. \E n \in NewRows :
              log' = log \cup {[row |-> n, event |-> r.event, at |-> now,
                                applied |-> Accepts(db, r.event)]}
        BY <4>1 DEF Ingest
      <4>3. PICK n \in NewRows :
              log' = log \cup {[row |-> n, event |-> r.event, at |-> now,
                                applied |-> Accepts(db, r.event)]}
        BY <4>2
      <4>4. [row |-> n, event |-> r.event, at |-> now,
             applied |-> Accepts(db, r.event)].event = r.event
        OBVIOUS
      <4>5. \E y \in log' : y.event = r.event
        BY <4>3, <4>4
      <4> QED
        BY <4>5 DEF Logged
    <3> QED
      BY <3>1, <3>2
  <2>3. Outbox!Receive(r.event) \/ UNCHANGED outboxVars
    BY <2>1, AnswerIs DEF Accept
  <2> QED
    BY <1>1, <1>2, <2>2, <2>3 DEF Outbox!Receive
<1> QED
  BY <1>2, <1>3, <1>4, <1>5, <1>6
  DEF TelemetryNext, Send, GiveUp, MonitorStops, Rotate, RotateRunner, Serve,
      Unauthorized, ReadBody, SlowBody, Overflow, telemetryVars

\* At least once, end to end: an accepted event is in the outbox of its runner or
\* in the log of the monitor.
THEOREM AcceptedIsNeverLost == TelemetrySpec => []AcceptedIsHeld
<1>1. TelemetryInit => HeldInv
  BY DEF TelemetryInit, Outbox!Init, HeldInv
<1>2. HeldInv => AcceptedIsHeld
  BY DEF HeldInv, AcceptedIsHeld
<1> QED
  BY <1>1, <1>2, HeldStep, PTL DEF TelemetrySpec

\* Exactly once in the log, however often it is sent.
THEOREM NothingIsLoggedTwice == TelemetrySpec => []LoggedOnce
<1>1. TelemetryInit => LoggedOnce
  BY DEF TelemetryInit, Init, LoggedOnce
<1>2. LoggedOnce /\ [TelemetryNext]_telemetryVars => LoggedOnce'
  <2> SUFFICES ASSUME LoggedOnce, [TelemetryNext]_telemetryVars PROVE LoggedOnce'
    OBVIOUS
  <2>1. CASE log' = log
    BY <2>1 DEF LoggedOnce
  <2>2. CASE \E r \in requests : ~Logged(r.event) /\ Ingest(r.event)
    <3>1. PICK r \in requests : ~Logged(r.event) /\ Ingest(r.event)
      BY <2>2
    <3>2. PICK n : log' = log \cup {[row |-> n, event |-> r.event, at |-> now,
                                     applied |-> Accepts(db, r.event)]}
      BY <3>1 DEF Ingest
    <3> QED
      BY <3>1, <3>2 DEF Logged, LoggedOnce
  <2> QED
    BY <2>1, <2>2, StoreStep DEF telemetryVars, vars
<1> QED
  BY <1>1, <1>2, PTL DEF TelemetrySpec

-----------------------------------------------------------------------------
(* A job whose end arrived is not shown as running. *)

ShowInv == MarkInv /\ ShownInv /\ FinishedIsShown

\* A later event of its stream was logged before x, or a newer attempt shown.
OvertakenIn(x, rows, jobsShown) ==
    \/ \E y \in rows : /\ y.event.runner = x.event.runner
                       /\ y.event.stream = x.event.stream
                       /\ y.event.seq >= x.event.seq /\ y.row < x.row
    \/ \E j \in jobsShown[x.event.runner] :
          j.run = x.event.job.run /\ j.attempt > x.event.job.attempt

\* An end that does not advance the state comes too late for one of the reasons
\* that FinishedIsShown names.
LEMMA RefusedEnd ==
    ASSUME IInv, MarkInv, ShownInv, NEW x, x.event \in Events, x.event.type = "job.finished",
           ~Accepts(db, x.event), \A y \in log : y.row < x.row
    PROVE  db.job[x.event.job].state = "finished" \/ OvertakenIn(x, log, shown)
<1> DEFINE e == x.event
<1>1. /\ e.runner \in Runners /\ e.stream \in Streams /\ e.seq \in Nat \ {0}
      /\ e.job \in Jobs /\ e.job.attempt \in Nat
  BY ProjectionAssumption DEF ProjectionAssumption, JobTypes
<1>2. \/ ~(e.seq > db.mark[e.runner][e.stream])
      \/ db.job[e.job].state = "finished"
      \/ OlderAttempt(db, e)
  BY DEF Accepts, JobTypes, Reports
<1>3. CASE ~(e.seq > db.mark[e.runner][e.stream])
  <2>1. db.mark[e.runner][e.stream] \in Nat
    BY <1>1 DEF IInv, TypeOK
  <2>2. PICK y \in log : /\ y.event.runner = e.runner /\ y.event.stream = e.stream
                         /\ y.event.seq = db.mark[e.runner][e.stream]
    BY <1>1, <1>3, <2>1 DEF MarkInv
  <2>3. y.event.seq >= e.seq /\ y.row < x.row
    BY <1>1, <1>3, <2>1, <2>2
  <2> QED
    BY <2>2, <2>3 DEF OvertakenIn
<1>4. CASE OlderAttempt(db, e)
  <2>1. /\ db.runner[e.runner].job \in shown[e.runner]
        /\ db.runner[e.runner].job.run = e.job.run
        /\ e.job.attempt < db.runner[e.runner].job.attempt
    BY <1>1, <1>4 DEF OlderAttempt, ShownInv
  <2>2. db.runner[e.runner].job.attempt \in Nat
    BY <1>1, <2>1, ProjectionAssumption DEF IInv, TypeOK, ProjectionAssumption
  <2>3. db.runner[e.runner].job.attempt > e.job.attempt
    BY <1>1, <2>1, <2>2
  <2> QED
    BY <2>1, <2>3 DEF OvertakenIn
<1> QED
  BY <1>2, <1>3, <1>4

\* Taking an event keeps the three.
LEMMA IngestShows ==
    ASSUME IInv, ShowInv, NEW e \in Events, Ingest(e)
    PROVE  ShowInv'
<1>1. PICK n \in NewRows :
        NextRow(n) /\ log' = log \cup {[row |-> n, event |-> e, at |-> now,
                                        applied |-> Accepts(db, e)]}
  BY DEF Ingest
<1>2. PICK x : /\ log' = log \cup {x} /\ x.event = e
               /\ \A y \in log : y.row < x.row
  <2>1. [row |-> n, event |-> e, at |-> now, applied |-> Accepts(db, e)].event = e
    OBVIOUS
  <2>2. [row |-> n, event |-> e, at |-> now, applied |-> Accepts(db, e)].row = n
    OBVIOUS
  <2> QED
    BY <1>1, <2>1, <2>2 DEF NextRow
<1>3. /\ e.runner \in Runners /\ e.stream \in Streams /\ e.seq \in Nat \ {0}
      /\ e.type \in JobTypes => e.job \in Jobs
  BY ProjectionAssumption DEF ProjectionAssumption
<1>4. \A y \in log : y.event.type = "job.finished" =>
         y.event.job \in Jobs /\ y.event.runner \in Runners
  BY ProjectionAssumption DEF ProjectionAssumption, IInv, TypeOK, Entry, JobTypes
<1>5. /\ \A r \in Runners : shown[r] \subseteq shown'[r]
      /\ \A j \in Jobs : db.job[j].state = "finished" => db'.job[j].state = "finished"
      /\ MarkInv' /\ ShownInv'
      /\ e.type = "job.finished" => \/ db'.job[e.job].state = "finished"
                                    \/ OvertakenIn(x, log, shown)
  <2>1. CASE ~Accepts(db, e)
    <3>1. UNCHANGED <<db, shown>>
      BY <2>1, IngestLoggedKeeps DEF historyVars
    <3> QED
      BY <1>2, <2>1, <3>1, RefusedEnd DEF ShowInv, MarkInv, ShownInv
  <2>2. CASE Accepts(db, e)
    <3>1. db' = Project(db, e, now) /\ now \in 0..MaxNow
      BY DEF Ingest, IInv, TypeOK
    <3>2. /\ \A r \in Runners :
                db'.runner[r] = IF r = e.runner THEN RunnerRow(db.runner[r], e, now)
                                                ELSE db.runner[r]
          /\ \A j \in Jobs :
                db'.job[j] = IF e.type \in JobTypes /\ j = e.job THEN JobRow(e, now)
                                                                 ELSE db.job[j]
          /\ \A r \in Runners, s \in Streams :
                db'.mark[r][s] = IF r = e.runner /\ s = e.stream THEN e.seq
                                                                 ELSE db.mark[r][s]
      BY <2>2, <3>1, Applied DEF IInv
    <3>3. /\ e.type \in JobTypes \cup {"runner.heartbeat", "runner.offline"}
          /\ e.type \in JobTypes => db.job[e.job].state # "finished"
      BY <2>2, AcceptedType
    <3>4. shown' = IF e.type \in JobTypes THEN [shown EXCEPT ![e.runner] = @ \cup {e.job}]
                                          ELSE shown
      BY <2>2 DEF Ingest
    <3>5. shown \in [Runners -> SUBSET Jobs]
      BY DEF IInv, TypeOK
    <3>6. \A r \in Runners : shown'[r] = IF e.type \in JobTypes /\ r = e.runner
                                         THEN shown[r] \cup {e.job} ELSE shown[r]
      BY <3>4, <3>5
    <3>7. \A j \in Jobs : db.job[j].state = "finished" => db'.job[j].state = "finished"
      BY <3>2, <3>3
    <3>8. e.type = "job.finished" => db'.job[e.job].state = "finished"
      BY <1>3, <3>1, <3>2, JobRowIs DEF JobTypes
    <3>9. ShownInv'
      <4> SUFFICES ASSUME NEW r \in Runners, db'.runner[r].job # None
                   PROVE  db'.runner[r].job \in shown'[r]
        BY DEF ShownInv
      <4>1. CASE r # e.runner
        BY <3>2, <3>6, <4>1 DEF ShowInv, ShownInv
      <4>2. CASE r = e.runner
        <5>1. db.runner[r] \in RunnerView
          BY DEF IInv, TypeOK
        <5>2. db'.runner[r] = RunnerRow(db.runner[r], e, now)
          BY <3>2, <4>2
        <5>3. /\ e.type \notin JobTypes => db'.runner[r].job = db.runner[r].job
              /\ e.type \in JobTypes => db'.runner[r].job = e.job
          BY <3>1, <3>3, <5>1, <5>2, RunnerRowIs
        <5> QED
          BY <3>6, <4>2, <5>3 DEF ShowInv, ShownInv
      <4> QED
        BY <4>1, <4>2
    <3>10. MarkInv'
      <4> SUFFICES ASSUME NEW r \in Runners, NEW s \in Streams, db'.mark[r][s] > 0
                   PROVE  \E y \in log' : /\ y.event.runner = r /\ y.event.stream = s
                                          /\ y.event.seq = db'.mark[r][s]
        BY DEF MarkInv
      <4>1. CASE r = e.runner /\ s = e.stream
        BY <1>2, <3>2, <4>1
      <4>2. CASE ~(r = e.runner /\ s = e.stream)
        <5>1. db'.mark[r][s] = db.mark[r][s]
          BY <3>2, <4>2
        <5> QED
          BY <1>2, <5>1 DEF ShowInv, MarkInv
      <4> QED
        BY <4>1, <4>2
    <3> QED
      BY <3>6, <3>7, <3>8, <3>9, <3>10
  <2> QED
    BY <2>1, <2>2
<1>6. FinishedIsShown'
  <2> SUFFICES ASSUME NEW y \in log', y.event.type = "job.finished"
               PROVE  \/ db'.job[y.event.job].state = "finished"
                      \/ OvertakenIn(y, log', shown')
    BY DEF FinishedIsShown, OvertakenIn
  <2>1. CASE y \in log
    <3>1. \/ db.job[y.event.job].state = "finished"
          \/ OvertakenIn(y, log, shown)
      BY <2>1 DEF ShowInv, FinishedIsShown, OvertakenIn
    <3> QED
      BY <1>2, <1>4, <1>5, <2>1, <3>1 DEF OvertakenIn
  <2>2. CASE y = x
    BY <1>2, <1>3, <1>5, <2>2 DEF OvertakenIn
  <2> QED
    BY <1>2, <2>1, <2>2
<1> QED
  BY <1>5, <1>6 DEF ShowInv

\* A job whose end is in the log is finished, or its end came behind a later
\* event of its stream or behind a newer attempt: whatever is delivered late, twice
\* or not at all.
THEOREM EndsAreShown == TelemetrySpec => []FinishedIsShown
<1>1. TelemetryInit => ShowInv
  <2> SUFFICES ASSUME TelemetryInit PROVE ShowInv
    OBVIOUS
  <2>1. Init
    BY DEF TelemetryInit
  <2> QED
    BY <2>1 DEF Init, EmptyDb, ShowInv, MarkInv, ShownInv, FinishedIsShown
<1>2. ASSUME WireType, IInv, ShowInv, [TelemetryNext]_telemetryVars PROVE ShowInv'
  <2>1. CASE UNCHANGED vars
    BY <1>2, <2>1 DEF vars, historyVars, ShowInv, MarkInv, ShownInv, FinishedIsShown
  <2>2. CASE \E r \in requests : Ingest(r.event)
    BY <1>2, <2>2, IngestShows DEF WireType, Request
  <2> QED
    BY <1>2, <2>1, <2>2, StoreStep DEF telemetryVars
<1>3. ShowInv => FinishedIsShown
  BY DEF ShowInv
<1> QED
  BY <1>1, <1>2, <1>3, WireTyped, StoreIsImplemented, Invariance, PTL DEF TelemetrySpec

\* End to end, an accepted event is never lost and never logged twice.
THEOREM DeliveredOnce == TelemetrySpec => []ExactlyOnce
  BY AcceptedIsNeverLost, NothingIsLoggedTwice, PTL DEF ExactlyOnce
=============================================================================
