---------------------------- MODULE MonitorProofs ----------------------------
(***************************************************************************)
(* MonitorStore, for any runners, jobs, producers, events, timeouts and     *)
(* bounds: what the dashboard shows as offline is what has an incident, no  *)
(* event advances the state twice although pruning forgets its id, running  *)
(* runners have running jobs, and the first outcome of a job stays.         *)
(***************************************************************************)
EXTENDS MonitorStore, TLAPS, WellFoundedInduction

-----------------------------------------------------------------------------
\* A set of natural numbers that is not empty has a least element: this stands
\* for induction over numbers.
LEMMA LeastNumber ==
    ASSUME NEW S \in SUBSET Nat, S # {}
    PROVE  \E n \in S : \A m \in S : n <= m
<1>1. PICK n \in S : \A m \in S : <<m, n>> \notin OpToRel(<, Nat)
  BY NatLessThanWellFounded, WFMin
<1>2. \A m \in S : ~(m < n)
  BY <1>1 DEF OpToRel
<1> QED
  BY <1>2

-----------------------------------------------------------------------------
(* What apply_event writes *)

\* Every event that advances the state is one of five types.
LEMMA AcceptedType ==
    ASSUME NEW d, NEW e \in Events, Accepts(d, e)
    PROVE  /\ e.type \in JobTypes \cup {"runner.heartbeat", "runner.offline"}
           /\ e.runner \in Runners /\ e.stream \in Streams /\ e.seq \in Nat \ {0}
           /\ e.type \in JobTypes => e.job \in Jobs /\ d.job[e.job].state # "finished"
           /\ e.type = "job.finished" => e.outcome \in Outcomes
           /\ e.seq > d.mark[e.runner][e.stream]
  BY ProjectionAssumption DEF Accepts, ProjectionAssumption, Types

\* _upsert_runner: the row stays well typed, an offline event alone makes it
\* offline, and job events alone touch its activity and its current job.
LEMMA RunnerRowIs ==
    ASSUME NEW row \in RunnerView, NEW e \in Events, NEW at \in 0..MaxNow,
           e.type \in JobTypes \cup {"runner.heartbeat", "runner.offline"}
    PROVE  /\ RunnerRow(row, e, at) \in RunnerView
           /\ RunnerRow(row, e, at).liveness =
                 IF e.type = "runner.offline" THEN "offline" ELSE "online"
           /\ e.type = "runner.offline" =>
                 RunnerRow(row, e, at).reason = "explicit_shutdown"
           /\ e.type \notin JobTypes =>
                 /\ RunnerRow(row, e, at).activity = row.activity
                 /\ RunnerRow(row, e, at).job = row.job
           /\ e.type \in JobTypes =>
                 /\ RunnerRow(row, e, at).job = e.job
                 /\ RunnerRow(row, e, at).activity =
                       IF e.type = "job.finished" THEN "idle" ELSE "running"
<1>1. CASE e.type = "runner.heartbeat"
  BY <1>1 DEF RunnerRow, RunnerView, JobTypes
<1>2. CASE e.type = "runner.offline"
  BY <1>2 DEF RunnerRow, RunnerView, JobTypes, Conditions
<1>3. CASE e.type \in {"job.started", "job.heartbeat"}
  BY <1>3, ProjectionAssumption
  DEF RunnerRow, RunnerView, JobTypes, ProjectionAssumption
<1>4. CASE e.type = "job.finished"
  BY <1>4, ProjectionAssumption
  DEF RunnerRow, RunnerView, JobTypes, ProjectionAssumption
<1> QED
  BY <1>1, <1>2, <1>3, <1>4 DEF JobTypes

\* _upsert_job: the row is online, and finished exactly after job.finished.
LEMMA JobRowIs ==
    ASSUME NEW e \in Events, NEW at \in 0..MaxNow, e.type \in JobTypes
    PROVE  /\ JobRow(e, at) \in JobView
           /\ JobRow(e, at).liveness = "online"
           /\ JobRow(e, at).state =
                 IF e.type = "job.finished" THEN "finished" ELSE "running"
  BY ProjectionAssumption DEF JobRow, JobView, ProjectionAssumption, JobTypes

\* Any tables after apply_event took an event that advances their state.
LEMMA ProjectIs ==
    ASSUME NEW d \in [runner : [Runners -> RunnerView], job : [Jobs -> JobView],
                      mark : [Runners -> [Streams -> Nat]]],
           NEW e \in Events, Accepts(d, e), NEW at \in 0..MaxNow,
           NEW next, next = Project(d, e, at)
    PROVE  /\ next \in [runner : [Runners -> RunnerView], job : [Jobs -> JobView],
                       mark : [Runners -> [Streams -> Nat]]]
           /\ \A r \in Runners :
                 next.runner[r] = IF r = e.runner THEN RunnerRow(d.runner[r], e, at)
                                                 ELSE d.runner[r]
           /\ \A j \in Jobs :
                 next.job[j] = IF e.type \in JobTypes /\ j = e.job THEN JobRow(e, at)
                                                                  ELSE d.job[j]
           /\ \A r \in Runners, s \in Streams :
                 next.mark[r][s] = IF r = e.runner /\ s = e.stream THEN e.seq
                                                                  ELSE d.mark[r][s]
<1>1. /\ e.type \in JobTypes \cup {"runner.heartbeat", "runner.offline"}
      /\ e.runner \in Runners /\ e.stream \in Streams /\ e.seq \in Nat
      /\ e.type \in JobTypes => e.job \in Jobs
  BY AcceptedType
<1>2. /\ d.runner \in [Runners -> RunnerView] /\ d.job \in [Jobs -> JobView]
      /\ d.mark \in [Runners -> [Streams -> Nat]]
  OBVIOUS
<1>3. RunnerRow(d.runner[e.runner], e, at) \in RunnerView
  BY <1>1, <1>2, RunnerRowIs
<1>4. e.type \in JobTypes => JobRow(e, at) \in JobView
  BY <1>2, JobRowIs
<1>5. next = [runner |-> [d.runner EXCEPT ![e.runner] = RunnerRow(d.runner[e.runner], e, at)],
             job |-> IF e.type \in JobTypes THEN [d.job EXCEPT ![e.job] = JobRow(e, at)]
                                            ELSE d.job,
             mark |-> [d.mark EXCEPT ![e.runner][e.stream] = e.seq]]
  BY DEF Project, Apply
<1>6. /\ next.runner = [d.runner EXCEPT ![e.runner] = RunnerRow(d.runner[e.runner], e, at)]
      /\ next.job = IF e.type \in JobTypes THEN [d.job EXCEPT ![e.job] = JobRow(e, at)]
                                          ELSE d.job
      /\ next.mark = [d.mark EXCEPT ![e.runner][e.stream] = e.seq]
      /\ next = [runner |-> next.runner, job |-> next.job, mark |-> next.mark]
  BY <1>5
<1>7. /\ next.runner \in [Runners -> RunnerView] /\ next.job \in [Jobs -> JobView]
      /\ next.mark \in [Runners -> [Streams -> Nat]]
  BY <1>1, <1>2, <1>3, <1>4, <1>6
<1>8. next \in [runner : [Runners -> RunnerView], job : [Jobs -> JobView],
               mark : [Runners -> [Streams -> Nat]]]
  BY <1>6, <1>7
<1>9. \A r \in Runners :
         next.runner[r] = IF r = e.runner THEN RunnerRow(d.runner[r], e, at)
                                         ELSE d.runner[r]
  BY <1>1, <1>2, <1>6
<1>10. \A j \in Jobs :
          next.job[j] = IF e.type \in JobTypes /\ j = e.job THEN JobRow(e, at)
                                                           ELSE d.job[j]
  BY <1>1, <1>2, <1>6
<1>11. \A r \in Runners, s \in Streams :
          next.mark[r][s] = IF r = e.runner /\ s = e.stream THEN e.seq
                                                           ELSE d.mark[r][s]
  BY <1>1, <1>2, <1>6
<1> QED
  BY <1>8, <1>9, <1>10, <1>11

-----------------------------------------------------------------------------
(* The inductive invariant *)

\* An empty store satisfies it.
LEMMA InitIInv == Init => IInv
<1> SUFFICES ASSUME Init PROVE IInv
  OBVIOUS
<1> USE DEF Init, EmptyDb
<1>1. TypeOK
  <2>1. db \in [runner : [Runners -> RunnerView], job : [Jobs -> JobView],
                mark : [Runners -> [Streams -> Nat]]]
    BY StoreAssumption DEF RunnerView, JobView, StoreAssumption
  <2>2. /\ log \subseteq Entry /\ jobIncidents \subseteq Jobs /\ complete \in BOOLEAN
        /\ incidents \in [Runners -> SUBSET Conditions]
        /\ firstIncident \in [Runners -> Conditions \cup {None}]
        /\ shown \in [Runners -> SUBSET Jobs]
    OBVIOUS
  <2>3. now \in 0..MaxNow /\ applied \in [Events -> Nat]
    BY StoreAssumption DEF StoreAssumption
  <2> QED
    BY <2>1, <2>2, <2>3 DEF TypeOK
<1>2. OfflineIffIncident
  BY DEF OfflineIffIncident
<1>3. AppliedAtMostOnce /\ AppliedBehindMark
  BY DEF AppliedAtMostOnce, AppliedBehindMark
<1>4. RunningRunnerHasRunningJob /\ CurrentJobIsOwn
  BY DEF RunningRunnerHasRunningJob, CurrentJobIsOwn
<1> QED
  BY <1>1, <1>2, <1>3, <1>4 DEF IInv

\* The tables after ingest took an event that advances the state.
LEMMA Applied ==
    ASSUME TypeOK, NEW e \in Events, Accepts(db, e), db' = Project(db, e, now)
    PROVE  /\ db' \in [runner : [Runners -> RunnerView], job : [Jobs -> JobView],
                       mark : [Runners -> [Streams -> Nat]]]
           /\ \A r \in Runners :
                 db'.runner[r] = IF r = e.runner THEN RunnerRow(db.runner[r], e, now)
                                                 ELSE db.runner[r]
           /\ \A j \in Jobs :
                 db'.job[j] = IF e.type \in JobTypes /\ j = e.job THEN JobRow(e, now)
                                                                  ELSE db.job[j]
           /\ \A r \in Runners, s \in Streams :
                 db'.mark[r][s] = IF r = e.runner /\ s = e.stream THEN e.seq
                                                                  ELSE db.mark[r][s]
<1>1. /\ db \in [runner : [Runners -> RunnerView], job : [Jobs -> JobView],
                 mark : [Runners -> [Streams -> Nat]]]
      /\ now \in 0..MaxNow
  BY DEF TypeOK
<1> QED
  BY <1>1, ProjectIs

\* ingest of an event that advances the state: its watermark was behind the
\* event, its incidents are those its tables tell of, its job is its own.
LEMMA IngestAppliedKeeps ==
    ASSUME IInv, NEW e \in Events, Ingest(e), Accepts(db, e)
    PROVE  IInv'
<1>1. /\ e.type \in JobTypes \cup {"runner.heartbeat", "runner.offline"}
      /\ e.runner \in Runners /\ e.stream \in Streams /\ e.seq \in Nat
      /\ e.type \in JobTypes => e.job \in Jobs
      /\ e.seq > db.mark[e.runner][e.stream]
  BY AcceptedType
<1>2. /\ db' = Project(db, e, now)
      /\ UNCHANGED <<complete, now>>
      /\ jobIncidents' = IF e.type \in JobTypes THEN jobIncidents \ {e.job}
                                                ELSE jobIncidents
      /\ applied' = [applied EXCEPT ![e] = @ + 1]
      /\ shown' = IF e.type \in JobTypes
                  THEN [shown EXCEPT ![e.runner] = @ \cup {e.job}] ELSE shown
  BY DEF Ingest
<1>3. IF e.type = "runner.offline"
      THEN Opened({e.runner}, "explicit_shutdown")
      ELSE /\ incidents' = [incidents EXCEPT ![e.runner] = {}]
           /\ UNCHANGED firstIncident
  BY DEF Ingest
<1>4. /\ db.runner \in [Runners -> RunnerView] /\ db.job \in [Jobs -> JobView]
      /\ db.mark \in [Runners -> [Streams -> Nat]] /\ now \in 0..MaxNow
      /\ incidents \in [Runners -> SUBSET Conditions]
      /\ firstIncident \in [Runners -> Conditions \cup {None}]
      /\ jobIncidents \subseteq Jobs /\ complete \in BOOLEAN
      /\ applied \in [Events -> Nat] /\ shown \in [Runners -> SUBSET Jobs]
      /\ log \subseteq Entry /\ TypeOK
  BY DEF IInv, TypeOK
<1>5. /\ db' \in [runner : [Runners -> RunnerView], job : [Jobs -> JobView],
                  mark : [Runners -> [Streams -> Nat]]]
      /\ \A r \in Runners :
            db'.runner[r] = IF r = e.runner THEN RunnerRow(db.runner[r], e, now)
                                            ELSE db.runner[r]
      /\ \A j \in Jobs :
            db'.job[j] = IF e.type \in JobTypes /\ j = e.job THEN JobRow(e, now)
                                                             ELSE db.job[j]
      /\ \A r \in Runners, s \in Streams :
            db'.mark[r][s] = IF r = e.runner /\ s = e.stream THEN e.seq
                                                             ELSE db.mark[r][s]
  BY <1>2, <1>4, Applied
<1>6. TypeOK'
  <2>1. incidents' \in [Runners -> SUBSET Conditions]
    BY <1>3, <1>4 DEF Opened, Conditions
  <2>2. firstIncident' \in [Runners -> Conditions \cup {None}]
    BY <1>3, <1>4 DEF Opened, Conditions
  <2>3. log' \subseteq Entry
    <3>1. PICK n \in NewRows :
             log' = log \cup {[row |-> n, event |-> e, at |-> now, applied |-> Accepts(db, e)]}
      BY DEF Ingest
    <3>2. NewRows \subseteq Nat
      BY <1>4 DEF NewRows, Entry
    <3>3. \A b \in BOOLEAN :
             [row |-> n, event |-> e, at |-> now, applied |-> b] \in Entry
      BY <1>4, <3>2 DEF Entry
    <3>4. Accepts(db, e) \in BOOLEAN
      BY DEF Accepts, OlderAttempt
    <3> QED
      BY <1>4, <3>1, <3>3, <3>4
  <2>4. applied' \in [Events -> Nat] /\ now' \in 0..MaxNow
    BY <1>2, <1>4
  <2>5. /\ jobIncidents' \subseteq Jobs /\ complete' \in BOOLEAN
        /\ shown' \in [Runners -> SUBSET Jobs]
    BY <1>1, <1>2, <1>4
  <2> QED
    BY <1>5, <2>1, <2>2, <2>3, <2>4, <2>5 DEF TypeOK
<1>7. /\ RunnerRow(db.runner[e.runner], e, now).liveness =
            IF e.type = "runner.offline" THEN "offline" ELSE "online"
      /\ e.type = "runner.offline" =>
            RunnerRow(db.runner[e.runner], e, now).reason = "explicit_shutdown"
      /\ e.type \notin JobTypes =>
            /\ RunnerRow(db.runner[e.runner], e, now).activity = db.runner[e.runner].activity
            /\ RunnerRow(db.runner[e.runner], e, now).job = db.runner[e.runner].job
      /\ e.type \in JobTypes =>
            /\ RunnerRow(db.runner[e.runner], e, now).job = e.job
            /\ RunnerRow(db.runner[e.runner], e, now).activity =
                  IF e.type = "job.finished" THEN "idle" ELSE "running"
  BY <1>1, <1>4, RunnerRowIs
<1>8. e.type \in JobTypes =>
        /\ JobRow(e, now).liveness = "online"
        /\ JobRow(e, now).state = IF e.type = "job.finished" THEN "finished" ELSE "running"
  BY <1>4, JobRowIs
<1>9. OfflineIffIncident'
  <2>1. ASSUME NEW r \in Runners
        PROVE  /\ db'.runner[r].liveness = "offline" <=> incidents'[r] # {}
               /\ incidents'[r] # {} => db'.runner[r].reason \in incidents'[r]
    <3>1. CASE r # e.runner
      <4>1. db'.runner[r] = db.runner[r]
        BY <1>5, <3>1
      <4>2. CASE e.type = "runner.offline"
        <5>1. incidents'[r] = incidents[r] \cup {}
          BY <1>3, <3>1, <4>2 DEF Opened
        <5> QED
          BY <4>1, <5>1 DEF IInv, OfflineIffIncident
      <4>3. CASE e.type # "runner.offline"
        <5>1. incidents'[r] = incidents[r]
          BY <1>3, <1>4, <3>1, <4>3
        <5> QED
          BY <4>1, <5>1 DEF IInv, OfflineIffIncident
      <4> QED
        BY <4>2, <4>3
    <3>2. CASE r = e.runner /\ e.type = "runner.offline"
      <4>1. "explicit_shutdown" \in incidents'[r]
        BY <1>3, <1>4, <3>2 DEF Opened
      <4> QED
        BY <4>1, <1>5, <1>7, <3>2
    <3>3. CASE r = e.runner /\ e.type # "runner.offline"
      BY <1>3, <1>4, <1>5, <1>7, <3>3
    <3> QED
      BY <3>1, <3>2, <3>3
  <2>2. ASSUME NEW j \in Jobs
        PROVE  /\ db'.job[j].liveness = "offline" <=> j \in jobIncidents'
               /\ j \in jobIncidents' => db'.job[j].state = "running"
    <3>1. CASE e.type \in JobTypes /\ j = e.job
      BY <1>2, <1>5, <1>8, <3>1
    <3>2. CASE ~(e.type \in JobTypes /\ j = e.job)
      <4>1. db'.job[j] = db.job[j] /\ (j \in jobIncidents' <=> j \in jobIncidents)
        BY <1>2, <1>5, <3>2
      <4> QED
        BY <4>1 DEF IInv, OfflineIffIncident
    <3> QED
      BY <3>1, <3>2
  <2> QED
    BY <2>1, <2>2 DEF OfflineIffIncident
<1>10. AppliedAtMostOnce' /\ AppliedBehindMark'
  <2>1. applied[e] = 0
    BY <1>1, <1>4 DEF IInv, AppliedBehindMark
  <2>2. ASSUME NEW f \in Events
        PROVE  /\ applied'[f] <= 1
               /\ applied'[f] > 0 => f.seq <= db'.mark[f.runner][f.stream]
    <3>1. f.runner \in Runners /\ f.stream \in Streams /\ f.seq \in Nat
      BY ProjectionAssumption DEF ProjectionAssumption
    <3>2. db'.mark[f.runner][f.stream] \in Nat /\ db.mark[f.runner][f.stream] \in Nat
      BY <1>4, <1>5, <3>1
    <3>3. db'.mark[f.runner][f.stream] >= db.mark[f.runner][f.stream]
      BY <1>1, <1>5, <3>1, <3>2
    <3>4. CASE f = e
      BY <1>1, <1>2, <1>4, <1>5, <2>1, <3>4
    <3>5. CASE f # e
      <4>1. applied'[f] = applied[f]
        BY <1>2, <1>4, <3>5
      <4> QED
        BY <3>1, <3>2, <3>3, <4>1, <1>4 DEF IInv, AppliedAtMostOnce, AppliedBehindMark
    <3> QED
      BY <3>4, <3>5
  <2> QED
    BY <2>2 DEF AppliedAtMostOnce, AppliedBehindMark
<1>11. CurrentJobIsOwn'
  <2> SUFFICES ASSUME NEW r \in Runners, db'.runner[r].job # None
               PROVE  \E f \in Events : /\ f.type \in JobTypes
                                        /\ f.job = db'.runner[r].job
                                        /\ f.runner = r
    BY DEF CurrentJobIsOwn
  <2>1. CASE r = e.runner /\ e.type \in JobTypes
    BY <1>5, <1>7, <2>1
  <2>2. CASE ~(r = e.runner /\ e.type \in JobTypes)
    <3>1. db'.runner[r].job = db.runner[r].job
      BY <1>1, <1>5, <1>7, <2>2
    <3> QED
      BY <3>1 DEF IInv, CurrentJobIsOwn
  <2> QED
    BY <2>1, <2>2
<1>12. RunningRunnerHasRunningJob'
  <2> SUFFICES ASSUME NEW r \in Runners, db'.runner[r].activity = "running"
               PROVE  /\ db'.runner[r].job # None
                      /\ db'.job[db'.runner[r].job].state = "running"
    BY DEF RunningRunnerHasRunningJob
  <2>1. CASE r = e.runner /\ e.type \in JobTypes
    <3>1. db'.runner[r].job = e.job /\ e.type # "job.finished"
      BY <1>1, <1>5, <1>7, <2>1
    <3>2. e.job \in Jobs /\ e.job # None
      BY <1>1, <2>1, ProjectionAssumption DEF ProjectionAssumption
    <3> QED
      BY <1>5, <1>8, <2>1, <3>1, <3>2
  <2>2. CASE ~(r = e.runner /\ e.type \in JobTypes)
    <3>1. /\ db'.runner[r].job = db.runner[r].job
          /\ db.runner[r].activity = "running"
      BY <1>1, <1>5, <1>7, <2>2
    <3>2. /\ db.runner[r].job # None
          /\ db.job[db.runner[r].job].state = "running"
      BY <3>1 DEF IInv, RunningRunnerHasRunningJob
    <3>3. db.runner[r].job \in Jobs
      BY <1>4, <3>2 DEF RunnerView
    <3>4. ~(e.type \in JobTypes /\ db.runner[r].job = e.job)
      <4>1. PICK f \in Events : /\ f.type \in JobTypes /\ f.runner = r
                                /\ f.job = db.runner[r].job
        BY <3>2 DEF IInv, CurrentJobIsOwn
      <4> QED
        BY <2>2, <4>1, ProjectionAssumption DEF ProjectionAssumption
    <3> QED
      BY <1>5, <3>1, <3>2, <3>3, <3>4
  <2> QED
    BY <2>1, <2>2
<1> QED
  BY <1>6, <1>9, <1>10, <1>11, <1>12 DEF IInv


\* ingest of an event that does not advance the state: only the log grows.
LEMMA IngestLoggedKeeps ==
    ASSUME IInv, NEW e \in Events, Ingest(e), ~Accepts(db, e)
    PROVE  IInv' /\ UNCHANGED <<db, historyVars>>
<1>1. UNCHANGED <<db, alarmVars, complete, now, historyVars>>
  BY DEF Ingest, Project
<1>2. log' \subseteq Entry
  <2>1. PICK n \in NewRows :
           log' = log \cup {[row |-> n, event |-> e, at |-> now, applied |-> Accepts(db, e)]}
    BY DEF Ingest
  <2>2. log \subseteq Entry /\ now \in 0..MaxNow /\ n \in Nat
    BY DEF IInv, TypeOK, NewRows, Entry
  <2>3. \A b \in BOOLEAN :
           [row |-> n, event |-> e, at |-> now, applied |-> b] \in Entry
    BY <2>2 DEF Entry
  <2>4. Accepts(db, e) \in BOOLEAN
    BY DEF Accepts, OlderAttempt
  <2> QED
    BY <2>1, <2>2, <2>3, <2>4
<1>3. TypeOK'
  BY <1>1, <1>2 DEF IInv, TypeOK, alarmVars, historyVars
<1>4. OfflineIffIncident' /\ AppliedAtMostOnce' /\ AppliedBehindMark'
  BY <1>1 DEF IInv, OfflineIffIncident, AppliedAtMostOnce, AppliedBehindMark,
              alarmVars, historyVars
<1>5. RunningRunnerHasRunningJob' /\ CurrentJobIsOwn'
  BY <1>1 DEF IInv, RunningRunnerHasRunningJob, CurrentJobIsOwn
<1> QED
  BY <1>1, <1>3, <1>4, <1>5 DEF IInv

\* prune_history and the clock touch no table of the current state.
LEMMA OtherKeeps ==
    ASSUME IInv, PruneHistory \/ Tick \/ UNCHANGED vars
    PROVE  IInv' /\ UNCHANGED <<db, historyVars>>
<1>1. UNCHANGED <<db, alarmVars, historyVars>>
  BY DEF PruneHistory, Tick, vars
<1>2. /\ log' \subseteq log
      /\ complete' \in BOOLEAN
  BY DEF PruneHistory, Tick, vars, IInv, TypeOK
<1>3. now' \in 0..MaxNow
  BY StoreAssumption DEF PruneHistory, Tick, vars, IInv, TypeOK, StoreAssumption
<1>4. TypeOK'
  BY <1>1, <1>2, <1>3 DEF IInv, TypeOK, alarmVars, historyVars
<1>5. OfflineIffIncident' /\ AppliedAtMostOnce' /\ AppliedBehindMark'
  BY <1>1 DEF IInv, OfflineIffIncident, AppliedAtMostOnce, AppliedBehindMark,
              alarmVars, historyVars
<1>6. RunningRunnerHasRunningJob' /\ CurrentJobIsOwn'
  BY <1>1 DEF IInv, RunningRunnerHasRunningJob, CurrentJobIsOwn
<1> QED
  BY <1>1, <1>4, <1>5, <1>6 DEF IInv

\* What refresh_liveness writes into the row of a runner that fell silent: a
\* well-typed row.
LEMMA TimedOutRow ==
    ASSUME NEW row \in RunnerView
    PROVE  [row EXCEPT !.liveness = "offline", !.reason = "heartbeat_timeout"]
              \in RunnerView
  BY DEF RunnerView, Conditions

\* refresh_liveness, row by row.
LEMMA RefreshedRows ==
    ASSUME TypeOK, RefreshLiveness
    PROVE  /\ db'.mark = db.mark
           /\ \A r \in Runners :
                 db'.runner[r] = IF r \in StaleRunners
                                 THEN [db.runner[r] EXCEPT !.liveness = "offline",
                                                           !.reason = "heartbeat_timeout"]
                                 ELSE db.runner[r]
           /\ \A j \in Jobs :
                 db'.job[j] = IF j \in StaleJobs
                              THEN [db.job[j] EXCEPT !.liveness = "offline"]
                              ELSE db.job[j]
  BY DEF TypeOK, RefreshLiveness

\* refresh_liveness changes liveness and reason only, and opens the incidents
\* that go with them: what was online had none.
LEMMA RefreshKeeps ==
    ASSUME IInv, RefreshLiveness
    PROVE  /\ IInv'
           /\ \A j \in Jobs : /\ db'.job[j].state = db.job[j].state
                              /\ db'.job[j].outcome = db.job[j].outcome
<1>1. /\ db \in [runner : [Runners -> RunnerView], job : [Jobs -> JobView],
                 mark : [Runners -> [Streams -> Nat]]]
      /\ incidents \in [Runners -> SUBSET Conditions]
      /\ firstIncident \in [Runners -> Conditions \cup {None}]
      /\ jobIncidents \subseteq Jobs
  BY DEF IInv, TypeOK
<1> DEFINE timedOut(r) == [db.runner[r] EXCEPT !.liveness = "offline",
                                               !.reason = "heartbeat_timeout"]
           silent(j) == [db.job[j] EXCEPT !.liveness = "offline"]
<1>2. /\ db' = [db EXCEPT
           !.runner = [r \in Runners |-> IF r \in StaleRunners THEN timedOut(r)
                                                               ELSE db.runner[r]],
           !.job = [j \in Jobs |-> IF j \in StaleJobs THEN silent(j) ELSE db.job[j]]]
      /\ Opened(StaleRunners, "heartbeat_timeout")
      /\ jobIncidents' = jobIncidents \cup StaleJobs
      /\ UNCHANGED <<log, complete, now, historyVars>>
  BY DEF RefreshLiveness
<1>3. \A r \in Runners : /\ timedOut(r) \in RunnerView
                         /\ timedOut(r).liveness = "offline"
                         /\ timedOut(r).reason = "heartbeat_timeout"
                         /\ timedOut(r).activity = db.runner[r].activity
                         /\ timedOut(r).job = db.runner[r].job
  <2> SUFFICES ASSUME NEW r \in Runners
               PROVE  /\ timedOut(r) \in RunnerView
                      /\ timedOut(r).liveness = "offline"
                      /\ timedOut(r).reason = "heartbeat_timeout"
                      /\ timedOut(r).activity = db.runner[r].activity
                      /\ timedOut(r).job = db.runner[r].job
    OBVIOUS
  <2>1. db.runner[r] \in RunnerView
    BY <1>1
  <2>2. timedOut(r) \in RunnerView
    BY <2>1, TimedOutRow
  <2>3. /\ timedOut(r).liveness = "offline"
        /\ timedOut(r).reason = "heartbeat_timeout"
        /\ timedOut(r).activity = db.runner[r].activity
        /\ timedOut(r).job = db.runner[r].job
    BY <2>1 DEF RunnerView
  <2> QED
    BY <2>2, <2>3
<1>4. \A j \in Jobs : /\ silent(j) \in JobView
                      /\ silent(j).liveness = "offline"
                      /\ silent(j).state = db.job[j].state
                      /\ silent(j).outcome = db.job[j].outcome
  BY <1>1 DEF JobView
<1> HIDE DEF timedOut, silent
<1>5. /\ db'.runner = [r \in Runners |-> IF r \in StaleRunners THEN timedOut(r)
                                                               ELSE db.runner[r]]
      /\ db'.job = [j \in Jobs |-> IF j \in StaleJobs THEN silent(j) ELSE db.job[j]]
      /\ db'.mark = db.mark
      /\ db' = [runner |-> db'.runner, job |-> db'.job, mark |-> db'.mark]
  BY <1>1, <1>2
<1>6. /\ db.runner \in [Runners -> RunnerView] /\ db.job \in [Jobs -> JobView]
      /\ db.mark \in [Runners -> [Streams -> Nat]]
  BY <1>1
<1>7. /\ db'.runner \in [Runners -> RunnerView] /\ db'.job \in [Jobs -> JobView]
      /\ db'.mark \in [Runners -> [Streams -> Nat]]
  BY <1>3, <1>4, <1>5, <1>6
<1>8. TypeOK'
  <2>1. db' \in [runner : [Runners -> RunnerView], job : [Jobs -> JobView],
                 mark : [Runners -> [Streams -> Nat]]]
    BY <1>5, <1>7
  <2>2. incidents' \in [Runners -> SUBSET Conditions]
    BY <1>1, <1>2 DEF Opened, Conditions
  <2>3. firstIncident' \in [Runners -> Conditions \cup {None}]
    BY <1>1, <1>2 DEF Opened, Conditions
  <2>4. jobIncidents' \subseteq Jobs
    BY <1>1, <1>2 DEF StaleJobs
  <2> QED
    BY <1>2, <2>1, <2>2, <2>3, <2>4 DEF IInv, TypeOK, historyVars
<1>9. OfflineIffIncident'
  <2>1. ASSUME NEW r \in Runners
        PROVE  /\ db'.runner[r].liveness = "offline" <=> incidents'[r] # {}
               /\ incidents'[r] # {} => db'.runner[r].reason \in incidents'[r]
    <3>1. CASE r \in StaleRunners
      <4>1. "heartbeat_timeout" \in incidents'[r]
        BY <1>1, <1>2, <3>1 DEF Opened
      <4> QED
        BY <1>3, <1>5, <3>1, <4>1
    <3>2. CASE r \notin StaleRunners
      <4>1. incidents'[r] = incidents[r] \cup {}
        BY <1>1, <1>2, <3>2 DEF Opened
      <4> QED
        BY <1>5, <3>2, <4>1 DEF IInv, OfflineIffIncident
    <3> QED
      BY <3>1, <3>2
  <2>2. ASSUME NEW j \in Jobs
        PROVE  /\ db'.job[j].liveness = "offline" <=> j \in jobIncidents'
               /\ j \in jobIncidents' => db'.job[j].state = "running"
    <3>1. CASE j \in StaleJobs
      BY <1>2, <1>4, <1>5, <3>1 DEF StaleJobs
    <3>2. CASE j \notin StaleJobs
      BY <1>2, <1>5, <3>2 DEF IInv, OfflineIffIncident
    <3> QED
      BY <3>1, <3>2
  <2> QED
    BY <2>1, <2>2 DEF OfflineIffIncident
<1>10. AppliedAtMostOnce' /\ AppliedBehindMark'
  BY <1>2, <1>5 DEF IInv, AppliedAtMostOnce, AppliedBehindMark, historyVars
<1>11. \A r \in Runners : /\ db'.runner[r].activity = db.runner[r].activity
                          /\ db'.runner[r].job = db.runner[r].job
  BY <1>3, <1>5
<1>12. \A j \in Jobs : /\ db'.job[j].state = db.job[j].state
                       /\ db'.job[j].outcome = db.job[j].outcome
  BY <1>4, <1>5
<1>13. CurrentJobIsOwn'
  BY <1>11 DEF IInv, CurrentJobIsOwn
<1>14. RunningRunnerHasRunningJob'
  <2> SUFFICES ASSUME NEW r \in Runners, db'.runner[r].activity = "running"
               PROVE  /\ db'.runner[r].job # None
                      /\ db'.job[db'.runner[r].job].state = "running"
    BY DEF RunningRunnerHasRunningJob
  <2>1. /\ db.runner[r].job # None
        /\ db.job[db.runner[r].job].state = "running"
    BY <1>11 DEF IInv, RunningRunnerHasRunningJob
  <2>2. db.runner[r].job \in Jobs
    BY <1>6, <2>1 DEF RunnerView
  <2> QED
    BY <1>11, <1>12, <2>1, <2>2
<1> QED
  BY <1>8, <1>9, <1>10, <1>12, <1>13, <1>14 DEF IInv

-----------------------------------------------------------------------------
(* Theorems *)

\* Every step of the store keeps the inductive invariant: one case per action.
LEMMA StepIInv ==
    ASSUME IInv, [Next]_vars
    PROVE  IInv'
<1>1. CASE \E e \in Events : Ingest(e)
  BY <1>1, IngestAppliedKeeps, IngestLoggedKeeps
<1>2. CASE RefreshLiveness
  BY <1>2, RefreshKeeps
<1>3. CASE PruneHistory \/ Tick \/ UNCHANGED vars
  BY <1>3, OtherKeeps
<1> QED
  BY <1>1, <1>2, <1>3 DEF Next

\* Tables, watermarks, incidents and history agree in every reachable state.
THEOREM Invariance == Spec => []IInv
<1> QED
  BY InitIInv, StepIInv, PTL DEF Spec

\* The tables, the log and the incidents are well typed in every state.
THEOREM TypeCorrect == Spec => []TypeOK
<1>1. IInv => TypeOK
  BY DEF IInv
<1> QED
  BY <1>1, Invariance, PTL

\* An event advances the state at most once, however often it is delivered and
\* although prune_history forgets its id.
THEOREM AppliedOnce == Spec => []AppliedAtMostOnce
<1>1. IInv => AppliedAtMostOnce
  BY DEF IInv
<1> QED
  BY <1>1, Invariance, PTL

\* The runners and jobs shown as offline are those with an active incident.
THEOREM IncidentsMatchLiveness == Spec => []OfflineIffIncident
<1>1. IInv => OfflineIffIncident
  BY DEF IInv
<1> QED
  BY <1>1, Invariance, PTL

\* A runner shown as running has a current job that is running.
THEOREM RunnersAndJobsAgree == Spec => []RunningRunnerHasRunningJob
<1>1. IInv => RunningRunnerHasRunningJob
  BY DEF IInv
<1> QED
  BY <1>1, Invariance, PTL

\* Whatever the store does, a finished job keeps its state and its first outcome.
LEMMA OutcomeStays ==
    ASSUME IInv, [Next]_vars, NEW j \in Jobs, db.job[j].state = "finished"
    PROVE  /\ db'.job[j].state = "finished"
           /\ db'.job[j].outcome = db.job[j].outcome
<1>1. ASSUME NEW e \in Events, Ingest(e), Accepts(db, e)
      PROVE  /\ db'.job[j].state = "finished"
             /\ db'.job[j].outcome = db.job[j].outcome
  <2>1. TypeOK /\ db' = Project(db, e, now)
    BY <1>1 DEF IInv, Ingest
  <2>2. db'.job[j] = IF e.type \in JobTypes /\ j = e.job THEN JobRow(e, now)
                                                        ELSE db.job[j]
    BY <1>1, <2>1, Applied
  <2> QED
    BY <1>1, <2>2, AcceptedType
<1>2. CASE \E e \in Events : Ingest(e) /\ ~Accepts(db, e)
  BY <1>2, IngestLoggedKeeps
<1>3. CASE RefreshLiveness
  BY <1>3, RefreshKeeps
<1>4. CASE PruneHistory \/ Tick \/ UNCHANGED vars
  BY <1>4, OtherKeeps
<1> QED
  BY <1>1, <1>2, <1>3, <1>4 DEF Next

\* A finished job keeps its state and its first outcome.
THEOREM FirstOutcomeStays == Spec => TerminalNeverRegresses
<1>1. ASSUME IInv, [Next]_vars
      PROVE  [\A j \in Jobs : db.job[j].state = "finished" =>
                /\ db'.job[j].state = "finished"
                /\ db'.job[j].outcome = db.job[j].outcome]_vars
  BY <1>1, OutcomeStays
<1> QED
  BY <1>1, Invariance, PTL DEF Spec, TerminalNeverRegresses
=============================================================================
