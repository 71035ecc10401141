---------------------------- MODULE RestartProofs ----------------------------
(***************************************************************************)
(* MonitorRestart, for any events, clock, number of rows and restarts: the *)
(* store that is restarted again and again implements the one that never   *)
(* stops.  What replay rebuilds from the log is, row by row, what ingest   *)
(* wrote, and what the log cannot tell is put back from the incidents.     *)
(***************************************************************************)
EXTENDS MonitorRestart, MonitorProofs, FiniteSetTheorems

-----------------------------------------------------------------------------
(* The loop of replay *)

\* The recursion of Replayed defines a function: prefixes of it exist for every
\* row and agree where they overlap.
LEMMA ReplayedIs ==
    ASSUME NEW rows
    PROVE  Replayed(rows) =
             [n \in Nat |-> IF n = 0 THEN EmptyDb
                            ELSE ReplayRow(rows, n, Replayed(rows)[n - 1])]
<1> DEFINE Prefix(h, n) ==
             h = [i \in 0 .. n |-> IF i = 0 THEN EmptyDb ELSE ReplayRow(rows, i, h[i - 1])]
           Some(n) == CHOOSE h : Prefix(h, n)
           F == [n \in Nat |-> Some(n)[n]]
<1>1. ASSUME NEW n \in Nat, NEW m \in Nat, NEW h, NEW k, Prefix(h, n), Prefix(k, m)
      PROVE  \A i \in Nat : i <= n /\ i <= m => h[i] = k[i]
  <2> DEFINE Differ == {i \in Nat : i <= n /\ i <= m /\ h[i] # k[i]}
  <2>1. ASSUME Differ # {} PROVE FALSE
    <3>1. PICK i \in Differ : \A j \in Differ : i <= j
      BY <2>1, LeastNumber
    <3>2. i \in Nat /\ i <= n /\ i <= m /\ h[i] # k[i]
      BY <3>1
    <3>3. /\ h[i] = IF i = 0 THEN EmptyDb ELSE ReplayRow(rows, i, h[i - 1])
          /\ k[i] = IF i = 0 THEN EmptyDb ELSE ReplayRow(rows, i, k[i - 1])
      BY <1>1, <3>2
    <3>4. i # 0 => h[i - 1] = k[i - 1]
      BY <3>1, <3>2
    <3> QED
      BY <3>2, <3>3, <3>4
  <2> QED
    BY <2>1
<1>2. \A n \in Nat : Prefix(Some(n), n)
  <2> DEFINE Without == {n \in Nat : ~\E h : Prefix(h, n)}
  <2>1. ASSUME Without # {} PROVE FALSE
    <3>1. PICK n \in Without : \A m \in Without : n <= m
      BY <2>1, LeastNumber
    <3>2. CASE n = 0
      <4>1. Prefix([i \in 0 .. 0 |-> EmptyDb], 0)
        OBVIOUS
      <4> QED
        BY <3>1, <3>2, <4>1
    <3>3. CASE n # 0
      <4>1. n - 1 \in Nat /\ n - 1 \notin Without
        BY <3>1, <3>3
      <4>2. PICK g : Prefix(g, n - 1)
        BY <4>1
      <4> DEFINE h == [i \in 0 .. n |-> IF i = 0 THEN EmptyDb
                                        ELSE ReplayRow(rows, i, g[i - 1])]
      <4>3. \A i \in 0 .. n - 1 : h[i] = g[i]
        BY <3>1, <4>2
      <4>4. ASSUME NEW i \in 0 .. n, i # 0
            PROVE  ReplayRow(rows, i, g[i - 1]) = ReplayRow(rows, i, h[i - 1])
        <5>1. i - 1 \in 0 .. n - 1
          BY <3>1, <4>4
        <5> HIDE DEF h
        <5> QED
          BY <4>3, <5>1
      <4>5. h = [i \in 0 .. n |-> IF i = 0 THEN EmptyDb ELSE ReplayRow(rows, i, h[i - 1])]
        BY <4>4
      <4> QED
        BY <3>1, <4>5
    <3> QED
      BY <3>2, <3>3
  <2>2. \A n \in Nat : \E h : Prefix(h, n)
    BY <2>1
  <2> QED
    BY <2>2
<1>3. ASSUME NEW n \in Nat
      PROVE  F[n] = IF n = 0 THEN EmptyDb ELSE ReplayRow(rows, n, F[n - 1])
  <2> HIDE DEF Some
  <2>1. Prefix(Some(n), n)
    BY <1>2
  <2>2. Some(n)[n] = IF n = 0 THEN EmptyDb ELSE ReplayRow(rows, n, Some(n)[n - 1])
    BY <2>1
  <2>3. ASSUME n # 0 PROVE Some(n)[n - 1] = Some(n - 1)[n - 1]
    <3>1. n - 1 \in Nat
      BY <2>3
    <3>2. Prefix(Some(n - 1), n - 1)
      BY <1>2, <3>1
    <3> HIDE DEF Prefix
    <3> QED
      BY <1>1, <2>1, <3>1, <3>2
  <2>4. F[n] = Some(n)[n] /\ (n # 0 => F[n - 1] = Some(n - 1)[n - 1])
    OBVIOUS
  <2> QED
    BY <2>2, <2>3, <2>4
<1>4. \E f : f = [n \in Nat |-> IF n = 0 THEN EmptyDb ELSE ReplayRow(rows, n, f[n - 1])]
  <2>1. F = [n \in Nat |-> IF n = 0 THEN EmptyDb ELSE ReplayRow(rows, n, F[n - 1])]
    <3> HIDE DEF Some
    <3>1. F = [n \in Nat |-> F[n]]
      OBVIOUS
    <3> HIDE DEF F
    <3> QED
      BY <1>3, <3>1
  <2> QED
    BY <2>1
<1> QED
  BY <1>4 DEF Replayed

\* Replay up to a row looks at the rows up to it only.
LEMMA ReplayDependsOnRowsBelow ==
    ASSUME NEW A, NEW B, NEW n \in Nat,
           \A i \in 1 .. n : \A d : ReplayRow(A, i, d) = ReplayRow(B, i, d)
    PROVE  Replayed(A)[n] = Replayed(B)[n]
<1> DEFINE Differ == {i \in 0 .. n : Replayed(A)[i] # Replayed(B)[i]}
<1>1. ASSUME Differ # {} PROVE FALSE
  <2>1. PICK i \in Differ : \A j \in Differ : i <= j
    <3>1. Differ \in SUBSET Nat
      OBVIOUS
    <3> HIDE DEF Differ
    <3> QED
      BY <1>1, <3>1, LeastNumber
  <2>2. /\ Replayed(A)[i] = IF i = 0 THEN EmptyDb ELSE ReplayRow(A, i, Replayed(A)[i - 1])
        /\ Replayed(B)[i] = IF i = 0 THEN EmptyDb ELSE ReplayRow(B, i, Replayed(B)[i - 1])
    BY ReplayedIs
  <2>3. i # 0 => Replayed(A)[i - 1] = Replayed(B)[i - 1]
    BY <2>1
  <2> QED
    BY <2>1, <2>2, <2>3
<1> QED
  BY <1>1

-----------------------------------------------------------------------------
(* The log and what replay makes of it *)

\* Rebuilt is what the rows up to the last one make of empty tables.
LEMMA RebuiltIs ==
    ASSUME NEW S, NEW n \in Nat, n = 0 \/ \E x \in S : x.row = n,
           \A x \in S : x.row \in Nat /\ x.row <= n
    PROVE  Rebuilt(S) = Replayed(S)[n]
<1> DEFINE numbers == {0} \cup {x.row : x \in S}
<1>1. n \in numbers /\ \A m \in numbers : m \in Nat /\ m <= n
  OBVIOUS
<1>2. \A m \in numbers : (\A k \in numbers : m >= k) => m = n
  BY <1>1
<1>3. Max(numbers) = n
  <2> HIDE DEF numbers
  <2> QED
    BY <1>1, <1>2 DEF Max
<1> QED
  BY <1>3 DEF Rebuilt

\* A row that is added behind all others is applied to what the others make.
LEMMA RebuiltAppended ==
    ASSUME NEW S, NEW n \in Nat \ {0}, NEW x, x.row = n,
           \A y \in S : y.row \in 1 .. n - 1,
           n = 1 \/ \E y \in S : y.row = n - 1,
           \A y, z \in S : y.row = z.row => y = z
    PROVE  /\ Rebuilt(S \cup {x}) = Project(Rebuilt(S), x.event, x.at)
           /\ \A i \in 0 .. n - 1 : Replayed(S \cup {x})[i] = Replayed(S)[i]
           /\ Replayed(S)[n - 1] = Rebuilt(S)
<1> DEFINE T == S \cup {x}
<1>1. Rebuilt(S) = Replayed(S)[n - 1]
  <2>1. n - 1 \in Nat /\ \A y \in S : y.row \in Nat /\ y.row <= n - 1
    OBVIOUS
  <2>2. n - 1 = 0 \/ \E y \in S : y.row = n - 1
    OBVIOUS
  <2> QED
    BY <2>1, <2>2, RebuiltIs
<1>2. Rebuilt(T) = Replayed(T)[n]
  <2>1. \A y \in T : y.row \in Nat /\ y.row <= n
    OBVIOUS
  <2>2. \E y \in T : y.row = n
    OBVIOUS
  <2> HIDE DEF T
  <2> QED
    BY <2>1, <2>2, RebuiltIs
<1>3. \A i \in 1 .. n - 1 : \A d : ReplayRow(T, i, d) = ReplayRow(S, i, d)
  <2> SUFFICES ASSUME NEW i \in 1 .. n - 1, NEW d
               PROVE  ReplayRow(T, i, d) = ReplayRow(S, i, d)
    OBVIOUS
  <2>1. \A y : y \in T /\ y.row = i <=> y \in S /\ y.row = i
    OBVIOUS
  <2>2. CASE \E y \in S : y.row = i
    <3>1. RowAt(S, i) = RowAt(T, i)
      <4>1. PICK y \in S : y.row = i
        BY <2>2
      <4>2. \A z : z \in S /\ z.row = i <=> z = y
        BY <4>1
      <4>3. \A z : z \in T /\ z.row = i <=> z = y
        BY <2>1, <4>2
      <4> HIDE DEF T
      <4>4. RowAt(S, i) = y
        BY <4>2 DEF RowAt
      <4>5. RowAt(T, i) = y
        BY <4>3 DEF RowAt
      <4> QED
        BY <4>4, <4>5
    <3> QED
      BY <2>1, <2>2, <3>1 DEF ReplayRow
  <2>3. CASE ~\E y \in S : y.row = i
    BY <2>1, <2>3 DEF ReplayRow
  <2> QED
    BY <2>2, <2>3
<1>4. \A i \in 0 .. n - 1 : Replayed(T)[i] = Replayed(S)[i]
  <2> SUFFICES ASSUME NEW i \in 0 .. n - 1 PROVE Replayed(T)[i] = Replayed(S)[i]
    OBVIOUS
  <2> HIDE DEF T
  <2>1. \A k \in 1 .. i : \A d : ReplayRow(T, k, d) = ReplayRow(S, k, d)
    BY <1>3
  <2> QED
    BY <2>1, ReplayDependsOnRowsBelow
<1>5. \A d : ReplayRow(T, n, d) = Project(d, x.event, x.at)
  <2>1. \A z : z \in T /\ z.row = n <=> z = x
    OBVIOUS
  <2> HIDE DEF T
  <2>2. RowAt(T, n) = x
    BY <2>1 DEF RowAt
  <2> QED
    BY <2>1, <2>2 DEF ReplayRow
<1>6. Replayed(T)[n] = ReplayRow(T, n, Replayed(T)[n - 1])
  <2> HIDE DEF T
  <2> QED
    BY ReplayedIs
<1>7. Rebuilt(T) = Project(Replayed(S)[n - 1], x.event, x.at)
  <2>1. n - 1 \in 0 .. n - 1
    OBVIOUS
  <2> HIDE DEF T
  <2> QED
    BY <2>1, <1>2, <1>4, <1>5, <1>6
<1> QED
  BY <1>1, <1>4, <1>7

\* _upsert_runner sets the same fields whatever the row was before.
LEMMA RunnerRowFields ==
    ASSUME NEW row \in RunnerView, NEW e \in Events, NEW at \in 0..MaxNow,
           e.type \in JobTypes \cup {"runner.heartbeat", "runner.offline"}
    PROVE  /\ RunnerRow(row, e, at).seen = at
           /\ RunnerRow(row, e, at).outcome =
                 IF e.type = "job.finished" THEN e.outcome ELSE row.outcome
           /\ RunnerRow(row, e, at).reason =
                 IF e.type = "runner.offline" THEN "explicit_shutdown" ELSE None
<1>1. CASE e.type = "runner.heartbeat"
  BY <1>1 DEF RunnerRow, RunnerView
<1>2. CASE e.type = "runner.offline"
  BY <1>2 DEF RunnerRow, RunnerView
<1>3. CASE e.type \in {"job.started", "job.heartbeat"}
  BY <1>3 DEF RunnerRow, RunnerView
<1>4. CASE e.type = "job.finished"
  BY <1>4 DEF RunnerRow, RunnerView
<1> QED
  BY <1>1, <1>2, <1>3, <1>4 DEF JobTypes

\* Tables that replay rebuilt accept the events that the store's tables accept.
LEMMA RetoldAccepts ==
    ASSUME NEW d, Retold(d), NEW e \in Events
    PROVE  Accepts(d, e) = Accepts(db, e)
<1>1. /\ e.runner \in Runners /\ e.stream \in Streams
      /\ e.type \in JobTypes => e.job \in Jobs
  BY ProjectionAssumption DEF ProjectionAssumption
<1>2. d.mark[e.runner][e.stream] = db.mark[e.runner][e.stream]
  BY DEF Retold
<1>3. e.type \in JobTypes => d.job[e.job].state = db.job[e.job].state
  BY <1>1 DEF Retold
<1>4. d.runner[e.runner].job = db.runner[e.runner].job
  BY <1>1 DEF Retold
<1> QED
  BY <1>2, <1>3, <1>4 DEF Accepts, OlderAttempt

\* ... and agree with the store's after each of them.
LEMMA RetoldAdvances ==
    ASSUME TypeOK, NEW d, Retold(d), NEW e \in Events, Accepts(db, e),
           db' = Project(db, e, now), NEW next, next = Project(d, e, now)
    PROVE  Retold(next)'
<1>1. /\ e.type \in JobTypes \cup {"runner.heartbeat", "runner.offline"}
      /\ e.runner \in Runners /\ e.stream \in Streams
      /\ e.type \in JobTypes => e.job \in Jobs
  BY AcceptedType
<1>2. /\ db \in [runner : [Runners -> RunnerView], job : [Jobs -> JobView],
                 mark : [Runners -> [Streams -> Nat]]]
      /\ d \in [runner : [Runners -> RunnerView], job : [Jobs -> JobView],
                mark : [Runners -> [Streams -> Nat]]]
      /\ now \in 0..MaxNow
  BY DEF TypeOK, Retold
<1>3. /\ db' \in [runner : [Runners -> RunnerView], job : [Jobs -> JobView],
                  mark : [Runners -> [Streams -> Nat]]]
      /\ \A r \in Runners :
            db'.runner[r] = IF r = e.runner THEN RunnerRow(db.runner[r], e, now)
                                            ELSE db.runner[r]
      /\ \A j \in Jobs :
            db'.job[j] = IF e.type \in JobTypes /\ j = e.job THEN JobRow(e, now)
                                                             ELSE db.job[j]
      /\ \A r \in Runners, s \in Streams :
            db'.mark[r][s] = IF r = e.runner /\ s = e.stream THEN e.seq
                                                             ELSE db.mark[r][s]
  BY Applied
<1>4. Accepts(d, e)
  BY RetoldAccepts
<1>5. /\ next \in [runner : [Runners -> RunnerView], job : [Jobs -> JobView],
                   mark : [Runners -> [Streams -> Nat]]]
      /\ \A r \in Runners :
            next.runner[r] = IF r = e.runner THEN RunnerRow(d.runner[r], e, now)
                                             ELSE d.runner[r]
      /\ \A j \in Jobs :
            next.job[j] = IF e.type \in JobTypes /\ j = e.job THEN JobRow(e, now)
                                                              ELSE d.job[j]
      /\ \A r \in Runners, s \in Streams :
            next.mark[r][s] = IF r = e.runner /\ s = e.stream THEN e.seq
                                                              ELSE d.mark[r][s]
  BY <1>2, <1>4, ProjectIs
<1>6. next.mark = db'.mark
  <2>1. \A r \in Runners, s \in Streams : next.mark[r][s] = db'.mark[r][s]
    BY <1>3, <1>5 DEF Retold
  <2>2. next.mark \in [Runners -> [Streams -> Nat]] /\ db'.mark \in [Runners -> [Streams -> Nat]]
    BY <1>3, <1>5
  <2> QED
    BY <2>1, <2>2
<1>7. ASSUME NEW j \in Jobs
      PROVE  /\ next.job[j].state = db'.job[j].state
             /\ next.job[j].outcome = db'.job[j].outcome
             /\ next.job[j].seen = db'.job[j].seen
             /\ next.job[j].liveness = "online"
  BY <1>2, <1>3, <1>5, JobRowIs DEF Retold
<1>8. ASSUME NEW r \in Runners
      PROVE  /\ next.runner[r].activity = db'.runner[r].activity
             /\ next.runner[r].seen = db'.runner[r].seen
             /\ next.runner[r].job = db'.runner[r].job
             /\ next.runner[r].outcome = db'.runner[r].outcome
             /\ next.runner[r].liveness = "unseen" <=> db'.runner[r].liveness = "unseen"
             /\ next.runner[r].liveness = "offline" => db'.runner[r].liveness = "offline"
             /\ next.runner[r].liveness # "offline" => next.runner[r].reason = None
  <2>1. CASE r = e.runner
    <3>1. db.runner[r] \in RunnerView /\ d.runner[r] \in RunnerView
      BY <1>2
    <3> DEFINE new == RunnerRow(db.runner[r], e, now)
               new2 == RunnerRow(d.runner[r], e, now)
    <3>2. db'.runner[r] = new /\ next.runner[r] = new2
      BY <1>3, <1>5, <2>1
    <3>3. /\ new.liveness = IF e.type = "runner.offline" THEN "offline" ELSE "online"
          /\ new2.liveness = IF e.type = "runner.offline" THEN "offline" ELSE "online"
          /\ e.type \notin JobTypes => /\ new.activity = db.runner[r].activity
                                       /\ new.job = db.runner[r].job
                                       /\ new2.activity = d.runner[r].activity
                                       /\ new2.job = d.runner[r].job
          /\ e.type \in JobTypes => new.activity = new2.activity /\ new.job = new2.job
      BY <1>1, <1>2, <3>1, RunnerRowIs
    <3>4. /\ new.seen = new2.seen
          /\ new.outcome = IF e.type = "job.finished" THEN e.outcome ELSE db.runner[r].outcome
          /\ new2.outcome = IF e.type = "job.finished" THEN e.outcome ELSE d.runner[r].outcome
          /\ new2.reason = IF e.type = "runner.offline" THEN "explicit_shutdown" ELSE None
      BY <1>1, <1>2, <3>1, RunnerRowFields
    <3>5. /\ d.runner[r].activity = db.runner[r].activity
          /\ d.runner[r].job = db.runner[r].job
          /\ d.runner[r].outcome = db.runner[r].outcome
      BY DEF Retold
    <3> HIDE DEF new, new2
    <3> QED
      BY <3>2, <3>3, <3>4, <3>5
  <2>2. CASE r # e.runner
    <3>1. db'.runner[r] = db.runner[r] /\ next.runner[r] = d.runner[r]
      BY <1>3, <1>5, <2>2
    <3> QED
      BY <3>1 DEF Retold
  <2> QED
    BY <2>1, <2>2
<1> QED
  BY <1>5, <1>6, <1>7, <1>8 DEF Retold

-----------------------------------------------------------------------------
(* The inductive invariant: the store while it serves *)

\* An empty store has nothing to retell.
LEMMA InitRestartIInv == RestartInit => RestartIInv
<1> SUFFICES ASSUME RestartInit PROVE RestartIInv
  OBVIOUS
<1>1. IInv
  BY InitIInv DEF RestartInit
<1>2. /\ log = {} /\ db = EmptyDb /\ incidents = [r \in Runners |-> {}]
      /\ told = [r \in Runners |-> None]
  BY DEF RestartInit, Init
<1>3. RowsOrdered
  BY <1>2 DEF RowsOrdered
<1>4. Rebuilt(log) = EmptyDb
  <2>1. Rebuilt(log) = Replayed(log)[0]
    <3>1. 0 \in Nat /\ \A x \in log : x.row \in Nat /\ x.row <= 0
      BY <1>2
    <3> QED
      BY <3>1, RebuiltIs
  <2>2. Replayed(log)[0] = EmptyDb
    BY ReplayedIs
  <2> QED
    BY <2>1, <2>2
<1>5. Retold(EmptyDb)
  <2>1. EmptyDb \in [runner : [Runners -> RunnerView], job : [Jobs -> JobView],
                     mark : [Runners -> [Streams -> Nat]]]
    BY <1>1, <1>2 DEF IInv, TypeOK
  <2>2. \A j \in Jobs : EmptyDb.job[j].liveness = "online"
    BY DEF EmptyDb
  <2>3. \A r \in Runners : /\ EmptyDb.runner[r].liveness = "unseen"
                           /\ EmptyDb.runner[r].reason = None
    BY DEF EmptyDb
  <2> QED
    BY <1>2, <2>1, <2>2, <2>3 DEF Retold
<1>6. LogTells
  BY <1>2, <1>4, <1>5 DEF LogTells
<1>7. IncidentsTell /\ OnlyGoodbyeForgotten
  BY <1>2 DEF IncidentsTell, OnlyGoodbyeForgotten, EmptyDb
<1> QED
  BY <1>1, <1>3, <1>6, <1>7 DEF RestartIInv

\* The row that ingest adds is the last one, and right behind the one before it.
LEMMA IngestAddsRow ==
    ASSUME TypeOK, RowsOrdered, NEW e \in Events, Ingest(e)
    PROVE  \E n \in Nat \ {0} :
             /\ log' = log \cup {[row |-> n, event |-> e, at |-> now,
                                  applied |-> Accepts(db, e)]}
             /\ \A y \in log : y.row \in 1 .. n - 1
             /\ complete => n = 1 \/ \E y \in log : y.row = n - 1
<1>1. PICK n \in NewRows :
         /\ NextRow(n)
         /\ log' = log \cup {[row |-> n, event |-> e, at |-> now,
                              applied |-> Accepts(db, e)]}
  BY DEF Ingest
<1>2. \A y \in log : y.row \in Nat \ {0}
  BY DEF RowsOrdered, TypeOK, Entry
<1>3. n \in Nat \ {0}
  BY <1>1, <1>2 DEF NewRows
<1>4. \A y \in log : y.row \in 1 .. n - 1
  BY <1>1, <1>2, <1>3 DEF NextRow
<1>5. ASSUME complete, n # 1 PROVE \E y \in log : y.row = n - 1
  BY <1>1, <1>2, <1>5 DEF NewRows
<1> QED
  BY <1>1, <1>3, <1>4, <1>5

\* Rows stay in order, and replay tells of the event what ingest made of it.
LEMMA IngestIsRetold ==
    ASSUME RestartIInv, NEW e \in Events, Ingest(e)
    PROVE  RowsOrdered' /\ LogTells'
<1>1. TypeOK /\ RowsOrdered /\ LogTells
  BY DEF RestartIInv, IInv
<1>2. PICK n \in Nat \ {0} :
         /\ log' = log \cup {[row |-> n, event |-> e, at |-> now,
                              applied |-> Accepts(db, e)]}
         /\ \A y \in log : y.row \in 1 .. n - 1
         /\ complete => n = 1 \/ \E y \in log : y.row = n - 1
  BY <1>1, IngestAddsRow
<1> DEFINE x == [row |-> n, event |-> e, at |-> now, applied |-> Accepts(db, e)]
<1>3. x.row = n /\ x.event = e /\ x.at = now /\ x.applied = Accepts(db, e)
  OBVIOUS
<1>4. log' = log \cup {x} /\ db' = Project(db, e, now) /\ complete' = complete
  BY <1>2 DEF Ingest
<1> HIDE DEF x
<1>5. \A y, z \in log : y.row = z.row => y = z
  BY <1>1 DEF RowsOrdered
<1>6. RowsOrdered'
  <2>1. \A y \in log' : y.row > 0
    BY <1>2, <1>3, <1>4
  <2>2. \A y, z \in log' : y.row = z.row => y = z
    BY <1>2, <1>3, <1>4, <1>5
  <2>3. \A y \in log' : y.row <= x.row
    BY <1>2, <1>3, <1>4
  <2> QED
    BY <1>4, <2>1, <2>2, <2>3 DEF RowsOrdered
<1>7. ASSUME complete' PROVE Retold(Rebuilt(log))' /\ \A y \in log' :
                y.applied = Accepts(Replayed(log')[y.row - 1], y.event)
  <2>1. complete
    BY <1>4, <1>7
  <2>2. n = 1 \/ \E y \in log : y.row = n - 1
    BY <1>2, <2>1
  <2>3. /\ Rebuilt(log') = Project(Rebuilt(log), e, now)
        /\ \A i \in 0 .. n - 1 : Replayed(log')[i] = Replayed(log)[i]
        /\ Replayed(log)[n - 1] = Rebuilt(log)
    <3>1. /\ Rebuilt(log \cup {x}) = Project(Rebuilt(log), x.event, x.at)
          /\ \A i \in 0 .. n - 1 : Replayed(log \cup {x})[i] = Replayed(log)[i]
          /\ Replayed(log)[n - 1] = Rebuilt(log)
      <4>1. x.row = n /\ n \in Nat \ {0}
        BY <1>3
      <4>2. \A y \in log : y.row \in 1 .. n - 1
        BY <1>2
      <4> QED
        BY <1>5, <2>2, <4>1, <4>2, RebuiltAppended
    <3> QED
      BY <1>3, <1>4, <3>1
  <2>4. Retold(Rebuilt(log))
    BY <1>1, <2>1 DEF LogTells
  <2>5. Accepts(Rebuilt(log), e) = Accepts(db, e)
    BY <2>4, RetoldAccepts
  <2>6. Retold(Rebuilt(log))'
    <3>1. CASE Accepts(db, e)
      BY <1>1, <1>4, <2>3, <2>4, <3>1, RetoldAdvances
    <3>2. CASE ~Accepts(db, e)
      <4>1. db' = db /\ Rebuilt(log') = Rebuilt(log)
        BY <1>4, <2>3, <2>5, <3>2 DEF Project
      <4> QED
        BY <2>4, <4>1 DEF Retold
    <3> QED
      BY <3>1, <3>2
  <2>7. ASSUME NEW y \in log'
        PROVE  y.applied = Accepts(Replayed(log')[y.row - 1], y.event)
    <3>1. CASE y \in log
      <4>1. y.row - 1 \in 0 .. n - 1
        BY <1>2, <3>1
      <4>2. Replayed(log')[y.row - 1] = Replayed(log)[y.row - 1]
        BY <2>3, <4>1
      <4> QED
        BY <1>1, <2>1, <3>1, <4>2 DEF LogTells
    <3>2. CASE y = x
      <4>1. n - 1 \in 0 .. n - 1
        OBVIOUS
      <4>2. Replayed(log')[n - 1] = Rebuilt(log)
        BY <2>3, <4>1
      <4> QED
        BY <1>3, <2>5, <3>2, <4>2
    <3> QED
      BY <1>4, <2>7, <3>1, <3>2
  <2> QED
    BY <2>6, <2>7
<1>8. LogTells'
  BY <1>7 DEF LogTells
<1> QED
  BY <1>6, <1>8


\* The reason events and timeouts gave, after a step.
LEMMA ToldAfter ==
    ASSUME Serving, NEW r \in Runners
    PROVE  told'[r] = IF db'.runner[r] = db.runner[r] THEN told[r]
                      ELSE db'.runner[r].reason
  BY DEF Serving

\* An event of a runner is the last word about it, and its incidents tell so.
LEMMA IngestTellsReason ==
    ASSUME RestartIInv, NEW e \in Events, Ingest(e), Serving
    PROVE  /\ IncidentsTell' /\ OnlyGoodbyeForgotten'
           /\ Accepts(db, e) => db'.runner[e.runner].reason = told'[e.runner]
<1>1. TypeOK /\ OfflineIffIncident /\ IncidentsTell /\ OnlyGoodbyeForgotten
  BY DEF RestartIInv, IInv
<1>2. CASE ~Accepts(db, e)
  <2>1. db' = db /\ incidents' = incidents
    BY <1>2 DEF Ingest, Project, alarmVars
  <2>2. \A r \in Runners : told'[r] = told[r]
    BY <2>1, ToldAfter
  <2> QED
    BY <1>1, <1>2, <2>1, <2>2 DEF IncidentsTell, OnlyGoodbyeForgotten
<1>3. CASE Accepts(db, e)
  <2>1. /\ e.runner \in Runners
        /\ e.type \in JobTypes \cup {"runner.heartbeat", "runner.offline"}
    BY <1>3, AcceptedType
  <2>2. /\ db \in [runner : [Runners -> RunnerView], job : [Jobs -> JobView],
                   mark : [Runners -> [Streams -> Nat]]]
        /\ incidents \in [Runners -> SUBSET Conditions] /\ now \in 0..MaxNow
    BY <1>1 DEF TypeOK
  <2>3. \A r \in Runners :
           db'.runner[r] = IF r = e.runner THEN RunnerRow(db.runner[r], e, now)
                                           ELSE db.runner[r]
    BY <1>1, <1>3, Applied DEF Ingest
  <2>4. \A r \in Runners :
           incidents'[r] = IF r # e.runner THEN incidents[r]
                           ELSE IF e.type = "runner.offline"
                                THEN incidents[r] \cup {"explicit_shutdown"} ELSE {}
    <3>1. CASE e.type = "runner.offline"
      <4>1. incidents' = [r \in Runners |->
               incidents[r] \cup (IF r \in {e.runner} THEN {"explicit_shutdown"} ELSE {})]
        BY <1>3, <3>1 DEF Ingest, Opened
      <4> QED
        BY <3>1, <4>1
    <3>2. CASE e.type # "runner.offline"
      <4>1. incidents' = [incidents EXCEPT ![e.runner] = {}]
        BY <1>3, <3>2 DEF Ingest
      <4> QED
        BY <2>2, <3>2, <4>1
    <3> QED
      BY <3>1, <3>2
  <2>5. ASSUME NEW r \in Runners, r # e.runner
        PROVE  /\ db'.runner[r] = db.runner[r] /\ incidents'[r] = incidents[r]
               /\ told'[r] = told[r]
    BY <2>3, <2>4, <2>5, ToldAfter
  <2>6. LET r == e.runner
        IN /\ db'.runner[r].reason = told'[r]
           /\ told'[r] = IF e.type = "runner.offline" THEN "explicit_shutdown" ELSE None
    <3> DEFINE row == db.runner[e.runner]
               new == RunnerRow(row, e, now)
    <3>1. row \in RunnerView
      BY <2>1, <2>2
    <3>2. new.reason = IF e.type = "runner.offline" THEN "explicit_shutdown" ELSE None
      BY <2>1, <2>2, <3>1, RunnerRowFields
    <3>3. new.liveness = IF e.type = "runner.offline" THEN "offline" ELSE "online"
      BY <2>1, <2>2, <3>1, RunnerRowIs
    <3>4. db'.runner[e.runner] = new
      BY <2>1, <2>3
    <3>5. CASE new # row
      BY <2>1, <3>2, <3>4, <3>5, ToldAfter
    <3>6. CASE new = row /\ e.type = "runner.offline"
      <4>1. told[e.runner] = "explicit_shutdown"
        BY <1>1, <2>1, <3>2, <3>6 DEF OnlyGoodbyeForgotten
      <4> QED
        BY <2>1, <3>2, <3>4, <3>6, <4>1, ToldAfter
    <3>7. CASE new = row /\ e.type # "runner.offline"
      <4>1. incidents[e.runner] = {}
        BY <1>1, <2>1, <3>3, <3>7 DEF OfflineIffIncident
      <4>2. told[e.runner] = None
        BY <1>1, <2>1, <4>1 DEF IncidentsTell
      <4> QED
        BY <2>1, <3>2, <3>4, <3>7, <4>2, ToldAfter
    <3> QED
      BY <3>5, <3>6, <3>7
  <2>7. IncidentsTell'
    <3>1. ASSUME NEW r \in Runners
          PROVE  told'[r] = IF incidents'[r] = {} THEN None
                            ELSE IF "explicit_shutdown" \in incidents'[r]
                            THEN "explicit_shutdown" ELSE "heartbeat_timeout"
      <4>1. CASE r = e.runner
        BY <2>4, <2>6, <4>1
      <4>2. CASE r # e.runner
        BY <1>1, <2>5, <4>2 DEF IncidentsTell
      <4> QED
        BY <4>1, <4>2
    <3> QED
      BY <3>1 DEF IncidentsTell
  <2>8. OnlyGoodbyeForgotten'
    <3>1. ASSUME NEW r \in Runners, db'.runner[r].reason # told'[r]
          PROVE  /\ told'[r] = "explicit_shutdown"
                 /\ db'.runner[r].reason = "heartbeat_timeout"
                 /\ incidents'[r] = Conditions
      <4>1. r # e.runner
        BY <2>6, <3>1
      <4> QED
        BY <1>1, <2>5, <3>1, <4>1 DEF OnlyGoodbyeForgotten
    <3> QED
      BY <3>1 DEF OnlyGoodbyeForgotten
  <2> QED
    BY <2>6, <2>7, <2>8
<1> QED
  BY <1>2, <1>3

\* Timeouts put the tables ahead of the log, in liveness and reason only.
LEMMA RefreshIsRetold ==
    ASSUME TypeOK, RefreshLiveness, NEW d, Retold(d)
    PROVE  Retold(d)'
<1>1. /\ db'.mark = db.mark
      /\ \A r \in Runners :
            db'.runner[r] = IF r \in StaleRunners
                            THEN [db.runner[r] EXCEPT !.liveness = "offline",
                                                      !.reason = "heartbeat_timeout"]
                            ELSE db.runner[r]
      /\ \A j \in Jobs :
            db'.job[j] = IF j \in StaleJobs
                         THEN [db.job[j] EXCEPT !.liveness = "offline"]
                         ELSE db.job[j]
  BY RefreshedRows
<1>2. ASSUME NEW j \in Jobs
      PROVE  /\ db'.job[j].state = db.job[j].state
             /\ db'.job[j].outcome = db.job[j].outcome
             /\ db'.job[j].seen = db.job[j].seen
  <2>1. db.job[j] \in JobView
    BY DEF TypeOK
  <2> QED
    BY <1>1, <2>1 DEF JobView
<1>3. ASSUME NEW r \in Runners
      PROVE  /\ db'.runner[r].activity = db.runner[r].activity
             /\ db'.runner[r].seen = db.runner[r].seen
             /\ db'.runner[r].job = db.runner[r].job
             /\ db'.runner[r].outcome = db.runner[r].outcome
             /\ db'.runner[r].liveness =
                   IF r \in StaleRunners THEN "offline" ELSE db.runner[r].liveness
  <2>1. db.runner[r] \in RunnerView
    BY DEF TypeOK
  <2> QED
    BY <1>1, <2>1 DEF RunnerView
<1>4. \A r \in StaleRunners : db.runner[r].liveness = "online"
  BY DEF StaleRunners
<1>5. /\ d \in [runner : [Runners -> RunnerView], job : [Jobs -> JobView],
                mark : [Runners -> [Streams -> Nat]]]
      /\ d.mark = db'.mark
  BY <1>1 DEF Retold
<1>6. ASSUME NEW j \in Jobs
      PROVE  /\ d.job[j].state = db'.job[j].state
             /\ d.job[j].outcome = db'.job[j].outcome
             /\ d.job[j].seen = db'.job[j].seen
             /\ d.job[j].liveness = "online"
  BY <1>2 DEF Retold
<1>7. ASSUME NEW r \in Runners
      PROVE  /\ d.runner[r].activity = db'.runner[r].activity
             /\ d.runner[r].seen = db'.runner[r].seen
             /\ d.runner[r].job = db'.runner[r].job
             /\ d.runner[r].outcome = db'.runner[r].outcome
             /\ d.runner[r].liveness = "unseen" <=> db'.runner[r].liveness = "unseen"
             /\ d.runner[r].liveness = "offline" => db'.runner[r].liveness = "offline"
             /\ d.runner[r].liveness # "offline" => d.runner[r].reason = None
  BY <1>3, <1>4 DEF Retold
<1> QED
  BY <1>5, <1>6, <1>7 DEF Retold

\* A timeout finds no incident of its runner.
LEMMA RefreshTellsReason ==
    ASSUME RestartIInv, RefreshLiveness, Serving
    PROVE  IncidentsTell' /\ OnlyGoodbyeForgotten'
<1>1. TypeOK /\ OfflineIffIncident /\ IncidentsTell /\ OnlyGoodbyeForgotten
  BY DEF RestartIInv, IInv
<1>2. \A r \in Runners :
         db'.runner[r] = IF r \in StaleRunners
                         THEN [db.runner[r] EXCEPT !.liveness = "offline",
                                                   !.reason = "heartbeat_timeout"]
                         ELSE db.runner[r]
  BY <1>1, RefreshedRows
<1>3. \A r \in Runners :
         incidents'[r] = incidents[r] \cup (IF r \in StaleRunners
                                            THEN {"heartbeat_timeout"} ELSE {})
  BY DEF RefreshLiveness, Opened
<1>4. ASSUME NEW r \in Runners, r \in StaleRunners
      PROVE  /\ incidents'[r] = {"heartbeat_timeout"}
             /\ told'[r] = "heartbeat_timeout"
             /\ db'.runner[r].reason = "heartbeat_timeout"
  <2>1. db.runner[r] \in RunnerView /\ db.runner[r].liveness = "online"
    BY <1>1, <1>4 DEF TypeOK, StaleRunners
  <2>2. incidents[r] = {}
    BY <1>1, <2>1 DEF OfflineIffIncident
  <2>3. db'.runner[r].reason = "heartbeat_timeout" /\ db'.runner[r].liveness = "offline"
    BY <1>2, <1>4, <2>1 DEF RunnerView
  <2> QED
    BY <1>3, <1>4, <2>1, <2>2, <2>3, ToldAfter
<1>5. ASSUME NEW r \in Runners, r \notin StaleRunners
      PROVE  /\ incidents'[r] = incidents[r]
             /\ told'[r] = told[r]
             /\ db'.runner[r] = db.runner[r]
  BY <1>2, <1>3, <1>5, ToldAfter
<1>6. IncidentsTell'
  BY <1>1, <1>4, <1>5 DEF IncidentsTell
<1>7. OnlyGoodbyeForgotten'
  BY <1>1, <1>4, <1>5 DEF OnlyGoodbyeForgotten
<1> QED
  BY <1>6, <1>7

\* Every step of the store between two starts keeps the invariant.
LEMMA ServeKeeps ==
    ASSUME RestartIInv, Serve
    PROVE  RestartIInv'
<1>1. IInv /\ TypeOK /\ RowsOrdered /\ LogTells /\ IncidentsTell /\ OnlyGoodbyeForgotten
  BY DEF RestartIInv, IInv
<1>2. Next /\ Serving
  BY DEF Serve
<1>3. IInv'
  BY <1>1, <1>2, StepIInv
<1>4. CASE \E e \in Events : Ingest(e)
  BY <1>2, <1>3, <1>4, IngestIsRetold, IngestTellsReason DEF RestartIInv
<1>5. CASE RefreshLiveness
  <2>1. log' = log /\ complete' = complete
    BY <1>5 DEF RefreshLiveness
  <2>2. RowsOrdered'
    BY <1>1, <2>1 DEF RowsOrdered
  <2>3. Retold(Rebuilt(log)) => Retold(Rebuilt(log))'
    BY <1>1, <1>5, <2>1, RefreshIsRetold
  <2>4. LogTells'
    BY <1>1, <2>1, <2>3 DEF LogTells
  <2> QED
    BY <1>2, <1>3, <1>5, <2>2, <2>4, RefreshTellsReason DEF RestartIInv
<1>6. CASE PruneHistory \/ Tick
  <2>1. /\ db' = db /\ incidents' = incidents
        /\ log' \subseteq log
        /\ complete' => complete /\ log' = log
    <3>1. CASE PruneHistory
      BY <1>1, <3>1, Zenon DEF PruneHistory, alarmVars, TypeOK
    <3>2. CASE Tick
      BY <3>2 DEF Tick, alarmVars
    <3> QED
      BY <1>6, <3>1, <3>2
  <2>2. RowsOrdered'
    BY <1>1, <2>1 DEF RowsOrdered
  <2>3. LogTells'
    BY <1>1, <2>1 DEF LogTells, Retold
  <2>4. \A r \in Runners : told'[r] = told[r]
    BY <1>2, <2>1, ToldAfter
  <2>5. IncidentsTell' /\ OnlyGoodbyeForgotten'
    BY <1>1, <2>1, <2>4 DEF IncidentsTell, OnlyGoodbyeForgotten
  <2> QED
    BY <1>3, <2>2, <2>3, <2>5 DEF RestartIInv
<1> QED
  BY <1>2, <1>4, <1>5, <1>6 DEF Next

-----------------------------------------------------------------------------
(* The inductive invariant: a start *)

\* The condition that stays is one of the incidents.
LEMMA LastConditionIs ==
    ASSUME NEW r \in Runners, incidents[r] # {}
    PROVE  LastCondition(r) \in incidents[r]
<1>1. CASE Cardinality(incidents[r]) > 1
  <2>1. ASSUME \A c \in incidents[r] : c = firstIncident[r]
        PROVE  FALSE
    <3>1. incidents[r] = {firstIncident[r]}
      BY <2>1
    <3>2. Cardinality(incidents[r]) = 1
      BY <3>1, FS_Singleton
    <3> QED
      BY <1>1, <3>2
  <2> QED
    BY <1>1, <2>1 DEF LastCondition
<1>2. CASE ~(Cardinality(incidents[r]) > 1)
  BY <1>2 DEF LastCondition
<1> QED
  BY <1>1, <1>2

\* replay decides about every event as ingest did.
LEMMA RestartKeepsLog ==
    ASSUME RestartIInv, NEW kept \in SUBSET Tables, Restart(kept)
    PROVE  log' = log /\ complete /\ UNCHANGED <<alarmVars, complete, now, historyVars, told>>
<1>1. /\ log' = {[x EXCEPT !.applied = Accepts(Replayed(log)[x.row - 1], x.event)] : x \in log}
      /\ complete /\ UNCHANGED <<alarmVars, complete, now, historyVars, told>>
  BY DEF Restart
<1>2. \A x \in log : x.applied = Accepts(Replayed(log)[x.row - 1], x.event)
  BY <1>1 DEF RestartIInv, LogTells
<1>3. \A x \in log : [x EXCEPT !.applied = x.applied] = x
  BY DEF RestartIInv, IInv, TypeOK, Entry
<1> QED
  BY <1>1, <1>2, <1>3

\* What a start puts into the tables.
LEMMA RestoredRows ==
    ASSUME RestartIInv, NEW kept \in SUBSET Tables, Restart(kept)
    PROVE  /\ db' \in [runner : [Runners -> RunnerView], job : [Jobs -> JobView],
                       mark : [Runners -> [Streams -> Nat]]]
           /\ db'.mark = db.mark
           /\ \A j \in Jobs : db'.job[j] = db.job[j]
           /\ \A r \in Runners :
                 /\ db'.runner[r].liveness = db.runner[r].liveness
                 /\ db'.runner[r].activity = db.runner[r].activity
                 /\ db'.runner[r].seen = db.runner[r].seen
                 /\ db'.runner[r].job = db.runner[r].job
                 /\ db'.runner[r].outcome = db.runner[r].outcome
                 /\ incidents[r] = {} => db'.runner[r].reason = None
                 /\ incidents[r] # {} => db'.runner[r].reason \in incidents[r]
<1> DEFINE d == Rebuilt(log)
           old == Emptied(kept)
<1>1. TypeOK /\ OfflineIffIncident /\ LogTells
  BY DEF RestartIInv, IInv
<1>2. complete /\ db' = Restored(d, old)
  BY DEF Restart
<1>3. Retold(d)
  BY <1>1, <1>2 DEF LogTells
<1>4. /\ old.runner \in {db.runner, EmptyDb.runner}
      /\ old.job \in {db.job, EmptyDb.job}
  BY DEF Emptied, Tables
<1>5. /\ d \in [runner : [Runners -> RunnerView], job : [Jobs -> JobView],
                mark : [Runners -> [Streams -> Nat]]]
      /\ db \in [runner : [Runners -> RunnerView], job : [Jobs -> JobView],
                 mark : [Runners -> [Streams -> Nat]]]
      /\ incidents \in [Runners -> SUBSET Conditions]
  BY <1>1, <1>3 DEF TypeOK, Retold
<1> HIDE DEF d, old
<1> DEFINE runnerRow(r) ==
             IF d.runner[r].liveness = "unseen" THEN d.runner[r]
             ELSE IF incidents[r] # {}
             THEN [d.runner[r] EXCEPT !.liveness = "offline", !.reason = LastCondition(r)]
             ELSE IF old.runner[r].liveness = "offline"
             THEN [d.runner[r] EXCEPT !.liveness = "offline",
                                      !.reason = old.runner[r].reason]
             ELSE d.runner[r]
           jobRow(j) ==
             IF /\ d.job[j].state # "unseen"
                /\ j \in jobIncidents \/ old.job[j].liveness = "offline"
             THEN [d.job[j] EXCEPT !.liveness = "offline"]
             ELSE d.job[j]
<1>6. db' = [d EXCEPT !.runner = [r \in Runners |-> runnerRow(r)],
                      !.job = [j \in Jobs |-> jobRow(j)]]
  BY <1>2 DEF Restored
<1>7. /\ db'.mark = d.mark
      /\ db'.runner = [r \in Runners |-> runnerRow(r)]
      /\ db'.job = [j \in Jobs |-> jobRow(j)]
      /\ db' = [runner |-> db'.runner, job |-> db'.job, mark |-> db'.mark]
  <2> HIDE DEF runnerRow, jobRow
  <2> QED
    BY <1>5, <1>6
<1>8. ASSUME NEW j \in Jobs
      PROVE  jobRow(j) = db.job[j]
  <2>1. /\ d.job[j] \in JobView /\ db.job[j] \in JobView
        /\ d.job[j].state = db.job[j].state
        /\ d.job[j].outcome = db.job[j].outcome
        /\ d.job[j].seen = db.job[j].seen
        /\ d.job[j].liveness = "online"
    BY <1>3, <1>5 DEF Retold
  <2>2. CASE j \in jobIncidents
    <3>1. db.job[j].liveness = "offline" /\ db.job[j].state = "running"
      BY <1>1, <2>2 DEF OfflineIffIncident
    <3>2. jobRow(j) = [d.job[j] EXCEPT !.liveness = "offline"]
      BY <2>1, <2>2, <3>1
    <3> HIDE DEF jobRow
    <3> QED
      BY <2>1, <3>1, <3>2 DEF JobView
  <2>3. CASE j \notin jobIncidents
    <3>1. db.job[j].liveness = "online"
      BY <1>1, <2>1, <2>3 DEF OfflineIffIncident, JobView
    <3>2. old.job[j].liveness = "online"
      BY <1>4, <3>1 DEF EmptyDb
    <3>3. jobRow(j) = d.job[j]
      BY <2>3, <3>2
    <3> HIDE DEF jobRow
    <3> QED
      BY <2>1, <3>1, <3>3 DEF JobView
  <2> QED
    BY <2>2, <2>3
<1>9. ASSUME NEW r \in Runners
      PROVE  /\ runnerRow(r) \in RunnerView
             /\ runnerRow(r).liveness = db.runner[r].liveness
             /\ runnerRow(r).activity = db.runner[r].activity
             /\ runnerRow(r).seen = db.runner[r].seen
             /\ runnerRow(r).job = db.runner[r].job
             /\ runnerRow(r).outcome = db.runner[r].outcome
             /\ incidents[r] = {} => runnerRow(r).reason = None
             /\ incidents[r] # {} => runnerRow(r).reason \in incidents[r]
  <2>1. /\ d.runner[r] \in RunnerView /\ db.runner[r] \in RunnerView
        /\ d.runner[r].activity = db.runner[r].activity
        /\ d.runner[r].seen = db.runner[r].seen
        /\ d.runner[r].job = db.runner[r].job
        /\ d.runner[r].outcome = db.runner[r].outcome
        /\ d.runner[r].liveness = "unseen" <=> db.runner[r].liveness = "unseen"
        /\ d.runner[r].liveness = "offline" => db.runner[r].liveness = "offline"
        /\ d.runner[r].liveness # "offline" => d.runner[r].reason = None
    BY <1>3, <1>5 DEF Retold
  <2>2. CASE incidents[r] # {}
    <3>1. db.runner[r].liveness = "offline"
      BY <1>1, <2>2 DEF OfflineIffIncident
    <3>2. LastCondition(r) \in incidents[r] /\ LastCondition(r) \in Conditions
      BY <1>5, <2>2, LastConditionIs
    <3>3. runnerRow(r) = [d.runner[r] EXCEPT !.liveness = "offline",
                                             !.reason = LastCondition(r)]
      BY <2>1, <2>2, <3>1
    <3> HIDE DEF runnerRow
    <3> QED
      BY <2>1, <2>2, <3>1, <3>2, <3>3 DEF RunnerView
  <2>3. CASE incidents[r] = {}
    <3>1. db.runner[r].liveness # "offline"
      BY <1>1, <2>3 DEF OfflineIffIncident
    <3>2. old.runner[r].liveness # "offline"
      BY <1>4, <3>1 DEF EmptyDb
    <3>3. runnerRow(r) = d.runner[r]
      BY <2>3, <3>2
    <3> HIDE DEF runnerRow
    <3> QED
      BY <2>1, <2>3, <3>1, <3>3 DEF RunnerView
  <2> QED
    BY <2>2, <2>3
<1> HIDE DEF runnerRow, jobRow
<1>10. /\ db'.mark = db.mark /\ d.mark \in [Runners -> [Streams -> Nat]]
       /\ \A j \in Jobs : db'.job[j] = jobRow(j) /\ jobRow(j) \in JobView
       /\ \A r \in Runners : db'.runner[r] = runnerRow(r)
  BY <1>3, <1>5, <1>7, <1>8 DEF Retold
<1>11. /\ db'.runner \in [Runners -> RunnerView] /\ db'.job \in [Jobs -> JobView]
       /\ db'.mark \in [Runners -> [Streams -> Nat]]
  BY <1>7, <1>9, <1>10
<1>12. db' \in [runner : [Runners -> RunnerView], job : [Jobs -> JobView],
                mark : [Runners -> [Streams -> Nat]]]
  BY <1>7, <1>11
<1> QED
  BY <1>8, <1>9, <1>10, <1>12

\* A start keeps the invariant.
LEMMA RestartKeeps ==
    ASSUME RestartIInv, NEW kept \in SUBSET Tables, Restart(kept)
    PROVE  RestartIInv'
<1>1. /\ TypeOK /\ OfflineIffIncident /\ AppliedAtMostOnce /\ AppliedBehindMark
      /\ RunningRunnerHasRunningJob /\ CurrentJobIsOwn
      /\ RowsOrdered /\ LogTells /\ IncidentsTell /\ OnlyGoodbyeForgotten
  BY DEF RestartIInv, IInv
<1>2. /\ log' = log /\ complete /\ complete' = complete /\ now' = now /\ told' = told
      /\ incidents' = incidents /\ firstIncident' = firstIncident
      /\ jobIncidents' = jobIncidents /\ applied' = applied /\ shown' = shown
  BY RestartKeepsLog DEF alarmVars, historyVars
<1>3. /\ db' \in [runner : [Runners -> RunnerView], job : [Jobs -> JobView],
                  mark : [Runners -> [Streams -> Nat]]]
      /\ db'.mark = db.mark
      /\ \A j \in Jobs : db'.job[j] = db.job[j]
      /\ \A r \in Runners :
            /\ db'.runner[r].liveness = db.runner[r].liveness
            /\ db'.runner[r].activity = db.runner[r].activity
            /\ db'.runner[r].seen = db.runner[r].seen
            /\ db'.runner[r].job = db.runner[r].job
            /\ db'.runner[r].outcome = db.runner[r].outcome
            /\ incidents[r] = {} => db'.runner[r].reason = None
            /\ incidents[r] # {} => db'.runner[r].reason \in incidents[r]
  BY RestoredRows
<1>4. TypeOK'
  BY <1>1, <1>2, <1>3 DEF TypeOK
<1>5. OfflineIffIncident'
  BY <1>1, <1>2, <1>3 DEF OfflineIffIncident
<1>6. AppliedAtMostOnce' /\ AppliedBehindMark'
  BY <1>1, <1>2, <1>3 DEF AppliedAtMostOnce, AppliedBehindMark
<1>7. RunningRunnerHasRunningJob'
  BY <1>1, <1>3 DEF RunningRunnerHasRunningJob, TypeOK, RunnerView
<1>8. CurrentJobIsOwn'
  BY <1>1, <1>3 DEF CurrentJobIsOwn
<1>9. RowsOrdered'
  BY <1>1, <1>2 DEF RowsOrdered
<1>10. LogTells'
  <2>1. Retold(Rebuilt(log)) /\ \A x \in log :
              x.applied = Accepts(Replayed(log)[x.row - 1], x.event)
    BY <1>1, <1>2 DEF LogTells
  <2>2. ASSUME NEW d, Retold(d) PROVE Retold(d)'
    BY <1>3, <2>2 DEF Retold
  <2>3. Retold(Rebuilt(log))'
    BY <1>2, <2>1, <2>2
  <2> QED
    BY <1>2, <2>1, <2>3 DEF LogTells
<1>11. IncidentsTell'
  BY <1>1, <1>2 DEF IncidentsTell
<1>12. OnlyGoodbyeForgotten'
  <2> SUFFICES ASSUME NEW r \in Runners, db'.runner[r].reason # told[r]
               PROVE  /\ told[r] = "explicit_shutdown"
                      /\ db'.runner[r].reason = "heartbeat_timeout"
                      /\ incidents[r] = Conditions
    BY <1>2 DEF OnlyGoodbyeForgotten
  <2>1. incidents[r] \in SUBSET Conditions
    BY <1>1 DEF TypeOK
  <2>2. told[r] = IF incidents[r] = {} THEN None
                  ELSE IF "explicit_shutdown" \in incidents[r] THEN "explicit_shutdown"
                  ELSE "heartbeat_timeout"
    BY <1>1 DEF IncidentsTell
  <2> QED
    BY <1>3, <2>1, <2>2 DEF Conditions
<1> QED
  BY <1>4, <1>5, <1>6, <1>7, <1>8, <1>9, <1>10, <1>11, <1>12 DEF RestartIInv, IInv

\* Every step keeps the invariant.
LEMMA RestartStep ==
    ASSUME RestartIInv, [RestartNext]_restartVars
    PROVE  RestartIInv'
<1>1. CASE Serve
  BY <1>1, ServeKeeps
<1>2. CASE \E kept \in SUBSET Tables : Restart(kept)
  BY <1>2, RestartKeeps
<1>3. CASE UNCHANGED restartVars
  <2>1. UNCHANGED vars /\ told' = told
    BY <1>3 DEF restartVars
  <2>2. IInv'
    BY <2>1, OtherKeeps DEF RestartIInv
  <2>3. db' = db /\ log' = log /\ incidents' = incidents /\ complete' = complete
    BY <2>1 DEF vars, alarmVars
  <2>4. RowsOrdered' /\ LogTells' /\ IncidentsTell' /\ OnlyGoodbyeForgotten'
    BY <2>1, <2>3
    DEF RestartIInv, RowsOrdered, LogTells, Retold, IncidentsTell, OnlyGoodbyeForgotten
  <2> QED
    BY <2>2, <2>4 DEF RestartIInv
<1> QED
  BY <1>1, <1>2, <1>3 DEF RestartNext

-----------------------------------------------------------------------------
(* Theorems *)

\* In every reachable state the log tells all of the tables but the timeouts,
\* and the incidents tell the timeouts.
THEOREM RestartInvariance == RestartSpec => []RestartIInv
<1> QED
  BY InitRestartIInv, RestartStep, PTL DEF RestartSpec

\* A restart (__init__, replay and _restore_offline_incident_liveness) changes
\* nothing of what the store shows but the reason of a runner that said goodbye
\* after it had been timed out.
THEOREM RestartForgetsOnlyGoodbye == RestartSpec => []OnlyGoodbyeForgotten
<1>1. RestartIInv => OnlyGoodbyeForgotten
  BY DEF RestartIInv
<1> QED
  BY <1>1, RestartInvariance, PTL

\* Restarts included, what is shown as offline has an active incident, and the
\* other way round.
THEOREM RestartKeepsIncidents == RestartSpec => []OfflineIffIncident
<1>1. RestartIInv => OfflineIffIncident
  BY DEF RestartIInv, IInv
<1> QED
  BY <1>1, RestartInvariance, PTL

\* The tables keep their types through every start of the store.
THEOREM RestartKeepsTypes == RestartSpec => []TypeOK
<1>1. RestartIInv => TypeOK
  BY DEF RestartIInv, IInv
<1> QED
  BY <1>1, RestartInvariance, PTL

\* An event advances the state at most once, in one run of the monitor or in two:
\* a replay applies nothing that was not applied before.
THEOREM RestartAppliesOnce == RestartSpec => []AppliedAtMostOnce
<1>1. RestartIInv => AppliedAtMostOnce
  BY DEF RestartIInv, IInv
<1> QED
  BY <1>1, RestartInvariance, PTL

\* Restarts included, a runner shown as running has a current job that is running.
THEOREM RestartKeepsRunnersAndJobs == RestartSpec => []RunningRunnerHasRunningJob
<1>1. RestartIInv => RunningRunnerHasRunningJob
  BY DEF RestartIInv, IInv
<1> QED
  BY <1>1, RestartInvariance, PTL

\* Restarts included, a finished job keeps its state and its first outcome.
THEOREM RestartKeepsOutcomes == RestartSpec => TerminalNeverRegresses
<1>1. ASSUME RestartIInv, [RestartNext]_restartVars,
             NEW j \in Jobs, db.job[j].state = "finished"
      PROVE  /\ db'.job[j].state = "finished"
             /\ db'.job[j].outcome = db.job[j].outcome
  <2>1. IInv
    BY <1>1 DEF RestartIInv
  <2>2. CASE Serve \/ UNCHANGED restartVars
    <3>1. [Next]_vars
      BY <2>2 DEF Serve, restartVars
    <3> QED
      BY <1>1, <2>1, <3>1, OutcomeStays
  <2>3. CASE \E kept \in SUBSET Tables : Restart(kept)
    BY <1>1, <2>3, RestoredRows
  <2> QED
    BY <1>1, <2>2, <2>3 DEF RestartNext
<1>2. RestartIInv /\ [RestartNext]_restartVars =>
        [\A j \in Jobs : db.job[j].state = "finished" =>
           /\ db'.job[j].state = "finished"
           /\ db'.job[j].outcome = db.job[j].outcome]_vars
  BY <1>1
<1> QED
  BY <1>2, RestartInvariance, PTL DEF RestartSpec, TerminalNeverRegresses

-----------------------------------------------------------------------------
(* The store that never stops *)

\* Its operators on tables are the store's.
LEMMA SameProjection ==
    ASSUME NEW d, NEW e, NEW at
    PROVE  /\ Persistent!Accepts(d, e) = Accepts(d, e)
           /\ Persistent!Project(d, e, at) = Project(d, e, at)
<1>1. Persistent!Accepts(d, e) = Accepts(d, e)
  BY DEF Accepts, Persistent!Accepts, OlderAttempt, Persistent!OlderAttempt,
         Reports, Persistent!Reports, JobTypes, Persistent!JobTypes
<1>2. ASSUME NEW row
      PROVE  Persistent!RunnerRow(row, e, at) = RunnerRow(row, e, at)
  BY DEF RunnerRow, Persistent!RunnerRow
<1>3. Persistent!JobRow(e, at) = JobRow(e, at)
  BY DEF JobRow, Persistent!JobRow
<1>4. Persistent!Apply(d, e, at) = Apply(d, e, at)
  BY <1>2, <1>3 DEF Apply, Persistent!Apply, JobTypes, Persistent!JobTypes
<1> QED
  BY <1>1, <1>4 DEF Project, Persistent!Project

\* Tables that differ in their reasons only.
LEMMA ReasonsReplaced ==
    ASSUME NEW d \in [runner : [Runners -> RunnerView], job : [Jobs -> JobView],
                      mark : [Runners -> [Streams -> Nat]]],
           NEW t, \A r \in Runners : t[r] \in Conditions \cup {None},
           NEW f, f = WithReasons(d, t)
    PROVE  /\ f \in [runner : [Runners -> RunnerView], job : [Jobs -> JobView],
                     mark : [Runners -> [Streams -> Nat]]]
           /\ f.job = d.job /\ f.mark = d.mark
           /\ \A r \in Runners : f.runner[r] = WithReason(d.runner[r], t[r])
<1>1. ASSUME NEW r \in Runners PROVE WithReason(d.runner[r], t[r]) \in RunnerView
  <2>1. d.runner[r] \in RunnerView
    OBVIOUS
  <2> QED
    BY <2>1 DEF WithReason, RunnerView
<1>2. d.job \in [Jobs -> JobView] /\ d.mark \in [Runners -> [Streams -> Nat]]
  OBVIOUS
<1>3. /\ f.runner = [r \in Runners |-> WithReason(d.runner[r], t[r])]
      /\ f.job = d.job /\ f.mark = d.mark
      /\ f = [runner |-> f.runner, job |-> f.job, mark |-> f.mark]
  BY DEF WithReasons
<1>4. /\ f.runner \in [Runners -> RunnerView] /\ f.job \in [Jobs -> JobView]
      /\ f.mark \in [Runners -> [Streams -> Nat]]
  BY <1>1, <1>2, <1>3
<1>5. f \in [runner : [Runners -> RunnerView], job : [Jobs -> JobView],
             mark : [Runners -> [Streams -> Nat]]]
  BY <1>3, <1>4
<1> QED
  BY <1>3, <1>5

\* Tables of the same rows are the same tables.
LEMMA SameTables ==
    ASSUME NEW d \in [runner : [Runners -> RunnerView], job : [Jobs -> JobView],
                      mark : [Runners -> [Streams -> Nat]]],
           NEW f \in [runner : [Runners -> RunnerView], job : [Jobs -> JobView],
                      mark : [Runners -> [Streams -> Nat]]],
           \A r \in Runners : d.runner[r] = f.runner[r],
           \A j \in Jobs : d.job[j] = f.job[j],
           \A r \in Runners, s \in Streams : d.mark[r][s] = f.mark[r][s]
    PROVE  d = f
<1>1. d.runner = f.runner
  <2>1. d.runner \in [Runners -> RunnerView] /\ f.runner \in [Runners -> RunnerView]
    OBVIOUS
  <2> QED
    BY <2>1
<1>2. d.job = f.job
  <2>1. d.job \in [Jobs -> JobView] /\ f.job \in [Jobs -> JobView]
    OBVIOUS
  <2> QED
    BY <2>1
<1>3. d.mark = f.mark
  <2>1. d.mark \in [Runners -> [Streams -> Nat]] /\ f.mark \in [Runners -> [Streams -> Nat]]
    OBVIOUS
  <2>2. ASSUME NEW r \in Runners PROVE d.mark[r] = f.mark[r]
    BY <2>1
  <2> QED
    BY <2>1, <2>2
<1>4. d = [runner |-> d.runner, job |-> d.job, mark |-> d.mark]
  OBVIOUS
<1>5. f = [runner |-> f.runner, job |-> f.job, mark |-> f.mark]
  OBVIOUS
<1> QED
  BY <1>1, <1>2, <1>3, <1>4, <1>5

\* _upsert_runner writes the reason whatever it was.
LEMMA ReasonIsOverwritten ==
    ASSUME NEW row \in RunnerView, NEW e \in Events, NEW at, NEW reason,
           e.type \in JobTypes \cup {"runner.heartbeat", "runner.offline"}
    PROVE  RunnerRow(WithReason(row, reason), e, at) = RunnerRow(row, e, at)
<1>1. CASE e.type = "runner.heartbeat"
  BY <1>1 DEF WithReason, RunnerRow, RunnerView
<1>2. CASE e.type = "runner.offline"
  BY <1>2 DEF WithReason, RunnerRow, RunnerView
<1>3. CASE e.type \in {"job.started", "job.heartbeat"}
  BY <1>3 DEF WithReason, RunnerRow, RunnerView
<1>4. CASE e.type = "job.finished"
  BY <1>4 DEF WithReason, RunnerRow, RunnerView
<1> QED
  BY <1>1, <1>2, <1>3, <1>4 DEF JobTypes

\* An event that both accept leaves them equal in its runner's row, and in the
\* others equal but for the reason.
LEMMA ProjectReplaced ==
    ASSUME NEW d \in [runner : [Runners -> RunnerView], job : [Jobs -> JobView],
                      mark : [Runners -> [Streams -> Nat]]],
           NEW t, \A r \in Runners : t[r] \in Conditions \cup {None},
           NEW e \in Events, NEW at \in 0..MaxNow,
           Accepts(d, e), Accepts(WithReasons(d, t), e),
           NEW d2, d2 = Project(d, e, at),
           NEW f2, f2 = Project(WithReasons(d, t), e, at)
    PROVE  /\ f2 \in [runner : [Runners -> RunnerView], job : [Jobs -> JobView],
                      mark : [Runners -> [Streams -> Nat]]]
           /\ \A j \in Jobs : f2.job[j] = d2.job[j]
           /\ \A r \in Runners, s \in Streams : f2.mark[r][s] = d2.mark[r][s]
           /\ \A r \in Runners :
                 f2.runner[r] = IF r = e.runner THEN d2.runner[r]
                                ELSE WithReason(d2.runner[r], t[r])
<1> DEFINE f == WithReasons(d, t)
<1>0. /\ f \in [runner : [Runners -> RunnerView], job : [Jobs -> JobView],
                mark : [Runners -> [Streams -> Nat]]]
      /\ f.job = d.job /\ f.mark = d.mark
      /\ \A r \in Runners : f.runner[r] = WithReason(d.runner[r], t[r])
  BY ReasonsReplaced
<1>10. f2 = Project(f, e, at) /\ Accepts(f, e)
  OBVIOUS
<1> HIDE DEF f
<1>1. /\ \A r \in Runners :
            d2.runner[r] = IF r = e.runner THEN RunnerRow(d.runner[r], e, at)
                                           ELSE d.runner[r]
      /\ \A j \in Jobs :
            d2.job[j] = IF e.type \in JobTypes /\ j = e.job THEN JobRow(e, at)
                                                            ELSE d.job[j]
      /\ \A r \in Runners, s \in Streams :
            d2.mark[r][s] = IF r = e.runner /\ s = e.stream THEN e.seq
                                                            ELSE d.mark[r][s]
  BY ProjectIs
<1>2. /\ f2 \in [runner : [Runners -> RunnerView], job : [Jobs -> JobView],
                 mark : [Runners -> [Streams -> Nat]]]
      /\ \A r \in Runners :
            f2.runner[r] = IF r = e.runner THEN RunnerRow(f.runner[r], e, at)
                                           ELSE f.runner[r]
      /\ \A j \in Jobs :
            f2.job[j] = IF e.type \in JobTypes /\ j = e.job THEN JobRow(e, at)
                                                            ELSE f.job[j]
      /\ \A r \in Runners, s \in Streams :
            f2.mark[r][s] = IF r = e.runner /\ s = e.stream THEN e.seq
                                                            ELSE f.mark[r][s]
  BY <1>0, <1>10, ProjectIs
<1>3. e.type \in JobTypes \cup {"runner.heartbeat", "runner.offline"}
  BY AcceptedType
<1>4. ASSUME NEW r \in Runners
      PROVE  RunnerRow(WithReason(d.runner[r], t[r]), e, at)
               = RunnerRow(d.runner[r], e, at)
  <2>1. d.runner[r] \in RunnerView
    OBVIOUS
  <2> QED
    BY <1>3, <2>1, ReasonIsOverwritten
<1>5. ASSUME NEW r \in Runners
      PROVE  f2.runner[r] = IF r = e.runner THEN d2.runner[r]
                            ELSE WithReason(d2.runner[r], t[r])
  <2>1. f.runner[r] = WithReason(d.runner[r], t[r])
    BY <1>0
  <2>2. CASE r = e.runner
    BY <1>1, <1>2, <1>4, <2>1, <2>2
  <2>3. CASE r # e.runner
    BY <1>1, <1>2, <2>1, <2>3
  <2> QED
    BY <2>2, <2>3
<1> QED
  BY <1>0, <1>1, <1>2, <1>5

\* The reasons that were told are reasons.
LEMMA ToldType ==
    ASSUME IncidentsTell
    PROVE  \A r \in Runners : told[r] \in Conditions \cup {None}
  BY DEF IncidentsTell, Conditions

\* Its tables are the store's in all but the reasons.
LEMMA UnstoppedIs ==
    ASSUME TypeOK, IncidentsTell
    PROVE  /\ Unstopped \in [runner : [Runners -> RunnerView], job : [Jobs -> JobView],
                             mark : [Runners -> [Streams -> Nat]]]
           /\ Unstopped.job = db.job /\ Unstopped.mark = db.mark
           /\ \A r \in Runners :
                 Unstopped.runner[r] = WithReason(db.runner[r], told[r])
<1>1. db \in [runner : [Runners -> RunnerView], job : [Jobs -> JobView],
              mark : [Runners -> [Streams -> Nat]]]
  BY DEF TypeOK
<1>2. Unstopped = WithReasons(db, told)
  BY DEF Unstopped
<1> QED
  BY <1>1, <1>2, ToldType, ReasonsReplaced

\* ... and so they are after a step.
LEMMA UnstoppedIsNext ==
    ASSUME TypeOK', IncidentsTell'
    PROVE  /\ Unstopped' \in [runner : [Runners -> RunnerView], job : [Jobs -> JobView],
                              mark : [Runners -> [Streams -> Nat]]]
           /\ Unstopped'.job = db'.job /\ Unstopped'.mark = db'.mark
           /\ \A r \in Runners :
                 Unstopped'.runner[r] = WithReason(db'.runner[r], told'[r])
<1>1. db' \in [runner : [Runners -> RunnerView], job : [Jobs -> JobView],
               mark : [Runners -> [Streams -> Nat]]]
  BY DEF TypeOK
<1>2. \A r \in Runners : told'[r] \in Conditions \cup {None}
  BY DEF IncidentsTell, Conditions
<1>3. Unstopped' = WithReasons(db', told')
  BY DEF Unstopped
<1> QED
  BY <1>1, <1>2, <1>3, ReasonsReplaced

\* Both accept the same events.
LEMMA UnstoppedAccepts ==
    ASSUME TypeOK, IncidentsTell, NEW e \in Events
    PROVE  Accepts(Unstopped, e) = Accepts(db, e)
<1>1. e.runner \in Runners /\ db.runner[e.runner] \in RunnerView
  BY ProjectionAssumption DEF ProjectionAssumption, TypeOK
<1>2. Unstopped.runner[e.runner].job = db.runner[e.runner].job
  BY <1>1, UnstoppedIs DEF WithReason, RunnerView
<1>3. Unstopped.job = db.job /\ Unstopped.mark = db.mark
  BY UnstoppedIs
<1> QED
  BY <1>2, <1>3 DEF Accepts, OlderAttempt

\* An event changes both alike.
LEMMA EventUnstopped ==
    ASSUME RestartIInv, RestartIInv', NEW e \in Events, Ingest(e), Serving
    PROVE  Unstopped' = Project(Unstopped, e, now)
<1>1. TypeOK /\ TypeOK' /\ IncidentsTell /\ IncidentsTell'
  BY DEF RestartIInv, IInv
<1>2. Accepts(Unstopped, e) = Accepts(db, e)
  BY <1>1, UnstoppedAccepts
<1>3. CASE ~Accepts(db, e)
  <2>1. db' = db
    BY <1>3 DEF Ingest, Project
  <2>2. \A r \in Runners : told'[r] = told[r]
    BY <2>1, ToldAfter
  <2>3. Unstopped' = Unstopped
    BY <2>1, <2>2 DEF Unstopped, WithReasons
  <2> QED
    BY <1>2, <1>3, <2>3 DEF Project
<1>4. CASE Accepts(db, e)
  <2>1. PICK next : next = Project(Unstopped, e, now)
    OBVIOUS
  <2>2. Unstopped = WithReasons(db, told) /\ \A r \in Runners : told[r] \in Conditions \cup {None}
    BY <1>1, ToldType DEF Unstopped
  <2>3. /\ db \in [runner : [Runners -> RunnerView], job : [Jobs -> JobView],
                   mark : [Runners -> [Streams -> Nat]]]
        /\ now \in 0..MaxNow /\ db' = Project(db, e, now)
        /\ Accepts(WithReasons(db, told), e)
        /\ next = Project(WithReasons(db, told), e, now)
    BY <1>1, <1>2, <1>4, <2>1 DEF TypeOK, Ingest, Unstopped
  <2>4. /\ next \in [runner : [Runners -> RunnerView], job : [Jobs -> JobView],
                     mark : [Runners -> [Streams -> Nat]]]
        /\ \A j \in Jobs : next.job[j] = db'.job[j]
        /\ \A r \in Runners, s \in Streams : next.mark[r][s] = db'.mark[r][s]
        /\ \A r \in Runners :
              next.runner[r] = IF r = e.runner THEN db'.runner[r]
                               ELSE WithReason(db'.runner[r], told[r])
    BY <1>4, <2>2, <2>3, ProjectReplaced
  <2>5. /\ Unstopped' \in [runner : [Runners -> RunnerView], job : [Jobs -> JobView],
                           mark : [Runners -> [Streams -> Nat]]]
        /\ Unstopped'.job = db'.job /\ Unstopped'.mark = db'.mark
        /\ \A r \in Runners :
              Unstopped'.runner[r] = WithReason(db'.runner[r], told'[r])
    BY <1>1, UnstoppedIsNext
  <2>6. ASSUME NEW r \in Runners PROVE Unstopped'.runner[r] = next.runner[r]
    <3>1. db'.runner[r] \in RunnerView
      BY <1>1 DEF TypeOK
    <3>2. CASE r = e.runner
      <4>1. db'.runner[r].reason = told'[r]
        BY <1>4, <3>2, IngestTellsReason
      <4>2. WithReason(db'.runner[r], told'[r]) = db'.runner[r]
        BY <3>1, <4>1 DEF WithReason, RunnerView
      <4> QED
        BY <2>4, <2>5, <3>2, <4>2
    <3>3. CASE r # e.runner
      <4>1. db'.runner[r] = db.runner[r]
        BY <1>1, <1>4, <3>3, Applied DEF Ingest
      <4>2. told'[r] = told[r]
        BY <4>1, ToldAfter
      <4> QED
        BY <2>4, <2>5, <3>3, <4>2
    <3> QED
      BY <3>2, <3>3
  <2>7. Unstopped' = next
    BY <2>4, <2>5, <2>6, SameTables
  <2> QED
    BY <2>1, <2>7
<1> QED
  BY <1>3, <1>4

\* ingest is a step of the store that never stops.
LEMMA IngestUnstopped ==
    ASSUME RestartIInv, RestartIInv', NEW e \in Events, Ingest(e), Serving
    PROVE  Persistent!Ingest(e)
<1>1. /\ Persistent!Accepts(Unstopped, e) = Accepts(db, e)
      /\ Unstopped' = Persistent!Project(Unstopped, e, now)
  BY EventUnstopped, UnstoppedAccepts, SameProjection DEF RestartIInv, IInv
<1>2. /\ Persistent!Logged(e) <=> Logged(e)
      /\ Persistent!NewRows = NewRows
      /\ \A n : Persistent!NextRow(n) <=> NextRow(n)
  BY DEF Logged, Persistent!Logged, NewRows, Persistent!NewRows, NextRow, Persistent!NextRow
<1>3. \E n \in Persistent!NewRows :
         /\ Persistent!NextRow(n)
         /\ log' = log \cup {[row |-> n, event |-> e, at |-> now,
                              applied |-> Persistent!Accepts(Unstopped, e)]}
  BY <1>1, <1>2 DEF Ingest
<1>4. IF ~Persistent!Accepts(Unstopped, e)
      THEN UNCHANGED <<Persistent!alarmVars, Persistent!historyVars>>
      ELSE /\ IF e.type = "runner.offline"
              THEN Persistent!Opened({e.runner}, "explicit_shutdown")
              ELSE /\ incidents' = [incidents EXCEPT ![e.runner] = {}]
                   /\ UNCHANGED firstIncident
           /\ jobIncidents' = IF e.type \in Persistent!JobTypes THEN jobIncidents \ {e.job}
                                                                ELSE jobIncidents
           /\ applied' = [applied EXCEPT ![e] = @ + 1]
           /\ shown' = IF e.type \in Persistent!JobTypes
                       THEN [shown EXCEPT ![e.runner] = @ \cup {e.job}]
                       ELSE shown
  BY <1>1 DEF Ingest, Opened, Persistent!Opened, alarmVars, historyVars,
              Persistent!alarmVars, Persistent!historyVars, JobTypes, Persistent!JobTypes
<1>5. /\ Cardinality(log) < MaxLog /\ now + Timeout < MaxNow /\ ~Logged(e)
      /\ UNCHANGED <<complete, now>>
  BY DEF Ingest
<1>6. Persistent!Cardinality(log) = Cardinality(log)
  BY DEF Cardinality, Persistent!Cardinality
<1> QED
  BY <1>1, <1>2, <1>3, <1>4, <1>5, <1>6 DEF Persistent!Ingest


\* Timeouts reach the same rows of both.
LEMMA SameStale ==
    ASSUME TypeOK, IncidentsTell
    PROVE  Persistent!StaleRunners = StaleRunners /\ Persistent!StaleJobs = StaleJobs
<1>1. ASSUME NEW r \in Runners
      PROVE  /\ Unstopped.runner[r].liveness = db.runner[r].liveness
             /\ Unstopped.runner[r].seen = db.runner[r].seen
  <2>1. db.runner[r] \in RunnerView
    BY DEF TypeOK
  <2>2. Unstopped.runner[r] = WithReason(db.runner[r], told[r])
    BY UnstoppedIs
  <2> QED
    BY <2>1, <2>2 DEF WithReason, RunnerView
<1>2. Unstopped.job = db.job
  BY UnstoppedIs
<1> QED
  BY <1>1, <1>2 DEF StaleRunners, Persistent!StaleRunners, StaleJobs, Persistent!StaleJobs

\* refresh_liveness, on any tables.
LEMMA TimedOutTables ==
    ASSUME NEW d \in [runner : [Runners -> RunnerView], job : [Jobs -> JobView],
                      mark : [Runners -> [Streams -> Nat]]],
           NEW f, f = [d EXCEPT
             !.runner = [r \in Runners |->
                IF r \in StaleRunners
                THEN [d.runner[r] EXCEPT !.liveness = "offline",
                                         !.reason = "heartbeat_timeout"]
                ELSE d.runner[r]],
             !.job = [j \in Jobs |->
                IF j \in StaleJobs THEN [d.job[j] EXCEPT !.liveness = "offline"]
                                   ELSE d.job[j]]]
    PROVE  /\ f.mark = d.mark
           /\ f.job = [j \in Jobs |->
                 IF j \in StaleJobs THEN [d.job[j] EXCEPT !.liveness = "offline"]
                                    ELSE d.job[j]]
           /\ f.runner = [r \in Runners |->
                 IF r \in StaleRunners
                 THEN [d.runner[r] EXCEPT !.liveness = "offline",
                                          !.reason = "heartbeat_timeout"]
                 ELSE d.runner[r]]
           /\ f = [runner |-> f.runner, job |-> f.job, mark |-> f.mark]
<1> DEFINE row(r) == IF r \in StaleRunners
                     THEN [d.runner[r] EXCEPT !.liveness = "offline",
                                              !.reason = "heartbeat_timeout"]
                     ELSE d.runner[r]
           jobRow(j) == IF j \in StaleJobs THEN [d.job[j] EXCEPT !.liveness = "offline"]
                                           ELSE d.job[j]
<1>1. f = [d EXCEPT !.runner = [r \in Runners |-> row(r)], !.job = [j \in Jobs |-> jobRow(j)]]
  OBVIOUS
<1> HIDE DEF row, jobRow
<1>2. /\ f.mark = d.mark
      /\ f.runner = [r \in Runners |-> row(r)]
      /\ f.job = [j \in Jobs |-> jobRow(j)]
      /\ f = [runner |-> f.runner, job |-> f.job, mark |-> f.mark]
  BY <1>1
<1> QED
  BY <1>2 DEF row, jobRow

\* refresh_liveness is a step of the store that never stops.
LEMMA RefreshUnstopped ==
    ASSUME RestartIInv, RestartIInv', RefreshLiveness, Serving
    PROVE  Persistent!RefreshLiveness
<1>1. TypeOK /\ TypeOK' /\ IncidentsTell /\ IncidentsTell'
  BY DEF RestartIInv, IInv
<1>2. /\ Unstopped \in [runner : [Runners -> RunnerView], job : [Jobs -> JobView],
                        mark : [Runners -> [Streams -> Nat]]]
      /\ Unstopped.job = db.job /\ Unstopped.mark = db.mark
      /\ \A r \in Runners : Unstopped.runner[r] = WithReason(db.runner[r], told[r])
  BY <1>1, UnstoppedIs
<1>3. /\ Unstopped' \in [runner : [Runners -> RunnerView], job : [Jobs -> JobView],
                         mark : [Runners -> [Streams -> Nat]]]
      /\ Unstopped'.job = db'.job /\ Unstopped'.mark = db'.mark
      /\ \A r \in Runners : Unstopped'.runner[r] = WithReason(db'.runner[r], told'[r])
  BY <1>1, UnstoppedIsNext
<1>4. /\ db'.mark = db.mark
      /\ \A r \in Runners :
            db'.runner[r] = IF r \in StaleRunners
                            THEN [db.runner[r] EXCEPT !.liveness = "offline",
                                                      !.reason = "heartbeat_timeout"]
                            ELSE db.runner[r]
      /\ \A j \in Jobs :
            db'.job[j] = IF j \in StaleJobs
                         THEN [db.job[j] EXCEPT !.liveness = "offline"]
                         ELSE db.job[j]
  BY <1>1, RefreshedRows
<1>5. PICK f : f = [Unstopped EXCEPT
             !.runner = [r \in Runners |->
                IF r \in StaleRunners
                THEN [Unstopped.runner[r] EXCEPT !.liveness = "offline",
                                                 !.reason = "heartbeat_timeout"]
                ELSE Unstopped.runner[r]],
             !.job = [j \in Jobs |->
                IF j \in StaleJobs THEN [Unstopped.job[j] EXCEPT !.liveness = "offline"]
                                   ELSE Unstopped.job[j]]]
  OBVIOUS
<1>6. /\ f.mark = Unstopped.mark
      /\ f.job = [j \in Jobs |->
            IF j \in StaleJobs THEN [Unstopped.job[j] EXCEPT !.liveness = "offline"]
                               ELSE Unstopped.job[j]]
      /\ f.runner = [r \in Runners |->
            IF r \in StaleRunners
            THEN [Unstopped.runner[r] EXCEPT !.liveness = "offline",
                                             !.reason = "heartbeat_timeout"]
            ELSE Unstopped.runner[r]]
      /\ f = [runner |-> f.runner, job |-> f.job, mark |-> f.mark]
  BY <1>2, <1>5, TimedOutTables
<1>7. ASSUME NEW r \in Runners PROVE f.runner[r] = Unstopped'.runner[r]
  <2>1. db.runner[r] \in RunnerView
    BY <1>1 DEF TypeOK
  <2>2. CASE r \in StaleRunners
    <3>1. db.runner[r].liveness = "online"
      BY <2>2 DEF StaleRunners
    <3>2. db'.runner[r] = [db.runner[r] EXCEPT !.liveness = "offline",
                                               !.reason = "heartbeat_timeout"]
      BY <1>4, <2>2
    <3>3. told'[r] = "heartbeat_timeout"
      <4>1. db'.runner[r].liveness = "offline" /\ db'.runner[r].reason = "heartbeat_timeout"
        BY <2>1, <3>2 DEF RunnerView
      <4> QED
        BY <3>1, <4>1, ToldAfter
    <3>4. f.runner[r] = [WithReason(db.runner[r], told[r]) EXCEPT
                            !.liveness = "offline", !.reason = "heartbeat_timeout"]
      BY <1>2, <1>6, <2>2
    <3>5. Unstopped'.runner[r] = WithReason(db'.runner[r], "heartbeat_timeout")
      BY <1>3, <3>3
    <3> QED
      BY <2>1, <3>2, <3>4, <3>5 DEF WithReason, RunnerView
  <2>3. CASE r \notin StaleRunners
    <3>1. db'.runner[r] = db.runner[r]
      BY <1>4, <2>3
    <3>2. told'[r] = told[r]
      BY <3>1, ToldAfter
    <3>3. f.runner[r] = Unstopped.runner[r]
      BY <1>6, <2>3
    <3> QED
      BY <1>2, <1>3, <3>1, <3>2, <3>3
  <2> QED
    BY <2>2, <2>3
<1>8. ASSUME NEW j \in Jobs PROVE f.job[j] = Unstopped'.job[j]
  <2>1. Unstopped.job[j] = db.job[j] /\ Unstopped'.job[j] = db'.job[j]
    BY <1>2, <1>3
  <2>2. CASE j \in StaleJobs
    <3>1. db.job[j] \in JobView
      BY <1>1 DEF TypeOK
    <3>2. /\ f.job[j] = [db.job[j] EXCEPT !.liveness = "offline"]
          /\ db'.job[j] = [db.job[j] EXCEPT !.liveness = "offline"]
      BY <1>4, <1>6, <2>1, <2>2
    <3> QED
      BY <2>1, <3>1, <3>2 DEF JobView
  <2>3. CASE j \notin StaleJobs
    BY <1>4, <1>6, <2>1, <2>3
  <2> QED
    BY <2>2, <2>3
<1>9. f = Unstopped'
  <2>1. f.runner = Unstopped'.runner
    <3>1. Unstopped'.runner \in [Runners -> RunnerView]
      BY <1>3
    <3>2. f.runner = [r \in Runners |-> f.runner[r]]
      BY <1>6
    <3> QED
      BY <1>7, <3>1, <3>2
  <2>2. f.job = Unstopped'.job
    <3>1. Unstopped'.job \in [Jobs -> JobView]
      BY <1>3
    <3>2. f.job = [j \in Jobs |-> f.job[j]]
      BY <1>6
    <3> QED
      BY <1>8, <3>1, <3>2
  <2>3. f.mark = Unstopped'.mark
    BY <1>2, <1>3, <1>4, <1>6
  <2>4. Unstopped' = [runner |-> Unstopped'.runner, job |-> Unstopped'.job,
                      mark |-> Unstopped'.mark]
    BY <1>3
  <2> QED
    BY <1>6, <2>1, <2>2, <2>3, <2>4
<1>10. Persistent!StaleRunners = StaleRunners /\ Persistent!StaleJobs = StaleJobs
  BY <1>1, SameStale
<1>11. /\ Opened(StaleRunners, "heartbeat_timeout")
       /\ jobIncidents' = jobIncidents \cup StaleJobs
       /\ UNCHANGED <<log, complete, now, applied, shown>>
  BY DEF RefreshLiveness, historyVars
<1>12. Persistent!Opened(Persistent!StaleRunners, "heartbeat_timeout")
  BY <1>10, <1>11 DEF Opened, Persistent!Opened
<1> QED
  BY <1>5, <1>9, <1>10, <1>11, <1>12
  DEF Persistent!RefreshLiveness, Persistent!historyVars

\* prune_history and the clock touch neither.
LEMMA OtherUnstopped ==
    ASSUME Serving, PruneHistory \/ Tick
    PROVE  Persistent!PruneHistory \/ Persistent!Tick
<1>1. db' = db
  BY DEF PruneHistory, Tick
<1>2. \A r \in Runners : told'[r] = told[r]
  BY <1>1, ToldAfter
<1>3. Unstopped' = Unstopped
  BY <1>1, <1>2 DEF Unstopped, WithReasons
<1> QED
  BY <1>3, Zenon DEF PruneHistory, Tick, Persistent!PruneHistory, Persistent!Tick,
     alarmVars, historyVars, Persistent!alarmVars, Persistent!historyVars

\* A start leaves it as it is.
LEMMA RestartUnstopped ==
    ASSUME RestartIInv, RestartIInv', NEW kept \in SUBSET Tables, Restart(kept)
    PROVE  UNCHANGED Persistent!vars
<1>1. TypeOK /\ TypeOK' /\ IncidentsTell /\ IncidentsTell'
  BY DEF RestartIInv, IInv
<1>2. /\ log' = log /\ complete' = complete /\ now' = now /\ told' = told
      /\ UNCHANGED <<incidents, firstIncident, jobIncidents, applied, shown>>
  BY RestartKeepsLog DEF alarmVars, historyVars
<1>3. /\ Unstopped \in [runner : [Runners -> RunnerView], job : [Jobs -> JobView],
                        mark : [Runners -> [Streams -> Nat]]]
      /\ Unstopped.job = db.job /\ Unstopped.mark = db.mark
      /\ \A r \in Runners : Unstopped.runner[r] = WithReason(db.runner[r], told[r])
  BY <1>1, UnstoppedIs
<1>4. /\ Unstopped' \in [runner : [Runners -> RunnerView], job : [Jobs -> JobView],
                         mark : [Runners -> [Streams -> Nat]]]
      /\ Unstopped'.job = db'.job /\ Unstopped'.mark = db'.mark
      /\ \A r \in Runners : Unstopped'.runner[r] = WithReason(db'.runner[r], told'[r])
  BY <1>1, UnstoppedIsNext
<1>5. /\ db'.mark = db.mark
      /\ \A j \in Jobs : db'.job[j] = db.job[j]
  BY RestoredRows
<1>6. ASSUME NEW r \in Runners
      PROVE  WithReason(db'.runner[r], told[r]) = WithReason(db.runner[r], told[r])
  <2>1. /\ db'.runner[r].liveness = db.runner[r].liveness
        /\ db'.runner[r].activity = db.runner[r].activity
        /\ db'.runner[r].seen = db.runner[r].seen
        /\ db'.runner[r].job = db.runner[r].job
        /\ db'.runner[r].outcome = db.runner[r].outcome
    BY RestoredRows
  <2>2. db.runner[r] \in RunnerView /\ db'.runner[r] \in RunnerView
    BY <1>1 DEF TypeOK
  <2> QED
    BY <2>1, <2>2 DEF WithReason, RunnerView
<1>7. Unstopped' = Unstopped
  <2>1. \A r \in Runners : Unstopped'.runner[r] = Unstopped.runner[r]
    BY <1>2, <1>3, <1>4, <1>6
  <2>2. \A j \in Jobs : Unstopped'.job[j] = Unstopped.job[j]
    BY <1>3, <1>4, <1>5
  <2>3. \A r \in Runners, s \in Streams : Unstopped'.mark[r][s] = Unstopped.mark[r][s]
    BY <1>3, <1>4, <1>5
  <2> QED
    BY <1>3, <1>4, <2>1, <2>2, <2>3, SameTables
<1> QED
  BY <1>2, <1>7 DEF Persistent!vars, Persistent!alarmVars, Persistent!historyVars

\* A store that was just created never stopped.
LEMMA InitUnstopped == RestartInit => Persistent!Init
<1> SUFFICES ASSUME RestartInit PROVE Persistent!Init
  OBVIOUS
<1>1. TypeOK /\ IncidentsTell
  BY InitRestartIInv DEF RestartIInv, IInv
<1>2. db = EmptyDb /\ told = [r \in Runners |-> None]
  BY DEF RestartInit, Init
<1>3. Unstopped = db
  <2>1. \A r \in Runners : Unstopped.runner[r] = db.runner[r]
    <3> SUFFICES ASSUME NEW r \in Runners PROVE Unstopped.runner[r] = db.runner[r]
      OBVIOUS
    <3>1. db.runner[r] \in RunnerView /\ db.runner[r].reason = told[r]
      BY <1>1, <1>2 DEF TypeOK, EmptyDb
    <3>2. Unstopped.runner[r] = WithReason(db.runner[r], told[r])
      BY <1>1, UnstoppedIs
    <3> QED
      BY <3>1, <3>2 DEF WithReason, RunnerView
  <2>2. /\ Unstopped \in [runner : [Runners -> RunnerView], job : [Jobs -> JobView],
                          mark : [Runners -> [Streams -> Nat]]]
        /\ Unstopped.job = db.job /\ Unstopped.mark = db.mark
    BY <1>1, UnstoppedIs
  <2>3. db \in [runner : [Runners -> RunnerView], job : [Jobs -> JobView],
                mark : [Runners -> [Streams -> Nat]]]
    BY <1>1 DEF TypeOK
  <2> QED
    BY <2>1, <2>2, <2>3, SameTables
<1>4. Persistent!EmptyDb = EmptyDb
  BY DEF EmptyDb, Persistent!EmptyDb
<1> QED
  BY <1>2, <1>3, <1>4 DEF RestartInit, Init, Persistent!Init

\* Every step is one of the store that never stops, or leaves it as it is.
LEMMA StepUnstopped ==
    ASSUME RestartIInv, RestartIInv', [RestartNext]_restartVars
    PROVE  [Persistent!Next]_(Persistent!vars)
<1>1. CASE Serve
  <2>1. Next /\ Serving
    BY <1>1 DEF Serve
  <2>2. ASSUME NEW e \in Events, Ingest(e) PROVE Persistent!Next
    BY <2>1, <2>2, IngestUnstopped DEF Persistent!Next
  <2>3. CASE RefreshLiveness
    BY <2>1, <2>3, RefreshUnstopped DEF Persistent!Next
  <2>4. CASE PruneHistory \/ Tick
    BY <2>1, <2>4, OtherUnstopped DEF Persistent!Next
  <2> QED
    BY <2>1, <2>2, <2>3, <2>4 DEF Next
<1>2. CASE \E kept \in SUBSET Tables : Restart(kept)
  BY <1>2, RestartUnstopped
<1>3. CASE UNCHANGED restartVars
  BY <1>3 DEF restartVars, vars, alarmVars, historyVars, Unstopped, WithReasons,
              Persistent!vars, Persistent!alarmVars, Persistent!historyVars
<1> QED
  BY <1>1, <1>2, <1>3 DEF RestartNext

\* The restarted store implements the store that never stops: every start
\* (Store.__init__, replay of the log, the timeouts put back, lost projection
\* tables rebuilt) is invisible but for the reason of an offline runner.
THEOREM RestartImplementsStore == RestartSpec => RestartIsInvisible
<1>1. RestartIInv /\ RestartIInv' /\ [RestartNext]_restartVars
        => [Persistent!Next]_(Persistent!vars)
  BY StepUnstopped
<1> QED
  BY <1>1, InitUnstopped, RestartInvariance, PTL
  DEF RestartSpec, RestartIsInvisible, Persistent!Spec
=============================================================================
