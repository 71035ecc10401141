---------------------------- MODULE ReadSideProofs ----------------------------
(***************************************************************************)
(* The read side, for any fleet, log, windows and limits, and for any      *)
(* reader, page size and number of requests under way: what one snapshot   *)
(* puts together agrees (Snapshot), and what the page does with answers    *)
(* that come in any order (Dashboard).                                     *)
(***************************************************************************)
EXTENDS Snapshot, Dashboard, MonitorProofs, FiniteSetTheorems

-----------------------------------------------------------------------------
(* The newest rows of a log *)

Above(S, x) == {y \in S : y.row > x.row}

\* The higher a row, the fewer are above it.
LEMMA AboveCounts ==
    ASSUME NEW S, IsFiniteSet(S), \A x \in S : x.row \in Nat
    PROVE  /\ \A x \in S : /\ IsFiniteSet(Above(S, x))
                           /\ Cardinality(Above(S, x)) \in Nat
           /\ \A x, y \in S : y.row > x.row =>
                 Cardinality(Above(S, y)) < Cardinality(Above(S, x))
<1>1. ASSUME NEW x \in S
      PROVE  IsFiniteSet(Above(S, x)) /\ Cardinality(Above(S, x)) \in Nat
  <2>1. Above(S, x) \in SUBSET S
    BY DEF Above
  <2> QED
    BY <2>1, FS_Subset, FS_CardinalityType
<1>2. ASSUME NEW x \in S, NEW y \in S, y.row > x.row
      PROVE  Cardinality(Above(S, y)) < Cardinality(Above(S, x))
  <2>1. Above(S, y) \in SUBSET Above(S, x)
    BY <1>2 DEF Above
  <2>2. y \in Above(S, x) /\ y \notin Above(S, y)
    BY <1>2 DEF Above
  <2>3. /\ Cardinality(Above(S, y)) <= Cardinality(Above(S, x))
        /\ Cardinality(Above(S, x)) # Cardinality(Above(S, y))
    BY <1>1, <2>1, <2>2, FS_Subset
  <2> QED
    BY <1>1, <2>3
<1> QED
  BY <1>1, <1>2

\* A finite set of rows has a highest one.
LEMMA HighestRow ==
    ASSUME NEW S, IsFiniteSet(S), S # {}, \A x \in S : x.row \in Nat
    PROVE  \E x \in S : \A y \in S : y.row <= x.row
<1> DEFINE counts == {Cardinality(Above(S, x)) : x \in S}
<1>1. counts \in SUBSET Nat /\ counts # {}
  BY AboveCounts
<1>2. PICK n \in counts : \A m \in counts : n <= m
  BY <1>1, LeastNumber
<1>3. PICK x \in S : n = Cardinality(Above(S, x))
  BY <1>2
<1>4. \A y \in S : n <= Cardinality(Above(S, y)) /\ Cardinality(Above(S, y)) \in Nat
  BY <1>2, AboveCounts
<1>5. ASSUME NEW y \in S PROVE y.row <= x.row
  <2>1. CASE y.row > x.row
    <3>1. Cardinality(Above(S, y)) < Cardinality(Above(S, x))
      BY <2>1, AboveCounts
    <3> QED
      BY <1>3, <1>4, <3>1
  <2> QED
    BY <2>1
<1> QED
  BY <1>5

\* ... and a lowest one.
LEMMA LowestRow ==
    ASSUME NEW S, S # {}, \A x \in S : x.row \in Nat
    PROVE  \E x \in S : \A y \in S : x.row <= y.row
<1> DEFINE rows == {x.row : x \in S}
<1>1. rows \in SUBSET Nat /\ rows # {}
  OBVIOUS
<1>2. PICK n \in rows : \A m \in rows : n <= m
  BY <1>1, LeastNumber
<1> QED
  BY <1>2

\* LIMIT n leaves out a row only if it returns n others.
LEMMA NewestIsFull ==
    ASSUME NEW S, IsFiniteSet(S), \A x \in S : x.row \in Nat,
           \A x, y \in S : x.row = y.row => x = y,
           NEW n \in Nat \ {0}, NEW x \in S, x \notin Newest(S, n)
    PROVE  Cardinality(Newest(S, n)) = n
<1> DEFINE top == Newest(S, n)
           rest == S \ top
           counts == {Cardinality(Above(S, y)) : y \in rest}
<1>1. top = {y \in S : Cardinality(Above(S, y)) < n}
  BY DEF Newest, Above
<1>2. /\ \A y \in S : IsFiniteSet(Above(S, y)) /\ Cardinality(Above(S, y)) \in Nat
      /\ \A y, z \in S : z.row > y.row =>
            Cardinality(Above(S, z)) < Cardinality(Above(S, y))
  BY AboveCounts
<1>3. PICK m \in rest : \A y \in rest : Cardinality(Above(S, m)) <= Cardinality(Above(S, y))
  <2>1. counts \in SUBSET Nat /\ counts # {}
    BY <1>2
  <2>2. PICK k \in counts : \A i \in counts : k <= i
    BY <2>1, LeastNumber
  <2> QED
    BY <2>2
<1>4. n <= Cardinality(Above(S, m)) /\ m \in S
  BY <1>1, <1>2, <1>3
<1>5. top = Above(S, m)
  <2>1. ASSUME NEW y \in Above(S, m) PROVE y \in top
    <3>1. y \in S /\ y.row > m.row
      BY <2>1 DEF Above
    <3>2. Cardinality(Above(S, y)) < Cardinality(Above(S, m))
      BY <1>2, <1>4, <3>1
    <3> QED
      BY <1>2, <1>3, <1>4, <3>1, <3>2
  <2>2. ASSUME NEW y \in top PROVE y \in Above(S, m)
    <3>1. y \in S /\ Cardinality(Above(S, y)) < n
      BY <1>1, <2>2
    <3>2. y # m
      BY <1>2, <1>4, <3>1
    <3>3. ~(m.row > y.row)
      BY <1>2, <1>4, <3>1
    <3>4. y.row # m.row
      BY <1>4, <3>1, <3>2
    <3> QED
      BY <1>4, <3>1, <3>3, <3>4 DEF Above
  <2> QED
    BY <2>1, <2>2
<1>6. IsFiniteSet(top) /\ Cardinality(top) \in Nat /\ n <= Cardinality(top)
  BY <1>2, <1>4, <1>5
<1>7. top # {}
  BY <1>6, FS_EmptySet
<1>8. PICK l \in top : \A y \in top : l.row <= y.row
  <2>1. \A y \in top : y.row \in Nat
    BY <1>1
  <2> QED
    BY <1>7, <2>1, LowestRow
<1>9. l \in S /\ Cardinality(Above(S, l)) < n
  BY <1>1, <1>8
<1>10. top = Above(S, l) \cup {l}
  <2>1. ASSUME NEW y \in Above(S, l) PROVE y \in top
    <3>1. y \in S /\ y.row > l.row
      BY <2>1 DEF Above
    <3>2. Cardinality(Above(S, y)) < Cardinality(Above(S, l))
      BY <1>2, <1>9, <3>1
    <3> QED
      BY <1>1, <1>2, <1>9, <3>1, <3>2
  <2>2. ASSUME NEW y \in top, y # l PROVE y \in Above(S, l)
    <3>1. y \in S /\ l.row <= y.row /\ y.row # l.row
      BY <1>1, <1>8, <1>9, <2>2
    <3>2. y.row \in Nat /\ l.row \in Nat
      BY <1>9, <3>1
    <3>3. y.row > l.row
      BY <3>1, <3>2
    <3> QED
      BY <3>1, <3>3 DEF Above
  <2> QED
    BY <1>8, <2>1, <2>2
<1>11. l \notin Above(S, l)
  BY <1>9 DEF Above
<1>12. Cardinality(top) = Cardinality(Above(S, l)) + 1
  BY <1>2, <1>9, <1>10, <1>11, FS_AddElement
<1> HIDE DEF top
<1>13. Cardinality(top) = n
  BY <1>2, <1>6, <1>9, <1>12
<1> QED
  BY <1>13 DEF top

\* Rows are as many as their numbers.
LEMMA AsManyNumbers ==
    ASSUME NEW S, IsFiniteSet(S), \A x, y \in S : x.row = y.row => x = y
    PROVE  Cardinality({x.row : x \in S}) = Cardinality(S)
<1> DEFINE f == [x \in S |-> x.row]
           T == {x.row : x \in S}
<1>1. f \in Bijection(S, T)
  <2>1. f \in [S -> T] /\ \A t \in T : \E x \in S : f[x] = t
    OBVIOUS
  <2>2. \A x, y \in S : f[x] = f[y] => x = y
    OBVIOUS
  <2> HIDE DEF f, T
  <2> QED
    BY <2>1, <2>2 DEF Bijection, Injection, Surjection, IsInjective
<1>2. ExistsBijection(S, T)
  BY <1>1 DEF ExistsBijection
<1> QED
  BY <1>2, FS_Bijection

-----------------------------------------------------------------------------
(* The queries of the snapshot *)

\* Part of a finite log is finite, and its rows keep their numbers.
LEMMA PartOfLog ==
    ASSUME TypeOK, LogOrdered, NEW S, S \subseteq log
    PROVE  /\ IsFiniteSet(S)
           /\ \A x \in S : x.row \in Nat /\ x.at \in Nat /\ x.event \in Events
           /\ \A x, y \in S : x.row = y.row => x = y
<1>1. IsFiniteSet(S)
  BY FS_Subset DEF LogOrdered
<1>2. \A x \in S : x.row \in Nat /\ x.at \in Nat /\ x.event \in Events
  <2>1. \A x \in log : x \in Entry
    BY DEF TypeOK
  <2>2. 0 .. MaxNow \subseteq Nat
    OBVIOUS
  <2> QED
    BY <2>1, <2>2 DEF Entry
<1> QED
  BY <1>1, <1>2 DEF LogOrdered

\* A query returns rows of the log.
LEMMA QueriesReadLog ==
    ASSUME NEW j, NEW n
    PROVE  /\ \A S : Newest(S, n) \subseteq S /\ OfJob(S, j) \subseteq S
           /\ \A S, type : OfType(S, type) \subseteq S
           /\ RecentEvents({}, n) = Newest(log, n)
           /\ RecentJobEvents(j, n) = Newest(OfJob(log, j), n)
           /\ Feed \subseteq log
<1>1. {x \in log : x.event.type \notin {}} = log
  OBVIOUS
<1> QED
  BY <1>1 DEF Newest, OfJob, OfType, RecentEvents, RecentJobEvents, Feed

\* A stable sort by received_at ends with the row of the highest number.
LEMMA LastReceivedIsHighest ==
    ASSUME TypeOK, LogOrdered, NEW S, S \subseteq log, S # {}
    PROVE  LastReceived(S) \in S /\ \A y \in S : y.row <= LastReceived(S).row
<1>1. /\ IsFiniteSet(S)
      /\ \A x \in S : x.row \in Nat /\ x.at \in Nat
      /\ \A x, y \in S : x.row = y.row => x = y
  BY PartOfLog
<1>2. \A x, y \in S : x.row > y.row => x.at >= y.at
  BY DEF LogOrdered
<1>3. PICK top \in S : \A y \in S : y.row <= top.row
  BY <1>1, HighestRow
<1> DEFINE Last(x) == \A y \in S \ {x} : x.at > y.at \/ (x.at = y.at /\ x.row > y.row)
<1>4. Last(top)
  <2> SUFFICES ASSUME NEW y \in S \ {top}
               PROVE  top.at > y.at \/ (top.at = y.at /\ top.row > y.row)
    OBVIOUS
  <2>1. top.row > y.row
    BY <1>1, <1>3
  <2>2. top.at >= y.at
    BY <1>2, <2>1
  <2> QED
    BY <1>1, <2>1, <2>2
<1>5. LastReceived(S) \in S /\ Last(LastReceived(S))
  BY <1>3, <1>4 DEF LastReceived
<1>6. ASSUME NEW y \in S PROVE y.row <= LastReceived(S).row
  <2> DEFINE x == LastReceived(S)
  <2>1. x \in S /\ Last(x)
    BY <1>5
  <2> HIDE DEF x
  <2>2. CASE y.row > x.row
    <3>1. y \in S \ {x}
      BY <1>1, <2>1, <2>2
    <3>2. x.at > y.at \/ x.row > y.row
      BY <2>1, <3>1
    <3>3. y.at >= x.at
      BY <1>2, <2>1, <2>2
    <3> QED
      BY <1>1, <2>1, <2>2, <3>2, <3>3
  <2>3. CASE ~(y.row > x.row)
    BY <1>1, <2>1, <2>3 DEF x
  <2> QED
    BY <2>2, <2>3
<1> QED
  BY <1>5, <1>6

\* The phases shown are those of the newest reports in the window.
LEMMA PhasesAreNewest ==
    ASSUME TypeOK, LogOrdered, NEW S, S \subseteq log, NEW x \in OfType(S, "job.progress")
    PROVE  Phases(S)[DisplayStage(x.event.stage)] >= x.row
<1> DEFINE progress == OfType(S, "job.progress")
           id == DisplayStage(x.event.stage)
           Of(i) == {y \in progress : DisplayStage(y.event.stage) = i}
<1>1. progress \subseteq log /\ x \in Of(id)
  BY QueriesReadLog
<1>2. LastReceived(Of(id)) \in Of(id) /\ x.row <= LastReceived(Of(id)).row
  <2>1. Of(id) \subseteq log
    BY <1>1
  <2> HIDE DEF Of, id
  <2> QED
    BY <1>1, <2>1, LastReceivedIsHighest
<1>3. Phases(S)[id] = LastReceived(Of(id)).row
  BY DEF Phases
<1>4. x.row \in Nat /\ LastReceived(Of(id)).row \in Nat
  BY <1>1, <1>2, PartOfLog
<1> HIDE DEF id, Of
<1>5. Phases(S)[id] >= x.row
  BY <1>2, <1>3, <1>4
<1> QED
  BY <1>5 DEF id

\* The fallback shown is a row of the log, or none.
LEMMA FallbackIsRow ==
    ASSUME TypeOK, LogOrdered, NEW S, S \subseteq log
    PROVE  LatestFallback(S) \in RowNumbers \cup {0}
<1> DEFINE fallbacks == OfType(S, "job.fallback")
<1>1. fallbacks \subseteq log
  BY QueriesReadLog
<1>2. CASE fallbacks = {}
  BY <1>2 DEF LatestFallback
<1>3. CASE fallbacks # {}
  <2>1. LastReceived(fallbacks) \in log
    BY <1>1, <1>3, LastReceivedIsHighest
  <2> QED
    BY <1>3, <2>1 DEF LatestFallback, RowNumbers
<1> QED
  BY <1>2, <1>3

\* LIMIT leaves out no row unless the part of the answer is full.
LEMMA LimitIsFull ==
    ASSUME TypeOK, LogOrdered, NEW S, S \subseteq log, NEW n \in Nat \ {0}, NEW x \in S,
           NEW numbers, numbers = {y.row : y \in Newest(S, n)}
    PROVE  x.row \in numbers \/ Cardinality(numbers) = n
<1>1. /\ IsFiniteSet(S) /\ \A y \in S : y.row \in Nat
      /\ \A y, z \in S : y.row = z.row => y = z
  BY PartOfLog
<1>2. Newest(S, n) \subseteq S
  BY QueriesReadLog
<1>3. CASE x \in Newest(S, n)
  BY <1>3
<1>4. CASE x \notin Newest(S, n)
  <2>1. Cardinality(Newest(S, n)) = n
    BY <1>1, <1>4, NewestIsFull
  <2>2. IsFiniteSet(Newest(S, n)) /\ \A y, z \in Newest(S, n) : y.row = z.row => y = z
    BY <1>1, <1>2, FS_Subset
  <2> QED
    BY <2>1, <2>2, AsManyNumbers
<1> QED
  BY <1>3, <1>4

-----------------------------------------------------------------------------
(* One snapshot *)

\* What the answer to a load consists of.
LEMMA SnapshotHas ==
    ASSUME NEW d, NEW alarms, NEW a, a = SnapshotOf(d, alarms)
    PROVE  /\ a.status \in {200, 500}
           /\ a.status = 200 =>
                /\ a.at = now /\ a.runners = d.runner /\ a.incidents = alarms
                /\ a.active = {r \in Runners : d.runner[r].liveness = "online"}
                /\ a.feed = {x.row : x \in Feed}
                /\ \A v \in a.jobs : \E j \in Jobs : v = CurrentJob(j, d.job[j])
<1>1. CASE \E x \in Formatted(d) : x.event.edge
  BY <1>1 DEF SnapshotOf, Unavailable
<1>2. CASE ~\E x \in Formatted(d) : x.event.edge
  <2>1. a = [status |-> 200, at |-> now, runners |-> d.runner,
             active |-> {r \in Runners : d.runner[r].liveness = "online"},
             incidents |-> alarms,
             jobs |-> {CurrentJob(j, d.job[j]) : j \in Current(d)},
             feed |-> {x.row : x \in Feed}]
    BY <1>2 DEF SnapshotOf
  <2>2. Current(d) \subseteq Jobs
    BY DEF Current
  <2> QED
    BY <2>1, <2>2
<1> QED
  BY <1>1, <1>2

\* What it tells of a current job.
LEMMA JobHas ==
    ASSUME NEW j, NEW job, NEW v, v = CurrentJob(j, job)
    PROVE  LET history == OfJob(Newest(log, Window), j)
           IN /\ v.id = j /\ v.row = job
              /\ v.phases = Phases(history)
              /\ v.fallback = LatestFallback(history)
              /\ v.unreported = ProgressUnreported(job, history)
              /\ v.timeline = {x.row : x \in Newest(OfJob(log, j), TimelineLimit)}
  BY QueriesReadLog DEF CurrentJob

\* Whoever is still online after refresh_liveness was heard of.
LEMMA RefreshedAreFresh ==
    ASSUME TypeOK, RefreshLiveness
    PROVE  /\ \A r \in Runners : db'.runner[r].liveness = "online" =>
                 db'.runner[r].seen + Timeout >= now
           /\ \A j \in Jobs : db'.job[j].state = "running" /\ db'.job[j].liveness = "online"
                 => db'.job[j].seen + Timeout >= now
<1>1. now \in Nat /\ Timeout \in Nat
  BY StoreAssumption DEF TypeOK, StoreAssumption
<1>2. ASSUME NEW r \in Runners, db'.runner[r].liveness = "online"
      PROVE  db'.runner[r].seen + Timeout >= now
  <2>1. db.runner[r] \in RunnerView
    BY DEF TypeOK
  <2>2. r \notin StaleRunners
    BY <1>2, <2>1, RefreshedRows DEF RunnerView
  <2>3. db'.runner[r] = db.runner[r]
    BY <2>2, RefreshedRows
  <2>4. db.runner[r].seen \in Nat
    BY <2>1 DEF RunnerView
  <2> QED
    BY <1>1, <1>2, <2>2, <2>3, <2>4 DEF StaleRunners
<1>3. ASSUME NEW j \in Jobs, db'.job[j].state = "running", db'.job[j].liveness = "online"
      PROVE  db'.job[j].seen + Timeout >= now
  <2>1. db.job[j] \in JobView
    BY DEF TypeOK
  <2>2. j \notin StaleJobs
    BY <1>3, <2>1, RefreshedRows DEF JobView
  <2>3. db'.job[j] = db.job[j]
    BY <2>2, RefreshedRows
  <2>4. db.job[j].seen \in Nat
    BY <2>1 DEF JobView
  <2> QED
    BY <1>1, <1>3, <2>2, <2>3, <2>4 DEF StaleJobs
<1> QED
  BY <1>2, <1>3

\* Loading changes no row of the log.
LEMMA LoadReads ==
    ASSUME SnapshotIInv, LoadDashboard
    PROVE  /\ IInv' /\ LogOrdered' /\ log' = log /\ now' = now
           /\ view' = SnapshotOf(db', incidents')
<1>1. RefreshLiveness /\ view' = SnapshotOf(db', incidents') /\ IInv /\ LogOrdered
  BY DEF LoadDashboard, SnapshotIInv
<1>2. log' = log /\ now' = now
  BY <1>1 DEF RefreshLiveness
<1>3. IInv'
  BY <1>1, RefreshKeeps
<1>4. LogOrdered'
  BY <1>1, <1>2 DEF LogOrdered
<1> QED
  BY <1>1, <1>2, <1>3, <1>4

\* The answer to a load shows one moment.
LEMMA LoadShowsOneMoment ==
    ASSUME SnapshotIInv, LoadDashboard
    PROVE  OneMoment'
<1>1. /\ IInv /\ TypeOK /\ LogOrdered /\ IInv' /\ TypeOK' /\ OfflineIffIncident'
      /\ log' = log /\ now' = now
      /\ view' = SnapshotOf(db', incidents') /\ RefreshLiveness
  BY LoadReads DEF SnapshotIInv, IInv, LoadDashboard
<1>2. /\ view'.status \in {200, 500}
      /\ view'.status = 200 =>
           /\ view'.at = now /\ view'.runners = db'.runner /\ view'.incidents = incidents'
           /\ view'.active = {r \in Runners : db'.runner[r].liveness = "online"}
           /\ view'.feed = {x.row : x \in Feed}
           /\ \A v \in view'.jobs : \E j \in Jobs : v = CurrentJob(j, db'.job[j])
  BY <1>1, SnapshotHas
<1>3. SnapshotTypeOK'
  <2> SUFFICES ASSUME view'.status = 200
               PROVE  /\ view'.at \in 0 .. MaxNow
                      /\ view'.runners \in [Runners -> RunnerView]
                      /\ view'.active \subseteq Runners
                      /\ view'.incidents \in [Runners -> SUBSET Conditions]
                      /\ view'.feed \subseteq RowNumbers
                      /\ \A v \in view'.jobs :
                           /\ v.id \in Jobs /\ v.row \in JobView
                           /\ v.fallback \in RowNumbers \cup {0}
                           /\ v.unreported \in BOOLEAN
                           /\ v.timeline \subseteq RowNumbers
    BY <1>1, <1>2 DEF SnapshotTypeOK, Shown, RowNumbers
  <2>1. /\ view'.at \in 0 .. MaxNow /\ view'.active \subseteq Runners
        /\ view'.runners \in [Runners -> RunnerView]
        /\ view'.incidents \in [Runners -> SUBSET Conditions]
    BY <1>1, <1>2 DEF TypeOK
  <2>2. view'.feed \subseteq RowNumbers
    BY <1>2, QueriesReadLog DEF RowNumbers
  <2>3. ASSUME NEW v \in view'.jobs
        PROVE  /\ v.id \in Jobs /\ v.row \in JobView
               /\ v.fallback \in RowNumbers \cup {0}
               /\ v.unreported \in BOOLEAN
               /\ v.timeline \subseteq RowNumbers
    <3>1. PICK j \in Jobs : v = CurrentJob(j, db'.job[j])
      BY <1>2
    <3> DEFINE history == OfJob(Newest(log, Window), j)
    <3>2. /\ v.id = j /\ v.row = db'.job[j] /\ v.fallback = LatestFallback(history)
          /\ v.unreported = ProgressUnreported(db'.job[j], history)
          /\ v.timeline = {x.row : x \in Newest(OfJob(log, j), TimelineLimit)}
      BY <3>1, JobHas
    <3>3. history \subseteq log /\ Newest(OfJob(log, j), TimelineLimit) \subseteq log
      BY QueriesReadLog
    <3> HIDE DEF history
    <3>4. LatestFallback(history) \in RowNumbers \cup {0}
      BY <1>1, <3>3, FallbackIsRow
    <3>5. ProgressUnreported(db'.job[j], history) \in BOOLEAN
      BY DEF ProgressUnreported
    <3>6. db'.job[j] \in JobView
      BY <1>1 DEF TypeOK
    <3> QED
      BY <3>2, <3>3, <3>4, <3>5, <3>6 DEF RowNumbers
  <2> QED
    BY <2>1, <2>2, <2>3
<1>4. ActiveWasHeard'
  <2> SUFFICES ASSUME view'.status = 200
               PROVE  /\ \A r \in view'.active : view'.runners[r].seen + Timeout >= view'.at
                      /\ \A v \in view'.jobs :
                           v.row.state = "running" /\ v.row.liveness = "online"
                             => v.row.seen + Timeout >= view'.at
    BY DEF ActiveWasHeard, Shown
  <2>1. \A r \in view'.active : view'.runners[r].seen + Timeout >= view'.at
    BY <1>1, <1>2, RefreshedAreFresh
  <2>2. ASSUME NEW v \in view'.jobs PROVE \E j \in Jobs : v.row = db'.job[j]
    <3>1. PICK j \in Jobs : v = CurrentJob(j, db'.job[j])
      BY <1>2
    <3>2. v.row = db'.job[j]
      BY <3>1, JobHas
    <3> QED
      BY <3>2
  <2> QED
    BY <1>1, <1>2, <2>1, <2>2, RefreshedAreFresh
<1>5. IncidentsMatchFleet'
  BY <1>1, <1>2 DEF IncidentsMatchFleet, Shown, OfflineIffIncident
<1> QED
  BY <1>3, <1>4, <1>5 DEF OneMoment

\* What is inside the window of a part of the answer is not lost to it.
LEMMA LoadWindowsAgree ==
    ASSUME SnapshotIInv, LoadDashboard
    PROVE  WindowsAgree'
<1>1. /\ TypeOK /\ LogOrdered /\ TypeOK' /\ log' = log
      /\ view' = SnapshotOf(db', incidents')
  BY LoadReads DEF SnapshotIInv, IInv
<1>2. view'.status = 200 =>
           /\ view'.feed = {x.row : x \in Feed}
           /\ \A v \in view'.jobs : \E j \in Jobs : v = CurrentJob(j, db'.job[j])
  BY <1>1, SnapshotHas
<1>3. ASSUME view'.status = 200, NEW v \in view'.jobs
      PROVE  /\ \A x \in OfType(OfJob(Newest(log, Window), v.id), "job.progress") :
                   v.phases[DisplayStage(x.event.stage)] >= x.row
             /\ \A x \in OfJob(log, v.id) :
                   x.row \in v.timeline \/ Cardinality(v.timeline) = TimelineLimit
             /\ v.row.state = "running" /\ v.row.liveness = "online" /\ ~v.unreported =>
                   \E x \in OfType(OfJob(log, v.id), "job.progress") : x.at >= v.row.seen
  <2>1. PICK j \in Jobs : v = CurrentJob(j, db'.job[j])
    BY <1>2, <1>3
  <2> DEFINE history == OfJob(Newest(log, Window), j)
             job == db'.job[j]
  <2>2. /\ v.id = j /\ v.row = job /\ v.phases = Phases(history)
        /\ v.unreported = ProgressUnreported(job, history)
        /\ v.timeline = {x.row : x \in Newest(OfJob(log, j), TimelineLimit)}
    BY <2>1, JobHas
  <2>3. history \subseteq log /\ OfJob(log, j) \subseteq log
    BY QueriesReadLog
  <2>4. \A x \in OfType(history, "job.progress") :
           Phases(history)[DisplayStage(x.event.stage)] >= x.row
    <3> HIDE DEF history
    <3> QED
      BY <1>1, <2>3, PhasesAreNewest
  <2>5. TimelineLimit \in Nat \ {0}
    BY SnapshotAssumption DEF SnapshotAssumption
  <2>6. \A x \in OfJob(log, j) :
           x.row \in v.timeline \/ Cardinality(v.timeline) = TimelineLimit
    BY <1>1, <2>2, <2>3, <2>5, LimitIsFull
  <2>7. ASSUME job.state = "running", job.liveness = "online", ~v.unreported
        PROVE  \E x \in OfType(OfJob(log, j), "job.progress") : x.at >= job.seen
    <3>1. PICK x \in OfType(history, "job.progress") : ~(x.at < job.seen)
      BY <2>2, <2>7 DEF ProgressUnreported
    <3>2. x \in OfType(OfJob(log, j), "job.progress") /\ x \in log
      BY <2>3 DEF OfType, OfJob, Newest
    <3>3. x.at \in Nat /\ job.seen \in Nat
      <4>1. x.at \in Nat
        BY <1>1, <3>2, PartOfLog
      <4>2. job \in JobView
        BY <1>1 DEF TypeOK
      <4>3. job.seen \in Nat
        BY <4>2 DEF JobView
      <4> QED
        BY <4>1, <4>3
    <3> QED
      BY <3>1, <3>2, <3>3
  <2> QED
    BY <2>2, <2>4, <2>6, <2>7
<1>4. ASSUME view'.status = 200, NEW x \in log, x.event.type # "runner.heartbeat"
      PROVE  x.row \in view'.feed \/ Cardinality(view'.feed) = FeedLimit
  <2> DEFINE news == {y \in log : y.event.type \notin {"runner.heartbeat"}}
  <2>1. Feed = Newest(news, FeedLimit)
    BY DEF Feed, RecentEvents
  <2>2. news \subseteq log /\ x \in news /\ FeedLimit \in Nat \ {0}
    BY <1>4, SnapshotAssumption DEF SnapshotAssumption
  <2>3. view'.feed = {y.row : y \in Newest(news, FeedLimit)}
    BY <1>2, <1>4, <2>1
  <2> HIDE DEF news
  <2> QED
    BY <1>1, <2>2, <2>3, LimitIsFull
<1>5. PhaseIsNewest'
  BY <1>1, <1>3 DEF PhaseIsNewest, Shown
<1>6. NotCrowdedOut'
  BY <1>1, <1>3, <1>4 DEF NotCrowdedOut, Shown
<1>7. NoHintMeansProgress'
  BY <1>1, <1>3 DEF NoHintMeansProgress, Shown
<1> QED
  BY <1>5, <1>6, <1>7 DEF WindowsAgree

\* Events, pruning and the clock keep the rows in order.
LEMMA LogStaysOrdered ==
    ASSUME TypeOK, LogOrdered, (\E e \in Events : Ingest(e)) \/ PruneHistory \/ Tick
    PROVE  LogOrdered'
<1>1. \A x \in log : x.row \in Nat /\ x.at \in Nat
  BY PartOfLog
<1>2. CASE \E e \in Events : Ingest(e)
  <2>1. PICK e \in Events, n \in NewRows :
           /\ NextRow(n) /\ now' = now
           /\ log' = log \cup {[row |-> n, event |-> e, at |-> now,
                                applied |-> Accepts(db, e)]}
    BY <1>2 DEF Ingest
  <2> DEFINE x == [row |-> n, event |-> e, at |-> now, applied |-> Accepts(db, e)]
  <2>2. log' = log \cup {x} /\ x.row = n /\ x.at = now
    BY <2>1
  <2> HIDE DEF x
  <2>3. IsFiniteSet(log')
    BY <2>2, FS_AddElement DEF LogOrdered
  <2>4. \A y \in log : y.row < x.row /\ y.at <= x.at
    BY <2>1, <2>2 DEF NextRow, LogOrdered
  <2>5. n \in Nat /\ now \in Nat
    BY <1>1, <2>1 DEF NewRows, TypeOK
  <2>6. \A y, z \in log' : /\ y.row = z.row => y = z
                           /\ y.row > z.row => y.at >= z.at
    BY <1>1, <2>2, <2>4, <2>5 DEF LogOrdered
  <2>7. \A y \in log' : y.at <= now'
    BY <2>1, <2>2, <2>5 DEF LogOrdered
  <2> QED
    BY <2>3, <2>6, <2>7 DEF LogOrdered
<1>3. CASE PruneHistory
  <2>1. log' \subseteq log /\ now' = now
    BY <1>3 DEF PruneHistory
  <2> QED
    BY <2>1, FS_Subset DEF LogOrdered
<1>4. CASE Tick
  <2>1. log' = log /\ now' = now + 1 /\ now \in Nat
    BY <1>4 DEF Tick, TypeOK
  <2> QED
    BY <1>1, <2>1 DEF LogOrdered
<1> QED
  BY <1>2, <1>3, <1>4

\* No answer on its way, nothing to contradict.
LEMMA NothingShown ==
    ASSUME TypeOK, view = Nothing
    PROVE  OneMoment /\ WindowsAgree
  BY DEF OneMoment, WindowsAgree, SnapshotTypeOK, ActiveWasHeard, IncidentsMatchFleet,
         PhaseIsNewest, NotCrowdedOut, NoHintMeansProgress, Shown, Nothing

\* The same of the next state.
LEMMA NothingShownNext ==
    ASSUME TypeOK', view' = Nothing
    PROVE  OneMoment' /\ WindowsAgree'
  BY DEF OneMoment, WindowsAgree, SnapshotTypeOK, ActiveWasHeard, IncidentsMatchFleet,
         PhaseIsNewest, NotCrowdedOut, NoHintMeansProgress, Shown, Nothing

\* Every step keeps the invariant.
LEMMA SnapshotStep ==
    ASSUME SnapshotIInv, [SnapshotNext]_snapshotVars
    PROVE  SnapshotIInv'
<1>1. IInv /\ TypeOK /\ LogOrdered /\ OneMoment /\ WindowsAgree
  BY DEF SnapshotIInv, IInv
<1>2. CASE \/ \E e \in Events : Ingest(e) /\ Arrives
           \/ PruneHistory /\ Arrives
           \/ Tick /\ Arrives
  <2>1. IInv' /\ TypeOK'
    BY <1>1, <1>2, StepIInv DEF Next, IInv
  <2>2. LogOrdered'
    BY <1>1, <1>2, LogStaysOrdered
  <2>3. view' = Nothing
    BY <1>2 DEF Arrives
  <2> QED
    BY <2>1, <2>2, <2>3, NothingShownNext DEF SnapshotIInv
<1>3. CASE LoadDashboard
  BY <1>3, LoadReads, LoadShowsOneMoment, LoadWindowsAgree DEF SnapshotIInv
<1>4. CASE UNCHANGED snapshotVars
  <2>1. UNCHANGED vars /\ view' = view
    BY <1>4 DEF snapshotVars
  <2>2. log' = log /\ now' = now
    BY <2>1 DEF vars
  <2>3. IInv' /\ TypeOK'
    BY <1>1, <2>1, StepIInv DEF IInv
  <2>4. LogOrdered'
    BY <1>1, <2>2 DEF LogOrdered
  <2>5. OneMoment'
    BY <1>1, <2>1, <2>2, <2>3 DEF OneMoment, SnapshotTypeOK, ActiveWasHeard,
       IncidentsMatchFleet, Shown, RowNumbers
  <2>6. WindowsAgree'
    BY <1>1, <2>1, <2>2 DEF WindowsAgree, PhaseIsNewest, NotCrowdedOut,
       NoHintMeansProgress, Shown
  <2> QED
    BY <2>3, <2>4, <2>5, <2>6 DEF SnapshotIInv
<1> QED
  BY <1>2, <1>3, <1>4 DEF SnapshotNext

\* Every snapshot is put together from one moment of tables, incidents and log.
THEOREM SnapshotInvariance == SnapshotSpec => []SnapshotIInv
<1>1. SnapshotInit => SnapshotIInv
  <2> SUFFICES ASSUME SnapshotInit PROVE SnapshotIInv
    OBVIOUS
  <2>1. IInv /\ TypeOK
    BY InitIInv DEF SnapshotInit, IInv
  <2>2. log = {} /\ view = Nothing
    BY DEF SnapshotInit, Init
  <2>3. LogOrdered
    BY <2>2, FS_EmptySet DEF LogOrdered
  <2> QED
    BY <2>1, <2>2, <2>3, NothingShown DEF SnapshotIInv
<1> QED
  BY <1>1, SnapshotStep, PTL DEF SnapshotSpec

\* dashboard_snapshot applies the timeouts before it reads the tables and the
\* incidents: what it lists as active was heard of within the timeout, and what
\* is offline has its incident in the same answer.
THEOREM SnapshotShowsOneMoment == SnapshotSpec => []OneMoment
<1>1. SnapshotIInv => OneMoment
  BY DEF SnapshotIInv
<1> QED
  BY <1>1, SnapshotInvariance, PTL

\* Whatever the sizes of the windows, the phase shown is the newest in its
\* window, a timeline or a feed that leaves out a row is full, and a running job
\* without the hint progress_unreported did report.
THEOREM SnapshotWindowsAgree == SnapshotSpec => []WindowsAgree
<1>1. SnapshotIInv => WindowsAgree
  BY DEF SnapshotIInv
<1> QED
  BY <1>1, SnapshotInvariance, PTL

-----------------------------------------------------------------------------
(* The page: numbers of rows *)

\* A set of numbers has a least member ...
LEMMA MinIs ==
    ASSUME NEW S, S \subseteq Nat, S # {}
    PROVE  Min(S) \in S /\ \A x \in S : Min(S) <= x
<1>1. PICK n \in S : \A x \in S : n <= x
  BY LeastNumber
<1> QED
  BY <1>1 DEF Min

\* ... and, if it is bounded, a greatest.
LEMMA MaxIs ==
    ASSUME NEW n \in Nat, NEW S, S \subseteq 0 .. n, S # {}
    PROVE  Max(S) \in S /\ \A x \in S : x <= Max(S)
<1> DEFINE rest == {n - x : x \in S}
<1>1. rest \subseteq Nat /\ rest # {}
  <2>1. \A x \in S : x \in Nat /\ n - x \in Nat
    OBVIOUS
  <2> QED
    BY <2>1
<1>2. PICK k \in rest : \A i \in rest : k <= i
  BY <1>1, LeastNumber
<1>3. PICK m \in S : k = n - m
  BY <1>2
<1>4. \A x \in S : n - m <= n - x
  BY <1>2, <1>3
<1>5. \A x \in S : x <= m
  BY <1>4
<1> QED
  BY <1>3, <1>5 DEF Max

\* The rows a query matches, and how many of them are newer than a row.
LEMMA NewerCounts ==
    ASSUME events \in Seq(Stored), NEW f
    PROVE  /\ Matching(f) \subseteq 1 .. Len(events) /\ IsFiniteSet(Matching(f))
           /\ \A n \in Nat : NewerThan(n, f) \in Nat
           /\ \A n \in Nat, m \in Matching(f) :
                m > n => NewerThan(m, f) < NewerThan(n, f)
<1> DEFINE After(n) == {m \in Matching(f) : m > n}
<1>1. Matching(f) \subseteq 1 .. Len(events) /\ Len(events) \in Nat
  BY DEF Matching
<1>2. IsFiniteSet(Matching(f))
  <2>1. IsFiniteSet(1 .. Len(events))
    BY <1>1, FS_Interval
  <2> QED
    BY <1>1, <2>1, FS_Subset
<1>3. ASSUME NEW n \in Nat
      PROVE  /\ IsFiniteSet(After(n)) /\ Cardinality(After(n)) \in Nat
             /\ NewerThan(n, f) = Cardinality(After(n))
  <2>1. After(n) \subseteq Matching(f)
    OBVIOUS
  <2> QED
    BY <1>2, <2>1, FS_Subset, FS_CardinalityType DEF NewerThan
<1>4. ASSUME NEW n \in Nat, NEW m \in Matching(f), m > n
      PROVE  NewerThan(m, f) < NewerThan(n, f)
  <2>1. m \in Nat
    BY <1>1
  <2> DEFINE older == After(n)
             newer == After(m)
  <2>2. newer \subseteq older /\ m \in older /\ m \notin newer
    BY <1>1, <1>4, <2>1
  <2>3. /\ IsFiniteSet(older)
        /\ Cardinality(older) \in Nat /\ NewerThan(n, f) = Cardinality(older)
        /\ Cardinality(newer) \in Nat /\ NewerThan(m, f) = Cardinality(newer)
    BY <1>3, <2>1
  <2> HIDE DEF older, newer
  <2>4. Cardinality(newer) <= Cardinality(older) /\ Cardinality(newer) # Cardinality(older)
    BY <2>2, <2>3, FS_Subset
  <2> QED
    BY <2>3, <2>4
<1> QED
  BY <1>1, <1>2, <1>3, <1>4

\* Rows are skipped one at a time: if there are at least k newer than row n,
\* there are exactly k newer than row n or than some row above it.
LEMMA NoRowIsJumped ==
    ASSUME events \in Seq(Stored), NEW f, NEW n \in Matching(f),
           NEW k \in Nat, NewerThan(n, f) >= k
    PROVE  \E m \in Matching(f) : m >= n /\ NewerThan(m, f) = k
<1> DEFINE enough == {m \in Matching(f) : m >= n /\ NewerThan(m, f) >= k}
<1>1. /\ Matching(f) \subseteq 1 .. Len(events) /\ IsFiniteSet(Matching(f))
      /\ Len(events) \in Nat /\ Matching(f) \subseteq Nat
      /\ \A m \in Nat : NewerThan(m, f) \in Nat
  <2>1. Matching(f) \subseteq 1 .. Len(events) /\ Len(events) \in Nat
    BY NewerCounts
  <2>2. Matching(f) \subseteq Nat
    BY <2>1
  <2> QED
    BY <2>1, <2>2, NewerCounts
<1>2. n \in enough /\ enough \subseteq 0 .. Len(events)
  <2>1. n \in Nat /\ n >= n
    BY <1>1
  <2>2. n \in enough
    BY <2>1
  <2>3. enough \subseteq 1 .. Len(events)
    BY <1>1
  <2> HIDE DEF enough
  <2> QED
    BY <1>1, <2>2, <2>3
<1>3. PICK c \in enough : \A m \in enough : m <= c
  <2> HIDE DEF enough
  <2> QED
    BY <1>1, <1>2, MaxIs
<1>4. CASE NewerThan(c, f) = k
  BY <1>3, <1>4
<1>5. CASE NewerThan(c, f) # k
  <2> DEFINE above == {m \in Matching(f) : m > c}
  <2>1. NewerThan(c, f) > k /\ c \in Nat /\ NewerThan(c, f) = Cardinality(above)
    BY <1>1, <1>3, <1>5 DEF NewerThan
  <2>2. above # {} /\ above \subseteq Nat /\ above \subseteq Matching(f)
    <3>1. Cardinality(above) # 0
      BY <2>1
    <3> QED
      BY <1>1, <3>1, FS_EmptySet
  <2>3. PICK l \in above : \A m \in above : l <= m
    BY <2>2, LeastNumber
  <2> DEFINE rest == {m \in Matching(f) : m > l}
  <2>4. l \in Matching(f) /\ l > c /\ l \in Nat /\ c >= n /\ n \in Nat
    BY <1>1, <1>3, <2>3
  <2>5. above = rest \cup {l} /\ l \notin rest
    <3>1. ASSUME NEW m \in above PROVE m \in rest \cup {l}
      <4>1. m \in Matching(f) /\ l <= m /\ m \in Nat
        BY <1>1, <2>3, <3>1
      <4> QED
        BY <2>4, <4>1
    <3>2. ASSUME NEW m \in rest PROVE m \in above
      BY <1>1, <2>1, <2>4, <3>2
    <3>3. l \notin rest
      BY <2>4
    <3> HIDE DEF above, rest
    <3> QED
      BY <2>3, <3>1, <3>2, <3>3
  <2>6. IsFiniteSet(rest) /\ NewerThan(l, f) = Cardinality(rest)
    <3>1. rest \subseteq Matching(f)
      OBVIOUS
    <3> QED
      BY <1>1, <3>1, FS_Subset DEF NewerThan
  <2>7. NewerThan(c, f) = NewerThan(l, f) + 1
    <3> HIDE DEF above, rest
    <3> QED
      BY <2>1, <2>5, <2>6, FS_AddElement
  <2>8. l \in enough
    <3>1. NewerThan(l, f) \in Nat /\ NewerThan(c, f) \in Nat
      BY <1>1, <2>1, <2>4
    <3>2. NewerThan(l, f) >= k /\ l >= n
      BY <2>1, <2>4, <2>7, <3>1
    <3> QED
      BY <2>4, <3>2
  <2> QED
    BY <1>3, <2>4, <2>8, <2>1
<1> QED
  BY <1>4, <1>5

-----------------------------------------------------------------------------
(* The page: what history_page returns *)

\* The rows before page p and those of page p are numbers that add up.
LEMMA PagesAdjoin ==
    ASSUME NEW p \in Nat \ {0}
    PROVE  /\ (p - 1) * PageSize \in Nat /\ p * PageSize \in Nat
           /\ p * PageSize = (p - 1) * PageSize + PageSize /\ PageSize \in Nat \ {0}
<1>1. PageSize \in Nat \ {0}
  BY DashboardAssumption DEF DashboardAssumption
<1>2. p - 1 \in Nat
  OBVIOUS
<1>3. \A a, b \in Nat : a * b \in Nat
  OBVIOUS
<1>4. p * PageSize = (p - 1) * PageSize + PageSize
  BY <1>1
<1> QED
  BY <1>1, <1>2, <1>3, <1>4

\* A row that belongs on page p or a later one is on page p, or page p shows a
\* row above it.
LEMMA PageReaches ==
    ASSUME events \in Seq(Stored), NEW f, NEW p \in Nat \ {0},
           NEW n \in Matching(f), NewerThan(n, f) >= (p - 1) * PageSize
    PROVE  \E m \in Page(f, p).rows : m >= n
<1> DEFINE k == (p - 1) * PageSize
           last == p * PageSize
<1>1. k \in Nat /\ last \in Nat /\ k <= last - 1
  <2>1. k \in Nat /\ last = k + PageSize /\ PageSize \in Nat \ {0}
    BY PagesAdjoin
  <2> HIDE DEF k, last
  <2> QED
    BY <2>1
<1>2. Page(f, p).rows = {m \in Matching(f) : NewerThan(m, f) \in k .. last - 1}
  BY DEF Page
<1>3. NewerThan(n, f) >= k
  OBVIOUS
<1> HIDE DEF k, last
<1>4. PICK m \in Matching(f) : m >= n /\ NewerThan(m, f) = k
  BY <1>1, <1>3, NoRowIsJumped
<1>5. m \in Page(f, p).rows
  BY <1>1, <1>2, <1>4
<1> QED
  BY <1>4, <1>5

\* What is older than a page is on later pages.
LEMMA PageEnds ==
    ASSUME events \in Seq(Stored), NEW f, NEW p \in Nat \ {0},
           NEW rows, rows = Page(f, p).rows
    PROVE  /\ rows \subseteq DOMAIN events
           /\ rows # {} => OnLaterPages(f, p, Min(rows))
<1> DEFINE k == (p - 1) * PageSize
           last == p * PageSize
<1>1. k \in Nat /\ last \in Nat
  BY PagesAdjoin
<1>2. rows = {m \in Matching(f) : NewerThan(m, f) \in k .. last - 1}
  BY DEF Page
<1>3. /\ Matching(f) \subseteq 1 .. Len(events) /\ DOMAIN events = 1 .. Len(events)
      /\ \A n \in Nat : NewerThan(n, f) \in Nat
      /\ \A n \in Nat, m \in Matching(f) : m > n => NewerThan(m, f) < NewerThan(n, f)
  BY NewerCounts
<1>4. rows \subseteq DOMAIN events /\ rows \subseteq Nat
  BY <1>2, <1>3
<1>5. ASSUME rows # {} PROVE OnLaterPages(f, p, Min(rows))
  <2>1. PICK o \in rows : o = Min(rows) /\ \A m \in rows : o <= m
    BY <1>4, <1>5, MinIs
  <2>2. ASSUME NEW n \in Matching(f), n < o PROVE NewerThan(n, f) >= last
    <3>1. n \notin rows /\ n \in Nat /\ o \in Matching(f) /\ o \in Nat
      <4>1. o \in Matching(f) /\ Matching(f) \subseteq Nat
        BY <1>2, <1>3, <2>1
      <4>2. n \in Nat /\ o \in Nat
        BY <4>1
      <4>3. n \notin rows
        BY <2>1, <2>2, <4>2
      <4> QED
        BY <4>1, <4>2, <4>3
    <3>2. NewerThan(o, f) < NewerThan(n, f) /\ NewerThan(o, f) >= k
      BY <1>1, <1>2, <1>3, <2>1, <2>2, <3>1
    <3>3. NewerThan(n, f) \notin k .. last - 1
      BY <1>2, <2>2, <3>1
    <3>4. NewerThan(n, f) \in Nat /\ NewerThan(o, f) \in Nat
      BY <1>3, <3>1
    <3> HIDE DEF k, last
    <3> QED
      BY <1>1, <3>2, <3>3, <3>4
  <2> QED
    BY <1>4, <2>1, <2>2 DEF OnLaterPages
<1> QED
  BY <1>4, <1>5

\* New events move rows to later pages only.
LEMMA StoringMovesLater ==
    ASSUME events \in Seq(Stored), NEW e \in Stored, events' = Append(events, e),
           NEW f, NEW p \in Nat, NEW oldest, OnLaterPages(f, p, oldest)
    PROVE  /\ OnLaterPages(f, p, oldest)'
           /\ \A n \in Matching(f)' : n < oldest => n \in Matching(f)
<1>1. /\ events' \in Seq(Stored) /\ Len(events') = Len(events) + 1
      /\ DOMAIN events = 1 .. Len(events) /\ DOMAIN events' = 1 .. Len(events) + 1
      /\ \A n \in DOMAIN events : events'[n] = events[n]
      /\ Len(events) \in Nat
  OBVIOUS
<1>2. oldest \in DOMAIN events /\ oldest \in Nat
  BY <1>1 DEF OnLaterPages
<1>3. Matching(f) \subseteq Matching(f)'
  BY <1>1 DEF Matching
<1>4. ASSUME NEW n \in Matching(f)', n < oldest PROVE n \in Matching(f)
  <2>1. n \in DOMAIN events
    BY <1>1, <1>2, <1>4 DEF Matching
  <2> QED
    BY <1>1, <1>4, <2>1 DEF Matching
<1>5. IsFiniteSet(Matching(f)')
  <2>1. Matching(f)' \subseteq 1 .. Len(events) + 1
    BY <1>1 DEF Matching
  <2>2. IsFiniteSet(1 .. Len(events) + 1)
    BY <1>1, FS_Interval
  <2> QED
    BY <2>1, <2>2, FS_Subset
<1>6. ASSUME NEW n \in Matching(f)', n < oldest
      PROVE  NewerThan(n, f)' >= p * PageSize
  <2> DEFINE before == {m \in Matching(f) : m > n}
             after == {m \in Matching(f)' : m > n}
  <2>1. n \in Matching(f) /\ NewerThan(n, f) >= p * PageSize
    BY <1>4, <1>6 DEF OnLaterPages
  <2>2. NewerThan(n, f) = Cardinality(before) /\ NewerThan(n, f)' = Cardinality(after)
    BY DEF NewerThan
  <2>3. before \subseteq after /\ after \subseteq Matching(f)'
    BY <1>3
  <2>4. IsFiniteSet(after) /\ IsFiniteSet(before) /\ Cardinality(before) <= Cardinality(after)
    BY <1>5, <2>3, FS_Subset
  <2>5. Cardinality(before) \in Nat /\ Cardinality(after) \in Nat
    BY <2>4, FS_CardinalityType
  <2>6. p * PageSize \in Nat
    <3>1. PageSize \in Nat
      BY DashboardAssumption DEF DashboardAssumption
    <3> QED
      BY <3>1
  <2> HIDE DEF before, after
  <2> QED
    BY <2>1, <2>2, <2>4, <2>5, <2>6
<1> QED
  BY <1>1, <1>2, <1>4, <1>6 DEF OnLaterPages

-----------------------------------------------------------------------------
(* The page: what its requests and its table tell *)

\* A request tells the truth and its answer skips nothing.
Sound(r) ==
    /\ RequestTells(r)
    /\ r.oldest # 0 /\ r.answer # Unanswered =>
         ~\E n \in Matching(r.filter) : n < r.oldest /\ \A m \in r.answer.rows : m < n

TableSound == table.rows # {} => OnLaterPages(table.filter, table.page, Min(table.rows))

\* Sound requests and a sound table are the invariant's two parts about rows.
LEMMA SoundIs == (PagesTell /\ GoingOlderSkipsNothing)
                   <=> (TableSound /\ \A r \in requests : Sound(r))
  BY DEF PagesTell, GoingOlderSkipsNothing, TableSound, Sound

\* The same of the next state.
LEMMA SoundIsNext == (PagesTell /\ GoingOlderSkipsNothing)'
                   <=> (TableSound' /\ \A r \in requests' : Sound(r)')
  BY DEF PagesTell, GoingOlderSkipsNothing, TableSound, Sound

\* Requests and table stay sound while no event is stored.
LEMMA SoundStays ==
    ASSUME events' = events
    PROVE  /\ \A r : Sound(r)' <=> Sound(r)
           /\ table' = table /\ TableSound => TableSound'
  BY DEF Sound, RequestTells, TableSound, OnLaterPages, Matching, NewerThan

\* A request for a page that was not turned to, or not answered yet.
LEMMA NewRequestIsSound ==
    ASSUME NEW id \in 0 .. MaxClicks, NEW f \in Filters, NEW p \in 1 .. MaxClicks + 1,
           NEW oldest \in 0 .. MaxEvents,
           oldest # 0 => OnLaterPages(f, p - 1, oldest),
           NEW r, r = Request(id, f, p, oldest)
    PROVE  Sound(r) /\ r \in Requests /\ r.id = id /\ r.page = p
<1>1. r = [id |-> id, filter |-> f, page |-> p, oldest |-> oldest, answer |-> Unanswered]
  BY DEF Request
<1>2. Unanswered \in [rows : SUBSET (0 .. MaxEvents), more : BOOLEAN]
  <2>1. MaxEvents \in Nat
    BY DashboardAssumption DEF DashboardAssumption
  <2> QED
    BY <2>1 DEF Unanswered
<1>3. /\ r.id = id /\ r.filter = f /\ r.page = p /\ r.oldest = oldest
      /\ r.answer = Unanswered /\ r \in Requests
  BY <1>1, <1>2 DEF Requests
<1> HIDE DEF Request
<1> QED
  BY <1>3 DEF Sound, RequestTells

\* An answer to a request skips nothing.
LEMMA AnswerIsSound ==
    ASSUME events \in Seq(Stored), Len(events) <= MaxEvents,
           NEW r \in Requests, Sound(r),
           NEW a, a = [r EXCEPT !.answer = Page(r.filter, r.page)]
    PROVE  Sound(a) /\ a \in Requests /\ a.id = r.id /\ a.page = r.page
<1>1. MaxEvents \in Nat /\ MaxClicks \in Nat
  BY DashboardAssumption DEF DashboardAssumption
<1>2. PICK answer : answer = Page(r.filter, r.page)
  OBVIOUS
<1>3. /\ a.id = r.id /\ a.filter = r.filter /\ a.page = r.page /\ a.oldest = r.oldest
      /\ a.answer = answer
      /\ answer \in [rows : SUBSET (0 .. MaxEvents), more : BOOLEAN] => a \in Requests
  BY <1>2 DEF Requests
<1>4. r.page \in Nat \ {0} /\ r.oldest \in Nat
  BY <1>1 DEF Requests
<1>5. answer.rows = Page(r.filter, r.page).rows /\ answer.more \in BOOLEAN
      /\ answer = [rows |-> answer.rows, more |-> answer.more]
  BY <1>2 DEF Page
<1>6. /\ answer.rows \subseteq DOMAIN events
      /\ answer.rows # {} => OnLaterPages(r.filter, r.page, Min(answer.rows))
  BY <1>4, <1>5, PageEnds
<1>7. a \in Requests
  <2>1. DOMAIN events = 1 .. Len(events) /\ Len(events) \in Nat
    OBVIOUS
  <2>2. answer.rows \subseteq 0 .. MaxEvents
    BY <1>1, <1>6, <2>1
  <2> QED
    BY <1>3, <1>5, <2>2
<1>8. ASSUME r.oldest # 0, NEW n \in Matching(r.filter), n < r.oldest
      PROVE  \E m \in answer.rows : ~(m < n)
  <2>1. NewerThan(n, r.filter) >= (r.page - 1) * PageSize
    BY <1>8 DEF Sound, RequestTells, OnLaterPages
  <2>2. PICK m \in answer.rows : m >= n
    BY <1>4, <1>5, <2>1, PageReaches
  <2>3. m \in Nat /\ n \in Nat
    <3>1. DOMAIN events = 1 .. Len(events) /\ Len(events) \in Nat
      OBVIOUS
    <3>2. n \in DOMAIN events /\ m \in DOMAIN events
      BY <1>6, <2>2 DEF Matching
    <3> QED
      BY <3>1, <3>2
  <2> QED
    BY <2>2, <2>3
<1>9. RequestTells(a)
  BY <1>3, <1>6 DEF RequestTells, Sound
<1> QED
  BY <1>3, <1>7, <1>8, <1>9 DEF Sound

\* Storing an event keeps requests and table sound.
LEMMA StoreKeepsSound ==
    ASSUME DashboardIInv, NEW e \in Stored, Store(e)
    PROVE  TableSound' /\ \A r \in requests' : Sound(r)'
<1>1. /\ events \in Seq(Stored) /\ events' = Append(events, e)
      /\ requests' = requests /\ table' = table
      /\ requests \subseteq Requests /\ MaxClicks \in Nat
      /\ table.page \in Nat /\ TableSound /\ \A r \in requests : Sound(r)
  <2>1. MaxClicks \in Nat
    BY DashboardAssumption DEF DashboardAssumption
  <2> QED
    BY <2>1, SoundIs DEF DashboardIInv, DashboardTypeOK, Store, tableView
<1>2. \A f : \A p \in Nat : \A o : OnLaterPages(f, p, o) => OnLaterPages(f, p, o)'
  BY <1>1, StoringMovesLater
<1>3. TableSound'
  BY <1>1, <1>2 DEF TableSound
<1>4. ASSUME NEW r \in requests PROVE Sound(r)'
  <2>1. Sound(r) /\ r.page \in Nat /\ r.page - 1 \in Nat
    BY <1>1 DEF Requests
  <2>2. DOMAIN events \subseteq DOMAIN events'
    <3>1. DOMAIN events = 1 .. Len(events) /\ DOMAIN events' = 1 .. Len(events) + 1
          /\ Len(events) \in Nat
      BY <1>1
    <3> QED
      BY <3>1
  <2>3. RequestTells(r)'
    BY <1>2, <2>1, <2>2 DEF Sound, RequestTells
  <2>4. ASSUME r.oldest # 0, NEW n \in Matching(r.filter)', n < r.oldest
        PROVE  n \in Matching(r.filter)
    <3>1. OnLaterPages(r.filter, r.page - 1, r.oldest)
      BY <2>1, <2>4 DEF Sound, RequestTells
    <3> QED
      BY <1>1, <2>1, <2>4, <3>1, StoringMovesLater
  <2> QED
    BY <2>1, <2>3, <2>4 DEF Sound
<1> QED
  BY <1>1, <1>3, <1>4

-----------------------------------------------------------------------------
(* The page: every step keeps the invariant *)

\* What of the invariant is about control, not rows.
PageControl == DashboardTypeOK /\ OneRefresh /\ LoadsAreNewer /\ Counted /\ AskedTells

\* The bounds of the dashboard are numbers.
LEMMA Bounds == MaxEvents \in Nat /\ MaxClicks \in Nat /\ MaxFailures \in Nat
  BY DashboardAssumption DEF DashboardAssumption

\* What the page counts with are numbers.
LEMMA PageNumbers ==
    ASSUME DashboardTypeOK
    PROVE  /\ Len(events) \in Nat /\ snapshot.at \in Nat
           /\ clicks \in Nat /\ page \in Nat
           /\ \A r \in requests : r.page \in Nat /\ r.id \in Nat
<1>1. Len(events) \in Nat
  BY DEF DashboardTypeOK
<1>2. snapshot.at \in 0 .. MaxEvents
  BY DEF DashboardTypeOK, Snapshots
<1>3. clicks \in 0 .. MaxClicks /\ page \in 1 .. MaxClicks + 1
  BY DEF DashboardTypeOK
<1>4. \A r \in requests : r.page \in 1 .. MaxClicks + 1 /\ r.id \in 0 .. MaxClicks
  BY DEF DashboardTypeOK, Requests
<1>5. \A a, b \in Nat : a .. b \subseteq Nat /\ b + 1 \in Nat
  OBVIOUS
<1>6. snapshot.at \in Nat /\ clicks \in Nat
  BY <1>2, <1>3, <1>5, Bounds
<1>7. page \in Nat /\ \A r \in requests : r.page \in Nat /\ r.id \in Nat
  BY <1>3, <1>4, <1>5, Bounds
<1> QED
  BY <1>1, <1>6, <1>7

\* The parts put together.
LEMMA Together ==
    ASSUME PageControl', TableSound', \A r \in requests' : Sound(r)'
    PROVE  DashboardIInv'
  BY SoundIsNext DEF DashboardIInv, PageControl

\* The parts of the invariant, and that they stay while no event is stored.
LEMMA Apart ==
    ASSUME DashboardIInv
    PROVE  /\ PageControl /\ TableSound /\ \A r \in requests : Sound(r) /\ r \in Requests
           /\ events' = events => /\ \A r \in requests : Sound(r)'
                                  /\ table' = table => TableSound'
<1>1. PageControl /\ TableSound /\ \A r \in requests : Sound(r) /\ r \in Requests
  BY SoundIs DEF DashboardIInv, PageControl, DashboardTypeOK
<1> QED
  BY <1>1, SoundStays

\* A table shows rows of the events.
LEMMA TableRows ==
    ASSUME DashboardTypeOK, TableSound, table.rows # {}
    PROVE  Min(table.rows) \in 1 .. MaxEvents
<1>1. table.rows \subseteq 1 .. MaxEvents
  BY DEF DashboardTypeOK, Rows
<1>2. table.rows \subseteq Nat
  BY <1>1
<1> QED
  BY <1>1, <1>2, MinIs

\* The snapshot that is served.
LEMMA ServedSnapshot ==
    ASSUME events \in Seq(Stored), Len(events) <= MaxEvents
    PROVE  /\ Snapshot \in Snapshots /\ Snapshot.at = Len(events) /\ Snapshot # NoData
           /\ Snapshot.kind = "data"
<1> DEFINE rows == {n \in DOMAIN events : n + SnapshotWindow > Len(events)}
<1>1. Len(events) \in 0 .. MaxEvents /\ DOMAIN events = 1 .. Len(events) /\ Len(events) \in Nat
  BY Bounds
<1>2. ASSUME NEW S, S \subseteq DOMAIN events PROVE Latest(S) \in 0 .. MaxEvents
  <2>1. CASE Progress(S) = {}
    BY <1>1, <2>1, Bounds DEF Latest
  <2>2. CASE Progress(S) # {}
    <3>1. Progress(S) \subseteq 0 .. Len(events)
      BY <1>1, <1>2 DEF Progress
    <3>2. Max(Progress(S)) \in 0 .. Len(events)
      BY <1>1, <2>2, <3>1, MaxIs
    <3>3. Latest(S) = Max(Progress(S))
      BY <2>2 DEF Latest
    <3> QED
      BY <1>1, <3>2, <3>3, Bounds
  <2> QED
    BY <2>1, <2>2
<1>3. Snapshot = [kind |-> "data", at |-> Len(events), phase |-> Latest(rows)]
  BY DEF Snapshot
<1>4. rows \subseteq DOMAIN events
  OBVIOUS
<1> HIDE DEF rows
<1> QED
  BY <1>1, <1>2, <1>3, <1>4 DEF Snapshots, NoData

\* What was asked for does not change while nothing is asked and no request ends.
LEMMA AskedStays ==
    ASSUME AskedTells, UNCHANGED <<page, asked>>,
           \A s \in requests' : \E r \in requests : s.id = r.id /\ s.page = r.page,
           \A r \in requests : \E s \in requests' : s.id = r.id,
           \A r, s \in requests' : r.id = s.id => r = s
    PROVE  AskedTells'
<1>1. asked.before \subseteq {r.id : r \in requests'}
  BY DEF AskedTells
<1>2. ASSUME ~asked.overtaken, NEW s \in requests', s.id \notin asked.before
      PROVE  s.page = asked.page
  BY <1>2 DEF AskedTells
<1> QED
  BY <1>1, <1>2 DEF AskedTells

\* A refresh asks for the current page, under an id of its own.
LEMMA AskedAgain ==
    ASSUME AskedTells, UNCHANGED <<page, asked>>,
           NEW r, r.id = 0, r.page = page, requests' = requests \cup {r},
           \A s \in requests : s.id # 0
    PROVE  AskedTells'
<1>1. \A s, t \in requests' : s.id = t.id => s = t
  BY DEF AskedTells
<1>2. asked.before \subseteq {s.id : s \in requests'}
  BY DEF AskedTells
<1>3. ASSUME ~asked.overtaken, NEW s \in requests', s.id \notin asked.before
      PROVE  s.page = asked.page
  BY <1>3 DEF AskedTells
<1> QED
  BY <1>1, <1>2, <1>3 DEF AskedTells

\* A click asks for a page; all that was under way is from before it.
LEMMA AskedNow ==
    ASSUME AskedTells, NEW p \in 1 .. MaxClicks + 1, page' = p, asked' = Asked(p),
           requests \subseteq Requests,
           NEW r, r.page = p, requests' = requests \cup {r},
           \A s \in requests : s.id # r.id
    PROVE  /\ AskedTells'
           /\ asked' \in [page : 1 .. MaxClicks + 1, before : SUBSET (0 .. MaxClicks),
                         overtaken : BOOLEAN]
<1>1. \A s, t \in requests' : s.id = t.id => s = t
  BY DEF AskedTells
<1>2. /\ asked'.before = {s.id : s \in requests} /\ asked'.page = p
      /\ asked'.overtaken = FALSE
  BY DEF Asked
<1>3. asked'.before \subseteq {s.id : s \in requests'}
  BY <1>2
<1>4. \A s \in requests' : s.id \notin asked'.before => s.page = p
  BY <1>2
<1>5. \A s \in requests : s.id \in 0 .. MaxClicks
  BY DEF Requests
<1>6. asked' = [page |-> p, before |-> asked'.before, overtaken |-> FALSE]
  BY <1>2 DEF Asked
<1>7. asked'.before \in SUBSET (0 .. MaxClicks)
  BY <1>2, <1>5
<1> QED
  BY <1>1, <1>2, <1>3, <1>4, <1>6, <1>7 DEF AskedTells

\* A request that is over brings the page asked for, or overtakes it.
LEMMA AskedTurns ==
    ASSUME AskedTells, NEW r \in requests, requests' = requests \ {r},
           page' \in {page, r.page}, Turns(r, page'),
           asked \in [page : 1 .. MaxClicks + 1, before : SUBSET (0 .. MaxClicks),
                     overtaken : BOOLEAN]
    PROVE  /\ AskedTells'
           /\ asked' \in [page : 1 .. MaxClicks + 1, before : SUBSET (0 .. MaxClicks),
                         overtaken : BOOLEAN]
<1>1. /\ asked'.page = asked.page /\ asked'.before = asked.before \ {r.id}
      /\ asked'.overtaken =
           (asked.overtaken \/ (r.id \in asked.before /\ page' # asked.page))
      /\ asked' \in [page : 1 .. MaxClicks + 1, before : SUBSET (0 .. MaxClicks),
                    overtaken : BOOLEAN]
  BY DEF Turns
<1>2. \A s, t \in requests' : s.id = t.id => s = t
  BY DEF AskedTells
<1>3. asked'.before \subseteq {s.id : s \in requests'}
  BY <1>1 DEF AskedTells
<1>4. ASSUME ~asked'.overtaken
      PROVE  /\ page' = asked'.page
             /\ \A s \in requests' : s.id \notin asked'.before => s.page = asked'.page
  <2>1. ~asked.overtaken /\ (r.id \notin asked.before \/ page' = asked.page)
    BY <1>1, <1>4
  <2>2. page = asked.page /\ (r.id \notin asked.before => r.page = asked.page)
    BY <2>1 DEF AskedTells
  <2>3. page' = asked.page
    BY <2>1, <2>2
  <2>4. ASSUME NEW s \in requests', s.id \notin asked'.before PROVE s.page = asked.page
    <3>1. s \in requests /\ s # r
      BY <2>4
    <3>2. s.id # r.id
      BY <3>1 DEF AskedTells
    <3>3. s.id \notin asked.before
      BY <1>1, <2>4, <3>2
    <3> QED
      BY <2>1, <3>1, <3>3 DEF AskedTells
  <2> QED
    BY <1>1, <2>3, <2>4
<1> QED
  BY <1>1, <1>2, <1>3, <1>4 DEF AskedTells

\* The monitor stores an event.
LEMMA StoreStep ==
    ASSUME DashboardIInv, NEW e \in Stored, Store(e)
    PROVE  DashboardIInv' /\ (snapshot'.kind = "data" => snapshot'.at >= snapshot.at)
<1>1. PageControl
  BY Apart
<1>2. /\ events' = Append(events, e) /\ events \in Seq(Stored) /\ Len(events) < MaxEvents
      /\ events' \in Seq(Stored) /\ Len(events') = Len(events) + 1 /\ Len(events) \in Nat
      /\ loads' = loads /\ requests' = requests /\ refreshing' = refreshing
      /\ screen' = screen /\ snapshot' = snapshot /\ auto' = auto /\ filter' = filter
      /\ clicks' = clicks /\ page' = page /\ more' = more /\ table' = table
      /\ asked' = asked /\ failures' = failures
  BY <1>1 DEF PageControl, DashboardTypeOK, Store, reader, tableView
<1>3. DashboardTypeOK' /\ OneRefresh' /\ AskedTells'
  BY <1>1, <1>2 DEF PageControl, DashboardTypeOK, OneRefresh, AskedTells
<1>4. \A a \in loads \cup {snapshot} : a.at \in Nat
  BY <1>1 DEF PageControl, DashboardTypeOK, Snapshots
<1>5. LoadsAreNewer'
  BY <1>1, <1>2, <1>4 DEF PageControl, LoadsAreNewer
<1>6. Counted'
  BY <1>1, <1>2, Bounds DEF PageControl, Counted
<1> QED
  BY <1>2, <1>3, <1>4, <1>5, <1>6, StoreKeepsSound, Together DEF PageControl

\* The monitor answers.
LEMMA MonitorStep ==
    ASSUME DashboardIInv, Monitor
    PROVE  DashboardIInv' /\ (snapshot'.kind = "data" => snapshot'.at >= snapshot.at)
<1>1. /\ PageControl /\ DashboardTypeOK /\ OneRefresh /\ LoadsAreNewer /\ Counted /\ AskedTells
      /\ \A r \in requests : Sound(r) /\ r \in Requests
      /\ Len(events) \in Nat /\ snapshot.at \in Nat
  BY Apart, PageNumbers DEF PageControl
<1>2. /\ events' = events /\ refreshing' = refreshing
      /\ screen' = screen /\ snapshot' = snapshot /\ auto' = auto /\ filter' = filter
      /\ clicks' = clicks /\ page' = page /\ more' = more /\ table' = table
      /\ asked' = asked
  BY DEF Monitor, ServeDashboard, ServeHistory, reader, tableView
<1>3. TableSound' /\ \A r \in requests : Sound(r)'
  BY <1>2, Apart
<1>4. CASE ServeDashboard
  <2>1. PICK a \in {Snapshot, Error} :
           /\ NoData \in loads /\ loads' = (loads \ {NoData}) \cup {a}
           /\ failures' = failures \/ Failure
           /\ requests' = requests
    BY <1>4 DEF ServeDashboard
  <2>2. loads' = {a} /\ refreshing
    BY <1>1, <2>1 DEF OneRefresh
  <2>3. /\ a \in Snapshots
        /\ a # Error => a.at = Len(events)
    <3>1. CASE a = Snapshot
      BY <1>1, <3>1, ServedSnapshot DEF DashboardTypeOK, Counted
    <3>2. CASE a = Error
      BY <3>2, Bounds DEF Error, Snapshots
    <3> QED
      BY <2>1, <3>1, <3>2
  <2>4. failures' \in 0 .. MaxFailures
    BY <1>1, <2>1, Bounds DEF DashboardTypeOK, Failure
  <2>5. DashboardTypeOK'
    BY <1>1, <1>2, <2>1, <2>2, <2>3, <2>4 DEF DashboardTypeOK
  <2>6. OneRefresh'
    BY <1>1, <1>2, <2>1, <2>2 DEF OneRefresh
  <2>7. LoadsAreNewer'
    BY <1>1, <1>2, <2>2, <2>3 DEF LoadsAreNewer
  <2>8. Counted'
    BY <1>1, <1>2, <2>1 DEF Counted
  <2>9. AskedTells'
    BY <1>1, <1>2, <2>1 DEF AskedTells
  <2> QED
    BY <1>1, <1>2, <1>3, <2>1, <2>5, <2>6, <2>7, <2>8, <2>9, Together DEF PageControl
<1>5. CASE ServeHistory
  <2>1. PICK r \in requests :
           /\ r.answer = Unanswered
           /\ requests' = (requests \ {r})
                            \cup {[r EXCEPT !.answer = Page(r.filter, r.page)]}
           /\ loads' = loads /\ failures' = failures
    BY <1>5 DEF ServeHistory
  <2>2. PICK a : /\ a = [r EXCEPT !.answer = Page(r.filter, r.page)]
                 /\ requests' = (requests \ {r}) \cup {a}
    BY <2>1
  <2>3. Sound(a) /\ a \in Requests /\ a.id = r.id /\ a.page = r.page
    BY <1>1, <2>1, <2>2, AnswerIsSound DEF DashboardTypeOK, Counted
  <2>4. Sound(a)'
    BY <1>2, <2>3, SoundStays
  <2>5. DashboardTypeOK'
    BY <1>1, <1>2, <2>1, <2>2, <2>3 DEF DashboardTypeOK
  <2>6. OneRefresh'
    BY <1>1, <1>2, <2>1, <2>2, <2>3 DEF OneRefresh
  <2>7. LoadsAreNewer'
    BY <1>1, <1>2, <2>1 DEF LoadsAreNewer
  <2>8. Counted'
    BY <1>1, <1>2, <2>1, <2>2, <2>3 DEF Counted
  <2>9. AskedTells'
    <3>1. \A s, t \in requests : s.id = t.id => s = t
      BY <1>1 DEF AskedTells
    <3>2. \A s, t \in requests' : s.id = t.id => s = t
      BY <2>1, <2>2, <2>3, <3>1
    <3> QED
      BY <1>1, <1>2, <2>1, <2>2, <2>3, <3>2, AskedStays
  <2> QED
    BY <1>1, <1>2, <1>3, <2>2, <2>4, <2>5, <2>6, <2>7, <2>8, <2>9, Together DEF PageControl
<1> QED
  BY <1>4, <1>5 DEF Monitor

\* An answer to a load arrives, or the load fails, and the refresh goes on with
\* its history request.
LEMMA LoadEnds ==
    ASSUME DashboardIInv, DashboardArrives \/ DashboardFails
    PROVE  DashboardIInv' /\ (snapshot'.kind = "data" => snapshot'.at >= snapshot.at)
<1>1. /\ PageControl /\ DashboardTypeOK /\ OneRefresh /\ LoadsAreNewer /\ Counted /\ AskedTells
      /\ \A r \in requests : Sound(r) /\ r \in Requests
      /\ Len(events) \in Nat /\ snapshot.at \in Nat
  BY Apart, PageNumbers DEF PageControl
<1>2. /\ events' = events /\ refreshing' = refreshing /\ auto' = auto /\ filter' = filter
      /\ clicks' = clicks /\ page' = page /\ more' = more /\ table' = table
      /\ asked' = asked
  BY DEF DashboardArrives, DashboardFails, reader, tableView
<1>3. TableSound' /\ \A r \in requests : Sound(r)'
  BY <1>2, Apart
<1>4. PICK r : r = Request(0, filter, page, 0) /\ requests' = requests \cup {r}
  BY DEF DashboardArrives, DashboardFails
<1>5. Sound(r) /\ r \in Requests /\ r.id = 0 /\ r.page = page
  BY <1>1, <1>4, Bounds, NewRequestIsSound DEF DashboardTypeOK
<1>6. Sound(r)'
  BY <1>2, <1>5, SoundStays
<1>7. PICK a \in loads :
         /\ loads' = loads \ {a}
         /\ (snapshot' = a /\ a # NoData) \/ snapshot' = snapshot
         /\ screen' \in {"shown", "error"}
         /\ failures' = failures \/ Failure
  BY DEF DashboardArrives, DashboardFails
<1>8. loads' = {} /\ refreshing /\ \A s \in requests : s.id # 0
  BY <1>1, <1>7 DEF OneRefresh
<1>9. failures' \in 0 .. MaxFailures
  BY <1>1, <1>7, Bounds DEF DashboardTypeOK, Failure
<1>10. DashboardTypeOK'
  BY <1>1, <1>2, <1>4, <1>5, <1>7, <1>8, <1>9 DEF DashboardTypeOK
<1>11. OneRefresh'
  BY <1>2, <1>4, <1>5, <1>8 DEF OneRefresh
<1>12. a \in Snapshots
  BY <1>1, <1>7 DEF DashboardTypeOK
<1>13. /\ a.kind = "data" => a.at >= snapshot.at
       /\ a # NoData => a.at <= Len(events)
  BY <1>1, <1>7 DEF LoadsAreNewer, NoData, Error
<1>14. LoadsAreNewer'
  BY <1>1, <1>2, <1>7, <1>8, <1>13 DEF LoadsAreNewer, NoData
<1>15. Counted'
  BY <1>1, <1>2, <1>4, <1>5, Bounds DEF Counted, DashboardTypeOK
<1>16. AskedTells'
  BY <1>1, <1>2, <1>4, <1>5, <1>8, AskedAgain
<1> QED
  BY <1>1, <1>2, <1>3, <1>4, <1>6, <1>7, <1>10, <1>11, <1>13, <1>14, <1>15, <1>16, Together
  DEF PageControl

\* An answer to a history request arrives, or the request fails.
LEMMA HistoryEnds ==
    ASSUME DashboardIInv, HistoryArrives \/ HistoryFails
    PROVE  DashboardIInv' /\ (snapshot'.kind = "data" => snapshot'.at >= snapshot.at)
<1>1. /\ PageControl /\ DashboardTypeOK /\ OneRefresh /\ LoadsAreNewer /\ Counted /\ AskedTells
      /\ \A r \in requests : Sound(r) /\ r \in Requests
      /\ Len(events) \in Nat /\ snapshot.at \in Nat
  BY Apart, PageNumbers DEF PageControl
<1>2. /\ events' = events /\ auto' = auto /\ filter' = filter /\ clicks' = clicks
      /\ loads' = loads /\ snapshot' = snapshot
  BY DEF HistoryArrives, HistoryFails, reader
<1>3. \A r \in requests : Sound(r)'
  BY <1>2, Apart
<1>4. PICK r \in requests :
         /\ requests' = requests \ {r} /\ refreshing' = (refreshing /\ r.id # 0)
         /\ failures' = failures \/ Failure
         /\ screen' \in {"shown", screen}
         /\ page' \in {page, r.page} /\ Turns(r, page')
         /\ \/ more' = FALSE /\ table' = NoRows(page')
            \/ /\ r.answer # Unanswered
               /\ more' = r.answer.more
               /\ table' = [filter |-> r.filter, page |-> r.page, rows |-> r.answer.rows]
  BY DEF HistoryArrives, HistoryFails, Over
<1>5. r \in Requests /\ Sound(r) /\ Sound(r)' /\ page' \in 1 .. MaxClicks + 1
      /\ page' <= clicks + 1
  BY <1>1, <1>3, <1>4 DEF DashboardTypeOK, Requests, Counted
<1>6. failures' \in 0 .. MaxFailures
  BY <1>1, <1>4, Bounds DEF DashboardTypeOK, Failure
<1>7. /\ table' \in [filter : Filters \cup {"none"}, page : 1 .. MaxClicks + 1,
                     rows : SUBSET Rows]
      /\ more' \in BOOLEAN /\ TableSound'
  <2>1. CASE more' = FALSE /\ table' = NoRows(page')
    BY <1>5, <2>1 DEF NoRows, TableSound
  <2>2. CASE /\ r.answer # Unanswered
             /\ more' = r.answer.more
             /\ table' = [filter |-> r.filter, page |-> r.page, rows |-> r.answer.rows]
    <3>1. /\ r.filter \in Filters /\ r.page \in 1 .. MaxClicks + 1
          /\ r.answer.more \in BOOLEAN
      BY <1>5 DEF Requests
    <3>2. /\ r.answer.rows \subseteq DOMAIN events
          /\ r.answer.rows # {} => OnLaterPages(r.filter, r.page, Min(r.answer.rows))'
      BY <1>2, <1>5, <2>2 DEF Sound, RequestTells
    <3>3. DOMAIN events \subseteq Rows
      <4>1. DOMAIN events = 1 .. Len(events) /\ Len(events) <= MaxEvents
        BY <1>1 DEF DashboardTypeOK, Counted
      <4> QED
        BY <1>1, <4>1, Bounds DEF Rows
    <3> QED
      BY <2>2, <3>1, <3>2, <3>3 DEF TableSound
  <2> QED
    BY <1>4, <2>1, <2>2
<1>8. refreshing' \in BOOLEAN /\ screen' \in {"blank", "shown", "error"}
  BY <1>1, <1>4 DEF DashboardTypeOK
<1>13. /\ AskedTells'
       /\ asked' \in [page : 1 .. MaxClicks + 1, before : SUBSET (0 .. MaxClicks),
                     overtaken : BOOLEAN]
  BY <1>1, <1>4, AskedTurns DEF DashboardTypeOK
<1>9. DashboardTypeOK'
  BY <1>1, <1>2, <1>4, <1>5, <1>6, <1>7, <1>8, <1>13 DEF DashboardTypeOK
<1>10. OneRefresh'
  <2>1. CASE r.id = 0
    <3>1. loads = {} /\ \A s \in requests : s.id = 0 => s = r
      BY <1>1, <1>4, <2>1 DEF OneRefresh
    <3> QED
      BY <1>2, <1>4, <3>1 DEF OneRefresh
  <2>2. CASE r.id # 0
    <3>1. refreshing' = refreshing
      BY <1>1, <1>4, <2>2 DEF DashboardTypeOK
    <3> QED
      BY <1>1, <1>2, <1>4, <3>1 DEF OneRefresh
  <2> QED
    BY <2>1, <2>2
<1>11. LoadsAreNewer'
  BY <1>1, <1>2 DEF LoadsAreNewer
<1>12. Counted'
  BY <1>1, <1>2, <1>4, <1>5 DEF Counted
<1> QED
  BY <1>1, <1>2, <1>3, <1>4, <1>7, <1>9, <1>10, <1>11, <1>12, <1>13, Together DEF PageControl

\* A refresh starts unless one is under way.
LEMMA RefreshKeepsOne ==
    ASSUME PageControl, RefreshAll, UNCHANGED <<events, requests, snapshot>>
    PROVE  /\ OneRefresh' /\ LoadsAreNewer'
           /\ refreshing' \in BOOLEAN /\ loads' \subseteq Snapshots
<1>1. DashboardTypeOK /\ OneRefresh /\ LoadsAreNewer
  BY DEF PageControl
<1>2. NoData \in Snapshots
  BY Bounds DEF NoData, Snapshots
<1>3. CASE refreshing
  <2>1. refreshing' = refreshing /\ loads' = loads
    BY <1>3 DEF RefreshAll
  <2> QED
    BY <1>1, <2>1 DEF OneRefresh, LoadsAreNewer, DashboardTypeOK
<1>4. CASE ~refreshing
  <2>1. refreshing' = TRUE /\ loads' = loads \cup {NoData} /\ loads = {}
    BY <1>1, <1>4 DEF RefreshAll, OneRefresh
  <2>2. \A r \in requests : r.id # 0
    BY <1>1, <1>4 DEF OneRefresh
  <2> QED
    BY <1>1, <1>2, <2>1, <2>2 DEF OneRefresh, LoadsAreNewer
<1> QED
  BY <1>3, <1>4

\* The timer, and the reader's switch for it.
LEMMA RefreshStep ==
    ASSUME DashboardIInv, AutoRefresh \/ Toggle
    PROVE  DashboardIInv' /\ (snapshot'.kind = "data" => snapshot'.at >= snapshot.at)
<1>1. /\ PageControl /\ DashboardTypeOK /\ OneRefresh /\ LoadsAreNewer /\ Counted /\ AskedTells
      /\ Len(events) \in Nat /\ snapshot.at \in Nat
  BY Apart, PageNumbers DEF PageControl
<1>2. /\ events' = events /\ requests' = requests /\ screen' = screen
      /\ snapshot' = snapshot /\ filter' = filter /\ failures' = failures
      /\ page' = page /\ more' = more /\ table' = table /\ asked' = asked
  BY DEF AutoRefresh, Toggle, reader, tableView
<1>3. auto' \in BOOLEAN /\ clicks' \in 0 .. MaxClicks /\ clicks' >= clicks
  <2>1. auto \in BOOLEAN /\ clicks \in 0 .. MaxClicks
    BY <1>1 DEF DashboardTypeOK
  <2>2. CASE AutoRefresh
    <3>1. auto' = auto /\ clicks' = clicks
      BY <2>2 DEF AutoRefresh, reader
    <3> QED
      BY <2>1, <3>1, Bounds
  <2>3. CASE Toggle
    <3>1. auto' = ~auto /\ clicks < MaxClicks /\ clicks' = clicks + 1
      BY <2>3 DEF Toggle, Click
    <3>2. auto' \in BOOLEAN
      BY <2>1, <3>1
    <3>3. clicks' \in 0 .. MaxClicks /\ clicks' >= clicks
      BY <2>1, <3>1, Bounds
    <3> QED
      BY <3>2, <3>3
  <2> QED
    BY <2>2, <2>3
<1>4. RefreshAll \/ UNCHANGED <<refreshing, loads>>
  BY DEF AutoRefresh, Toggle
<1>5. /\ OneRefresh' /\ LoadsAreNewer'
      /\ refreshing' \in BOOLEAN /\ loads' \subseteq Snapshots
  <2>1. CASE RefreshAll
    BY <1>1, <1>2, <2>1, RefreshKeepsOne
  <2>2. CASE UNCHANGED <<refreshing, loads>>
    BY <1>1, <1>2, <2>2 DEF OneRefresh, LoadsAreNewer, DashboardTypeOK
  <2> QED
    BY <1>4, <2>1, <2>2
<1>6. DashboardTypeOK'
  BY <1>1, <1>2, <1>3, <1>5 DEF DashboardTypeOK
<1>7. Counted'
  <2>1. clicks \in Nat /\ clicks' \in Nat /\ page \in Nat
        /\ \A r \in requests : r.page \in Nat /\ r.id \in Nat
    BY <1>1, <1>3, PageNumbers
  <2>2. page <= clicks' + 1 /\ Len(events) <= MaxEvents
    <3>1. page <= clicks + 1 /\ Len(events) <= MaxEvents
      BY <1>1 DEF Counted
    <3>2. clicks' >= clicks /\ clicks \in Nat /\ clicks' \in Nat /\ page \in Nat
      BY <1>3, <2>1
    <3>3. \A a, b, c \in Nat : a <= b + 1 /\ c >= b => a <= c + 1
      OBVIOUS
    <3>4. page <= clicks' + 1
      BY <3>1, <3>2, <3>3, Zenon
    <3> QED
      BY <3>1, <3>4
  <2>3. \A r \in requests : r.page <= clicks' + 1 /\ r.id <= clicks'
    BY <1>1, <1>3, <2>1 DEF Counted
  <2> QED
    BY <1>2, <2>2, <2>3 DEF Counted
<1>8. TableSound' /\ \A r \in requests : Sound(r)'
  BY <1>2, Apart
<1>9. AskedTells'
  BY <1>1, <1>2 DEF AskedTells
<1> QED
  BY <1>1, <1>2, <1>5, <1>6, <1>7, <1>8, <1>9, Together DEF PageControl

\* The reader turns a page or changes the filter.
LEMMA TurnStep ==
    ASSUME DashboardIInv, Older \/ Newer \/ \E f \in Filters : ApplyFilter(f)
    PROVE  DashboardIInv' /\ (snapshot'.kind = "data" => snapshot'.at >= snapshot.at)
<1>1. /\ PageControl /\ DashboardTypeOK /\ OneRefresh /\ LoadsAreNewer /\ Counted /\ AskedTells
      /\ Len(events) \in Nat /\ snapshot.at \in Nat /\ TableSound
      /\ clicks \in Nat /\ page \in Nat
      /\ \A r \in requests : r.page \in Nat /\ r.id \in Nat
  BY Apart, PageNumbers DEF PageControl
<1>2. /\ events' = events /\ loads' = loads /\ refreshing' = refreshing /\ auto' = auto
      /\ screen' = screen /\ snapshot' = snapshot /\ more' = more /\ table' = table
      /\ failures' = failures /\ clicks' = clicks + 1 /\ clicks < MaxClicks
      /\ asked' = Asked(page')
  BY DEF Older, Newer, ApplyFilter, Click
<1>3. TableSound' /\ \A r \in requests : Sound(r)'
  BY <1>2, Apart
<1>4. /\ filter' \in Filters /\ page' \in 1 .. clicks + 2
      /\ \E oldest \in 0 .. MaxEvents :
           /\ requests' = requests \cup {Request(clicks', filter', page', oldest)}
           /\ oldest # 0 => OnLaterPages(filter', page' - 1, oldest)
  <2>1. CASE Older
    <3>1. PICK oldest : /\ oldest = IF InView THEN Min(table.rows) ELSE 0
                        /\ requests' = requests \cup {Request(clicks', filter, page', oldest)}
      BY <2>1 DEF Older
    <3>2. page' = page + 1 /\ filter' = filter
      BY <2>1 DEF Older
    <3>3. CASE InView
      <4>1. oldest = Min(table.rows) /\ table.rows # {} /\ table.filter = filter
            /\ table.page = page
        BY <3>1, <3>3 DEF InView
      <4>2. oldest \in 1 .. MaxEvents
        BY <1>1, <4>1, TableRows
      <4>3. OnLaterPages(filter, page, oldest)
        BY <1>1, <4>1 DEF TableSound
      <4>4. page' - 1 = page
        BY <1>1, <3>2
      <4> QED
        BY <1>1, <3>1, <3>2, <4>2, <4>3, <4>4 DEF Counted, DashboardTypeOK
    <3>4. CASE ~InView
      <4>1. oldest = 0 /\ 0 \in 0 .. MaxEvents
        BY <3>1, <3>4, Bounds
      <4> QED
        BY <1>1, <3>1, <3>2, <4>1 DEF Counted, DashboardTypeOK
    <3> QED
      BY <3>3, <3>4
  <2>2. CASE Newer
    <3>1. page > 1 /\ page' = page - 1 /\ filter' = filter
          /\ requests' = requests \cup {Request(clicks', filter', page', 0)}
      BY <2>2 DEF Newer
    <3> QED
      BY <1>1, <3>1, Bounds DEF Counted, DashboardTypeOK
  <2>3. CASE \E f \in Filters : ApplyFilter(f)
    <3>1. filter' \in Filters /\ page' = 1
          /\ requests' = requests \cup {Request(clicks', filter', page', 0)}
      BY <2>3 DEF ApplyFilter
    <3> QED
      BY <1>1, <3>1, Bounds
  <2> QED
    BY <2>1, <2>2, <2>3
<1>5. PICK oldest \in 0 .. MaxEvents :
         /\ requests' = requests \cup {Request(clicks', filter', page', oldest)}
         /\ oldest # 0 => OnLaterPages(filter', page' - 1, oldest)
  BY <1>4
<1>6. PICK id, f, p : id = clicks' /\ f = filter' /\ p = page'
  OBVIOUS
<1>7. PICK r : r = Request(id, f, p, oldest) /\ requests' = requests \cup {r}
  BY <1>5, <1>6
<1>8. id \in 0 .. MaxClicks /\ id # 0 /\ f \in Filters /\ p \in 1 .. MaxClicks + 1
      /\ p <= id + 1 /\ id \in Nat
  BY <1>1, <1>2, <1>4, <1>6, Bounds
<1>9. Sound(r) /\ r \in Requests /\ r.id = id /\ r.page = p
  BY <1>5, <1>6, <1>7, <1>8, NewRequestIsSound
<1>10. Sound(r)'
  BY <1>2, <1>9, SoundStays
<1>15. \A s \in requests : s.id # id
  BY <1>1, <1>2, <1>6 DEF Counted
<1>16. /\ AskedTells'
       /\ asked' \in [page : 1 .. MaxClicks + 1, before : SUBSET (0 .. MaxClicks),
                     overtaken : BOOLEAN]
  <2>1. requests \subseteq Requests
    BY <1>1 DEF DashboardTypeOK
  <2> QED
    BY <1>1, <1>2, <1>6, <1>7, <1>8, <1>9, <1>15, <2>1, AskedNow
<1>11. DashboardTypeOK'
  BY <1>1, <1>2, <1>6, <1>7, <1>8, <1>9, <1>16 DEF DashboardTypeOK
<1>12. OneRefresh'
  BY <1>1, <1>2, <1>7, <1>8, <1>9 DEF OneRefresh
<1>13. LoadsAreNewer'
  BY <1>1, <1>2 DEF LoadsAreNewer
<1>14. Counted'
  BY <1>1, <1>2, <1>6, <1>7, <1>8, <1>9 DEF Counted
<1> QED
  BY <1>1, <1>2, <1>3, <1>7, <1>10, <1>11, <1>12, <1>13, <1>14, <1>16, Together DEF PageControl

\* Every step keeps the invariant, and no step shows an older snapshot.
LEMMA DashboardStep ==
    ASSUME DashboardIInv, [DashboardNext]_dashboardVars
    PROVE  DashboardIInv' /\ (snapshot'.kind = "data" => snapshot'.at >= snapshot.at)
<1>1. CASE UNCHANGED dashboardVars
  <2>1. /\ PageControl /\ \A r \in requests : Sound(r)
        /\ events' = events /\ requests' = requests /\ table' = table
        /\ snapshot' = snapshot /\ snapshot.at \in Nat
    BY <1>1, Apart DEF dashboardVars, PageControl, DashboardTypeOK, Snapshots
  <2>2. TableSound' /\ \A r \in requests' : Sound(r)'
    BY <2>1, Apart
  <2>3. PageControl'
    BY <1>1, <2>1 DEF dashboardVars, PageControl, DashboardTypeOK, OneRefresh,
       LoadsAreNewer, Counted, AskedTells
  <2> QED
    BY <2>1, <2>2, <2>3, Together
<1>2. CASE DashboardNext
  BY <1>2, StoreStep, MonitorStep, LoadEnds, HistoryEnds, RefreshStep, TurnStep
  DEF DashboardNext, Answer, Reader
<1> QED
  BY <1>1, <1>2

\* The page as it is loaded.
LEMMA DashboardStarts ==
    ASSUME DashboardInit
    PROVE  DashboardIInv
<1>1. /\ events = <<>> /\ loads = {NoData} /\ refreshing = TRUE /\ requests = {}
      /\ auto = TRUE /\ screen = "blank" /\ snapshot = NoData /\ filter = "all"
      /\ page = 1 /\ more = FALSE /\ table = [filter |-> "all", page |-> 1, rows |-> {}]
      /\ asked = [page |-> 1, before |-> {}, overtaken |-> FALSE]
      /\ clicks = 0 /\ failures = 0
  <2>1. requests = {} /\ asked = Asked(1)
    BY DEF DashboardInit
  <2>2. asked = [page |-> 1, before |-> {}, overtaken |-> FALSE]
    BY <2>1 DEF Asked
  <2> QED
    BY <2>2 DEF DashboardInit
<1>2. NoData \in Snapshots /\ Len(events) = 0 /\ NoData.at = 0
  BY <1>1, Bounds DEF NoData, Snapshots
<1>3. DashboardTypeOK
  <2>1. events \in Seq(Stored) /\ requests \subseteq Requests /\ loads \subseteq Snapshots
    BY <1>1, <1>2
  <2>2. /\ page \in 1 .. MaxClicks + 1 /\ clicks \in 0 .. MaxClicks
        /\ failures \in 0 .. MaxFailures
    BY <1>1, Bounds
  <2>3. table \in [filter : Filters \cup {"none"}, page : 1 .. MaxClicks + 1,
                   rows : SUBSET Rows]
    BY <1>1, <2>2 DEF Filters
  <2>4. /\ refreshing \in BOOLEAN /\ auto \in BOOLEAN /\ more \in BOOLEAN
        /\ screen \in {"blank", "shown", "error"} /\ filter \in Filters
    BY <1>1 DEF Filters
  <2>5. asked \in [page : 1 .. MaxClicks + 1, before : SUBSET (0 .. MaxClicks),
                  overtaken : BOOLEAN]
    BY <1>1, <2>2
  <2> QED
    BY <1>1, <1>2, <2>1, <2>2, <2>3, <2>4, <2>5 DEF DashboardTypeOK
<1>4. OneRefresh /\ LoadsAreNewer /\ Counted
  BY <1>1, <1>2, Bounds DEF OneRefresh, LoadsAreNewer, Counted
<1>5. PagesTell /\ GoingOlderSkipsNothing
  BY <1>1 DEF PagesTell, GoingOlderSkipsNothing
<1>6. AskedTells
  BY <1>1 DEF AskedTells
<1> QED
  BY <1>3, <1>4, <1>5, <1>6 DEF DashboardIInv

\* However answers, clicks, timer and new events interleave: one refresh at a
\* time, and every page held or asked for still borders on the rows it followed.
THEOREM DashboardInvariance == DashboardSpec => []DashboardIInv
  BY DashboardStarts, DashboardStep, PTL DEF DashboardSpec

\* The variables of the page keep their types; no page before the first is asked for.
THEOREM DashboardIsTyped == DashboardSpec => []DashboardTypeOK
<1>1. DashboardIInv => DashboardTypeOK
  BY DEF DashboardIInv
<1> QED
  BY <1>1, DashboardInvariance, PTL

\* For any page size: turning to the older page skips no event, although rows
\* are stored between the two requests and answers may be late.
THEOREM NothingIsSkipped == DashboardSpec => []GoingOlderSkipsNothing
<1>1. DashboardIInv => GoingOlderSkipsNothing
  BY DEF DashboardIInv
<1> QED
  BY <1>1, DashboardInvariance, PTL

\* state.refreshInFlight keeps loads apart, so no late answer shows an older fleet.
THEOREM SnapshotsGoForward == DashboardSpec => SnapshotNeverGoesBack
<1>1. ASSUME DashboardIInv, [DashboardNext]_dashboardVars
      PROVE  [snapshot'.kind = "data" => snapshot'.at >= snapshot.at]_dashboardVars
  BY <1>1, DashboardStep
<1> QED
  BY <1>1, DashboardInvariance, PTL DEF DashboardSpec, SnapshotNeverGoesBack

\* The page number a click asked for is the current one until the next click, and
\* the refreshes since ask for it, unless an answer to a request sent before the
\* click came after it: nothing else loses a click (app.js:382).
THEOREM OnlyEarlierRequestsTakeThePage ==
    DashboardSpec => [](~asked.overtaken => page = asked.page)
<1>1. DashboardIInv => (~asked.overtaken => page = asked.page)
  BY DEF DashboardIInv, AskedTells
<1> QED
  BY <1>1, DashboardInvariance, PTL
=============================================================================
