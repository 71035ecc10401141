------------------------------ MODULE Snapshot ------------------------------
(***************************************************************************)
(* GET /api/dashboard on the event store: dashboard_snapshot of            *)
(* dashboard.py with recent_events, recent_job_events and                  *)
(* refresh_liveness of store.py, one call under the server's store lock.   *)
(* The snapshot puts together what the tables tell (who is online, what    *)
(* runs) and what only the newest rows of the log tell (phases, fallback,  *)
(* timeline, feed): the two must agree although each part looks at the log *)
(* through a window of its own.  Dashboard tells what the page does with   *)
(* the answer.                                                             *)
(***************************************************************************)
EXTENDS MonitorStore

CONSTANTS
    Approved,       \* _ALL_APPROVED_STAGE_IDS
    Window,         \* DASHBOARD_EVENT_WINDOW
    FeedLimit,      \* EVENT_FEED_LIMIT
    TimelineLimit   \* JOB_TIMELINE_LIMIT

\* Reports name their job, and progress its stage, which is any identifier.
\* e.edge: occurred_at is a date that only some time zones can name.
ASSUME SnapshotAssumption ==
    /\ Window \in Nat \ {0} /\ FeedLimit \in Nat \ {0} /\ TimelineLimit \in Nat \ {0}
    /\ \A e \in Events : /\ e.edge \in BOOLEAN
                         /\ e.type \in Reports => e.job \in Jobs
                         /\ e.type = "job.progress" => "stage" \in DOMAIN e

VARIABLE view   \* the answer on its way to the page

snapshotVars == <<vars, view>>

Nothing == [status |-> 0]
Unavailable == [status |-> 500]     \* dashboard_unavailable

-----------------------------------------------------------------------------
(* Queries of the store *)

\* ORDER BY event_row_id DESC LIMIT n
Newest(rows, n) == {x \in rows : Cardinality({y \in rows : y.row > x.row}) < n}

RecentEvents(excluded, n) == Newest({x \in log : x.event.type \notin excluded}, n)

OfJob(rows, j) ==
    {x \in rows : x.event.type \in JobTypes \cup Reports /\ x.event.job = j}

\* Mutant of RecentJobEvents: the timeline is cut from the window of all jobs.
RecentJobEventsInWindow(j, n) == Newest(OfJob(RecentEvents({}, Window), j), n)

\* recent_job_events.
RecentJobEvents(j, n) == Newest(OfJob(log, j), n)

-----------------------------------------------------------------------------
(* What dashboard_snapshot makes of them *)

DisplayStage(id) == IF id \in Approved THEN id ELSE "unrecognised_stage"

\* Mutant of LastReceived: the producer's numbers decide.
LastReceivedBySequence(rows) ==
    CHOOSE x \in rows : \A y \in rows : x.event.seq >= y.event.seq

\* The last of a stable sort by received_at.
LastReceived(rows) ==
    CHOOSE x \in rows : \A y \in rows \ {x} :
        x.at > y.at \/ (x.at = y.at /\ x.row > y.row)

OfType(rows, type) == {x \in rows : x.event.type = type}

Phases(rows) ==
    LET progress == OfType(rows, "job.progress")
        Of(id) == {x \in progress : DisplayStage(x.event.stage) = id}
    IN [id \in {DisplayStage(x.event.stage) : x \in progress} |->
            LastReceived(Of(id)).row]

LatestFallback(rows) ==
    LET fallbacks == OfType(rows, "job.fallback")
    IN IF fallbacks = {} THEN 0 ELSE LastReceived(fallbacks).row

\* Mutant of ProgressUnreported: a job without any progress gets no hint.
ProgressUnreportedAfterSome(job, rows) ==
    /\ job.liveness = "online" /\ job.state = "running"
    /\ OfType(rows, "job.progress") # {}
    /\ \A x \in OfType(rows, "job.progress") : x.at < job.seen

\* last_heartbeat_at is the time of the job's last applied event.
ProgressUnreported(job, rows) ==
    /\ job.liveness = "online" /\ job.state = "running"
    /\ \A x \in OfType(rows, "job.progress") : x.at < job.seen

\* The current job of a runner.
CurrentJob(j, job) ==
    LET history == OfJob(RecentEvents({}, Window), j)
    IN [id |-> j, row |-> job,
        phases |-> Phases(history),
        fallback |-> LatestFallback(history),
        unreported |-> ProgressUnreported(job, history),
        timeline |-> {x.row : x \in RecentJobEvents(j, TimelineLimit)}]

\* The jobs of the runner views, if there is a row of them.
Current(d) == {j \in Jobs : /\ d.job[j].state # "unseen"
                            /\ \E r \in Runners : d.runner[r].job = j}

Feed == RecentEvents({"runner.heartbeat"}, FeedLimit)

\* Every row whose occurred_at is formatted, a phase that is overwritten by a
\* later one included.
Formatted(d) ==
    Feed \cup UNION {LET history == OfJob(RecentEvents({}, Window), j)
                     IN RecentJobEvents(j, TimelineLimit)
                          \cup OfType(history, "job.progress")
                          \cup {x \in history : x.row = LatestFallback(history)}
                     : j \in Current(d)}

SnapshotOf(d, alarms) ==
    IF \E x \in Formatted(d) : x.event.edge THEN Unavailable
    ELSE [status |-> 200, at |-> now,
          runners |-> d.runner,
          active |-> {r \in Runners : d.runner[r].liveness = "online"},
          incidents |-> alarms,
          jobs |-> {CurrentJob(j, d.job[j]) : j \in Current(d)},
          feed |-> {x.row : x \in Feed}]

\* Mutants of LoadDashboard: loading is read-only; incidents are read first.
LoadDashboardReadOnly ==
    /\ view' = SnapshotOf(db, incidents)
    /\ UNCHANGED vars
LoadDashboardIncidentsFirst ==
    /\ RefreshLiveness
    /\ view' = SnapshotOf(db', incidents)

\* The timeouts stay applied when the rest of the snapshot fails.
LoadDashboard ==
    /\ RefreshLiveness
    /\ view' = SnapshotOf(db', incidents')

Arrives == view' = Nothing

SnapshotInit == Init /\ view = Nothing

SnapshotNext == \/ \E e \in Events : Ingest(e) /\ Arrives
                \/ PruneHistory /\ Arrives
                \/ Tick /\ Arrives
                \/ LoadDashboard

SnapshotSpec == SnapshotInit /\ [][SnapshotNext]_snapshotVars

-----------------------------------------------------------------------------
(* Properties *)

Shown == view.status = 200

RowNumbers == {x.row : x \in log}

SnapshotTypeOK ==
    /\ TypeOK
    /\ view.status \in {0, 200, 500}
    /\ Shown =>
        /\ view.at \in 0 .. MaxNow
        /\ view.runners \in [Runners -> RunnerView]
        /\ view.active \subseteq Runners
        /\ view.incidents \in [Runners -> SUBSET Conditions]
        /\ view.feed \subseteq RowNumbers
        /\ \A v \in view.jobs :
             /\ v.id \in Jobs /\ v.row \in JobView
             /\ v.fallback \in RowNumbers \cup {0}
             /\ v.unreported \in BOOLEAN
             /\ v.timeline \subseteq RowNumbers

\* "a dashboard load always reflects the ten-minute heartbeat timeout"
\* (dashboard_snapshot): whoever is listed as active was heard of within the
\* timeout, and so was a job that is shown running and online.
ActiveWasHeard ==
    Shown =>
        /\ \A r \in view.active : view.runners[r].seen + Timeout >= view.at
        /\ \A v \in view.jobs : v.row.state = "running" /\ v.row.liveness = "online"
                                    => v.row.seen + Timeout >= view.at

\* One answer does not contradict itself: it shows a runner as offline exactly
\* if it also shows an incident of it, and the runner's own reason is one of
\* those, however the timeouts of this very load changed both.
IncidentsMatchFleet ==
    Shown => \A r \in Runners :
        /\ view.incidents[r] # {} <=> view.runners[r].liveness = "offline"
        /\ view.incidents[r] # {} => view.runners[r].reason \in view.incidents[r]

\* The phase shown for a stage is the newest the window holds: an old epoch's
\* higher sequence number never outranks a newer update (_received_at_key).
PhaseIsNewest ==
    Shown => \A v \in view.jobs :
        \A x \in OfType(OfJob(Newest(log, Window), v.id), "job.progress") :
            v.phases[DisplayStage(x.event.stage)] >= x.row

\* A busy runner does not crowd another runner's current job out of its
\* timeline (recent_job_events), nor heartbeats the news out of the feed.
NotCrowdedOut ==
    Shown =>
        /\ \A v \in view.jobs : \A x \in OfJob(log, v.id) :
             x.row \in v.timeline \/ Cardinality(v.timeline) = TimelineLimit
        /\ \A x \in log : x.event.type # "runner.heartbeat" =>
             x.row \in view.feed \/ Cardinality(view.feed) = FeedLimit

\* A running job shown without the hint progress_unreported did report
\* progress since the event that shows it alive.
NoHintMeansProgress ==
    Shown => \A v \in view.jobs :
        v.row.state = "running" /\ v.row.liveness = "online" /\ ~v.unreported =>
            \E x \in OfType(OfJob(log, v.id), "job.progress") : x.at >= v.row.seen

\* One answer shows one moment: what it lists as active, the liveness of the fleet
\* and the incidents were brought up to date together, in an answer of the right
\* shape.
OneMoment == SnapshotTypeOK /\ ActiveWasHeard /\ IncidentsMatchFleet

\* Each part of the answer looks at the log through a window of its own; what is
\* inside the window of a part is not lost to it.
WindowsAgree == PhaseIsNewest /\ NotCrowdedOut /\ NoHintMeansProgress

(***************************************************************************)
(* The inductive strengthening of the two: rows have numbers of their own, *)
(* in the order in which they were received.                               *)
(***************************************************************************)
LogOrdered ==
    /\ IsFiniteSet(log)
    /\ \A x, y \in log : /\ x.row = y.row => x = y
                         /\ x.row > y.row => x.at >= y.at
    /\ \A x \in log : x.at <= now

SnapshotIInv == IInv /\ LogOrdered /\ OneMoment /\ WindowsAgree
=============================================================================
