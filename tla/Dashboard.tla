------------------------------ MODULE Dashboard ------------------------------
(***************************************************************************)
(* The monitor's read side: the browser page static/app.js and the GET     *)
(* requests it makes (server.py, dashboard.py, the queries of store.py).   *)
(* The page refreshes itself, and while answers are on their way its       *)
(* reader turns pages and changes the filter; answers come back in any     *)
(* order, as errors or not at all, and events are stored meanwhile.        *)
(*                                                                         *)
(* What a snapshot tells of the events is reduced to the latest            *)
(* "job.progress" of one running job, the one the page shows.              *)
(***************************************************************************)
EXTENDS Naturals, Sequences, FiniteSets, FiniteSetsExt

CONSTANTS
    RunnerFilters,  \* runners a history filter may select
    Stored,         \* events that producers send, as [kind, runner]
    PageSize,       \* HISTORY_PAGE_SIZE
    SnapshotWindow, \* DASHBOARD_EVENT_WINDOW
    MaxEvents,      \* bound: events stored
    MaxClicks,      \* bound: what the reader does
    MaxFailures     \* bound: requests that fail

Kinds == {"runner.heartbeat", "job.progress", "other"}

ASSUME DashboardAssumption ==
    /\ Stored \subseteq [kind : Kinds, runner : RunnerFilters]
    /\ PageSize \in Nat \ {0} /\ SnapshotWindow \in Nat \ {0}
    /\ MaxEvents \in Nat /\ MaxClicks \in Nat /\ MaxFailures \in Nat
    /\ "all" \notin RunnerFilters

VARIABLES
    events,     \* the events table, a row's number is its position
    loads,      \* GET /api/dashboard requests under way
    requests,   \* GET /api/history requests under way
    refreshing, \* state.refreshInFlight
    auto,       \* state.autoRefresh
    screen,     \* what the page shows: nothing yet, the dashboard, the error note
    snapshot,   \* state.snapshot
    filter,     \* state.historyFilters
    page,       \* state.historyPage
    more,       \* state.historyHasNext
    table,      \* state.historyEvents, and the filter and page they came from
    asked,      \* history: what the reader asked for last, see Asked
    clicks, failures    \* counters of the two bounds

dashboardVars == <<events, loads, requests, refreshing, auto, screen, snapshot, filter,
          page, more, table, asked, clicks, failures>>

Filters == {"all"} \cup RunnerFilters
Rows == 1 .. MaxEvents

-----------------------------------------------------------------------------
(* What the monitor answers *)

\* history_page: the rows of a page, newest first, without heartbeats, and
\* whether there is an older one.
Matching(f) == {n \in DOMAIN events : /\ events[n].kind # "runner.heartbeat"
                                   /\ f \in {"all", events[n].runner}}
NewerThan(n, f) == Cardinality({m \in Matching(f) : m > n})

\* Mutant of Page: the row read to learn of an older page is skipped with its own.
PageWithProbe(f, p) ==
    [rows |-> {n \in Matching(f) : NewerThan(n, f) \in (p - 1) * (PageSize + 1)
                                     .. (p - 1) * (PageSize + 1) + PageSize - 1},
     more |-> \E n \in Matching(f) : NewerThan(n, f) >= p * (PageSize + 1)]

Page(f, p) ==
    [rows |-> {n \in Matching(f) : NewerThan(n, f) \in (p - 1) * PageSize
                                                       .. p * PageSize - 1},
     more |-> \E n \in Matching(f) : NewerThan(n, f) >= p * PageSize]

\* The newest row in 1..end that is the job's progress, 0 if there is none.
Progress(rows) == {n \in rows : events[n].kind = "job.progress"}
Latest(rows) == IF Progress(rows) = {} THEN 0 ELSE Max(Progress(rows))

\* dashboard_snapshot: phases come from the newest rows only.
Snapshot == [kind |-> "data", at |-> Len(events),
             phase |-> Latest({n \in DOMAIN events : n + SnapshotWindow > Len(events)})]
NoData == [kind |-> "none", at |-> 0, phase |-> 0]
Error == [kind |-> "error", at |-> 0, phase |-> 0]

\* A request that has not been answered yet.
Unanswered == [rows |-> {0}, more |-> FALSE]

-----------------------------------------------------------------------------
(* Requests the page makes *)

\* id 0 is the one of a refresh; others are numbered by the click that made
\* them.  `oldest` is history: the oldest row a reader had in view who asked
\* for the page after it.
Request(id, f, p, oldest) ==
    [id |-> id, filter |-> f, page |-> p, oldest |-> oldest, answer |-> Unanswered]

\* History: the page the reader asked for, the requests that were under way by
\* then, and whether an answer to one of those has brought another page since.
Asked(p) == [page |-> p, before |-> {r.id : r \in requests}, overtaken |-> FALSE]

\* Mutant of RefreshAll: nothing keeps two refreshes apart.
RefreshAllAgain ==
    /\ refreshing' = TRUE
    /\ loads' = loads \cup {NoData}

\* refreshAll.
RefreshAll ==
    IF refreshing THEN UNCHANGED <<refreshing, loads>>
    ELSE /\ refreshing' = TRUE
         /\ loads' = loads \cup {NoData}

DashboardInit ==
    /\ events = <<>>
    /\ loads = {NoData} /\ refreshing = TRUE
    /\ requests = {}
    /\ auto = TRUE
    /\ screen = "blank" /\ snapshot = NoData
    /\ filter = "all" /\ page = 1 /\ more = FALSE
    /\ table = [filter |-> "all", page |-> 1, rows |-> {}]
    /\ asked = Asked(1)
    /\ clicks = 0 /\ failures = 0

reader == <<auto, filter, clicks, asked>>
tableView == <<page, more, table>>

-----------------------------------------------------------------------------
(* The monitor *)

Store(e) ==
    /\ Len(events) < MaxEvents
    /\ events' = Append(events, e)
    /\ UNCHANGED <<loads, requests, refreshing, screen, snapshot, reader, tableView,
                   failures>>

Failure == failures < MaxFailures /\ failures' = failures + 1

\* A snapshot that fails is answered with status 500 and an error object.
ServeDashboard ==
    /\ NoData \in loads
    /\ \/ loads' = (loads \ {NoData}) \cup {Snapshot} /\ UNCHANGED failures
       \/ loads' = (loads \ {NoData}) \cup {Error} /\ Failure
    /\ UNCHANGED <<events, requests, refreshing, screen, snapshot, reader, tableView>>

ServeHistory ==
    /\ \E r \in requests :
         /\ r.answer = Unanswered
         /\ requests' = (requests \ {r})
                          \cup {[r EXCEPT !.answer = Page(r.filter, r.page)]}
    /\ UNCHANGED <<events, loads, refreshing, screen, snapshot, reader, tableView, failures>>

-----------------------------------------------------------------------------
(* The page: answers *)

\* loadDashboard ends and refreshAll goes on with loadHistory.  render cannot
\* show the error object: the page shows its error note and keeps the object.
DashboardArrives ==
    /\ \E answer \in loads \ {NoData} :
         /\ loads' = loads \ {answer}
         /\ snapshot' = answer
         /\ screen' = IF answer = Error THEN "error" ELSE "shown"
    /\ requests' = requests \cup {Request(0, filter, page, 0)}
    /\ UNCHANGED <<events, refreshing, reader, tableView, failures>>

DashboardFails ==
    /\ Failure
    /\ \E load \in loads : loads' = loads \ {load}
    /\ screen' = "error"
    /\ requests' = requests \cup {Request(0, filter, page, 0)}
    /\ UNCHANGED <<events, refreshing, snapshot, reader, tableView>>

\* A request is over; that of a refresh ends the refresh.
Over(r) ==
    /\ requests' = requests \ {r}
    /\ refreshing' = (refreshing /\ r.id # 0)

\* What its end means for the page asked for, the page number becoming `shown`.
Turns(r, shown) ==
    asked' = [asked EXCEPT !.before = @ \ {r.id},
                           !.overtaken = @ \/ (r.id \in asked.before /\ shown # asked.page)]

NoRows(p) == [filter |-> "none", page |-> p, rows |-> {}]

\* loadHistory.  The page number is that of the answer, whichever page was asked
\* for since.  With an error object as snapshot render throws, and what arrived
\* is dropped.
HistoryArrives ==
    /\ \E r \in requests :
         /\ r.answer # Unanswered
         /\ Over(r) /\ Turns(r, r.page)
         /\ page' = r.page
         /\ IF snapshot = Error
            THEN more' = FALSE /\ table' = NoRows(r.page)
            ELSE /\ more' = r.answer.more
                 /\ table' = [filter |-> r.filter, page |-> r.page,
                              rows |-> r.answer.rows]
    /\ screen' = IF snapshot.kind = "data" THEN "shown" ELSE screen
    /\ UNCHANGED <<events, loads, snapshot, auto, filter, clicks, failures>>

\* Mutant of HistoryFails: a failed request does not end its refresh.
HistoryFailsOpen ==
    /\ Failure
    /\ \E r \in requests : requests' = requests \ {r} /\ Turns(r, page)
    /\ more' = FALSE /\ table' = NoRows(page)
    /\ UNCHANGED <<events, loads, refreshing, screen, snapshot, auto, filter, clicks, page>>

HistoryFails ==
    /\ Failure
    /\ \E r \in requests : Over(r) /\ Turns(r, page)
    /\ more' = FALSE /\ table' = NoRows(page)
    /\ UNCHANGED <<events, loads, screen, snapshot, auto, filter, clicks, page>>

-----------------------------------------------------------------------------
(* The page: its timer and its reader *)

\* The interval timer, or the page becoming visible again.
AutoRefresh ==
    /\ auto
    /\ RefreshAll
    /\ UNCHANGED <<events, requests, screen, snapshot, reader, tableView, failures>>

\* The buttons exist while the dashboard is shown.
Click == screen = "shown" /\ clicks < MaxClicks /\ clicks' = clicks + 1

InView == table.rows # {} /\ table.filter = filter /\ table.page = page

\* Mutant of Older: the number is raised after the request was made.
OlderLoadsFirst ==
    /\ Click /\ more
    /\ page' = page + 1 /\ asked' = Asked(page')
    /\ requests' = requests \cup
         {Request(clicks', filter, page, IF InView THEN Min(table.rows) ELSE 0)}
    /\ UNCHANGED <<events, loads, refreshing, auto, screen, snapshot, filter, more,
                   table, failures>>

Older ==
    /\ Click /\ more
    /\ page' = page + 1 /\ asked' = Asked(page')
    /\ requests' = requests \cup
         {Request(clicks', filter, page', IF InView THEN Min(table.rows) ELSE 0)}
    /\ UNCHANGED <<events, loads, refreshing, auto, screen, snapshot, filter, more,
                   table, failures>>

\* Mutant of Newer: the first page has one before it.
NewerUnguarded ==
    /\ Click
    /\ page' = page - 1 /\ asked' = Asked(page')
    /\ requests' = requests \cup {Request(clicks', filter, page', 0)}
    /\ UNCHANGED <<events, loads, refreshing, auto, screen, snapshot, filter, more,
                   table, failures>>

Newer ==
    /\ Click /\ page > 1
    /\ page' = page - 1 /\ asked' = Asked(page')
    /\ requests' = requests \cup {Request(clicks', filter, page', 0)}
    /\ UNCHANGED <<events, loads, refreshing, auto, screen, snapshot, filter, more,
                   table, failures>>

\* applyHistoryFilters.
ApplyFilter(f) ==
    /\ Click
    /\ filter' = f /\ page' = 1 /\ asked' = Asked(1)
    /\ requests' = requests \cup {Request(clicks', f, 1, 0)}
    /\ UNCHANGED <<events, loads, refreshing, auto, screen, snapshot, more, table,
                   failures>>

\* toggleAutoRefresh.
Toggle ==
    /\ Click
    /\ auto' = ~auto
    /\ IF auto' THEN RefreshAll ELSE UNCHANGED <<refreshing, loads>>
    /\ UNCHANGED <<events, requests, screen, snapshot, filter, asked, tableView, failures>>

Monitor == ServeDashboard \/ ServeHistory
Answer == \/ DashboardArrives \/ DashboardFails
          \/ HistoryArrives \/ HistoryFails
Reader == Older \/ Newer \/ (\E f \in Filters : ApplyFilter(f)) \/ Toggle

DashboardNext ==
    \/ \E e \in Stored : Store(e)
    \/ Monitor
    \/ Answer
    \/ AutoRefresh
    \/ Reader

DashboardSpec == DashboardInit /\ [][DashboardNext]_dashboardVars

(***************************************************************************)
(* The timer ticks while the page is visible, the monitor answers (each    *)
(* request has a thread of its own), and an answer arrives or fails.       *)
(***************************************************************************)
DashboardFairSpec ==
    /\ DashboardSpec
    /\ WF_dashboardVars(AutoRefresh)
    /\ WF_dashboardVars(Monitor)
    /\ WF_dashboardVars(Answer)

-----------------------------------------------------------------------------
(* Properties *)

Snapshots == [kind : {"none", "data", "error"}, at : 0 .. MaxEvents,
              phase : 0 .. MaxEvents]

Requests == [id : 0 .. MaxClicks, filter : Filters, page : 1 .. MaxClicks + 1,
             oldest : 0 .. MaxEvents,
             answer : [rows : SUBSET (0 .. MaxEvents), more : BOOLEAN]]

DashboardTypeOK ==
    /\ events \in Seq(Stored)
    /\ loads \subseteq Snapshots
    /\ requests \subseteq Requests
    /\ refreshing \in BOOLEAN /\ auto \in BOOLEAN
    /\ screen \in {"blank", "shown", "error"}
    /\ snapshot \in Snapshots
    /\ filter \in Filters
    /\ page \in 1 .. MaxClicks + 1 /\ more \in BOOLEAN
    /\ table \in [filter : Filters \cup {"none"}, page : 1 .. MaxClicks + 1,
                  rows : SUBSET Rows]
    /\ asked \in [page : 1 .. MaxClicks + 1, before : SUBSET (0 .. MaxClicks),
                  overtaken : BOOLEAN]
    /\ clicks \in 0 .. MaxClicks /\ failures \in 0 .. MaxFailures

\* A reader who goes from a page to the older one after it misses no event,
\* whatever is stored between and however many answers are on their way.
GoingOlderSkipsNothing ==
    \A r \in requests : r.oldest # 0 /\ r.answer # Unanswered =>
        ~\E n \in Matching(r.filter) :
            n < r.oldest /\ \A m \in r.answer.rows : m < n

\* The state of the fleet on the page never gets older: no late answer of an
\* earlier refresh replaces a newer one.
SnapshotNeverGoesBack ==
    [][snapshot'.kind = "data" => snapshot'.at >= snapshot.at]_dashboardVars

\* Once the reader leaves the page alone with auto-refresh on, the table comes
\* to show the filter that was applied last and goes on doing so, however late
\* answers to earlier requests arrive.  It shows the page that was asked for too,
\* with one exception: an answer to a request sent before the click, arriving
\* after it, makes its own page the current one (app.js:382), which the refreshes
\* then keep asking for; the click is lost and the table shows that page.
TableShowsWhatWasAsked ==
    <>[]auto => <>[](/\ table.filter = filter /\ table.page = page
                     /\ (asked.overtaken \/ page = asked.page))

\* "A job whose phase history is older than this window keeps its last-known
\* phase/fallback values" (dashboard.py:78).
PhaseStaysShown ==
    snapshot.kind = "data" => snapshot.phase = Latest(1 .. snapshot.at)

(***************************************************************************)
(* The inductive strengthening of what is proved: one refresh              *)
(* at a time, from its load to the end of its history request; and what is *)
(* older than the oldest row of a page is on later pages, for ever, since  *)
(* new events only move rows to later pages.                               *)
(***************************************************************************)
OneRefresh ==
    /\ \A a, b \in loads : a = b
    /\ loads # {} => refreshing
    /\ \A r, s \in requests : r.id = 0 /\ s.id = 0 => r = s
    /\ \A r \in requests : r.id = 0 => refreshing /\ loads = {}

LoadsAreNewer ==
    /\ snapshot.at <= Len(events)
    /\ \A a \in loads \ {NoData, Error} : a.at >= snapshot.at /\ a.at <= Len(events)

Counted ==
    /\ Len(events) <= MaxEvents
    /\ page <= clicks + 1
    /\ \A r \in requests : r.page <= clicks + 1 /\ r.id <= clicks

\* All that is older than row `oldest` comes after page p.
OnLaterPages(f, p, oldest) ==
    /\ oldest \in DOMAIN events
    /\ \A n \in Matching(f) : n < oldest => NewerThan(n, f) >= p * PageSize

RequestTells(r) ==
    /\ r.oldest # 0 => OnLaterPages(r.filter, r.page - 1, r.oldest)
    /\ r.answer # Unanswered =>
         /\ r.answer.rows \subseteq DOMAIN events
         /\ r.answer.rows # {} => OnLaterPages(r.filter, r.page, Min(r.answer.rows))

PagesTell ==
    /\ table.rows # {} => OnLaterPages(table.filter, table.page, Min(table.rows))
    /\ \A r \in requests : RequestTells(r)

\* Unless it was overtaken, the page asked for is the current one, and the one
\* every request made since the click is for.
AskedTells ==
    /\ \A r, s \in requests : r.id = s.id => r = s
    /\ asked.before \subseteq {r.id : r \in requests}
    /\ ~asked.overtaken =>
         /\ page = asked.page
         /\ \A r \in requests : r.id \notin asked.before => r.page = asked.page

DashboardIInv == /\ DashboardTypeOK /\ OneRefresh /\ LoadsAreNewer /\ Counted
                 /\ PagesTell /\ GoingOlderSkipsNothing /\ AskedTells
=============================================================================
