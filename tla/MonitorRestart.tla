--------------------------- MODULE MonitorRestart ---------------------------
(***************************************************************************)
(* The store with restarts.  Every start of the monitor rebuilds the       *)
(* projections from the event log (Store.__init__, replay), puts back what *)
(* the log cannot tell, the timeouts, and also repairs projection tables   *)
(* that lost their rows while the monitor was down.  MonitorStore is the   *)
(* abstract specification: one monitor that never restarts.                *)
(*                                                                         *)
(* A start with a log that was pruned, or that no longer validates, rolls  *)
(* back and leaves every table as it is: no step.                          *)
(***************************************************************************)
EXTENDS MonitorStore, FiniteSetsExt

CONSTANT MaxRestarts    \* bound: how often the monitor restarts

VARIABLES
    restarts,
    told    \* history: [runner -> the offline_reason events and timeouts gave it]

restartVars == <<vars, restarts, told>>

Tables == {"runner", "job", "mark"}
Emptied(kept) == [table \in Tables |-> IF table \in kept THEN db[table]
                                                         ELSE EmptyDb[table]]

-----------------------------------------------------------------------------
\* replay's loop over the rows in their order (ORDER BY event_row_id): what the
\* events of the rows up to row n make of empty tables.
RowAt(rows, n) == CHOOSE x \in rows : x.row = n

ReplayRow(rows, n, d) ==
    IF \E x \in rows : x.row = n
    THEN Project(d, RowAt(rows, n).event, RowAt(rows, n).at)
    ELSE d

Replayed(rows) ==
    LET upTo[n \in Nat] == IF n = 0 THEN EmptyDb ELSE ReplayRow(rows, n, upTo[n - 1])
    IN upTo

Rebuilt(rows) == Replayed(rows)[Max({0} \cup {x.row : x \in rows})]

\* The incidents are put back in the order of their rows, so the condition of
\* the later row is the one that stays.
LastCondition(r) ==
    IF Cardinality(incidents[r]) > 1 THEN CHOOSE c \in incidents[r] : c # firstIncident[r]
                                     ELSE CHOOSE c \in incidents[r] : TRUE

\* Mutants of Restored: what the log tells is all there is; incidents are not
\* consulted.
RestoredFromLog(d, old) == d
RestoredFromTables(d, old) ==
    [d EXCEPT
      !.runner = [r \in Runners |->
         IF old.runner[r].liveness = "offline"
         THEN [d.runner[r] EXCEPT !.liveness = "offline",
                                  !.reason = old.runner[r].reason]
         ELSE d.runner[r]],
      !.job = [j \in Jobs |->
         IF old.job[j].liveness = "offline"
         THEN [d.job[j] EXCEPT !.liveness = "offline"]
         ELSE d.job[j]]]

\* First the offline rows of the tables before the replay (old), then
\* _restore_offline_incident_liveness; both are UPDATEs of rows that exist.
Restored(d, old) ==
    [d EXCEPT
      !.runner = [r \in Runners |->
         IF d.runner[r].liveness = "unseen" THEN d.runner[r]
         ELSE IF incidents[r] # {}
         THEN [d.runner[r] EXCEPT !.liveness = "offline",
                                  !.reason = LastCondition(r)]
         ELSE IF old.runner[r].liveness = "offline"
         THEN [d.runner[r] EXCEPT !.liveness = "offline",
                                  !.reason = old.runner[r].reason]
         ELSE d.runner[r]],
      !.job = [j \in Jobs |->
         IF /\ d.job[j].state # "unseen"
            /\ j \in jobIncidents \/ old.job[j].liveness = "offline"
         THEN [d.job[j] EXCEPT !.liveness = "offline"]
         ELSE d.job[j]]]

\* A start that finds the rows of the tables in kept only.
Restart(kept) ==
    /\ restarts < MaxRestarts
    /\ restarts' = restarts + 1
    /\ log # {} /\ complete
    /\ db' = Restored(Rebuilt(log), Emptied(kept))
    /\ log' = {[x EXCEPT !.applied = Accepts(Replayed(log)[x.row - 1], x.event)] : x \in log}
    /\ UNCHANGED <<alarmVars, complete, now, historyVars, told>>

\* What the store does between two starts.
Serving ==
    /\ told' = [r \in Runners |-> IF db'.runner[r] = db.runner[r]
                                  THEN told[r] ELSE db'.runner[r].reason]
    /\ UNCHANGED restarts

Serve == Next /\ Serving

RestartInit == /\ Init
               /\ restarts = 0
               /\ told = [r \in Runners |-> None]

RestartNext == Serve \/ \E kept \in SUBSET Tables : Restart(kept)

RestartSpec == RestartInit /\ [][RestartNext]_restartVars

\* Time goes on, and somebody loads the dashboard again and again, in every run
\* of the monitor: that GET is the only caller of refresh_liveness.
FairRestartSpec ==
    /\ RestartSpec
    /\ WF_restartVars(Tick /\ Serving)
    /\ WF_restartVars(RefreshLiveness /\ Serving)

-----------------------------------------------------------------------------
(* Properties *)

\* The tables with the reasons that events and timeouts gave: those of a store
\* that never stopped.
WithReason(row, reason) == [row EXCEPT !.reason = reason]
WithReasons(d, reasons) ==
    [d EXCEPT !.runner = [r \in Runners |-> WithReason(d.runner[r], reasons[r])]]
Unstopped == WithReasons(db, told)

Persistent == INSTANCE MonitorStore WITH db <- Unstopped

\* A reader of the monitor cannot tell that it was restarted, nor that its
\* projection tables were lost, except by the reason of an offline runner: the
\* restarted store implements the store that never stops.
RestartIsInvisible == Persistent!Spec

\* The one thing a restart may change: a runner that said goodbye after it had
\* been timed out is shown as timed out again.
OnlyGoodbyeForgotten ==
    \A r \in Runners : db.runner[r].reason # told[r] =>
        /\ told[r] = "explicit_shutdown"
        /\ db.runner[r].reason = "heartbeat_timeout"
        /\ incidents[r] = Conditions

(***************************************************************************)
(* The inductive strengthening of OnlyGoodbyeForgotten and of the          *)
(* refinement: replay tells all but the timeouts, flag by flag and field   *)
(* by field, and the incidents tell the timeouts.                          *)
(***************************************************************************)
RowsOrdered ==
    /\ \A x \in log : x.row > 0
    /\ \A x, y \in log : x.row = y.row => x = y
    /\ complete /\ log # {} => \E x \in log : \A y \in log : y.row <= x.row

\* What Restored starts from agrees with the tables in all but liveness and
\* reason, in which it is behind by timeouts only.
Retold(d) ==
    /\ d \in [runner : [Runners -> RunnerView], job : [Jobs -> JobView],
              mark : [Runners -> [Streams -> Nat]]]
    /\ d.mark = db.mark
    /\ \A j \in Jobs : /\ d.job[j].state = db.job[j].state
                       /\ d.job[j].outcome = db.job[j].outcome
                       /\ d.job[j].seen = db.job[j].seen
                       /\ d.job[j].liveness = "online"
    /\ \A r \in Runners : /\ d.runner[r].activity = db.runner[r].activity
                          /\ d.runner[r].seen = db.runner[r].seen
                          /\ d.runner[r].job = db.runner[r].job
                          /\ d.runner[r].outcome = db.runner[r].outcome
                          /\ d.runner[r].liveness = "unseen"
                                <=> db.runner[r].liveness = "unseen"
                          /\ d.runner[r].liveness = "offline"
                                => db.runner[r].liveness = "offline"
                          /\ d.runner[r].liveness # "offline"
                                => d.runner[r].reason = None

LogTells ==
    complete => /\ Retold(Rebuilt(log))
                /\ \A x \in log : x.applied = Accepts(Replayed(log)[x.row - 1], x.event)

\* Goodbye is the last word of a runner that was timed out before.
IncidentsTell ==
    \A r \in Runners :
        told[r] = IF incidents[r] = {} THEN None
                  ELSE IF "explicit_shutdown" \in incidents[r] THEN "explicit_shutdown"
                  ELSE "heartbeat_timeout"

RestartIInv == IInv /\ RowsOrdered /\ LogTells /\ IncidentsTell /\ OnlyGoodbyeForgotten
=============================================================================
