-------------------------- MODULE OperationsProofs --------------------------
(***************************************************************************)
(* What an operator runs, for any number of releases, drills, attempts,    *)
(* faults and lines: the deployment (Deploy), the local gate (Gate) and the*)
(* hosts file (Hosts).                                                     *)
(***************************************************************************)
EXTENDS Deploy, Gate, Hosts, FiniteSetTheorems, WellFoundedInduction, TLAPS

-----------------------------------------------------------------------------
(* Deploy: the pointer, the outcome and what is undone *)

\* Until the switch, and while it is being undone after a failed staging, the
\* pointer is the one the attempt found.
Early == {"stop", "copy", "remove", "replace", "activate", "undo"}

\* After the switch it is the attempt's own.
Late == {"check", "start", "rollback"}

AttemptInv ==
    /\ deployStep # "idle" => outcome = "none"
    /\ deployStep \in {"remove", "replace", "activate"} => attempt.source \in Sources
    /\ deployStep = "replace" => releases[attempt.revision] = "absent"
    /\ deployStep \in Early => pointer = attempt.previous
    /\ deployStep \in Late => pointer = attempt.revision
    /\ deployStep \in {"activate"} \cup Late => releases[attempt.revision] \in Sources
    /\ deployStep = "start" => releases[attempt.revision] = "good"

\* The tree of the revision to go back to is the one it had, unless somebody
\* removed it or the attempt staged over it.
PreviousInv ==
    deployStep # "idle" /\ attempt.previous # NoRevision =>
        \/ attempt.previous \in disturbed
        \/ releases[attempt.previous] = attempt.kept /\ attempt.kept \in Sources

\* What FailureRestoresPrevious says of a failed attempt; it holds already
\* while the service is being restarted.
Restored ==
    \/ pointer = NoRevision /\ attempt.previous \in disturbed \cup {NoRevision}
    \/ /\ pointer = attempt.previous
       /\ Tree(pointer) = attempt.kept \/ pointer \in disturbed

OutcomeInv ==
    /\ outcome = "refused" => pointer = attempt.previous
    /\ deployStep = "restart" \/ outcome = "failed" => Restored
    /\ SuccessIsVerified

DeployInv == DeployTypeOK /\ ActiveReleaseIsWhole /\ AttemptInv /\ PreviousInv /\ OutcomeInv

\* What can be active is typed, and no revision is the absent one.
LEMMA Typed ==
    ASSUME DeployTypeOK
    PROVE  /\ attempt.revision \in Revisions /\ attempt.managed \in BOOLEAN
           /\ attempt.source \in Sources \cup {"absent"}
           /\ attempt.previous \in Revisions \cup {NoRevision}
           /\ attempt.kept \in Trees
           /\ \A r \in Revisions : releases[r] \in Trees /\ r # NoRevision
           /\ "absent" \notin Sources /\ "broken" \notin Sources
  BY DeployAssumption DEF DeployAssumption, DeployTypeOK, Attempt, Sources

\* A fault counts.
LEMMA FaultTyped ==
    ASSUME DeployTypeOK, Fault \/ UNCHANGED faults
    PROVE  faults' \in 0 .. MaxFaults
  BY DeployAssumption DEF DeployAssumption, DeployTypeOK, Fault

-----------------------------------------------------------------------------
(* Every step keeps the invariant *)

\* Nothing is installed and no attempt was made.
LEMMA DeployStarts == DeployInit => DeployInv
<1> SUFFICES ASSUME DeployInit PROVE DeployInv
  OBVIOUS
<1>1. DeployTypeOK
  BY DeployAssumption
  DEF DeployAssumption, DeployInit, DeployTypeOK, Trees, ServiceStates, Steps, Outcomes
<1> QED
  BY <1>1 DEF DeployInit, DeployInv, ActiveReleaseIsWhole, AttemptInv, PreviousInv, OutcomeInv,
     SuccessIsVerified, Early, Late

\* The attempt remembers what is active.
LEMMA BeginKeeps ==
    ASSUME DeployInv, NEW r \in Revisions, NEW source \in Sources \cup {"absent"},
           NEW managed \in BOOLEAN, Begin(r, source, managed)
    PROVE  DeployInv'
<1>1. /\ attempt' = [revision |-> r, source |-> source, managed |-> managed,
                     previous |-> pointer, kept |-> Tree(pointer)]
      /\ UNCHANGED <<releases, pointer, disturbed, service, faults>>
      /\ attempts < MaxAttempts /\ attempts' = attempts + 1
      /\ \/ deployStep' = "idle" /\ outcome' = "refused"
         \/ deployStep' \in {"stop", "copy"} /\ outcome' = "none"
  BY DEF Begin, End, files
<1>2. pointer \in Revisions \cup {NoRevision} /\ Tree(pointer) \in Trees
  BY DEF DeployInv, DeployTypeOK, Tree, Trees
<1>3. attempt' \in Attempt
  BY <1>1, <1>2 DEF Attempt
<1>4. DeployTypeOK'
  BY <1>1, <1>3, DeployAssumption DEF DeployAssumption, DeployInv, DeployTypeOK, Steps, Outcomes
<1>5. AttemptInv'
  BY <1>1 DEF AttemptInv, Early, Late
<1>6. PreviousInv'
  BY <1>1 DEF PreviousInv, DeployInv, ActiveReleaseIsWhole, Tree
<1>7. ActiveReleaseIsWhole' /\ OutcomeInv'
  BY <1>1 DEF OutcomeInv, SuccessIsVerified, DeployInv, ActiveReleaseIsWhole
<1> QED
  BY <1>4, <1>5, <1>6, <1>7 DEF DeployInv

\* A step before the switch that touches neither a release nor the pointer.
LEMMA EarlyMoves ==
    ASSUME DeployInv, deployStep \in Early, UNCHANGED <<files, frame>>,
           service' \in ServiceStates, Fault \/ UNCHANGED faults,
           \/ deployStep' = "idle" /\ outcome' = "refused"
           \/ deployStep' \in {"copy", "undo"} /\ UNCHANGED outcome
           \/ deployStep' = "remove" /\ UNCHANGED outcome /\ attempt.source \in Sources
    PROVE  DeployInv'
<1>1. UNCHANGED <<releases, pointer, disturbed, attempt, attempts>>
  BY DEF files, frame
<1>2. deployStep' \in Early \cup {"idle"} /\ deployStep # "idle" /\ deployStep' \notin {"restart", "replace", "activate"}
      /\ deployStep' \notin {"activate"} \cup Late
  BY DEF Early, Late
<1>3. DeployTypeOK'
  BY <1>1, FaultTyped DEF DeployInv, DeployTypeOK, Steps, Outcomes
<1>4. AttemptInv'
  BY <1>1, <1>2 DEF DeployInv, AttemptInv, Late
<1>5. PreviousInv' /\ ActiveReleaseIsWhole'
  BY <1>1, <1>2 DEF DeployInv, PreviousInv, ActiveReleaseIsWhole
<1>6. OutcomeInv'
  BY <1>1, <1>2 DEF DeployInv, AttemptInv, OutcomeInv, SuccessIsVerified
<1> QED
  BY <1>3, <1>4, <1>5, <1>6 DEF DeployInv

\* Stopping the service and copying the sources.
LEMMA PreparationKeeps ==
    ASSUME DeployInv, Stop \/ Copy
    PROVE  DeployInv'
<1>1. deployStep \in Early /\ UNCHANGED <<files, frame>>
  BY DEF Stop, Copy, Early
<1>2. service' \in ServiceStates
  BY DEF Stop, Copy, ServiceStates, DeployInv, DeployTypeOK
<1>3. Fault \/ UNCHANGED faults
  BY DEF Stop, Copy
<1>4. CASE Stop
  <2>1. \/ deployStep' = "idle" /\ outcome' = "refused"
        \/ deployStep' = "copy" /\ UNCHANGED outcome
    BY <1>4 DEF Stop, End
  <2> QED
    BY <1>1, <1>2, <1>3, <2>1, EarlyMoves
<1>5. CASE Copy
  <2>1. \/ deployStep' = "undo" /\ UNCHANGED outcome
        \/ deployStep' = "remove" /\ UNCHANGED outcome /\ attempt.source \in Sources
    BY <1>5, Typed DEF Copy, DeployInv
  <2> QED
    BY <1>1, <1>2, <1>3, <2>1, EarlyMoves
<1> QED
  BY <1>4, <1>5

\* Removing an earlier staging hits the active release only when it is the one
\* deployed again, and then it is marked.
LEMMA RemoveOldKeeps ==
    ASSUME DeployInv, RemoveOld
    PROVE  DeployInv'
<1> DEFINE r == attempt.revision
<1>1. /\ UNCHANGED <<pointer, service, outcome, attempt, attempts>>
      /\ deployStep = "remove" /\ deployStep' \in {"replace", "undo"}
      /\ pointer = attempt.previous /\ attempt.source \in Sources /\ outcome = "none"
  BY DEF RemoveOld, frame, DeployInv, AttemptInv, Early
<1>2. Fault \/ UNCHANGED faults
  BY DEF RemoveOld
<1>3. /\ disturbed \subseteq disturbed' /\ disturbed' \subseteq disturbed \cup {r}
      /\ \A s \in Revisions : releases'[s] # releases[s] =>
             s = r /\ (s = pointer => s \in disturbed')
      /\ releases' \in [Revisions -> Trees]
  <2>1. releases \in [Revisions -> Trees] /\ r \in Revisions
    BY Typed DEF DeployInv, DeployTypeOK
  <2>2. CASE UNCHANGED <<releases, disturbed>>
    BY <2>1, <2>2
  <2>3. CASE /\ disturbed' = disturbed \cup ({r} \cap {pointer})
             /\ \E tree \in Trees : releases' = [releases EXCEPT ![r] = tree]
    BY <2>1, <2>3
  <2>4. releases[r] \in Trees /\ "broken" \in Trees /\ "absent" \in Trees
    BY <2>1 DEF Trees
  <2> QED
    BY <2>2, <2>3, <2>4 DEF RemoveOld
<1>4. DeployTypeOK'
  BY <1>1, <1>2, <1>3, FaultTyped, Typed DEF DeployInv, DeployTypeOK, Steps
<1>5. ActiveReleaseIsWhole'
  BY <1>1, <1>3 DEF DeployInv, DeployTypeOK, ActiveReleaseIsWhole
<1>6. AttemptInv'
  <2>1. deployStep' = "replace" => releases'[r] = "absent"
    BY Typed DEF RemoveOld, Exists, Tree, DeployInv, DeployTypeOK
  <2> QED
    BY <1>1, <2>1 DEF AttemptInv, Early, Late
<1>7. PreviousInv'
  BY <1>1, <1>3, Typed DEF DeployInv, PreviousInv
<1>8. OutcomeInv'
  BY <1>1 DEF OutcomeInv, SuccessIsVerified
<1> QED
  BY <1>4, <1>5, <1>6, <1>7, <1>8 DEF DeployInv

\* The staged tree is whole when it is renamed into place; when that place is
\* the active one's it was empty, and marked.
LEMMA ReplaceKeeps ==
    ASSUME DeployInv, Replace
    PROVE  DeployInv'
<1> DEFINE r == attempt.revision
<1>1. /\ UNCHANGED <<pointer, disturbed, service, outcome, attempt, attempts>>
      /\ deployStep = "replace" /\ deployStep' \in {"activate", "undo"}
      /\ pointer = attempt.previous /\ attempt.source \in Sources /\ outcome = "none"
      /\ releases[r] = "absent"
  BY DEF Replace, frame, DeployInv, AttemptInv, Early
<1>2. Fault \/ UNCHANGED faults
  BY DEF Replace
<1>3. /\ \A s \in Revisions \ {r} : releases'[s] = releases[s]
      /\ releases' \in [Revisions -> Trees]
      /\ releases' = releases \/ releases'[r] \in Sources
      /\ deployStep' = "activate" => releases'[r] \in Sources
  BY <1>1, Typed DEF Replace, DeployInv, DeployTypeOK, Trees
<1>4. r = pointer => pointer \in disturbed
  BY <1>1, Typed DEF DeployInv, ActiveReleaseIsWhole
<1>5. DeployTypeOK'
  BY <1>1, <1>2, <1>3, FaultTyped DEF DeployInv, DeployTypeOK, Steps
<1>6. ActiveReleaseIsWhole'
  BY <1>1, <1>3, <1>4 DEF DeployInv, DeployTypeOK, ActiveReleaseIsWhole
<1>7. AttemptInv'
  BY <1>1, <1>3 DEF AttemptInv, Early, Late
<1>8. PreviousInv'
  BY <1>1, <1>3, <1>4, Typed DEF DeployInv, PreviousInv
<1>9. OutcomeInv'
  BY <1>1 DEF OutcomeInv, SuccessIsVerified
<1> QED
  BY <1>5, <1>6, <1>7, <1>8, <1>9 DEF DeployInv

\* The pointer moves to a release that is in place.
LEMMA ActivateKeeps ==
    ASSUME DeployInv, Activate
    PROVE  DeployInv'
<1>1. /\ UNCHANGED <<releases, disturbed, service, outcome, attempt, attempts>>
      /\ deployStep = "activate" /\ outcome = "none" /\ pointer = attempt.previous
      /\ releases[attempt.revision] \in Sources
      /\ \/ deployStep' = "check" /\ pointer' = attempt.revision
         \/ deployStep' = "undo" /\ pointer' = pointer
  BY DEF Activate, frame, DeployInv, AttemptInv, Early
<1>2. Fault \/ UNCHANGED faults
  BY DEF Activate
<1>3. DeployTypeOK'
  BY <1>1, <1>2, FaultTyped, Typed DEF DeployInv, DeployTypeOK, Steps
<1>4. ActiveReleaseIsWhole'
  BY <1>1 DEF DeployInv, ActiveReleaseIsWhole
<1>5. AttemptInv'
  BY <1>1 DEF AttemptInv, Early, Late
<1>6. PreviousInv' /\ OutcomeInv'
  BY <1>1 DEF DeployInv, PreviousInv, OutcomeInv, SuccessIsVerified
<1> QED
  BY <1>3, <1>4, <1>5, <1>6 DEF DeployInv

\* Both failure branches: the pointer goes back, or escapes and stays.
LEMMA BackKeeps ==
    ASSUME DeployInv, deployStep # "idle", UNCHANGED <<releases, disturbed, service, frame>>,
           Fault \/ UNCHANGED faults,
           \/ Restored' /\ deployStep' = "restart" /\ UNCHANGED outcome
           \/ Restored' /\ deployStep' = "idle" /\ outcome' = "failed"
           \/ deployStep' = "idle" /\ outcome' = "escaped",
           pointer' \in {pointer, attempt.previous, NoRevision}
    PROVE  DeployInv'
<1>1. UNCHANGED <<releases, disturbed, service, attempt, attempts>> /\ outcome = "none"
  BY DEF frame, DeployInv, AttemptInv
<1>2. DeployTypeOK'
  BY <1>1, FaultTyped, Typed DEF DeployInv, DeployTypeOK, Steps, Outcomes
<1>3. ActiveReleaseIsWhole'
  <2>1. CASE pointer' = attempt.previous
    BY <1>1, <2>1 DEF DeployInv, PreviousInv, ActiveReleaseIsWhole
  <2>2. CASE pointer' \in {pointer, NoRevision}
    BY <1>1, <2>2 DEF DeployInv, ActiveReleaseIsWhole
  <2> QED
    BY <2>1, <2>2
<1>4. AttemptInv'
  BY <1>1 DEF AttemptInv, Early, Late
<1>5. PreviousInv'
  BY <1>1 DEF DeployInv, PreviousInv
<1>6. OutcomeInv'
  BY <1>1 DEF OutcomeInv, SuccessIsVerified
<1> QED
  BY <1>2, <1>3, <1>4, <1>5, <1>6 DEF DeployInv

\* Undoing a failed staging or switch.
LEMMA UndoKeeps ==
    ASSUME DeployInv, Undo
    PROVE  DeployInv'
<1>1. deployStep = "undo" /\ pointer = attempt.previous
  BY DEF Undo, DeployInv, AttemptInv, Early
<1>2. UNCHANGED <<releases, disturbed, service, frame>> /\ (Fault \/ UNCHANGED faults)
  BY DEF Undo
<1>3. CASE AfterRestore
  <2>1. pointer' = attempt.previous \/ (UNCHANGED pointer /\ outcome' = "escaped" /\ deployStep' = "idle")
    BY <1>1 DEF Undo, End
  <2>2. CASE pointer' = attempt.previous
    <3>1. Restored'
      BY <1>2, <2>2, <1>1 DEF Restored, Tree, frame, DeployInv, PreviousInv
    <3> QED
      BY <1>1, <1>2, <1>3, <2>2, <3>1, BackKeeps DEF AfterRestore, End
  <2>3. CASE UNCHANGED pointer /\ outcome' = "escaped" /\ deployStep' = "idle"
    BY <1>1, <1>2, <2>3, BackKeeps
  <2> QED
    BY <2>1, <2>2, <2>3
<1>4. CASE UNCHANGED pointer /\ End("escaped")
  BY <1>1, <1>2, <1>4, BackKeeps DEF End
<1> QED
  BY <1>3, <1>4 DEF Undo

\* Rolling back after a failed check or start.
LEMMA RollbackKeeps ==
    ASSUME DeployInv, Rollback
    PROVE  DeployInv'
<1>1. deployStep = "rollback" /\ deployStep # "idle"
  BY DEF Rollback
<1>2. UNCHANGED <<releases, disturbed, service, frame>> /\ (Fault \/ UNCHANGED faults)
  BY DEF Rollback
<1>3. CASE /\ attempt.previous = NoRevision \/ ~Exists(attempt.previous)
           /\ pointer' = NoRevision /\ End("failed")
  <2>1. attempt.previous \in disturbed \cup {NoRevision}
    BY <1>1, <1>3, Typed DEF Exists, Tree, DeployInv, PreviousInv
  <2>2. Restored'
    BY <1>2, <1>3, <2>1 DEF Restored, frame
  <2> QED
    BY <1>1, <1>2, <1>3, <2>2, BackKeeps DEF End
<1>4. CASE Exists(attempt.previous) /\ pointer' = attempt.previous /\ AfterRestore
  <2>1. attempt.previous # NoRevision
    BY <1>4 DEF Exists, Tree
  <2>2. Restored'
    BY <1>1, <1>2, <1>4, <2>1 DEF Restored, Tree, frame, DeployInv, PreviousInv
  <2> QED
    BY <1>1, <1>2, <1>4, <2>2, BackKeeps DEF AfterRestore, End
<1>5. CASE UNCHANGED pointer /\ End("escaped")
  BY <1>1, <1>2, <1>5, BackKeeps DEF End
<1> QED
  BY <1>3, <1>4, <1>5 DEF Rollback

\* A step that leaves the files alone, within Late or to its success.
LEMMA LateMoves ==
    ASSUME DeployInv, deployStep \in Late, UNCHANGED <<files, frame>>,
           service' \in ServiceStates, Fault \/ UNCHANGED faults,
           \/ deployStep' = "rollback" /\ UNCHANGED outcome
           \/ /\ releases[attempt.revision] = "good"
              /\ (deployStep' = "start" /\ UNCHANGED outcome) \/ (deployStep' = "idle" /\ outcome' = "success")
    PROVE  DeployInv'
<1>1. /\ UNCHANGED <<releases, pointer, disturbed, attempt, attempts>>
      /\ outcome = "none" /\ pointer = attempt.revision
      /\ releases[attempt.revision] \in Sources /\ deployStep # "idle"
  BY DEF files, frame, DeployInv, AttemptInv, Late
<1>2. DeployTypeOK'
  BY <1>1, FaultTyped DEF DeployInv, DeployTypeOK, Steps, Outcomes
<1>3. ActiveReleaseIsWhole'
  BY <1>1 DEF DeployInv, ActiveReleaseIsWhole
<1>4. AttemptInv'
  BY <1>1 DEF AttemptInv, Early, Late
<1>5. PreviousInv' /\ OutcomeInv'
  BY <1>1 DEF DeployInv, PreviousInv, OutcomeInv, SuccessIsVerified
<1> QED
  BY <1>2, <1>3, <1>4, <1>5 DEF DeployInv

\* The smoke test, and the start of the service.
LEMMA VerificationKeeps ==
    ASSUME DeployInv, Check \/ Start
    PROVE  DeployInv'
<1>1. deployStep \in Late /\ UNCHANGED <<files, frame>>
  BY DEF Check, Start, Late
<1>2. service' \in ServiceStates
  BY DEF Check, Start, ServiceStates, DeployInv, DeployTypeOK
<1>3. Fault \/ UNCHANGED faults
  BY DEF Check, Start
<1>4. \/ deployStep' = "rollback" /\ UNCHANGED outcome
      \/ /\ releases[attempt.revision] = "good"
         /\ (deployStep' = "start" /\ UNCHANGED outcome) \/ (deployStep' = "idle" /\ outcome' = "success")
  <2>1. CASE Check
    BY <2>1 DEF Check, End
  <2>2. CASE Start
    <3>1. releases[attempt.revision] = "good"
      BY <2>2 DEF Start, DeployInv, AttemptInv
    <3>2. \/ deployStep' = "idle" /\ outcome' = "success"
          \/ deployStep' = "rollback" /\ UNCHANGED outcome
      BY <2>2 DEF Start, End
    <3> QED
      BY <3>1, <3>2
  <2> QED
    BY <2>1, <2>2
<1> QED
  BY <1>1, <1>2, <1>3, <1>4, LateMoves

\* The restart after a failure only ends the attempt.
LEMMA RestartKeeps ==
    ASSUME DeployInv, Restart
    PROVE  DeployInv'
<1>1. /\ UNCHANGED <<releases, pointer, disturbed, attempt, attempts>>
      /\ deployStep = "restart" /\ deployStep' = "idle" /\ outcome' = "failed"
      /\ service' \in ServiceStates
  BY DEF Restart, End, files, frame, DeployInv, DeployTypeOK, ServiceStates
<1>2. Fault \/ UNCHANGED faults
  BY DEF Restart
<1>3. DeployTypeOK'
  BY <1>1, <1>2, FaultTyped DEF DeployInv, DeployTypeOK, Steps, Outcomes
<1>4. OutcomeInv'
  BY <1>1 DEF DeployInv, OutcomeInv, Restored, Tree, SuccessIsVerified
<1> QED
  BY <1>1, <1>3, <1>4 DEF DeployInv, ActiveReleaseIsWhole, AttemptInv, PreviousInv, Early, Late

\* A crash, the operator's hand and the service control manager.
LEMMA DeployEnvironment ==
    ASSUME DeployInv, Crash \/ Scm \/ \E r \in Revisions : RemoveRelease(r)
    PROVE  DeployInv'
<1>1. CASE Crash
  <2>1. /\ UNCHANGED <<releases, pointer, disturbed, service, attempt, attempts>>
        /\ deployStep' = "idle" /\ outcome' = "crashed" /\ Fault
    BY <1>1 DEF Crash, End, files, frame
  <2>2. DeployTypeOK'
    BY <2>1, FaultTyped DEF DeployInv, DeployTypeOK, Steps, Outcomes
  <2> QED
    BY <2>1, <2>2
    DEF DeployInv, ActiveReleaseIsWhole, AttemptInv, PreviousInv, OutcomeInv,
        SuccessIsVerified, Early, Late
<1>2. CASE Scm
  <2>1. /\ UNCHANGED <<releases, pointer, disturbed, deployStep, outcome, attempt, attempts>>
        /\ service' \in ServiceStates /\ (Fault \/ UNCHANGED faults)
    BY <1>2 DEF Scm, StopCompletes, StartCompletes, StartFails, ServiceStates, files, frame
  <2>2. DeployTypeOK'
    BY <2>1, FaultTyped DEF DeployInv, DeployTypeOK
  <2> QED
    BY <2>1, <2>2
    DEF DeployInv, ActiveReleaseIsWhole, AttemptInv, PreviousInv, OutcomeInv,
        SuccessIsVerified, Restored, Tree
<1>3. ASSUME NEW r \in Revisions, RemoveRelease(r)
      PROVE  DeployInv'
  <2>1. /\ UNCHANGED <<pointer, service, deployStep, outcome, attempt, attempts>>
        /\ deployStep = "idle" /\ Fault /\ disturbed' = disturbed \cup {r}
        /\ \A s \in Revisions \ {r} : releases'[s] = releases[s]
        /\ releases' \in [Revisions -> Trees]
    BY <1>3 DEF RemoveRelease, frame, DeployInv, DeployTypeOK, Trees
  <2>2. DeployTypeOK'
    BY <2>1, FaultTyped DEF DeployInv, DeployTypeOK
  <2>3. ActiveReleaseIsWhole'
    BY <2>1 DEF DeployInv, DeployTypeOK, ActiveReleaseIsWhole
  <2>4. AttemptInv' /\ PreviousInv'
    BY <2>1 DEF DeployInv, AttemptInv, PreviousInv, Early, Late
  <2>5. (outcome = "failed" => Restored)'
    <3> SUFFICES ASSUME outcome = "failed"
                 PROVE  Restored'
      BY <2>1
    <3>1. Restored
      BY DEF DeployInv, OutcomeInv
    <3>2. pointer \in Revisions \ {r} => Tree(pointer)' = Tree(pointer)
      BY <2>1 DEF Tree
    <3>3. pointer = NoRevision => Tree(pointer)' = Tree(pointer)
      BY <2>1 DEF Tree
    <3> QED
      BY <2>1, <3>1, <3>2, <3>3 DEF Restored, DeployInv, DeployTypeOK
  <2>6. SuccessIsVerified'
    BY <2>1 DEF DeployInv, DeployTypeOK, OutcomeInv, SuccessIsVerified, Attempt
  <2>7. OutcomeInv'
    BY <2>1, <2>5, <2>6 DEF DeployInv, OutcomeInv
  <2> QED
    BY <2>2, <2>3, <2>4, <2>7 DEF DeployInv
<1> QED
  BY <1>1, <1>2, <1>3

\* Every step keeps the invariant: one case per action.
LEMMA DeployStep ==
    ASSUME DeployInv, [DeployNext]_deployVars
    PROVE  DeployInv'
<1>1. CASE UNCHANGED deployVars
  BY <1>1
  DEF deployVars, DeployInv, DeployTypeOK, ActiveReleaseIsWhole, AttemptInv, PreviousInv, OutcomeInv,
      SuccessIsVerified, Restored, Tree
<1>2. CASE DeployNext
  BY <1>2, BeginKeeps, PreparationKeeps, RemoveOldKeeps, ReplaceKeeps, ActivateKeeps,
     UndoKeeps, VerificationKeeps, RollbackKeeps, RestartKeeps, DeployEnvironment
  DEF DeployNext, Step
<1> QED
  BY <1>1, <1>2

-----------------------------------------------------------------------------
(* Theorems *)

\* The inductive invariant holds in every reachable state.
THEOREM DeployInvariance == DeploySpec => []DeployInv
<1> QED
  BY DeployStarts, DeployStep, PTL DEF DeploySpec

\* All variables keep their types.
THEOREM DeployTyped == DeploySpec => []DeployTypeOK
<1>1. DeployInv => DeployTypeOK
  BY DEF DeployInv
<1> QED
  BY <1>1, DeployInvariance, PTL

\* current-release.txt never names a missing or half-removed release, after a
\* crash at any step too, unless the operator removed it or deployed over it.
THEOREM PointerNamesWholeRelease == DeploySpec => []ActiveReleaseIsWhole
<1>1. DeployInv => ActiveReleaseIsWhole
  BY DEF DeployInv
<1> QED
  BY <1>1, DeployInvariance, PTL

\* An attempt that failed or was refused left the revision active that was, with
\* the tree it had, or nothing when that one is gone.
THEOREM FailureIsUndone == DeploySpec => []FailureRestoresPrevious
<1>1. DeployInv => FailureRestoresPrevious
  BY DEF DeployInv, OutcomeInv, Restored, FailureRestoresPrevious
<1> QED
  BY <1>1, DeployInvariance, PTL

\* Success is reported only for a release that is active and passed its check.
THEOREM SuccessIsTrue == DeploySpec => []SuccessIsVerified
<1>1. DeployInv => SuccessIsVerified
  BY DEF DeployInv, OutcomeInv
<1> QED
  BY <1>1, DeployInvariance, PTL

\* All of it together, for any revisions, attempts and faults.
THEOREM DeploymentIsSafe == DeploySpec => []DeploySafe
  BY FailureIsUndone, SuccessIsTrue, PointerNamesWholeRelease, PTL DEF DeploySafe

-----------------------------------------------------------------------------
(* Gate: what the report and the exit code tell *)

\* The invariant by its parts.
LEMMA GateParts ==
    GateIInv <=> /\ GateTypeOK /\ ZeroMeansPass /\ StaleOnlyIfStuck /\ FailureIsNotCrash
                 /\ RunTells /\ ReportIsPast /\ PhasesTell
  BY DEF GateIInv, ReportIsTrue

\* What the gate's assumption says of the exit codes.
LEMMA NoneIsNoResult ==
    /\ MinTests \in Nat \ {0} /\ MaxRuns \in Nat /\ None # "done"
    /\ None # 0 /\ None # 1 /\ None # 2
  BY GateAssumption DEF GateAssumption

\* Before the first run.
LEMMA GateStarts == GateInit => GateIInv
<1> SUFFICES ASSUME GateInit PROVE GateIInv
  OBVIOUS
<1>1. /\ run = 0 /\ phase = "idle" /\ exit = None /\ verdict = None
      /\ suite = [code |-> 1, ran |-> -1, failures |-> 0, errors |-> 0]
      /\ failed = Drills /\ failopen = FALSE
      /\ report = None /\ held = FALSE /\ removal = None
  BY DEF GateInit
<1>2. suite \in [code : {0, 1}, ran : Int, failures : Nat, errors : Nat]
  BY <1>1
<1>3. run \in 0 .. MaxRuns
  BY <1>1, NoneIsNoResult
<1>4. GateTypeOK
  BY <1>1, <1>2, <1>3 DEF GateTypeOK
<1> QED
  BY <1>1, <1>4, NoneIsNoResult, GateParts DEF ZeroMeansPass, StaleOnlyIfStuck, RunTells,
     FailureIsNotCrash, ReportIsPast, PhasesTell

\* A run begins, and takes away the report before it.
LEMMA RunBegins ==
    ASSUME GateIInv, StartRun \/ Unlink
    PROVE  GateIInv'
<1>1. /\ GateTypeOK /\ ZeroMeansPass /\ StaleOnlyIfStuck /\ FailureIsNotCrash
      /\ RunTells /\ ReportIsPast /\ PhasesTell
  BY GateParts
<1>2. CASE StartRun
  <2>1. /\ run' = run + 1 /\ run < MaxRuns /\ run \in Nat
        /\ phase' = "unlink" /\ exit' = None /\ verdict' = None
        /\ suite' = [code |-> 1, ran |-> -1, failures |-> 0, errors |-> 0]
        /\ failed' = Drills /\ failopen' = FALSE /\ removal' = None
        /\ report' = report /\ held' = held
    BY <1>1, <1>2, NoneIsNoResult DEF StartRun, GateTypeOK
  <2>2. suite' \in [code : {0, 1}, ran : Int, failures : Nat, errors : Nat]
    BY <2>1
  <2>3. run' \in 0 .. MaxRuns
    BY <2>1, NoneIsNoResult
  <2>4. GateTypeOK'
    BY <1>1, <2>1, <2>2, <2>3 DEF GateTypeOK
  <2>5. ReportIsPast'
    <3>1. report # None => report.run \in Nat /\ report.run <= run
      BY <1>1, NoneIsNoResult DEF GateTypeOK, ReportIsPast
    <3> QED
      BY <2>1, <3>1 DEF ReportIsPast
  <2> QED
    BY <1>1, <2>1, <2>4, <2>5, NoneIsNoResult DEF GateIInv, ReportIsTrue, ZeroMeansPass,
       StaleOnlyIfStuck, RunTells, FailureIsNotCrash, PhasesTell
<1>3. CASE Unlink
  <2>1. /\ phase = "unlink" /\ phase' = "suite" /\ UNCHANGED <<run, resultVars, verdict, held, exit>>
        /\ held => report' = report /\ removal' = "stuck"
        /\ ~held => report' = None /\ removal' = "done"
    BY <1>3 DEF Unlink
  <2>2. exit' = None /\ run' = run /\ run > 0
    BY <1>1, <2>1 DEF RunTells
  <2>3. GateTypeOK'
    BY <1>1, <2>1, NoneIsNoResult DEF GateTypeOK, resultVars
  <2>4. StaleOnlyIfStuck'
    BY <1>1, <2>1 DEF StaleOnlyIfStuck
  <2>5. ReportIsPast'
    BY <1>1, <2>1, <2>2 DEF ReportIsPast
  <2>6. PhasesTell'
    BY <1>1, <2>1 DEF PhasesTell, RunTells, resultVars
  <2> QED
    BY <2>1, <2>2, <2>3, <2>4, <2>5, <2>6, NoneIsNoResult
    DEF GateIInv, ReportIsTrue, ZeroMeansPass, RunTells, FailureIsNotCrash
<1> QED
  BY <1>2, <1>3

\* The phases of a run, and the verdict.
LEMMA RunGoesOn ==
    ASSUME GateIInv, RunSuite \/ RunDrills \/ VerifyFailOpen \/ Raise \/ Render
    PROVE  GateIInv'
<1>1. /\ GateTypeOK /\ ZeroMeansPass /\ StaleOnlyIfStuck /\ FailureIsNotCrash
      /\ RunTells /\ ReportIsPast /\ PhasesTell
  BY GateParts
<1>2. /\ run' = run /\ report' = report /\ held' = held /\ removal' = removal
      /\ exit' = exit /\ phase \in {"suite", "drills", "failopen", "render"}
      /\ phase' \in {"drills", "failopen", "render", "write"}
  BY DEF RunSuite, RunDrills, VerifyFailOpen, Raise, Render
<1>3. exit' = None /\ run' > 0
  BY <1>1, <1>2 DEF RunTells
<1>4. /\ suite' \in [code : {0, 1}, ran : Int, failures : Nat, errors : Nat]
      /\ failed' \subseteq Drills /\ failopen' \in BOOLEAN
  <2>1. Completed \subseteq [code : {0, 1}, ran : Int, failures : Nat, errors : Nat]
    BY NoneIsNoResult DEF Completed
  <2> QED
    BY <1>1, <2>1 DEF RunSuite, RunDrills, VerifyFailOpen, Raise, Render, resultVars, GateTypeOK
<1>5. /\ verdict' \in (Verdicts \ {"cut"}) \cup {None}
      /\ phase' = "write" =>
           verdict' \in Verdicts \ {"cut"} /\ (verdict' = "PASS" <=> LocalGatePassed')
  <2>1. CASE RunSuite \/ RunDrills \/ VerifyFailOpen
    BY <1>1, <2>1 DEF RunSuite, RunDrills, VerifyFailOpen, GateTypeOK
  <2>2. CASE Raise
    BY <1>1, <2>2 DEF Raise, Verdicts, PhasesTell, LocalGatePassed, resultVars
  <2>3. CASE Render
    <3>1. verdict' = (IF LocalGatePassed THEN "PASS" ELSE "FAIL") /\ LocalGatePassed' = LocalGatePassed
      BY <2>3 DEF Render, resultVars, LocalGatePassed, SuitePassed
    <3> QED
      BY <3>1 DEF Verdicts
  <2> QED
    BY <2>1, <2>2, <2>3
<1>6. GateTypeOK'
  BY <1>1, <1>2, <1>4, <1>5 DEF GateTypeOK
<1>7. StaleOnlyIfStuck'
  BY <1>1, <1>2 DEF StaleOnlyIfStuck
<1>8. ReportIsPast'
  BY <1>1, <1>2 DEF ReportIsPast
<1>9. PhasesTell'
  BY <1>1, <1>2 DEF PhasesTell, RunSuite, RunDrills, VerifyFailOpen, Raise, Render, resultVars
<1> QED
  BY <1>2, <1>3, <1>5, <1>6, <1>7, <1>8, <1>9, NoneIsNoResult
  DEF GateIInv, ReportIsTrue, ZeroMeansPass, RunTells, FailureIsNotCrash

\* The report is written, or cannot be.
LEMMA ReportIsWritten ==
    ASSUME GateIInv, Open \/ OpenFails \/ Write
    PROVE  GateIInv'
<1>1. /\ GateTypeOK /\ ZeroMeansPass /\ StaleOnlyIfStuck /\ FailureIsNotCrash
      /\ RunTells /\ ReportIsPast /\ PhasesTell
  BY GateParts
<1>2. /\ run' = run /\ held' = held /\ removal' = removal /\ verdict' = verdict
      /\ suite' = suite /\ failed' = failed /\ failopen' = failopen
      /\ phase \in {"write", "writing"} /\ verdict \in Verdicts \ {"cut"}
      /\ verdict = "PASS" <=> LocalGatePassed
      /\ run \in 1 .. MaxRuns
  <2>1. /\ run' = run /\ held' = held /\ removal' = removal /\ verdict' = verdict
        /\ suite' = suite /\ failed' = failed /\ failopen' = failopen
        /\ phase \in {"write", "writing"}
    BY DEF Open, OpenFails, Write, resultVars
  <2>2. run \in 1 .. MaxRuns
    BY <1>1, <2>1, NoneIsNoResult DEF GateTypeOK, RunTells
  <2> QED
    BY <1>1, <2>1, <2>2 DEF RunTells
<1>3. CASE Open
  <2>1. phase = "write" /\ phase' = "writing" /\ report' = [run |-> run, verdict |-> "cut"]
        /\ exit' = exit /\ exit = None
    BY <1>1, <1>3 DEF Open, RunTells
  <2>2. GateTypeOK'
    BY <1>1, <1>2, <2>1 DEF GateTypeOK, Verdicts
  <2>3. StaleOnlyIfStuck'
    BY <1>2, <2>1 DEF StaleOnlyIfStuck
  <2>4. RunTells'
    BY <1>2, <2>1, NoneIsNoResult DEF RunTells, LocalGatePassed, SuitePassed
  <2> QED
    BY <1>2, <2>1, <2>2, <2>3, <2>4, NoneIsNoResult
    DEF GateIInv, ReportIsTrue, ZeroMeansPass, FailureIsNotCrash, ReportIsPast, PhasesTell
<1>4. CASE OpenFails
  <2>1. phase' = "exit" /\ exit' = 1 /\ report' = report
    BY <1>4 DEF OpenFails
  <2>2. GateTypeOK'
    BY <1>1, <1>2, <2>1 DEF GateTypeOK
  <2>3. run > 0 /\ (report # None => report.run < run /\ report.run \in Nat)
    BY <1>1, <1>2, <1>4, NoneIsNoResult DEF ReportIsPast, GateTypeOK, OpenFails
  <2>4. ReportIsPast' /\ (report' # None => report'.run # run')
    BY <1>2, <2>1, <2>3 DEF ReportIsPast
  <2> QED
    BY <1>1, <1>2, <2>1, <2>2, <2>3, <2>4
    DEF GateIInv, ReportIsTrue, ZeroMeansPass, StaleOnlyIfStuck, RunTells, FailureIsNotCrash,
        PhasesTell
<1>5. CASE Write
  <2>1. report' = [run |-> run, verdict |-> verdict] /\ phase' = "exit" /\ exit' = ExitCode
    BY <1>5 DEF Write
  <2>2. /\ ExitCode \in {0, 1, 2} /\ (ExitCode = 0 => verdict = "PASS")
        /\ ExitCode = 1 => verdict = "FAIL"
    BY <1>2 DEF ExitCode, Verdicts
  <2>3. GateTypeOK'
    BY <1>1, <1>2, <2>1, <2>2 DEF GateTypeOK
  <2>4. run > 0
    BY <1>2, NoneIsNoResult
  <2>5. ZeroMeansPass'
    <3>1. suite.failures = 0 /\ suite.errors = 0 => suite.failures + suite.errors = 0
      OBVIOUS
    <3> QED
      BY <1>2, <2>1, <2>2, <3>1 DEF ZeroMeansPass, LocalGatePassed, SuitePassed
  <2>6. StaleOnlyIfStuck'
    BY <1>2, <2>1 DEF StaleOnlyIfStuck
  <2>7. FailureIsNotCrash'
    <3>1. ExitCode = 2 => verdict = "CRASHED"
      BY <1>2 DEF ExitCode, Verdicts
    <3>2. LocalGatePassed' <=> LocalGatePassed
      BY <1>2 DEF LocalGatePassed, SuitePassed
    <3> QED
      BY <1>2, <2>1, <2>2, <3>1, <3>2 DEF FailureIsNotCrash
  <2>8. ReportIsPast' /\ PhasesTell'
    BY <1>2, <2>1 DEF ReportIsPast, PhasesTell
  <2> QED
    BY <1>2, <2>1, <2>3, <2>4, <2>5, <2>6, <2>7, <2>8 DEF GateIInv, ReportIsTrue, RunTells
<1> QED
  BY <1>3, <1>4, <1>5

\* A run is killed; somebody opens or closes the file.
LEMMA GateEnvironment ==
    ASSUME GateIInv, KillRun \/ Hold
    PROVE  GateIInv'
<1>1. /\ GateTypeOK /\ ZeroMeansPass /\ StaleOnlyIfStuck /\ FailureIsNotCrash
      /\ RunTells /\ ReportIsPast /\ PhasesTell
  BY GateParts
<1>2. CASE KillRun
  <2>1. /\ phase' = "exit" /\ exit' = None /\ phase # "idle"
        /\ run' = run /\ report' = report /\ held' = held /\ removal' = removal
        /\ verdict' = verdict /\ suite' = suite /\ failed' = failed /\ failopen' = failopen
    BY <1>2 DEF KillRun, resultVars
  <2>2. GateTypeOK'
    BY <1>1, <2>1 DEF GateTypeOK
  <2> QED
    BY <1>1, <2>1, <2>2, NoneIsNoResult
    DEF GateIInv, ReportIsTrue, ZeroMeansPass, StaleOnlyIfStuck, RunTells, FailureIsNotCrash,
        ReportIsPast, PhasesTell
<1>3. CASE Hold
  <2>1. /\ phase' = phase /\ exit' = exit /\ held' = ~held
        /\ run' = run /\ report' = report /\ removal' = removal
        /\ verdict' = verdict /\ suite' = suite /\ failed' = failed /\ failopen' = failopen
    BY <1>3 DEF Hold, resultVars
  <2>2. held' \in BOOLEAN
    BY <1>1, <2>1 DEF GateTypeOK
  <2>3. GateTypeOK'
    BY <1>1, <2>1, <2>2 DEF GateTypeOK
  <2> QED
    BY <1>1, <2>1, <2>3
    DEF GateIInv, ReportIsTrue, ZeroMeansPass, StaleOnlyIfStuck, RunTells, LocalGatePassed,
        SuitePassed, FailureIsNotCrash, ReportIsPast, PhasesTell
<1> QED
  BY <1>2, <1>3

\* For any set of drills, size of the suite and number of runs, whatever raises and
\* whenever a run is killed.
THEOREM GateInvariance == GateSpec => []GateIInv
<1>1. GateIInv /\ [GateNext]_gateVars => GateIInv'
  <2> SUFFICES ASSUME GateIInv, [GateNext]_gateVars PROVE GateIInv'
    OBVIOUS
  <2>1. CASE UNCHANGED gateVars
    BY <2>1 DEF gateVars, resultVars, GateIInv, ReportIsTrue, GateTypeOK, ZeroMeansPass,
       StaleOnlyIfStuck, RunTells, LocalGatePassed, SuitePassed, FailureIsNotCrash,
       ReportIsPast, PhasesTell
  <2> QED
    BY <2>1, RunBegins, RunGoesOn, ReportIsWritten, GateEnvironment DEF GateNext
<1> QED
  BY <1>1, GateStarts, PTL DEF GateSpec

\* Exit code 0 goes with this run's whole report, which says PASS of a whole suite,
\* all drills and the fail-open check, 2 with its crash report, and 1 with its
\* report, if there is one, of a run that failed; and an earlier report is left only
\* where it could not be removed.
THEOREM ReportsAreTrue == GateSpec => []ReportIsTrue
<1>1. GateIInv => ReportIsTrue
  BY DEF GateIInv
<1> QED
  BY <1>1, GateInvariance, PTL

-----------------------------------------------------------------------------
(* Hosts: lines and names *)

\* A set of natural numbers that is not empty has a least element: this stands
\* for induction over numbers.
LEMMA OperationsLeast ==
    ASSUME NEW S \in SUBSET Nat, S # {}
    PROVE  \E n \in S : \A m \in S : n <= m
<1>1. PICK n \in S : \A m \in S : <<m, n>> \notin OpToRel(<, Nat)
  BY NatLessThanWellFounded, WFMin
<1>2. \A m \in S : ~(m < n)
  BY <1>1 DEF OpToRel
<1> QED
  BY <1>2

\* The lines of a file that name a name.
LEMMA NamingIs ==
    ASSUME NEW lines \in Seq(Line \cup {Blank}), NEW name
    PROVE  /\ Naming(lines, name) \subseteq 1 .. Len(lines)
           /\ IsFiniteSet(Naming(lines, name)) /\ Naming(lines, name) \subseteq Nat
           /\ \A i \in Naming(lines, name) : lines[i] \in Line
<1>1. /\ DOMAIN lines = 1 .. Len(lines) /\ Len(lines) \in Nat
      /\ \A i \in DOMAIN lines : lines[i] \in Line \cup {Blank}
  OBVIOUS
<1>2. Naming(lines, name) \subseteq 1 .. Len(lines)
  BY <1>1 DEF Naming
<1>3. IsFiniteSet(Naming(lines, name))
  <2>1. IsFiniteSet(1 .. Len(lines))
    BY <1>1, FS_Interval
  <2> QED
    BY <1>2, <2>1, FS_Subset
<1>4. ASSUME NEW i \in Naming(lines, name) PROVE lines[i] \in Line
  <2>1. lines[i] \in Line \cup {Blank} /\ name \in lines[i].names
    BY <1>1 DEF Naming
  <2>2. Blank.names = {}
    BY DEF Blank
  <2> QED
    BY <2>1, <2>2
<1> QED
  BY <1>1, <1>2, <1>3, <1>4

\* The first line that names a name decides.
LEMMA ResolvedIs ==
    ASSUME NEW lines \in Seq(Line \cup {Blank}), NEW name, NEW i \in Naming(lines, name),
           \A j \in Naming(lines, name) : i <= j
    PROVE  Resolved(lines, name) = lines[i].address
<1>1. Naming(lines, name) \subseteq Nat
  BY NamingIs
<1>2. (CHOOSE k \in Naming(lines, name) : \A j \in Naming(lines, name) : k <= j) = i
  BY <1>1
<1> QED
  BY <1>2 DEF Resolved

\* A name that some line has is on a first one.
LEMMA FirstLine ==
    ASSUME NEW lines \in Seq(Line \cup {Blank}), NEW name, Naming(lines, name) # {}
    PROVE  \E i \in Naming(lines, name) : \A j \in Naming(lines, name) : i <= j
<1>1. Naming(lines, name) \in SUBSET Nat
  BY NamingIs
<1> QED
  BY <1>1, OperationsLeast

\* A set with no more than one element.
LEMMA AtMostOne ==
    ASSUME NEW S, IsFiniteSet(S), ~(Cardinality(S) > 1), NEW x \in S
    PROVE  S = {x}
<1>1. {x} \in SUBSET S /\ Cardinality({x}) = 1
  BY FS_Singleton
<1>2. Cardinality({x}) <= Cardinality(S) /\ (Cardinality(S) = Cardinality({x}) => S = {x})
  BY <1>1, FS_Subset
<1>3. Cardinality(S) \in Nat
  BY FS_CardinalityType
<1> QED
  BY <1>1, <1>2, <1>3

\* What a run that is not refused makes of the file: one line names the monitor and
\* has the address, and no other line has changed.
IsUpdate(lines, address, k) ==
    /\ Naming(lines, Monitor) = {k} /\ lines[k].address = address
    /\ k \in DOMAIN file => /\ Naming(file, Monitor) = {k}
                            /\ DOMAIN lines = DOMAIN file
                            /\ lines[k].names = file[k].names
    /\ k \notin DOMAIN file => /\ DOMAIN lines = DOMAIN file \cup {k}
                               /\ lines[k].names = {Monitor}
    /\ \A i \in DOMAIN file : i # k => lines[i] = file[i]

\* Updated makes such a file.
LEMMA UpdatedIs ==
    ASSUME HostsTypeOK, NEW address \in Addresses, NEW replace \in BOOLEAN,
           ~Refused(address, replace), NEW lines, lines = Updated(address)
    PROVE  /\ lines \in Seq(Line \cup {Blank})
           /\ \E k \in Naming(lines, Monitor) : IsUpdate(lines, address, k)
<1>1. /\ file \in Seq(Line \cup {Blank}) /\ Len(file) \in Nat
      /\ DOMAIN file = 1 .. Len(file)
      /\ \A i \in DOMAIN file : file[i] \in Line \cup {Blank}
  BY DEF HostsTypeOK
<1>2. CASE Naming(file, Monitor) = {}
  <2> DEFINE k == Len(file) + 1
  <2>1. PICK line : line = [address |-> address, names |-> {Monitor}]
    OBVIOUS
  <2>2. line \in Line /\ line.address = address /\ line.names = {Monitor}
    <3>1. {Monitor} \in (SUBSET Names) \ {{}}
      BY DEF Names
    <3>2. [address |-> address, names |-> {Monitor}] \in Line
      BY <3>1 DEF Line
    <3> QED
      BY <2>1, <3>2
  <2>3. lines = Append(file, line)
    BY <1>2, <2>1 DEF Updated
  <2>4. /\ lines \in Seq(Line \cup {Blank}) /\ DOMAIN lines = 1 .. k
        /\ lines[k] = line /\ \A i \in DOMAIN file : lines[i] = file[i]
    BY <1>1, <2>2, <2>3
  <2>5. k \notin DOMAIN file /\ DOMAIN lines = DOMAIN file \cup {k}
    BY <1>1, <2>4
  <2> HIDE DEF k
  <2>6. Naming(lines, Monitor) = {k}
    BY <1>2, <2>2, <2>4, <2>5 DEF Naming
  <2> QED
    BY <2>2, <2>4, <2>5, <2>6 DEF IsUpdate
<1>3. CASE Naming(file, Monitor) # {}
  <2>1. PICK k : k \in Naming(file, Monitor)
    BY <1>3
  <2>2. /\ IsFiniteSet(Naming(file, Monitor)) /\ file[k] \in Line
        /\ Naming(file, Monitor) \subseteq DOMAIN file
    BY <1>1, <2>1, NamingIs
  <2>3. Naming(file, Monitor) = {k}
    BY <2>1, <2>2, AtMostOne DEF Refused
  <2>4. PICK line : line = [file[k] EXCEPT !.address = address]
    OBVIOUS
  <2>5. line \in Line /\ line.address = address /\ line.names = file[k].names
    BY <2>2, <2>4 DEF Line
  <2>6. lines = [i \in DOMAIN file |-> IF i = k THEN line ELSE file[i]]
    BY <1>3, <2>3, <2>4 DEF Updated
  <2>7. /\ DOMAIN lines = DOMAIN file /\ lines[k] = line /\ k \in DOMAIN file
        /\ \A i \in DOMAIN file : i # k => lines[i] = file[i]
    BY <2>1, <2>2, <2>6
  <2>8. lines \in Seq(Line \cup {Blank})
    BY <1>1, <2>5, <2>6
  <2>9. Naming(lines, Monitor) = {k}
    BY <2>1, <2>3, <2>5, <2>7 DEF Naming
  <2> QED
    BY <2>3, <2>5, <2>7, <2>8, <2>9 DEF IsUpdate
<1> QED
  BY <1>2, <1>3

\* A run leaves the monitor's name right, and itself nothing to do again.
LEMMA UpsertKeeps ==
    ASSUME HostsTypeOK, NEW address \in Addresses, NEW replace \in BOOLEAN,
           Upsert(address, replace)
    PROVE  HostsTypeOK' /\ MonitorResolves' /\ AgainIsNoChange'
<1>1. CASE Refused(address, replace)
  <2>1. result' = "refused" /\ file' = file /\ wanted' = wanted
    BY <1>1 DEF Upsert
  <2> QED
    BY <2>1 DEF HostsTypeOK, MonitorResolves, AgainIsNoChange
<1>2. CASE ~Refused(address, replace)
  <2>1. /\ file' = Updated(address) /\ wanted' = address
        /\ result' \in {"already_present", "changed"}
    BY <1>2 DEF Upsert
  <2>2. PICK k \in Naming(file', Monitor) :
           /\ Naming(file', Monitor) = {k} /\ file'[k].address = address
           /\ file' \in Seq(Line \cup {Blank})
    BY <1>2, <2>1, UpdatedIs DEF IsUpdate
  <2>3. HostsTypeOK'
    BY <2>1, <2>2 DEF HostsTypeOK
  <2>4. Cardinality(Naming(file', Monitor)) = 1 /\ k \in Nat
    BY <2>2, FS_Singleton, NamingIs
  <2>5. Resolved(file', Monitor) = address
    BY <2>2, <2>4, ResolvedIs
  <2>6. ~Refused(wanted, FALSE)'
    BY <2>1, <2>2, <2>4 DEF Refused
  <2>7. Updated(wanted)' = file'
    <3>1. file'[k] \in Line
      BY <2>2, NamingIs
    <3>2. PICK line : line = file'[k] /\ line \in Line /\ line.address = address
      BY <2>2, <3>1
    <3>3. [line EXCEPT !.address = address] = line
      BY <3>2 DEF Line
    <3>4. Updated(wanted)' =
            [i \in DOMAIN file' |-> IF i = k THEN [line EXCEPT !.address = address]
                                             ELSE file'[i]]
      BY <2>1, <2>2, <3>2 DEF Updated
    <3>5. file' = [i \in DOMAIN file' |-> file'[i]]
      BY <2>2
    <3> QED
      BY <3>2, <3>3, <3>4, <3>5
  <2> QED
    BY <2>1, <2>3, <2>4, <2>5, <2>6, <2>7 DEF MonitorResolves, AgainIsNoChange
<1> QED
  BY <1>1, <1>2

\* A run moves no other name, but for one on the monitor's own line.
LEMMA OthersStay ==
    ASSUME HostsTypeOK, NEW address \in Addresses, NEW replace \in BOOLEAN,
           Upsert(address, replace), NEW name \in Others
    PROVE  \/ Resolved(file', name) = Resolved(file, name)
           \/ /\ Resolved(file', name) = wanted'
              /\ \E i \in Naming(file, name) :
                    /\ Monitor \in file[i].names
                    /\ \A j \in Naming(file, name) : i <= j
<1>1. CASE Refused(address, replace)
  BY <1>1 DEF Upsert
<1>2. CASE ~Refused(address, replace)
  <2>1. file' = Updated(address) /\ wanted' = address /\ file \in Seq(Line \cup {Blank})
    BY <1>2 DEF Upsert, HostsTypeOK
  <2>2. PICK lines : lines = Updated(address) /\ file' = lines
    BY <2>1
  <2>3. /\ lines \in Seq(Line \cup {Blank})
        /\ \E k \in Naming(lines, Monitor) : IsUpdate(lines, address, k)
    BY <1>2, <2>2, UpdatedIs
  <2>4. PICK k \in Naming(lines, Monitor) : IsUpdate(lines, address, k)
    BY <2>3
  <2>5. name # Monitor
    BY HostsAssumption DEF HostsAssumption
  <2>6. Naming(lines, name) = Naming(file, name)
    BY <2>4, <2>5 DEF Naming, IsUpdate
  <2>7. CASE Naming(file, name) = {}
    BY <2>2, <2>6, <2>7 DEF Resolved
  <2>8. CASE Naming(file, name) # {}
    <3>1. PICK i \in Naming(file, name) : \A j \in Naming(file, name) : i <= j
      BY <2>1, <2>8, FirstLine
    <3>2. Resolved(file, name) = file[i].address /\ Resolved(lines, name) = lines[i].address
      BY <2>1, <2>4, <2>6, <2>3, <3>1, ResolvedIs
    <3>3. i \in DOMAIN file
      BY <3>1 DEF Naming
    <3>4. CASE i = k
      <4>1. Monitor \in file[i].names
        BY <2>4, <3>3, <3>4 DEF Naming, IsUpdate
      <4> QED
        BY <2>1, <2>2, <2>4, <3>1, <3>2, <3>4, <4>1 DEF IsUpdate
    <3>5. CASE i # k
      BY <2>2, <2>4, <3>2, <3>3, <3>5 DEF IsUpdate
    <3> QED
      BY <3>4, <3>5
  <2> QED
    BY <2>7, <2>8
<1> QED
  BY <1>1, <1>2

\* An operator's edit leaves a file of lines.
LEMMA EditKeeps ==
    ASSUME HostsTypeOK, Edit
    PROVE  HostsTypeOK' /\ MonitorResolves' /\ AgainIsNoChange'
<1>1. file \in Seq(Line \cup {Blank}) /\ result' = "edited" /\ wanted' = wanted
  BY DEF HostsTypeOK, Edit
<1>2. file' \in Seq(Line \cup {Blank})
  <2>1. CASE \E line \in Line \cup {Blank}, i \in 1 .. Len(file) + 1 :
                file' = InsertAt(file, i, line)
    <3>1. PICK line \in Line \cup {Blank}, i \in 1 .. Len(file) + 1 :
             file' = InsertAt(file, i, line)
      BY <2>1
    <3>2. SubSeq(file, 1, i - 1) \in Seq(Line \cup {Blank})
          /\ SubSeq(file, i, Len(file)) \in Seq(Line \cup {Blank})
          /\ <<line>> \in Seq(Line \cup {Blank})
      BY <1>1
    <3> QED
      BY <3>1, <3>2 DEF InsertAt
  <2>2. CASE \E i \in DOMAIN file : file' = RemoveAt(file, i)
    <3>1. PICK i \in DOMAIN file : file' = RemoveAt(file, i)
      BY <2>2
    <3>2. SubSeq(file, 1, i - 1) \in Seq(Line \cup {Blank})
          /\ SubSeq(file, i + 1, Len(file)) \in Seq(Line \cup {Blank})
      BY <1>1
    <3> QED
      BY <3>1, <3>2 DEF RemoveAt
  <2> QED
    BY <2>1, <2>2 DEF Edit
<1> QED
  BY <1>1, <1>2 DEF HostsTypeOK, MonitorResolves, AgainIsNoChange

\* For any names, addresses and length of the file, and edits between any two runs:
\* upsert_hosts_mapping leaves one line for the monitor that no other overrules, may
\* be run again, and moves only names that share the monitor's line.
THEOREM OnboardingStaysSafe == HostsSpec => OnboardingIsSafe
<1> DEFINE Inv == HostsTypeOK /\ MonitorResolves /\ AgainIsNoChange
           NamesStay == Run => \A name \in Others :
                 \/ Resolved(file', name) = Resolved(file, name)
                 \/ /\ Resolved(file', name) = wanted'
                    /\ \E i \in Naming(file, name) :
                          /\ Monitor \in file[i].names
                          /\ \A j \in Naming(file, name) : i <= j
<1>1. HostsInit => Inv
  BY DEF HostsInit, HostsTypeOK, MonitorResolves, AgainIsNoChange
<1>2. Inv /\ [HostsNext]_hostsVars => Inv'
  <2> SUFFICES ASSUME Inv, [HostsNext]_hostsVars PROVE Inv'
    OBVIOUS
  <2>1. CASE UNCHANGED hostsVars
    BY <2>1 DEF hostsVars, HostsTypeOK, MonitorResolves, AgainIsNoChange, Refused, Updated
  <2> QED
    BY <2>1, UpsertKeeps, EditKeeps DEF HostsNext, Run
<1>3. Inv => [NamesStay]_hostsVars
  BY OthersStay DEF Run
<1> HIDE DEF NamesStay
<1>4. [][NamesStay]_hostsVars => OthersKeepTheirs
  BY DEF NamesStay, OthersKeepTheirs
<1> QED
  BY <1>1, <1>2, <1>3, <1>4, PTL DEF HostsSpec, OnboardingIsSafe
=============================================================================
