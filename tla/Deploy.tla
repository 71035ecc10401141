------------------------------- MODULE Deploy -------------------------------
(***************************************************************************)
(* deploy.py: one operator installs and updates pinned releases, one       *)
(* attempt at a time.  An attempt stops the Windows service, stages the     *)
(* release beside the others, switches current-release.txt, smoke-tests     *)
(* and starts the service, and undoes the switch when a step fails.  The    *)
(* process may die between any two steps, every file system call and every  *)
(* sc.exe call may fail, and the operator may remove a release directory    *)
(* between two attempts.                                                   *)
(*                                                                         *)
(* The Windows service control manager is external: `sc stop` and           *)
(* `sc start` return once the request is accepted, the service stops or     *)
(* comes up later.                                                         *)
(***************************************************************************)
EXTENDS Naturals, FiniteSets

CONSTANTS
    Revisions,      \* revision names an operator may deploy
    NoRevision,     \* no current-release.txt
    MaxAttempts,    \* bound on deploy attempts
    MaxFaults,      \* bound on failing calls, crashes and removed directories
    Redeploys       \* TRUE: the operator may also deploy the active revision

ASSUME DeployAssumption ==
    /\ NoRevision \notin Revisions
    /\ MaxAttempts \in Nat /\ MaxFaults \in Nat
    /\ Redeploys \in BOOLEAN

VARIABLES
    releases,   \* releases/<revision>: absent, a broken tree, or what was staged
    pointer,    \* current-release.txt
    service,    \* the service's state as SCM knows it
    deployStep, \* the next step of the attempt in progress
    attempt,    \* its arguments and local variables
    outcome,    \* how the last attempt ended
    attempts,   \* attempts begun, up to MaxAttempts
    faults,     \* faults injected, up to MaxFaults
    disturbed   \* history: revisions whose directory was removed, or restaged while active

deployVars == <<releases, pointer, service, deployStep, attempt, outcome, attempts, faults, disturbed>>

Sources == {"good", "bad"}          \* a source tree that passes the smoke test, or does not
Trees == {"absent", "broken"} \cup Sources
ServiceStates == {"running", "stopping", "stopped", "starting"}
Steps == {"idle", "stop", "copy", "remove", "replace", "activate", "undo",
          "check", "start", "rollback", "restart"}
Outcomes == {"none", "success", "failed", "refused", "escaped", "crashed"}

\* `kept` is history: the tree the active revision had when the attempt began.
Attempt == [revision : Revisions, source : Sources \cup {"absent"}, managed : BOOLEAN,
            previous : Revisions \cup {NoRevision}, kept : Trees]

DeployTypeOK ==
    /\ releases \in [Revisions -> Trees]
    /\ pointer \in Revisions \cup {NoRevision}
    /\ service \in ServiceStates
    /\ deployStep \in Steps
    /\ attempt \in Attempt
    /\ outcome \in Outcomes
    /\ attempts \in 0 .. MaxAttempts
    /\ faults \in 0 .. MaxFaults
    /\ disturbed \subseteq Revisions

DeployInit ==
    /\ releases = [r \in Revisions |-> "absent"]
    /\ pointer = NoRevision
    /\ service = "stopped"
    /\ deployStep = "idle"
    /\ attempt \in {a \in Attempt : /\ ~a.managed /\ a.source = "absent"
                                    /\ a.previous = NoRevision /\ a.kept = "absent"}
    /\ outcome = "none"
    /\ attempts = 0 /\ faults = 0
    /\ disturbed = {}

-----------------------------------------------------------------------------
Tree(r) == IF r = NoRevision THEN "absent" ELSE releases[r]

Exists(r) == Tree(r) # "absent"     \* release_exists: is_dir, whatever is in it

Fault == faults < MaxFaults /\ faults' = faults + 1

End(result) == deployStep' = "idle" /\ outcome' = result

files == <<releases, pointer, disturbed>>
frame == <<attempt, attempts>>

(* main and the top of deploy_release: a failed preflight battery touches   *)
(* nothing; otherwise the active revision is remembered.                    *)
Begin(r, source, managed) ==
    /\ deployStep = "idle" /\ attempts < MaxAttempts
    /\ Redeploys \/ r # pointer
    /\ attempts' = attempts + 1
    /\ attempt' = [revision |-> r, source |-> source, managed |-> managed,
                   previous |-> pointer, kept |-> Tree(pointer)]
    /\ \/ End("refused")
       \/ deployStep' = (IF managed THEN "stop" ELSE "copy") /\ outcome' = "none"
    /\ UNCHANGED <<files, service, faults>>

(* WindowsScServiceLifecycle.stop: nothing to do when SCM says stopped; a    *)
(* pending service answers `sc stop` with an error; a timeout of sc.exe       *)
(* leaves open whether the request got through.  False refuses the attempt.  *)
Stop ==
    /\ deployStep = "stop"
    /\ \/ /\ service = "stopped" /\ UNCHANGED <<service, faults>>
          /\ deployStep' = "copy" /\ UNCHANGED outcome
       \/ /\ service = "running" /\ service' = "stopping" /\ UNCHANGED faults
          /\ deployStep' = "copy" /\ UNCHANGED outcome
       \/ /\ service \in {"stopping", "starting"} /\ UNCHANGED <<service, faults>>
          /\ End("refused")
       \/ /\ service # "stopped" /\ Fault
          /\ service' \in {service} \cup (IF service = "running" THEN {"stopping"} ELSE {})
          /\ End("refused")
    /\ UNCHANGED <<files, frame>>

(* stage_release: copytree into a sibling directory of this process's own.   *)
Copy ==
    /\ deployStep = "copy"
    /\ \/ attempt.source # "absent" /\ deployStep' = "remove" /\ UNCHANGED faults
       \/ attempt.source = "absent" /\ deployStep' = "undo" /\ UNCHANGED faults
       \/ Fault /\ deployStep' = "undo"
    /\ UNCHANGED <<files, service, outcome, frame>>

(* rmtree of an earlier staging of the same revision; it may fail half way.  *)
RemoveOld ==
    LET r == attempt.revision IN
    /\ deployStep = "remove"
    /\ \/ ~Exists(r) /\ deployStep' = "replace" /\ UNCHANGED <<releases, disturbed, faults>>
       \/ /\ Exists(r)
          /\ disturbed' = disturbed \cup ({r} \cap {pointer})
          /\ \/ /\ releases' = [releases EXCEPT ![r] = "absent"]
                /\ deployStep' = "replace" /\ UNCHANGED faults
             \/ /\ Fault /\ deployStep' = "undo"
                /\ \E tree \in {releases[r], "broken"} :
                       releases' = [releases EXCEPT ![r] = tree]
    /\ UNCHANGED <<pointer, service, outcome, frame>>

\* Mutant of Replace: the staged tree is copied over instead of renamed, and an
\* error of the copy is ignored.
ReplaceByCopy ==
    /\ deployStep = "replace" /\ deployStep' = "activate"
    /\ \E tree \in {attempt.source, "broken"} :
           releases' = [releases EXCEPT ![attempt.revision] = tree]
    /\ UNCHANGED <<pointer, disturbed, service, outcome, faults, frame>>

(* os.replace of the staged tree into the freed place.                       *)
Replace ==
    /\ deployStep = "replace"
    /\ \/ /\ releases' = [releases EXCEPT ![attempt.revision] = attempt.source]
          /\ deployStep' = "activate" /\ UNCHANGED faults
       \/ Fault /\ deployStep' = "undo" /\ UNCHANGED releases
    /\ UNCHANGED <<pointer, disturbed, service, outcome, frame>>

\* Mutant of Activate: the source is written into the pointer, not the revision.
ActivateSource ==
    /\ deployStep = "activate" /\ Exists(attempt.revision)
    /\ pointer' = attempt.source /\ deployStep' = "check"
    /\ UNCHANGED <<releases, disturbed, service, outcome, faults, frame>>

(* activate: a temporary file renamed over current-release.txt.              *)
Activate ==
    /\ deployStep = "activate"
    /\ \/ Exists(attempt.revision) /\ pointer' = attempt.revision /\ deployStep' = "check" /\ UNCHANGED faults
       \/ Fault /\ deployStep' = "undo" /\ UNCHANGED pointer
    /\ UNCHANGED <<releases, disturbed, service, outcome, frame>>

AfterRestore == IF attempt.managed THEN deployStep' = "restart" /\ UNCHANGED outcome ELSE End("failed")

(* The failure branch after staging or switching failed.  An error of         *)
(* activate or deactivate itself escapes deploy_release.                      *)
Undo ==
    /\ deployStep = "undo"
    /\ \/ /\ attempt.previous = NoRevision
          /\ pointer' = NoRevision /\ AfterRestore /\ UNCHANGED faults
       \/ /\ attempt.previous # NoRevision
          /\ pointer' = IF Exists(attempt.previous) THEN attempt.previous ELSE pointer
          /\ AfterRestore /\ UNCHANGED faults
       \/ Fault /\ UNCHANGED pointer /\ End("escaped")
    /\ UNCHANGED <<releases, disturbed, service, frame>>

\* Mutant of Check: only the presence of the release is checked.
CheckPresence ==
    /\ deployStep = "check" /\ Exists(attempt.revision)
    /\ IF attempt.managed THEN deployStep' = "start" /\ UNCHANGED outcome ELSE End("success")
    /\ UNCHANGED <<files, service, faults, frame>>

(* The post-activation check of main: default_smoke_test runs the release's  *)
(* own command line once; it may also time out.                              *)
Check ==
    /\ deployStep = "check"
    /\ \/ /\ releases[attempt.revision] = "good" /\ UNCHANGED faults
          /\ IF attempt.managed THEN deployStep' = "start" /\ UNCHANGED outcome ELSE End("success")
       \/ /\ releases[attempt.revision] # "good" /\ UNCHANGED faults
          /\ deployStep' = "rollback" /\ UNCHANGED outcome
       \/ Fault /\ deployStep' = "rollback" /\ UNCHANGED outcome
    /\ UNCHANGED <<files, service, frame>>

(* WindowsScServiceLifecycle.start: True when SCM says running or accepts     *)
(* `sc start`; a service that is stopping or starting answers with an error.  *)
Start ==
    /\ deployStep = "start"
    /\ \/ service = "running" /\ UNCHANGED <<service, faults>> /\ End("success")
       \/ service = "stopped" /\ service' = "starting" /\ UNCHANGED faults /\ End("success")
       \/ /\ service \in {"stopping", "starting"} /\ UNCHANGED <<service, faults>>
          /\ deployStep' = "rollback" /\ UNCHANGED outcome
       \/ /\ service # "running" /\ Fault
          /\ service' \in {service} \cup (IF service = "stopped" THEN {"starting"} ELSE {})
          /\ deployStep' = "rollback" /\ UNCHANGED outcome
    /\ UNCHANGED <<files, frame>>

\* Mutant of Rollback: activate is tried without looking for the directory, and
\* the pointer of a first install stays.
RollbackKeepsFirst ==
    /\ deployStep = "rollback"
    /\ pointer' = IF attempt.previous # NoRevision THEN attempt.previous ELSE pointer
    /\ AfterRestore
    /\ UNCHANGED <<releases, disturbed, service, faults, frame>>

(* _rollback_after_failure: without a previous revision, or without its       *)
(* directory, nothing is active afterwards and the service stays down.        *)
Rollback ==
    /\ deployStep = "rollback"
    /\ \/ /\ attempt.previous = NoRevision \/ ~Exists(attempt.previous)
          /\ pointer' = NoRevision /\ End("failed") /\ UNCHANGED faults
       \/ /\ Exists(attempt.previous)
          /\ pointer' = attempt.previous /\ AfterRestore /\ UNCHANGED faults
       \/ Fault /\ UNCHANGED pointer /\ End("escaped")
    /\ UNCHANGED <<releases, disturbed, service, frame>>

(* The best-effort restart: whatever start() answers is ignored.             *)
Restart ==
    /\ deployStep = "restart"
    /\ \/ service = "stopped" /\ service' = "starting" /\ UNCHANGED faults
       \/ service # "stopped" /\ UNCHANGED <<service, faults>>
       \/ service = "stopped" /\ Fault /\ UNCHANGED service
    /\ End("failed")
    /\ UNCHANGED <<files, frame>>

(* The deploy process dies between two steps; nothing persists but the files. *)
Crash ==
    /\ deployStep # "idle" /\ Fault
    /\ End("crashed")
    /\ UNCHANGED <<files, service, frame>>

(* The operator removes a release directory between two attempts.            *)
RemoveRelease(r) ==
    /\ deployStep = "idle" /\ Exists(r) /\ Fault
    /\ releases' = [releases EXCEPT ![r] = "absent"]
    /\ disturbed' = disturbed \cup {r}
    /\ UNCHANGED <<pointer, service, deployStep, outcome, frame>>

(* SCM: a stop completes, a start completes or fails.                        *)
StopCompletes == service = "stopping" /\ service' = "stopped"
StartCompletes == service = "starting" /\ service' = "running"
StartFails == service = "starting" /\ Fault /\ service' = "stopped"

Scm ==
    /\ \/ (StopCompletes \/ StartCompletes) /\ UNCHANGED faults
       \/ StartFails
    /\ UNCHANGED <<files, deployStep, outcome, frame>>

Step == Stop \/ Copy \/ RemoveOld \/ Replace \/ Activate \/ Undo \/ Check
        \/ Start \/ Rollback \/ Restart

DeployNext ==
    \/ \E r \in Revisions, source \in Sources \cup {"absent"}, managed \in BOOLEAN :
           Begin(r, source, managed)
    \/ Step
    \/ Crash
    \/ \E r \in Revisions : RemoveRelease(r)
    \/ Scm

DeploySpec == DeployInit /\ [][DeployNext]_deployVars

-----------------------------------------------------------------------------
(* An attempt that reports failure leaves the revision that was active       *)
(* active, with the very tree it had; when that directory is gone it may      *)
(* leave nothing active instead.  A refused attempt leaves the pointer alone. *)
(* (deploy_release's docstring; several failure branches restore it.)        *)
FailureRestoresPrevious ==
    /\ outcome = "refused" => pointer = attempt.previous
    /\ outcome = "failed" =>
           \/ pointer = NoRevision /\ attempt.previous \in disturbed \cup {NoRevision}
           \/ /\ pointer = attempt.previous
              /\ Tree(pointer) = attempt.kept \/ pointer \in disturbed

(* Success is only reported for a release that is active and passed the      *)
(* smoke test, until the operator removes it.                                *)
SuccessIsVerified ==
    outcome = "success" =>
        /\ pointer = attempt.revision
        /\ releases[pointer] = "good" \/ pointer \in disturbed

(* current-release.txt never names a missing or half-removed release, even    *)
(* after a crash at any step, unless the operator removed it or redeployed    *)
(* over the active one: staging happens beside the active release, and the    *)
(* pointer moves only to a release that is completely in place.              *)
ActiveReleaseIsWhole ==
    pointer # NoRevision => releases[pointer] \in Sources \/ pointer \in disturbed

(* What an attempt reports and what it leaves active agree: success for a       *)
(* verified release, failure for the one before, and always a whole one.        *)
DeploySafe == FailureRestoresPrevious /\ SuccessIsVerified /\ ActiveReleaseIsWhole

(* A failed attempt never leaves a release active that fails the smoke test   *)
(* when the one active before it passed.                                     *)
BrokenReleaseNeverLeftActive ==
    outcome = "failed" /\ attempt.kept = "good" /\ pointer # NoRevision
        => releases[pointer] # "bad"
=============================================================================
