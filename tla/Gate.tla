-------------------------------- MODULE Gate --------------------------------
(***************************************************************************)
(* The local verification gate: main of gate.py, run again and again on    *)
(* one report file.  A run removes the report of the run before, executes  *)
(* the test suite, the isolated fault drills and the fail-open check, and  *)
(* writes its own report.  Any of these may raise; the process may be      *)
(* killed between two steps; and the report file may be held open by       *)
(* somebody else, so that it can be neither removed nor written.           *)
(***************************************************************************)
EXTENDS Integers

CONSTANTS
    Drills,             \* the isolated fault drills
    MinTests,           \* MIN_EXPECTED_TESTS_RUN
    MaxRuns,            \* bound: how often the gate is run
    None

ASSUME GateAssumption ==
    /\ MinTests \in Nat \ {0} /\ MaxRuns \in Nat
    /\ None \notin Nat \cup {"done"}

VARIABLES
    run,        \* which run this is
    phase,      \* "idle", "unlink", "suite", "drills", "failopen", "render",
                \* "write", "writing" or "exit"
    suite,      \* the suite's CompletedProcess
    failed,     \* drills that did not pass
    failopen,   \* the fail-open check passed
    verdict,    \* what the report says, or is going to say
    report,     \* the file: None, or the run it is from and its verdict
    held,       \* somebody else has the file open
    removal,    \* history: what this run's unlink did, "done" or "stuck"
    exit        \* exit code of the run, None while it runs or when it was killed

resultVars == <<suite, failed, failopen>>
gateVars == <<run, phase, resultVars, verdict, report, held, removal, exit>>

\* What the suite's process may leave behind: exit code 0 only without failures
\* and errors; no "Ran n tests" line is -1; a discovery that finds nothing
\* runs 0 tests and exits 0.
Completed == {c \in [code : {0, 1}, ran : {-1, 0, MinTests - 1, MinTests},
                     failures : {0, 1}, errors : {0, 1}] :
                 c.failures + c.errors > 0 => c.code = 1}

SuitePassed(c) == /\ c.code = 0 /\ c.ran >= MinTests
                  /\ c.failures = 0 /\ c.errors = 0

LocalGatePassed == SuitePassed(suite) /\ failed = {} /\ failopen

Verdicts == {"PASS", "FAIL", "CRASHED", "cut"}

-----------------------------------------------------------------------------
StartRun ==
    /\ phase \in {"idle", "exit"} /\ run < MaxRuns
    /\ run' = run + 1
    /\ phase' = "unlink"
    /\ exit' = None /\ verdict' = None
    /\ suite' = [code |-> 1, ran |-> -1, failures |-> 0, errors |-> 0]
    /\ failed' = Drills /\ failopen' = FALSE
    /\ removal' = None
    /\ UNCHANGED <<report, held>>

\* Mutant of Unlink: the old report stays until the new one is written.
UnlinkNot ==
    /\ phase = "unlink" /\ phase' = "suite"
    /\ removal' = "done"
    /\ UNCHANGED <<run, resultVars, verdict, report, held, exit>>

\* An OSError is ignored.
Unlink ==
    /\ phase = "unlink" /\ phase' = "suite"
    /\ report' = IF held THEN report ELSE None
    /\ removal' = IF held THEN "stuck" ELSE "done"
    /\ UNCHANGED <<run, resultVars, verdict, held, exit>>

RunSuite ==
    /\ phase = "suite" /\ phase' = "drills"
    /\ suite' \in Completed
    /\ UNCHANGED <<run, failed, failopen, verdict, report, held, removal, exit>>

RunDrills ==
    /\ phase = "drills" /\ phase' = "failopen"
    /\ failed' \in SUBSET Drills
    /\ UNCHANGED <<run, suite, failopen, verdict, report, held, removal, exit>>

VerifyFailOpen ==
    /\ phase = "failopen" /\ phase' = "render"
    /\ failopen' \in BOOLEAN
    /\ UNCHANGED <<run, suite, failed, verdict, report, held, removal, exit>>

\* A phase raises (a suite that takes too long, a drill that cannot set up its
\* database): GateCrashError, and a crash report instead.
Raise ==
    /\ phase \in {"suite", "drills", "failopen"}
    /\ phase' = "write" /\ verdict' = "CRASHED"
    /\ UNCHANGED <<run, resultVars, report, held, removal, exit>>

\* Mutant of Render: the verdict is the suite's.
RenderSuite ==
    /\ phase = "render" /\ phase' = "write"
    /\ verdict' = IF SuitePassed(suite) THEN "PASS" ELSE "FAIL"
    /\ UNCHANGED <<run, resultVars, report, held, removal, exit>>

Render ==
    /\ phase = "render" /\ phase' = "write"
    /\ verdict' = IF LocalGatePassed THEN "PASS" ELSE "FAIL"
    /\ UNCHANGED <<run, resultVars, report, held, removal, exit>>

\* Mutant of Open: an empty file has no verdict.
OpenUnmarked ==
    /\ phase = "write" /\ ~held
    /\ phase' = "writing" /\ report' = [run |-> run, verdict |-> None]
    /\ UNCHANGED <<run, resultVars, verdict, held, removal, exit>>

\* write_text opens the file for writing, which empties it ...
Open ==
    /\ phase = "write" /\ ~held
    /\ phase' = "writing" /\ report' = [run |-> run, verdict |-> "cut"]
    /\ UNCHANGED <<run, resultVars, verdict, held, removal, exit>>

\* ... or raises, and nobody catches that: a traceback, and the interpreter's
\* exit code 1.
OpenFails ==
    /\ phase = "write" /\ held
    /\ phase' = "exit" /\ exit' = 1
    /\ UNCHANGED <<run, resultVars, verdict, report, held, removal>>

\* Mutant of ExitCode: a run that crashed is one that did not pass.
ExitCodeOfTwo == IF verdict = "PASS" THEN 0 ELSE 1

ExitCode == CASE verdict = "PASS" -> 0 [] verdict = "FAIL" -> 1 [] OTHER -> 2

Write ==
    /\ phase = "writing"
    /\ report' = [run |-> run, verdict |-> verdict]
    /\ phase' = "exit" /\ exit' = ExitCode
    /\ UNCHANGED <<run, resultVars, verdict, held, removal>>

-----------------------------------------------------------------------------
(* The environment. *)

KillRun == /\ phase \notin {"idle", "exit"}
        /\ phase' = "exit" /\ exit' = None
        /\ UNCHANGED <<run, resultVars, verdict, report, held, removal>>

\* An editor or a scanner opens the report, and closes it.
Hold == /\ held' = ~held
        /\ ~held => report # None
        /\ UNCHANGED <<run, phase, resultVars, verdict, report, removal, exit>>

GateInit == /\ run = 0 /\ phase = "idle" /\ exit = None /\ verdict = None
        /\ suite = [code |-> 1, ran |-> -1, failures |-> 0, errors |-> 0]
        /\ failed = Drills /\ failopen = FALSE
        /\ report = None /\ held = FALSE /\ removal = None

GateNext == \/ StartRun \/ Unlink \/ RunSuite \/ RunDrills \/ VerifyFailOpen \/ Raise
        \/ Render \/ Open \/ OpenFails \/ Write
        \/ KillRun \/ Hold

GateSpec == GateInit /\ [][GateNext]_gateVars

-----------------------------------------------------------------------------
(* Properties *)

GateTypeOK ==
    /\ run \in 0 .. MaxRuns
    /\ phase \in {"idle", "unlink", "suite", "drills", "failopen", "render",
               "write", "writing", "exit"}
    /\ suite \in [code : {0, 1}, ran : Int, failures : Nat, errors : Nat]
    /\ failed \subseteq Drills /\ failopen \in BOOLEAN
    /\ verdict \in (Verdicts \ {"cut"}) \cup {None}
    /\ report \in [run : 1 .. MaxRuns, verdict : Verdicts] \cup {None}
    /\ held \in BOOLEAN /\ removal \in {"done", "stuck", None}
    /\ exit \in {0, 1, 2, None}

\* Exit code 0 and the file go together: the report on disk is this run's,
\* whole, and says PASS; and it says so only of a suite of the expected size
\* without failures, all drills passed and telemetry failing open.
ZeroMeansPass ==
    exit = 0 => /\ report = [run |-> run, verdict |-> "PASS"]
                /\ suite.ran >= MinTests /\ suite.failures + suite.errors = 0
                /\ failed = {} /\ failopen

\* Nobody takes an earlier report for this run's, also when the run is killed:
\* it is gone before the first test runs, unless it could not be removed.
StaleOnlyIfStuck ==
    removal = "done" /\ report # None => report.run = run

\* A crash is not taken for a failed run, nor a failed run for a crash, by who
\* reads exit code and report: 2 goes with this run's crash report, and 1 with a
\* report of this run that says FAIL of a run that did fail.
FailureIsNotCrash ==
    /\ exit = 2 => report = [run |-> run, verdict |-> "CRASHED"]
    /\ exit = 1 /\ report # None /\ report.run = run =>
         report.verdict = "FAIL" /\ ~LocalGatePassed

\* The report and the exit code tell what this run found, whatever raises and
\* whenever the run is killed, on a file that others may hold open.  Two cases
\* are left open, both of a file that is held: a report that could not be removed
\* stays, and a report that could not be written leaves exit code 1 behind a run
\* that passed or crashed (gate.py:598, :613, :621).  Exit code 1 alone, without a
\* report of the same run, tells nothing.
ReportIsTrue == GateTypeOK /\ ZeroMeansPass /\ StaleOnlyIfStuck /\ FailureIsNotCrash

\* The inductive strengthening: a run that is not over has no exit code, what it
\* is about to write, or writes, is its own, and until it does the report is
\* that of an earlier run.
RunTells ==
    /\ phase # "exit" => exit = None
    /\ phase # "idle" => run > 0
    /\ phase \in {"write", "writing"} =>
         verdict \in Verdicts \ {"cut"} /\ (verdict = "PASS" <=> LocalGatePassed)
    /\ phase = "writing" => report = [run |-> run, verdict |-> "cut"]

ReportIsPast ==
    report # None =>
        /\ report.run <= run
        /\ phase \notin {"writing", "exit"} => report.run < run \/ phase = "idle"

\* Until the last phase is over the fail-open check has not passed.
PhasesTell == phase \in {"unlink", "suite", "drills", "failopen"} => ~failopen

GateIInv == ReportIsTrue /\ RunTells /\ ReportIsPast /\ PhasesTell
=============================================================================
