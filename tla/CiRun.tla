------------------------------- MODULE CiRun --------------------------------
(***************************************************************************)
(* `ftcheck ci': prepare(), run() and the verdict, over a work directory   *)
(* that outlives the run (python/ftcheck/ci/pipeline.py and __init__.py).  *)
(* A run may be stopped between any two of its steps; the next one starts  *)
(* from what it left: its wheel, a virtual environment made half way, an   *)
(* installed extension, a JUnit file, the logs of the sanitizer.           *)
(*                                                                         *)
(* pytest, pip and the sanitizer are external: the session under test may  *)
(* fail, stop saying so or not, or die at any test.  Stopping ftcheck      *)
(* stops the command it runs: no session goes on beside the next run.      *)
(***************************************************************************)
EXTENDS Integers, FiniteSetsExt

CONSTANTS
  Tests,    \* what there is to collect
  Parallel, \* tests the plugin counts in "Collected n items to run in parallel"
  Skips,    \* tests marked to be skipped: not counted in that line either
  Deselectable, \* tests the user's arguments may deselect
  Counts,   \* whose count may come first in the log: "plugin" or "pytest"
  MaxRuns   \* bound of the model: runs in one work directory

ASSUME CiAssumption ==
  /\ Parallel \cap Skips = {} /\ Parallel \cup Skips \cup Deselectable \subseteq Tests
  /\ Counts \subseteq {"plugin", "pytest"} /\ MaxRuns \in Nat /\ IsFiniteSet(Tests)

VARIABLES
  run,       \* which run of `ftcheck ci' this is
  at,        \* what it does next; "idle" when no run is going on
  wheels,    \* work/wheels: by which runs they were built
  venv,      \* work/venv: "none", "half" (bin/python but no pip) or "ready"
  installed, \* the run whose wheel the venv holds; 0: none
  junit,     \* work/pytest-junit.xml: the run that wrote it, its counts
  logs,      \* the sanitizer's log directories: [run, kind] of each report
  selected,  \* the tests the session was to run
  results,   \* test -> "passed", "failed", "errored" or "skipped", as run so far
  says,      \* what pytest's log holds of it, beside the count
  counted,   \* the count in its first "collected n items"; -1: none
  pytest,    \* pytest's exit status; 99 while it runs
  exit       \* ftcheck's exit code; -1 before there is one

diskVars    == <<wheels, venv, installed, logs>>
sessionVars == <<selected, results, says, counted, pytest>>
vars == <<run, at, diskVars, junit, sessionVars, exit>>

CLEAN == 0  FINDINGS == 1  UNAVAILABLE == 3  SUITE_FAILED == 4
NoFile == [run |-> 0, tests |-> 0, failed |-> 0, errored |-> 0, skipped |-> 0]

Ran       == DOMAIN results
With(r)   == {t \in Ran : results[t] = r}
Count(r)  == Cardinality(With(r))
JUnit == [run |-> run, tests |-> Cardinality(Ran), failed |-> Count("failed"),
          errored |-> Count("errored"), skipped |-> Count("skipped")]

Init ==
  /\ run = 0 /\ at = "idle" /\ wheels = {} /\ venv = "none" /\ installed = 0
  /\ junit = NoFile /\ logs = {} /\ selected = {} /\ results = <<>> /\ says = {}
  /\ counted = -1 /\ pytest = 99 /\ exit = -1

-----------------------------------------------------------------------------
(* prepare() *)

\* A run starts: the wheels of the runs before are deleted.
Start ==
  /\ at = "idle" /\ run < MaxRuns
  /\ run' = run + 1 /\ at' = "build" /\ exit' = -1 /\ wheels' = {}
  /\ selected' = {} /\ results' = <<>> /\ says' = {} /\ counted' = -1 /\ pytest' = 99
  /\ UNCHANGED <<venv, installed, junit, logs>>

\* verdict(): an outcome whose stage is not "done".
NotDone == at' = "idle" /\ exit' = UNAVAILABLE

Build ==
  /\ at = "build"
  /\ \/ NotDone /\ UNCHANGED wheels
     \/ at' = "venv" /\ wheels' = wheels \cup {run} /\ UNCHANGED exit
  /\ UNCHANGED <<run, venv, installed, junit, logs, sessionVars>>

\* _make_venv(): whatever has a bin/python is taken for one.
MakeVenv ==
  /\ at = "venv"
  /\ IF Cardinality(wheels) # 1 THEN NotDone /\ UNCHANGED venv
     ELSE \/ venv # "none" /\ at' = "install" /\ UNCHANGED <<venv, exit>>
          \/ venv = "none" /\ venv' = "ready" /\ at' = "install" /\ UNCHANGED exit
          \/ venv = "none" /\ venv' \in {"none", "half"} /\ NotDone
  /\ UNCHANGED <<run, wheels, installed, junit, logs, sessionVars>>

\* pip install --force-reinstall --no-deps of the one wheel; a pip that fails
\* may have uninstalled the one before.
Install ==
  /\ at = "install"
  /\ \/ venv = "ready" /\ installed' = (CHOOSE r \in wheels : TRUE) /\ at' = "deps" /\ UNCHANGED exit
     \/ installed' \in {0, installed} /\ NotDone
  /\ UNCHANGED <<run, wheels, venv, junit, logs, sessionVars>>

InstallDeps ==
  /\ at = "deps"
  /\ \/ at' = "test" /\ UNCHANGED exit
     \/ NotDone
  /\ UNCHANGED <<run, diskVars, junit, sessionVars>>

\* Mutant of StartTests: the JUnit file of the run before is still there.
StartTestsStale == at = "test" /\ at' = "session" /\ UNCHANGED <<run, diskVars, junit, sessionVars, exit>>

StartTests ==
  /\ at = "test"
  /\ at' = "session" /\ junit' = NoFile
  /\ UNCHANGED <<run, diskVars, sessionVars, exit>>

-----------------------------------------------------------------------------
(* The session: external. *)

Collected == counted >= 0
Ends(code, writes) == pytest' = code /\ junit' = IF writes THEN JUnit ELSE junit

\* Some tests are deselected by arguments.  The first count in the log is the
\* plugin's, of what it runs in threads, or, when pytest is told to be
\* verbose, pytest's own, of everything.
CollectTests ==
  /\ at = "session" /\ pytest = 99 /\ ~Collected
  /\ \E D \in SUBSET Deselectable : selected' = Tests \ D
  /\ \E c \in Counts :
       counted' = IF c = "pytest" THEN Cardinality(Tests) ELSE Cardinality(selected' \cap Parallel)
  /\ UNCHANGED <<run, at, diskVars, junit, results, says, pytest, exit>>

RunTest ==
  /\ at = "session" /\ pytest = 99 /\ Collected
  /\ \E t \in selected \ Ran :
       \E r \in IF t \in Skips THEN {"skipped"} ELSE {"passed", "failed", "errored"} :
         results' = [u \in Ran \cup {t} |-> IF u = t THEN r ELSE results[u]]
  /\ UNCHANGED <<run, at, diskVars, junit, selected, says, counted, pytest, exit>>

\* The sanitizer reports: on the extension, or on something else.
Report ==
  /\ at = "session" /\ pytest = 99
  /\ \E k \in {"yours", "external", "fatal"} : logs' = logs \cup {[run |-> run, kind |-> k]}
  /\ UNCHANGED <<run, at, wheels, venv, installed, junit, sessionVars, exit>>

\* Everything ran; or no test was selected (exit 5).  Deselected tests are
\* named in the summary every ordered end of a session prints.
SessionEnds ==
  /\ at = "session" /\ pytest = 99 /\ Collected /\ Ran = selected
  /\ Ends(IF selected = {} THEN 5 ELSE IF With("failed") \cup With("errored") # {} THEN 1 ELSE 0, TRUE)
  /\ says' = says \cup {"deselected"}
  /\ UNCHANGED <<run, at, diskVars, selected, results, counted, exit>>

\* -x or --maxfail, which say "stopping after"; an INTERNALERROR; an interrupt
\* or a usage error; a plugin or pytest.exit() that ends the session and says
\* nothing ftcheck looks for.
SessionStops ==
  /\ at = "session" /\ pytest = 99
  /\ \/ With("failed") \cup With("errored") # {} /\ Ends(1, TRUE)
        /\ says' = says \cup {"deselected", "stopping after"}
     \/ Ends(3, TRUE) /\ says' = says \cup {"INTERNALERROR"}
     \/ Ends(2, TRUE) /\ says' = says \cup {"deselected"}
     \/ ~Collected /\ Ends(4, FALSE) /\ UNCHANGED says
     \/ \E code \in {0, 1} : /\ Collected /\ Ran # selected
                             /\ code = 0 => With("failed") \cup With("errored") = {}
                             /\ Ends(code, TRUE) /\ says' = says \cup {"deselected"}
  /\ UNCHANGED <<run, at, diskVars, selected, results, counted, exit>>

\* The process dies: by a signal, by os._exit(), or by the sanitizer, whose
\* exit status is 0 (exitcode=0); or after it has written its results.
SessionDies ==
  /\ at = "session" /\ pytest # -9
  /\ \/ pytest = 99 /\ \E code \in {0, 1, -9} : Ends(code, FALSE)
     \/ pytest \in {0, 1} /\ junit.run = run /\ Ends(-9, FALSE)
  /\ UNCHANGED <<run, at, diskVars, selected, results, says, counted, exit>>

-----------------------------------------------------------------------------
(* _count_tests(), _read_session(), collect() and verdict() *)

Executed   == junit.tests - junit.skipped
Deselected == IF "deselected" \in says THEN Cardinality(Tests \ selected) ELSE 0

\* pytest's numbers of a session that ended without saying why.
StoppedEarly ==
  /\ pytest \in {0, 1} /\ Collected /\ "stopping after" \notin says
  /\ Executed + junit.skipped + Deselected < counted

Aborted == "INTERNALERROR" \in says \/ StoppedEarly

\* Mutant of Reports: the logs of every run so far.
ReportsOfAll == {l.kind : l \in logs}
Reports == {l.kind : l \in {l \in logs : l.run = run}}

\* Mutant of Verdict: the early end of a session is left to the exit status.
VerdictTrustsStatus ==
  IF "yours" \in Reports THEN FINDINGS
  ELSE IF "fatal" \in Reports THEN UNAVAILABLE
  ELSE IF pytest \in {2, 3, 4, 5} \/ Executed = 0 THEN UNAVAILABLE
  ELSE IF pytest # 0 \/ junit.failed > 0 \/ junit.errored > 0 THEN SUITE_FAILED
  ELSE CLEAN

Verdict ==
  IF "yours" \in Reports THEN FINDINGS
  ELSE IF "fatal" \in Reports \/ Aborted \/ pytest \in {2, 3, 4, 5} \/ Executed = 0 THEN UNAVAILABLE
  ELSE IF pytest # 0 \/ junit.failed > 0 \/ junit.errored > 0 THEN SUITE_FAILED
  ELSE CLEAN

Collect ==
  /\ at = "session" /\ pytest # 99
  /\ exit' = Verdict /\ at' = "idle"
  /\ UNCHANGED <<run, diskVars, junit, sessionVars>>

-----------------------------------------------------------------------------
\* The run is stopped, in the middle of what it does to the disk.
Stopped ==
  /\ at # "idle" /\ at' = "idle"
  /\ venv' \in IF at = "venv" /\ venv = "none" THEN {"none", "half"} ELSE {venv}
  /\ installed' \in IF at = "install" THEN {0, installed} ELSE {installed}
  /\ wheels' \in IF at = "build" THEN {wheels, wheels \cup {run}} ELSE {wheels}
  /\ UNCHANGED <<run, junit, logs, sessionVars, exit>>

Next == \/ Start \/ Build \/ MakeVenv \/ Install \/ InstallDeps \/ StartTests
        \/ CollectTests \/ RunTest \/ Report \/ SessionEnds \/ SessionStops \/ SessionDies
        \/ Collect \/ Stopped
Spec == Init /\ [][Next]_vars

-----------------------------------------------------------------------------
(* What is expected of it. *)

TypeOK ==
  /\ run \in 0 .. MaxRuns
  /\ at \in {"idle", "build", "venv", "install", "deps", "test", "session"}
  /\ wheels \subseteq 1 .. run /\ Cardinality(wheels) <= 1
  /\ venv \in {"none", "half", "ready"} /\ installed \in 0 .. run
  /\ junit.run \in 0 .. run /\ junit.failed + junit.errored + junit.skipped <= junit.tests
  /\ Ran \subseteq selected /\ selected \subseteq Tests
  /\ \A l \in logs : l.run \in 1 .. run
  /\ exit \in {-1, CLEAN, FINDINGS, UNAVAILABLE, SUITE_FAILED}

Yours == [run |-> run, kind |-> "yours"] \in logs

\* The count the session is held against is that of the whole suite: pytest's
\* own, or the plugin's when it runs every test in threads.
CountIsWhole == counted = Cardinality(Tests)

\* Exit 0: the extension of this very run was tested, nothing was reported on
\* it, and of the tests that ran at least one passed and none failed; and that
\* was every selected test when the count is whole.  Whatever earlier runs left.
CleanIsEarned ==
  exit = CLEAN =>
    /\ installed = run /\ ~Yours
    /\ With("passed") # {} /\ With("failed") \cup With("errored") = {}
    /\ CountIsWhole => Ran = selected

\* A session that ran fewer tests than it collected without saying why is not
\* clean (docs/ci.md:90-93), whoever counted them.
CleanIsComplete == exit = CLEAN => Ran = selected

\* A report on the extension is the verdict, however the session ended and
\* whatever else the sanitizer said; no other run's report is.
FindingsAreTheVerdict == exit # -1 => (exit = FINDINGS <=> Yours)

\* Exit 4: when the count is whole, a test failed and the suite ran to its end
\* or said why it stopped; or pytest died after it had written its results.
SuiteFailedIsTheSuite ==
  exit = SUITE_FAILED =>
    IF pytest = -9 THEN junit.run = run
    ELSE CountIsWhole => /\ With("failed") \cup With("errored") # {}
                         /\ Ran = selected \/ "stopping after" \in says
=============================================================================
