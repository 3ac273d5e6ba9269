# A verification development for ftcheck

ftcheck tells the author of a Rust/PyO3 extension whether the extension is safe on
free-threaded Python. It reads the source (`lint`), runs the project's tests under
ThreadSanitizer in threads (`ci`) and drives the extension's public surface from many
threads (`stress`). Its value is its verdicts: a clean exit code that was not earned, a
finding filed under the wrong callable, or a hang that is never reported makes the tool worse
than none. This directory models the parts of the program that decide those verdicts,
checks them with TLC on small instances, and proves the central facts with TLAPS.

## 1. Inventory

| Component | State it keeps | Operations | Here |
|---|---|---|---|
| Stress driver, one group (`stress/driver.py`: `drive`, `run_phase`, `_worker`, `_heartbeat`, `_mutator`, `Counters`, `Progress`, `_write_result`) | shared counters, a lock for them and one for the result file, an Event and a Barrier per phase, the progress file, the result file | announce a step, start and join threads, call, record, beat, snapshot, publish | `Drive`, `DriverView`, `DriveProofs`, `DataLemmas` |
| Stress driver, deriving the surface (`driver.py:97-593`) | modules, types, plans | import, classify, derive arguments, construct, confine; share the budget | `Groups` (with `main()`'s loop over the groups, driver.py:783-910), `GroupsProofs` |
| Stress orchestrator (`stress/__init__.py`: `run`, `_watch`, `_hang_finding`, `_abort_finding`, `coverage`, `verdict`) | the driver process, its progress line as last read, the stall clock, the crash clock | start, poll, kill, collect, verdict | `StressRun`, `StressProofs` |
| Panic attribution (`Counters._record_panic`; `panic_locations`, `_join`, `panic_findings`) | per-thread runs of panics, caps; the driver's log | record, write, join, file | `PanicJoin`, `PanicProofs` |
| CI pipeline (`ci/pipeline.py`, `ci/__init__.py`) | a work directory that outlives the run: wheels, venv, JUnit file, sanitizer logs | prepare, run, count, read the session, collect, verdict | `CiRun`, `CliProofs` |
| TSan reports (`ci/tsan.py`) | the report being read; buckets of findings by owner and signature | parse, attribute, sign, file, merge | `TsanParse`, `TsanReports`, `TsanProofs` |
| CLI (`cli.py`) | report files that outlive a call | parse, preflight, run a command, write reports, exit | `Cli`, `CliProofs` |
| Preflight (`ci/environment.py`) | none | checks of the machine, some of which rest on others | `Cli` (`Checks`) |
| Matrix, fixtures, text report | none | static data, sequential I/O, layout | not modelled |
| Core (`crates/ftcheck-core`) | none | findings, `signature`, `dedupe`, SARIF, JUnit | `signature`, `dedupe` in `Lint` |
| Lint (`crates/ftcheck-lint`) | a syntax tree; FT003's guard stack | FT001-FT003, `lint_file`, `lint_crate` | `Lint`, `LintProofs` |
| Python bindings (`crates/ftcheck-py`) | none | wrapper | not modelled |
| Fixtures, Docker image, action, scripts | - | test subjects, packaging | not modelled |

How they interact. `stress` starts the driver as a process of its own, because TSan and
the extension may kill or hang it. The two share three files and nothing else: the
progress file (one line, rewritten in place), the result file (replaced atomically) and
the driver's log with TSan's. Within the driver, the main thread, the workers, a
heartbeat and the mutators share `Counters`, under a lock but for one read. `ci` runs
maturin, pip and pytest one after the other and reads what they left in the work
directory. Both read the logs with `tsan.parse` and end in `tsan.to_findings` and a `verdict` that maps to an exit code,
which the CLI returns after it has written the reports that were asked for.

What is hard here, and what each part must guarantee:

* **Driving a group**: free-threaded threads over shared counters; a death at any step leaves
  whatever is on disk. No call is lost, no published table is torn, phases do not overlap,
  what is counted as driven was driven, the line names the step that runs.
* **Watching**: a timeout against a slow answer, a line read while it is rewritten, a kill
  that races the driver's own end, files of an earlier run. No run that moves is called
  hung; every standstill is, in bounded time; every death fails the run; every run ends.
* **Groups**: one clock for all of them, and a result file that is read wherever the process died. The
  whole surface is in every file; no group takes another's share; only calls that returned count.
* **Lint**: facts of one file decide findings of another; a walk that steps over a body statement
  by statement must know what Rust will do with each guard.
* **Panics**: two records of the same events, each lossy in its own way, are joined by order.
* **CI**: a session may stop anywhere, with any exit status, or be killed with its results
  written; a run may be stopped and restarted over what it left.
* **Reports**: the same race arrives many times, either side first, from processes that may die in the
  middle of a report; nothing may be lost or made up, and what fails the run must not be merged into
  what does not.
* **CLI**: a call may be interrupted or struck by an exception anywhere, over the reports of the calls
  before. Status 0 is that of a machine on which silence means something; a report tells its call's verdict.

`PROJECT.json` lists each of these hazards at its line, with the properties for it.

## 2. Modules, and how they follow the code

**`Drive`** is one call of `drive()` (driver.py:723-781) with the threads it starts. `pc`
is the main thread, `at[t]` each worker and mutator, `hb` the heartbeat. A rewrite of the
progress file is two steps (`open(.., "w")` empties it, then the write), `total += 1` is a
load and a store, and a result file is a snapshot under `counters.lock` and a replacement
under `_WRITE_LOCK`. Calls are external: each returns, raises, raises `SystemExit` (the thread
ends unrecorded) or never ends, as `Ends` allows. The order of pairs is free, as the seed
makes it. `late` is the deadline: it passes at any time. Every state is one a crash can
leave on disk, so an invariant over `saved` and `line` is a statement about crashes.

**`DriverView`** is the abstract process behind the progress file, in seven actions;
`Drive!ImplementsView` is the refinement (`View == INSTANCE DriverView WITH ...`).

**`StressRun`** extends `DriverView`: the orchestrator composed with the driver *as the view
describes it*, over all groups, with every way to die added. Time is counted in polls
of five seconds. A driver announces each step once, as `drive()` does. `Poll` is one turn of `_watch`'s loop with all its branches, `Kill` is
`stop()`, `Collect` the rest of `run()` with `verdict()`. Logs are sets of the kinds of entry
`tsan.attribute` and `_crash_logged` tell apart.

**`PanicJoin`** has the driver's record of panics (runs, caps, `_panic_full`) and the lines
Rust prints, and the orchestrator's join of the two as operators over the state, so that
what is filed is known in every state, as if the driver died there. `true` and `where`
remember what really happened.

**`CiRun`** is a sequence of `ftcheck ci` runs in one work directory. `Start` to
`StartTests` are the stages of `prepare()` and `run()`, each of which may fail (`NotDone`)
or be stopped; the session between `StartTests` and `Collect` is external and may do all
that pytest, a plugin, an extension or the sanitizer can make of it.

**`TsanReports`** has `attribute()`, the signature, the primary location and `_merge()` as
operators on reports, and `Read`, one turn of the loop in `to_findings()`, as its action. A
frame keeps what the rules look at: the kind of its module, its file and line, its symbol.

**`TsanParse`** is where the log of `TsanReports` comes from. ThreadSanitizer, external, prints reports
line by line, and a process that dies cuts its last one anywhere; `Feed` is one turn of the loop in
`parse()`, with a line as what its regular expressions make of it. `IsPrinted` says what a whole report has, `Parts`
what may be left of one that was cut; `ParsedAsPrinted` compares the log with both. `ReadsReports` states that what it
comes to is a behaviour of `TsanReports`, so that what holds there of any log holds of logs that were cut.

**`Cli`** extends `CiRun`: calls of the program, one after another, over one work directory and two report files.
`Checks` is `probe()`, whose early returns must each leave a check that failed, over every machine that
`MachineFacts` can describe. `RunCi` takes the steps of `CiRun`; of `stress` and `lint` only the outcome is
here, with `StressCode` for `verdict()` and `--min-coverage`. `Dies` is an interrupt or an exception anywhere.
That the program is, to the work directory, a sequence of runs is proved (`CliRefinesCiRun`).

**`Groups`** is the driver's `main()`: `Load`, `PlanGroup` and `Planned` derive the surface, where a
member is given with its kind, whether its arguments are declared, and what becomes of the
argument tuples tried otherwise; `StartGroup` to `OutOfTime` drive one group after another. The
threads of a group are `Drive`'s; here a phase is a period in which some of its callables return
and the clock moves. `Scale` counts a tick in parts, so that the quotient of `group_deadline` is whole.
`Driven` and `Total` are the orchestrator's `coverage()`, read from the file in every state.

**`Lint`** is `lint_crate`, with FT003's walk of a body as one action per form of statement. Beside the
walk's `live` stands `held`, the guards that live by the rules of Rust; `extra` and `missed` remember that an acquisition was
counted, or passed over, wrongly, and `tricks` what the body did that the walk does not look at: a guard kept in a form
`yields_guard` does not know (`KeepGuard`, `AssignGuard`, `HiddenGuard`, `PassGuard`: "unseen"), bound to `_` ("wild") or to a
pattern, ended otherwise than by `drop` ("moved"), a name bound again while its guard lives ("rebound"), a lock that `LockFinder` does not find
("hidden") or a call it takes for one ("idle"). The walk works statement by statement, and a lock it does not find changes nothing
in it: a statement with several locks is the action of the first and one `HiddenLock` for each of the others.

The `MC*` modules hold only values of constants. A definition called a mutant of another
(`RecordLoadUnlocked`, `PollForgets`, ...) is not part of a specification: it is the bug
that the property named with it in `PROJECT.json` must, and does, catch.

## 3. Runs

| Run | Instance | What it shows |
|---|---|---|
| `drive_pairs` | 2 callables (3 pairs and the mix), 2 workers, 1 call each | `EveryCallCounted`, `LineNamesThePhase`, `SavedPairsAreBacked`, `FinalResultIsComplete`, `CallsStartTogether`; `ImplementsView` |
| `drive_faults` | 1 pair and the mix, a worker of 2 calls and a mutator of 1; calls answer, raise, exit, hang | `TypeOK`, `SavedAgrees`, `QuietBetweenPhases`, `ResultNeverRegresses`; `GroupEnds`, `ProgressShows` under fairness |
| `stress_watch` | two pairs, alike, and the mix; 3 polls to a stall, a budget of 6, a ceiling of 13, 2 calls a step, one late beat, one torn read, deadlocked workers | `NoFalseHang`, `HangIsStopped` |
| `stress_deaths` | a pair and the mix; 2 polls to a stall, 4 to the ceiling, every fault, mutators, a progress file left by an earlier run | `TypeOK`, `CleanIsEarned`, `CrashIsAFinding`, `NamesNoOtherStep`; `EveryRunEnds` under fairness |
| `panics_sites` | 2 threads and another, 2 callables, 4 lines, caps of 2 and 3 runs, a window of 2 | `SitesAreExact`, `SitesAreToldApart`, `JoinsAreTrue`, `TrueSiteIsNamed` |
| `cli_runs` | 2 calls out of 7 commands, 3 tests (one skipped, one that may be deselected), either count, every machine, a stop or an exception at any step | `CleanIsEarned`, `SuiteFailedIsTheSuite`, `FindingsAreTheVerdict` of `CiRun`; `ZeroIsEarned`, `ReportTellsTheVerdict` |
| `tsan_logs` | every log of up to 3 reports out of 53, races of every owner; one of them cut after any of its lines | `SidesCollapse`, `AttributionIgnoresSides`, `FiledByRace`, `ParsedAsPrinted`, `OwnersKeptApart`; `ReadsReports` |
| `groups_shares` | 3 groups of up to 3 shapes, 2 modules, a budget of 4 ticks that planning, factories and late calls use up | `SurfaceIsWhole`, `CoverageIsEarned`, `FairShare` |
| `lint_crate` | 2 files of 4 contents, bodies of 4 statements, 1 lock, 2 names | `GuardsAreTracked`, `SharedStateIsReported`, `ReportIsWhole` |
| `stress_foreign`, `ci_unsafe`, `groups_static` | | violations, section 5 |

Why the bounds are enough. The hazards of `Drive` are between two threads that record, a
thread and a writer, and two phases: two workers or a worker and a mutator, a heartbeat and two steps have them all,
and all the safety checked of it is proved for any number (section 4). `MaxMutations` only bounds
a loop the code leaves open. In `StressRun` only the order of the code's constants matters
(poll < stall < ceiling, grace < ceiling); they are scaled down in that order, and `MaxMissed`
and `MaxTorn` cover a heartbeat of 3 seconds against polls of 5. A run may drive for longer than a stall
takes to notice, and still has steps to announce then. `MaxCalls` and `Horizon` end counters that only have
to differ. All its safety is proved for any values of these. In `PanicJoin` four lines are more than the window
and the caps, so each is hit and passed; what is checked is proved for any number of threads, lines and runs.
In `Cli` and `CiRun` a call can only see what one call before it
left: `Start` removes the rest, and a report is replaced as a whole. In `TsanParse` a log with a report that is cut has
one more, before or after it: `parse()` keeps nothing of a report but the one it is in. In `TsanReports` three reports are needed for a repeat of an entry another
finding has to absorb; all that is checked of both is proved for logs of any length, with any number of
reports cut. In `Groups` three groups are the least in which one that is slow stands before one that is
passed over and one that waits; a budget of 4 against planning, factories and phases of 0 to 2 ticks
is left over, used up and overrun; what is checked is proved for any numbers. In `Lint` two names and four statements bind, end and rebind a
guard beside another; what is checked is proved for bodies of any length and crates of any number of files.

Deadlock is checked, except in `drive_faults` (a deadlocked phase does stop for good),
`panics_sites`, `cli_runs`, `ci_unsafe`, `tsan_logs` (a full log, or the last run or call, is their end),
`groups_shares`, `groups_static` and `lint_crate` (a driver that is done or dead, a crate that was read).

Fairness. `Drive`: every thread that can take a step is scheduled (`WF` on the main thread, the
heartbeat and each worker and mutator), which the operating system gives. The deadline has none: it may
never pass. A call that hangs takes no step, fairly. `StressRun`: `WF` on `Poll`, `Kill` and
`Collect`, the orchestrator's single loop, on a heartbeat that can write and on a main thread that has
only files to write; no fairness on calls, reports or deaths. `CiRun` has none, and no
liveness: `ftcheck ci` puts no time limit on pytest.

Assumptions stated in the models:

* Starting a thread succeeds (`run_phase` has no handler; a failure would leave the workers
  started before at the barrier for ever). That is a hang of the workers under a live heartbeat, which
  `StressRun` has and the watcher ends.
* `Timely` (`StressRun`): a heartbeat is late by at most `MaxMissed` polls and at most `MaxTorn`
  polls of a run read the emptied line. Without this every watchdog misfires.
* In `cli_runs` the exit status of Python itself is 1 for an exception and 130 for an interrupt.
* Stopping ftcheck stops the command it runs, and one run at a time uses a work directory.
* Counters start at zero for the group `Drive` models; they are shared by groups, which
  run one after the other.

## 4. Proofs

All are for every value of the constants, from the named `ASSUME`s of the modules only; the exceptions are four of
`PanicProofs` and two of `StressProofs`, whose conditions stand in their statements.

**`DataLemmas`** has what the other proofs need of data. The induction theorems of the library take an operator
as a parameter; here induction is stated over the SET of the values for which a formula holds (`NatInd`, `FinInd`), which
needs none. A recursive function or a fold is a `CHOOSE`: it is unfolded by showing that some function solves
its equation (`StepsSolve` for steps along the numbers), and then that the one chosen must as well. Sums over
finite sets, least elements and runs of numbers follow from these.

**`DriveProofs`** (any number of workers, callables, iterations and mutators). The inductive
invariant is `IInv == TypeOK /\ LockInv /\ TallyInv /\ SavedAgrees /\ FileInv /\ PhaseInv /\
LineInv /\ BarrierInv`. Each part is there for a reason: that a published table agrees
(`SavedAgrees`) needs that the counters agree but for one call (`TallyInv`), which needs to know who is
inside `record()` (`LockInv`); that files only grow needs who may write and that every
pending snapshot lies between the file and the counters (`FileInv`, `PhaseInv`); that the line names
the phase needs what the heartbeat will write next (`LineInv`). Three more stand on it. `CountInv` says that the count on
the line is the sum of the counters, `AllPairsInv` and `LastInv` what the main thread has driven when it writes its last
file. `BackedInv` follows a call to the file, by sums over the threads: calls begun in this phase or done
before it (`EndedInv`, `PhaseSum`), calls recorded (`CallsSum`), calls of each snapshot and file (`FilesSum`).

| Theorem | Property |
|---|---|
| `TypeCorrect` | `TypeOK` |
| `ResultFilesAgree` | `SavedAgrees` |
| `PhasesAreQuiet` | `QuietBetweenPhases` |
| `LinesNameThePhase` | `LineNamesThePhase` |
| `ResultsOnlyGrow` | `ResultNeverRegresses` |
| `BarrierHolds` | `CallsStartTogether` |
| `NoCallIsLost` | `EveryCallCounted` |
| `LastFileIsComplete` | `FinalResultIsComplete` |
| `PairsAreBacked` | `SavedPairsAreBacked` |
| `DriveRefinesView` | `ImplementsView`: initial states map to initial states and every step to a step of `DriverView` or a stutter |

**`CliProofs`**, first part: the pipeline (any suite, any number of runs). `IInv == SessionInv /\ InstalledInv /\ JUnitInv
/\ LogsInv /\ FindingsAreTheVerdict`: what is installed, in the JUnit file and in the
logs belongs to this run from the stage that says so. `OnlyFindingsFail` proves
`FindingsAreTheVerdict`; `ExitZeroIsEarned` proves `CleanIsEarned`, by turning the numbers the verdict
compares back into the sets they count (`CleanVerdict`).

`ExitFourIsTheSuite` proves `SuiteFailedIsTheSuite`, from what pytest's
status and its log can mean of an end (`EndingInv`). `DiskIsWell` proves `TypeOK`: what is on the disk was put there by a run that took place.

Second part: the program (any commands, any number of calls). `CliRefinesCiRun` comes first, so that all that is proved of `CiRun`
holds under the program: a step outside the pipeline leaves it alone, and an interrupt is its `Stopped`. `VerdictInv`
says what is true once there is a code, `ReportInv` which reports were written so far, `CallInv` what belongs to
which call.

| Theorem | Property |
|---|---|
| `StatusZeroIsEarned` | `ZeroIsEarned`, from `ExitZeroIsEarned` through the refinement |
| `ReportsTellTheVerdict` | `ReportTellsTheVerdict` |
| `OnlyFindingsFailCalls` | `FindingsAreTheVerdict` of `CiRun`, of any calls |
| `CallsAreWell` | `CliTypeOK` |

**`StressProofs`** (any steps, limits and faults). `IInv == TypeOK /\ WatchInv /\ EndInv /\ FileInv /\ LineInv /\ DeathInv /\ Verdicts`
is about what happened: a file counts no more than what was driven in this run, a line that names a step
names the one announced last, and a death the watcher saw is the code it was returned (the history variable `death` knows of those it did not see). `HangInv` and `HungInv` are about time: the former relates what the watcher read last to what the heartbeat will
write, so that a step or a call since then shows in the next poll; the latter counts polls since the workers hung against `since`,
in each phase of what is still to be shown, torn or read.

| Theorem | Property |
|---|---|
| `WatchIsBounded` | `TypeOK` |
| `ZeroWasDriven`, `CrashFailsTheRun`, `FindingsNameTheStep` | `CleanIsEarned`, `CrashIsAFinding` (but for `DeathIsLost`), `NamesNoOtherStep` |
| `HangsAreReal` | `NoFalseHang`, if no line is left that names a step of this run |
| `HangsAreStopped` | `HangIsStopped`, without mutators and for workers that hang by themselves |

The two conditions are what the proofs need and the code does not give: section 5 has what happens without.

**`GroupsProofs`** (any number of groups, members and ticks). `FairInv` says that the groups still to come have their part of
what is left and of what was overrun; that a share leaves the others theirs is arithmetic (`LeftOver`,
`RestIsFair`). `SurfaceInv` follows each plan from `PlanOf` into an entry (`Fits`) and each entry into every
file; `CoverInv` that what returned is of a group with a pair, or of the pair that runs.

| Theorem | Property |
|---|---|
| `NoGroupStarves` | `FairShare` |
| `SurfaceIsNeverCut` | `SurfaceIsWhole` |
| `CoverageIsHonest` | `CoverageIsEarned` |

**`TsanProofs`** (any set of reports, logs of any length). `FiledOnce` proves `FiledByRace`: with
`SigsDiffer` (no two entries of a bucket have one signature) it is inductive. `SidesDoNotMatter` proves
`AttributionIgnoresSides` from the fact that a swapped report has the same set of stacks. `TypesAreKept` proves
`TypeOK`. The findings come out of `_merge()`, a fold over the entries of a bucket: that each entry is in one finding, and
every finding of entries of its bucket only, is an induction over its prefixes. `OwnersStayApart` proves
`OwnersKeptApart` from it, and `SidesAreOneFinding` proves `SidesCollapse`: a report and its swap have one owner and
one signature, so they are one entry.

Second part: the parser (any reports, each whole or cut after any line). Three notions carry the argument.
`View` is what would be parsed if the log ended here, and `Reading(v, a, ss)` the locals inside a report with the sections `ss`, whose
last is still open. `Adds(b, s)` says that lines `b`, read to any of them from such a place, add a part of the
sections `s` (`IsPart`: all of them before one that is whole or begun), and is closed under joining lines: so the body of a report adds
its sections `Secs`, and all its lines leave the view as it was, or with this report and such a part added
(`LinesShow`). `Shape` says which of the sections become stacks and where the threads get their names, from which `PartParsed` and
`WholeParsed` have what is parsed: one of the `Parts`, or the report. `ParseInv` then ties the log to the locals, the
buckets to the log (`CollectedGrows`: filing all of it again and filing one more are the same) and each report of the log to
the print it comes from. The recursions of `Fed`, `AccessStacks`, `Started` and `Collected` are unfolded step by step, each from a function that is
shown to solve its equation. Of the constants it is assumed that TSan prints reports as `IsPrinted` says, and that
what is left of one is among the `Possible` ones.

| Theorem | Property |
|---|---|
| `FiledOnce`, `SidesDoNotMatter`, `OwnersStayApart`, `SidesAreOneFinding` | `FiledByRace`, `AttributionIgnoresSides`, `OwnersKeptApart`, `SidesCollapse`, of logs of reports |
| `LogsAreParsed` | `ParsedAsPrinted` |
| `LogsAreRead` | `ReadsReports`: every print is one `Read` or a stutter |
| `LogsAreFiled` | the first four, of logs as they are printed and cut |

**`LintProofs`** (bodies of any length, any locks and names). `GuardsKnown` proves `GuardsAreTracked`. By
itself it is not inductive: that nothing is counted under a guard needs that the walk has every
guard that lives (`KnowsHeld`), that nothing is missed needs that each name it has stands for a guard that lives (`KnowsLive`), and
each holds only as long as the body did none of the `tricks` that break it. Of the crate (any finite number of files), `CrateInv ==
PlaceInv /\ FoundInv /\ ReportInv /\ NamedInv` says which files have been read, that each finding comes from an entry of one of them and each
entry's has been made, how the report that is sorted and deduplicated stands to the findings, and which files are named.
`SharedStateFound` proves `SharedStateIsReported`; `NothingLeftOut` proves `ReportIsWhole`.

**`PanicProofs`** (any threads, callables, caps, window and log). `RunInv` relates the record of calls to the log, by
what really happened: recorded calls that panicked on their own threads have lines there, in the order of the calls (`CallsInv`), and so does a panic on
its way from the line to the record (`ComingInv`); the counts agree with the record until a cap is hit (`CountInv`); and while a
callable has room for messages, each site it panicked at has a line with one of them, which is no line of another callable's call (`SiteInv`). `GapInv` adds
that no line stands before a recorded one without being recorded; `ExactInv` that call and line have the same number. Then the
join is taken step by step: `_join` is the least line that matches from the last one taken, within the window, and by induction over
the calls it stands where the call's own line does, or has not come that far.

| Theorem | Property |
|---|---|
| `RunsHaveLines` | `RunInv` |
| `JoinsAreExact` | `SitesAreExact`, if `SitesApart` |
| `SitesStayApart` | `SitesAreToldApart`, if `SitesApart` |
| `CallsFindOwnLines` | `JoinsAreTrue`, if `MessagesApart` |
| `SitesAreNamed` | `TrueSiteIsNamed`, if `MessagesApart` |

`SitesApart` says that no place of the source both panics in a call and panics where it is caught or on a
thread of the extension's own, `MessagesApart` that what is printed tells these three apart. No code can ensure them: two
panics that print the same words are one to any reader of the log (section 5 has what happens then). `MCPanicJoin` assumes both
of its values, so that TLC checks that the instance is one the theorems are about.

Only model-checked: liveness (`GroupEnds`, `ProgressShows`, `EveryRunEnds`: the prover has neither fairness nor `ENABLED`).
Every invariant, action property and refinement of a passing run is a theorem, some under the conditions named above.

## 5. Where code and documentation differ

Each is a run with the one property that quotes the text; `PROJECT.json` quotes the lines.

* `stress_foreign`: the driver dies of a signal that TSan reports with a stack on which the extension
  does not appear, after a pair was driven: exit 0.
* `ci_unsafe`: the count a session is held against leaves out `thread_unsafe` and skipped tests, the
  tests seen include them: a session that stops part-way can read as clean.
* `groups_static`: a type is found to be confined by calling one member from a second thread, the first
  by name. A static or class method uses no instance, so PyO3 does not refuse it: the type is driven
  from several threads, and each call of its other members raises there.

Seen while modelling, and not run:

* With a mutator, deadlocked workers never read as a standstill, for the mutator's calls move the count
  on the line too; the run ends in the time limit, without a hang finding. The code says so ("no call
  finishing"), README.md:173 does not.
* `run()` removes the result file of an earlier run but not its progress file, so a driver that dies before
  its first line is filed under a step it never reached. `NamesNoOtherStep` states this exception. If the line names a step of
  the new run too, the watcher may read it, start its clock, and read the same step again: a hang that is none. `HangsAreReal`
  is proved for a progress file that names no step of this run.
* A repeat of a report counts under the primary line of the one that came first, whichever side TSan
  printed first: of (bump, bump), (load, bump), (bump, load) the first and the third share rule and
  primary line and stay two findings (docs/ci.md:158-161).
* A caught panic with the message of a raised one is joined in its place (`_join` takes the first line that
  matches; `panics_sites` keeps the messages apart).
* The last read of the progress line may fall into its rewrite, and a hang is then filed under "before
  driving began" (`TornAtEnd`).
* A venv whose creation was interrupted is taken for whole by every later run, which then cannot install
  (`"half"` in `CiRun`).
* A private method with declared arguments is not listed as not driven when the factory of its type fails
  (`Listed` in `Groups`).
* Until their turn comes, the callables of a confined type stand under `driven` in the result file, and
  count as a hole in coverage if the run ends there.
* Nothing in `main()` catches an exception: a report that cannot be written ends the call with Python's status 1,
  which exit_codes.py:15 reads as "At least one confirmed finding". A preflight that fails and `--check` write a report
  without findings, like that of a clean run; only the status tells them apart. A lint that examined no file leaves the
  report of the call before.
* `TSAN_OPTIONS` is searched for `force_seq_cst_atomics` with 1 or true (environment.py:283). The runtime also takes "yes", and quotes:
  such a setting masks races and passes the preflight (`"masked in other words"` in `Cli`).
* A lock-order report has sections "Mutex M" only, none of which is an access: it is external whatever it is about,
  although sarif.rs:19-20 has a rule for it, and docs/ci.md:204 promises exit 1 for "a TSan report in your extension".
* A report of the harness that is cut before its threads has lost the name that tells a mutator, and counts as the extension's.
* FT003 knows fewer guards than there are. `let g = match m.lock() { .. }`, an `if` or a block as initialiser, `&mut m.lock()?.field`,
  `g = m.lock()?`, `let g = self.guard()` and `let h = g` keep a guard that the walk takes to be over, and a name bound again lets `drop` end the
  wrong one: the next lock is counted as a step of a sequence although a guard is held, which docs/rules.md:79-82 lists under "Not a
  sequence, and so not flagged" ("A lock taken while an earlier guard is still held"). A call that is not made on the path, or is no lock
  (`reader.read()`), counts too. The other way round, a finding is lost to a guard bound to `_`
  or a pattern, to one that ended otherwise than by `drop(name);`, and to locks that are not found: those after the first
  of a statement, whole blocks, loops and closures included (docs/rules.md:91 names "two locks within a single expression" only), in a macro's arguments, in another function.
  `GuardsAreTracked` says which of these leads to which mistake, and that nothing else leads to one.
* A driver that dies of a signal between the decision to stop it at its ceiling and the kill, with nothing reported, fails no run:
  `stop()` returns no code (`__init__.py:537-540`), and with a pair driven the run reads as clean. "If the process dies [...] the run fails"
  (docs/stress.md:216-218). `CrashIsAFinding` excepts exactly this death (`DeathIsLost`).
* `lint_crate` passes over what the walk of the directory cannot enter (`filter_map(Result::ok)`, lib.rs:235) without naming it:
  `ReportIsWhole` is about the files the walk yields.

## 6. Not modelled

* The regular expressions of a log line (a line is given with what it matches), configuration files,
  wording, layout, relative paths, the text report, how SARIF and JUnit are written: no verdict is decided there.
* Introspection of Python objects and of syntax trees: members, attributes and statements are given to the
  models with their kind. The programs that the preflight and the pipeline start are external.
* The serial baseline that `main()` runs before a group, backtraces, and messages that are cut at 300 characters and stripped
  afterwards: a cut that ends in white space matches no line of the log.
* The rotation of log directories (pipeline.py:370-389). They are named by the second: a clock set back may let a run
  remove the directory it has just made. TSan dies when it cannot open its log, so that run does not read as clean.
* TSan's section "As if synchronized via sleep:", which `is_access` (tsan.py:120-121) takes for an access: `IsPrinted` has no such section.
* A time limit for `ci`: there is none, a deadlocked test runs for ever.
* The matrix, the fixtures, the Python bindings, the image, the action and the release scripts: static data, thin wrappers and packaging.

## 7. Plan

Order: what decides a verdict first, then what feeds it.

1. Done: `Drive` and `DriverView`; `StressRun`; `PanicJoin`; `CiRun`; `TsanReports` and `TsanParse`; `Groups`; `Lint`; `Cli`; the
   proofs of `Drive`, `StressRun`, `CiRun`, `Cli`, `TsanReports`, `TsanParse`, `Groups`, `PanicJoin` and `Lint`.
2. `Groups` beside `Drive`: a phase of `Groups` as the abstract group that `Drive` implements, and the serial
   baseline before it (a panic on one thread is no concurrency finding).
3. The five log directories kept, under a clock that may step back.
