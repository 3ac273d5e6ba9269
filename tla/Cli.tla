-------------------------------- MODULE Cli ---------------------------------
(***************************************************************************)
(* The command line (python/ftcheck/cli.py) over the preflight             *)
(* (ci/environment.py) and the pipeline of `ci' (CiRun): one call after    *)
(* another, in one work directory and with the same report files, each     *)
(* stopped or struck by an exception anywhere.                             *)
(*                                                                         *)
(* The machine is external: what probe() may find there is a record of     *)
(* facts, of which every combination is tried.  Of `stress' and `lint' only *)
(* the outcome is here: StressRun and Lint are about how it comes about.   *)
(***************************************************************************)
EXTENDS CiRun

CONSTANTS
  Commands, \* [name, args, check, reports, min]: what may be called
  Majors,   \* major versions of LLVM
  MaxCalls, \* bound of the model: calls
  MaxCallables \* bound of the model: callables on a surface

ASSUME CliAssumption ==
  /\ Commands \subseteq [name: {"lint", "ci", "stress"}, args: {"help", "wrong", "fine"},
                         check: BOOLEAN, reports: SUBSET {"sarif", "junit"}, min: 0 .. 100]
  /\ 0 \notin Majors /\ MaxCalls \in Nat /\ MaxCallables \in Nat /\ MaxCalls <= MaxRuns

VARIABLES
  call,    \* which call this is
  cmd,     \* its command
  pc,      \* where it is; "shell" when no call is going on
  fit,     \* history: the machine probed is one whose silence means something
  found,   \* the findings are not empty
  drove,   \* history: `stress' drove what was asked for, or nothing there could race
  by,      \* history: the call that started the run of CiRun
  code,    \* the verdict's exit code, at last the exit status; -1 before
  how,     \* "runs", or how it ended: "returned", "interrupted" or "raised"
  sarif,   \* the file --sarif names: the call that wrote it, what it tells
  xml      \* the file --junit names

ciVars  == vars
reports == <<sarif, xml>>
cliVars == <<call, cmd, pc, fit, found, drove, by, code, how, reports>>

USAGE == 2
NoReport == [call |-> 0, tells |-> "nothing"]

-----------------------------------------------------------------------------
(* probe(): independent checks, but for what cannot be asked any more when  *)
(* an interpreter or a toolchain is not there.                              *)

MachineFacts ==
  [interpreter: {"missing", "aslr", "broken", "starts"},
   gil_disabled: BOOLEAN, tsan: BOOLEAN, new: BOOLEAN,
   cc: {"unknown", "off path", "found"}, cc_llvm: Majors,
   rustc: {"missing", "no toolchain", "runs"}, nightly: BOOLEAN, rust_llvm: Majors \cup {0},
   rust_src: BOOLEAN, maturin: BOOLEAN, symbolizer: BOOLEAN,
   options: {"fine", "masked", "masked in other words"}]

Check(name, ok) == [name |-> name, ok |-> ok, warning |-> FALSE]
Warn(name, ok)  == [name |-> name, ok |-> ok, warning |-> TRUE]

InterpreterChecks(m) ==
  {Check("interpreter", TRUE), Check("free_threaded", m.gil_disabled),
   Check("tsan_interpreter", m.tsan), Warn("python_version", m.new)}

\* _clang_major(): a name that says its version, or a compiler that does.
CompilerChecks(m) == {Check("c_compiler", m.cc = "found")}

RustChecks(m) ==
  IF m.rustc # "runs" THEN {Check("rust_toolchain", FALSE)}
  ELSE {Check("rust_toolchain", m.nightly), Check("rust_src", m.rust_src),
        Check("maturin", m.maturin)}
       \cup (IF m.cc = "unknown" THEN {} ELSE {Check("llvm_match", m.rust_llvm = m.cc_llvm)})

\* TSAN_OPTIONS is searched for force_seq_cst_atomics=1 or =true; the runtime
\* also takes "yes", and quotes.
RuntimeChecks(m) ==
  IF m.rustc # "runs" THEN {}
  ELSE {Check("symbolizer", m.symbolizer), Check("tsan_options", m.options # "masked")}

\* Mutant of Checks: a toolchain that is not there is returned on, not noted.
ChecksOfWhatIsThere(m) ==
  IF m.interpreter # "starts" THEN {Check("interpreter", FALSE)}
  ELSE InterpreterChecks(m) \cup CompilerChecks(m) \cup RuntimeChecks(m)
       \cup {c \in RustChecks(m) : m.rustc = "runs"}

Checks(m) ==
  IF m.interpreter # "starts" THEN {Check("interpreter", FALSE)}
  ELSE InterpreterChecks(m) \cup CompilerChecks(m) \cup RustChecks(m) \cup RuntimeChecks(m)

EnvOk(m) == \A c \in Checks(m) : c.ok \/ c.warning

\* What the docs want of a machine (docs/ci.md:216-223).
Fit(m) ==
  /\ m.interpreter = "starts" /\ m.gil_disabled /\ m.tsan
  /\ m.cc = "found" /\ m.rustc = "runs" /\ m.nightly /\ m.rust_llvm = m.cc_llvm
  /\ m.rust_src /\ m.maturin /\ m.symbolizer /\ m.options # "masked"

\* What a call may learn of its machine, and whether it is right.
Probes == {[ok |-> EnvOk(m), fit |-> Fit(m)] : m \in MachineFacts}

-----------------------------------------------------------------------------
(* The verdict of `stress'. *)

StressOutcomes ==
  {o \in [done: BOOLEAN, findings: BOOLEAN, fatal: BOOLEAN, unmatched: BOOLEAN,
          driven: 0 .. MaxCallables, total: 0 .. MaxCallables, confined: 0 .. 1] :
     o.driven <= o.total /\ (o.findings => o.done)}

StressVerdict(o) ==
  IF ~o.done THEN UNAVAILABLE
  ELSE IF o.findings THEN FINDINGS
  ELSE IF o.fatal THEN UNAVAILABLE
  ELSE IF o.unmatched THEN USAGE
  ELSE IF o.driven = 0 /\ (o.total > 0 \/ o.confined = 0) THEN UNAVAILABLE
  ELSE CLEAN

\* --min-coverage is asked of a surface that could race, and of a clean verdict.
StressCode(o, min) ==
  IF StressVerdict(o) = CLEAN /\ min > 0 /\ o.total > 0 /\ 100 * o.driven < min * o.total
  THEN UNAVAILABLE ELSE StressVerdict(o)

\* What a clean run of `stress' should mean.
Driven(o, min) ==
  /\ o.done /\ ~o.findings /\ ~o.fatal /\ ~o.unmatched
  /\ o.driven > 0 \/ (o.total = 0 /\ o.confined > 0)
  /\ 100 * o.driven >= min * o.total

StressResults == [min \in {c.min : c \in Commands} |->
  {[code |-> StressCode(o, min), found |-> o.findings, drove |-> Driven(o, min)] : o \in StressOutcomes}]

-----------------------------------------------------------------------------
(* main() *)

CliInit ==
  /\ Init /\ call = 0 /\ cmd \in {c \in Commands : c.args = "help"} /\ pc = "shell"
  /\ fit = FALSE /\ found = FALSE /\ drove = FALSE /\ by = 0 /\ code = -1 /\ how = "runs"
  /\ sarif = NoReport /\ xml = NoReport

Exits(status)    == pc' = "shell" /\ code' = status /\ how' = "returned"
Reaches(c, some) == pc' = "sarif" /\ code' = c /\ found' = some /\ UNCHANGED how

Begin ==
  /\ pc = "shell" /\ call < MaxCalls
  /\ \E c \in Commands : cmd' = c
  /\ call' = call + 1 /\ pc' = "args" /\ code' = -1 /\ how' = "runs"
  /\ fit' = FALSE /\ found' = FALSE /\ drove' = FALSE
  /\ UNCHANGED <<by, reports, ciVars>>

\* --help and --version; arguments argparse refuses, or what _sanitizer_setup()
\* and load_config() refuse before anything is touched.
ParseArgs ==
  /\ pc = "args"
  /\ \/ cmd.args = "help"  /\ Exits(CLEAN)
     \/ cmd.args = "wrong" /\ Exits(USAGE)
     \/ cmd.args = "fine"  /\ pc' = (IF cmd.name = "lint" THEN "lint" ELSE "probe")
        /\ UNCHANGED <<code, how>>
  /\ UNCHANGED <<call, cmd, fit, found, drove, by, reports, ciVars>>

\* _run_lint(): an extension that does not load and a crate without files are 3,
\* a crate or a version that cannot be read 2, all without a report.
RunLint ==
  /\ pc = "lint"
  /\ \/ \E c \in {USAGE, UNAVAILABLE} : Exits(c) /\ UNCHANGED found
     \/ \E some \in BOOLEAN : Reaches(IF some THEN FINDINGS ELSE CLEAN, some)
  /\ UNCHANGED <<call, cmd, fit, drove, by, reports, ciVars>>

Probe ==
  /\ pc = "probe"
  /\ \E p \in Probes :
       /\ fit' = p.fit
       /\ IF ~p.ok THEN Reaches(UNAVAILABLE, FALSE)
          ELSE IF cmd.check THEN Reaches(CLEAN, FALSE)
          ELSE pc' = cmd.name /\ UNCHANGED <<code, found, how>>
  /\ UNCHANGED <<call, cmd, drove, by, reports, ciVars>>

CiStep == \/ Build \/ MakeVenv \/ Install \/ InstallDeps \/ StartTests \/ CollectTests
          \/ RunTest \/ Report \/ SessionEnds \/ SessionStops \/ SessionDies \/ Collect

RunCi ==
  /\ pc = "ci"
  /\ \/ Start /\ by' = call /\ UNCHANGED <<pc, code, found, how>>
     \/ CiStep /\ UNCHANGED by
        /\ IF at' = "idle" THEN Reaches(exit', exit' = FINDINGS) ELSE UNCHANGED <<pc, code, found, how>>
  /\ UNCHANGED <<call, cmd, fit, drove, reports>>

RunStress ==
  /\ pc = "stress"
  /\ \E r \in StressResults[cmd.min] : drove' = r.drove /\ Reaches(r.code, r.found)
  /\ UNCHANGED <<call, cmd, fit, by, reports, ciVars>>

-----------------------------------------------------------------------------
(* _write_reports() *)

Written == [call |-> call, tells |-> IF found THEN "findings" ELSE "no findings"]
Torn    == [call |-> call, tells |-> "less than it should"]

\* Mutant of WriteSarif: only findings are worth a report.
WriteSarifOfFindings ==
  /\ pc = "sarif" /\ pc' = "junit"
  /\ sarif' = IF "sarif" \in cmd.reports /\ found THEN Written ELSE sarif
  /\ UNCHANGED <<call, cmd, fit, found, drove, by, code, how, xml, ciVars>>

WriteSarif ==
  /\ pc = "sarif" /\ pc' = "junit"
  /\ sarif' = IF "sarif" \in cmd.reports THEN Written ELSE sarif
  /\ UNCHANGED <<call, cmd, fit, found, drove, by, code, how, xml, ciVars>>

WriteJunit ==
  /\ pc = "junit" /\ pc' = "show"
  /\ xml' = IF "junit" \in cmd.reports THEN Written ELSE xml
  /\ UNCHANGED <<call, cmd, fit, found, drove, by, code, how, sarif, ciVars>>

Show ==
  /\ pc = "show" /\ Exits(code)
  /\ UNCHANGED <<call, cmd, fit, found, drove, by, reports, ciVars>>

\* An interrupt, or an exception nothing catches: a program that may not be
\* started, a disk that is full, a directory that is not there, a closed pipe.
Dies ==
  /\ pc # "shell" /\ pc' = "shell"
  /\ \/ code' = 130 /\ how' = "interrupted"
     \/ code' = 1   /\ how' = "raised"
  /\ sarif' \in IF pc = "sarif" /\ "sarif" \in cmd.reports THEN {sarif, Torn} ELSE {sarif}
  /\ xml'   \in IF pc = "junit" /\ "junit" \in cmd.reports THEN {xml, Torn}   ELSE {xml}
  /\ IF at = "idle" THEN UNCHANGED ciVars ELSE Stopped
  /\ UNCHANGED <<call, cmd, fit, found, drove, by>>

CliNext == \/ Begin \/ ParseArgs \/ RunLint \/ Probe \/ RunCi \/ RunStress
           \/ WriteSarif \/ WriteJunit \/ Show \/ Dies
CliSpec == CliInit /\ [][CliNext]_<<ciVars, cliVars>>

-----------------------------------------------------------------------------
(* What is expected of it. *)

CliTypeOK ==
  /\ TypeOK
  /\ call \in 0 .. MaxCalls /\ cmd \in Commands /\ by \in 0 .. call /\ run <= call
  /\ pc \in {"shell", "args", "lint", "probe", "ci", "stress", "sarif", "junit", "show"}
  /\ {fit, found, drove} \subseteq BOOLEAN
  /\ code \in {-1, CLEAN, FINDINGS, USAGE, UNAVAILABLE, SUITE_FAILED, 130}
  /\ how \in {"runs", "returned", "interrupted", "raised"}
  /\ \A f \in {sarif, xml} : f.call \in 0 .. call
  /\ at # "idle" => pc = "ci"

Returned == pc = "shell" /\ how = "returned" /\ cmd.args = "fine"

\* Exit status 0 of a call with work to do: the machine is one on which silence
\* means something (however early the preflight stopped asking); `ci' tested
\* the extension in this very call and found it clean; `stress' drove what
\* --min-coverage asks for, or there was nothing that could race.
ZeroIsEarned ==
  Returned /\ code = CLEAN =>
    /\ ~found
    /\ cmd.name # "lint" => fit
    /\ cmd.name = "ci" /\ ~cmd.check => by = call /\ exit = CLEAN /\ installed = run
    /\ cmd.name = "stress" /\ ~cmd.check => drove

\* A report asked for is that of this call and has findings exactly when the
\* status says so, whatever the calls before left in the file and however
\* they were stopped.  A lint that examined nothing (2 or 3) leaves the file.
ReportTellsTheVerdict ==
  Returned /\ (cmd.name = "lint" => code \in {CLEAN, FINDINGS}) =>
    LET told == [call |-> call, tells |-> IF code = FINDINGS THEN "findings" ELSE "no findings"]
    IN  ("sarif" \in cmd.reports => sarif = told) /\ ("junit" \in cmd.reports => xml = told)
=============================================================================
