------------------------------ MODULE StressRun ------------------------------
(***************************************************************************)
(* `ftcheck stress': the orchestrator's run(), which starts the driver     *)
(* process, watches its progress file and TSan's logs (_watch), and turns  *)
(* what is left when it ends into findings and an exit code (collect,      *)
(* verdict).  python/ftcheck/stress/__init__.py                            *)
(*                                                                         *)
(* The driver is the process of DriverView, which Drive implements, from   *)
(* start to "done" and over all of its groups, and it may hang, crash, be  *)
(* killed or exit at any point.  Time is counted in polls of the watcher   *)
(* (five seconds each).                                                    *)
(***************************************************************************)
EXTENDS DriverView, FiniteSets

CONSTANTS
  StallPolls,   \* STALL_SECONDS, in polls
  GracePolls,   \* the 60 seconds a crash report may take to finish
  CeilingPolls, \* the timeout: the budget and 600 seconds
  BudgetPolls,  \* --budget: no phase starts later than this
  MaxMissed,    \* polls a heartbeat may miss (it beats every 3 s, polls are 5 s apart)
  MaxTorn,      \* bound: polls of a phase that fall into a rewrite of the line
  TornAtEnd,    \* whether the last read of the line may fall into one
  MaxCalls,     \* bound of the model: calls that finish
  Horizon,      \* bound of the model: how many polls back `ages' reaches
  HasMutators,  \* mutators are declared
  HangKinds,    \* SUBSET {"workers", "all"}: what may stop moving
  FaultKinds,   \* SUBSET Faulty: what may befall the driver
  LeftSteps     \* steps an earlier run in the same work directory may have left

\* The line of an import, a probe or a baseline; the last one; no file at all.
Probing == [text |-> "probe", step |-> Mix, count |-> -1]
DoneLine == [text |-> "done", step |-> Mix, count |-> -1]
Absent  == [text |-> "absent", step |-> Mix, count |-> -1]
Lines   == [text: {"torn", "step", "probe", "done", "absent"},
            step: Steps \cup LeftSteps, count: -1 .. MaxCalls]

\* What coverage() and confined() make of a result file: "nothing" driven,
\* "driven" callables, or a surface that is all "confined" to one thread.
Files == {"none", "nothing", "driven", "confined", "unmatched"}

\* A race; a deadly signal reported with the extension on the stack, without it,
\* or with no stack; an abort of TSan; a signal it does not handle; an exit.
Deadly == {"mine", "foreign", "bare"}
Faulty == {"race", "fatal", "signal", "quits"} \cup Deadly

ASSUME StressAssumption ==
  /\ {StallPolls, GracePolls, CeilingPolls, BudgetPolls, MaxMissed, MaxTorn, MaxCalls, Horizon}
       \subseteq Nat
  /\ StallPolls > 0 /\ MaxCalls > 0 /\ BudgetPolls < CeilingPolls
  /\ HasMutators \in BOOLEAN /\ TornAtEnd \in BOOLEAN
  /\ HangKinds \subseteq {"workers", "all"}
  /\ FaultKinds \subseteq Faulty
  /\ Mix \in Steps

VARIABLES
  \* the driver process and its files, with those of DriverView
  surface,   \* what deriving its surface comes to
  proc,      \* "runs", "spins" (crashed, the report unfinished) or "ended"
  code,      \* what proc.wait() returned
  logged,    \* TSan's log files and the driver's own output
  hung,      \* "no", or what no longer moves
  counted,   \* a pair was driven and a call returned
  file,      \* the result file
  \* the watcher
  polls,     \* polls made: the time
  seen,      \* last_step: the line as it was read last
  since,     \* polls since it changed (step_since)
  crashFor,  \* polls since a crash was seen (crash_seen_at); -1: none was
  kind,      \* "none" as long as the driver is left to run
  \* the outcome
  findings, exit,
  \* history
  beats,     \* polls since the heartbeat wrote
  torn,      \* polls of a phase that read an emptied line
  ages,      \* how many polls ago calls finished and steps were announced
  hungFor,   \* polls since the workers hung; -1: they did not
  announced, \* the steps this run has announced
  death      \* "watched" if it died of a signal while it was left to run, "unwatched" if
             \* the watcher had decided to stop it; no step reads this

procVars  == <<surface, proc, code, logged, hung, counted, file>>
watchVars == <<polls, seen, since, crashFor, kind>>
outVars   == <<findings, exit>>
histVars  == <<beats, torn, ages, hungFor, announced, death>>
vars == <<viewVars, procVars, watchVars, outVars, histVars>>

Crashed == logged \cap Deadly # {}

\* Mutant of Start: the result of an earlier run is not unlinked.
StartStale ==
  /\ stage = "boot" /\ step = Mix /\ shown = 0 /\ total = 0
  /\ line \in {Absent} \cup {Said(s, 1) : s \in LeftSteps}
  /\ file \in {"none", "driven"}

\* run() unlinks the result of an earlier run, and not its progress file.
Start ==
  /\ stage = "boot" /\ step = Mix /\ shown = 0 /\ total = 0
  /\ line \in {Absent} \cup {Said(s, 1) : s \in LeftSteps}
  /\ file = "none"

Init ==
  /\ Start
  /\ surface \in {"drivable", "unmatched", "confined", "empty"}
  /\ proc = "runs" /\ code = "none" /\ logged = {} /\ hung = "no" /\ counted = FALSE
  /\ polls = 0 /\ seen = Absent /\ since = 0 /\ crashFor = -1 /\ kind = "none"
  /\ findings = {} /\ exit = -1
  /\ beats = 0 /\ torn = 0 /\ ages = {} /\ hungFor = -1 /\ announced = {}
  /\ death = "none"

-----------------------------------------------------------------------------
(* The driver process. *)

Runs  == proc = "runs" /\ hung # "all"
\* While a crash is being reported, threads other than the crashed one go on.
Moves == proc \in {"runs", "spins"} /\ hung # "all"

\* Imports, probes, constructors and baselines, each announced first.
Probe ==
  /\ Runs /\ stage \in {"boot", "probe"}
  /\ stage' = "probe" /\ line' \in {Torn, Probing}
  /\ UNCHANGED <<step, shown, total, procVars, watchVars, outVars, histVars>>

\* The surface is derived: every group is in the result before any is driven.
Plan ==
  /\ Runs /\ stage = "probe" /\ line = Probing
  /\ stage' = IF surface = "drivable" THEN "idle" ELSE "over"
  /\ file' = IF surface = "unmatched" THEN "unmatched" ELSE "nothing"
  /\ UNCHANGED <<step, shown, total, line, surface, proc, code, logged, hung, counted,
                 watchVars, outVars, histVars>>

\* A call has finished, or a step is announced, since the last poll.
Moved == ages' = ages \cup {0}

\* Every pair and every mix has its turn once, and a callable is in one group.
StepAnnounced ==
  /\ Runs /\ polls <= BudgetPolls /\ Announce /\ Moved
  /\ step' \notin announced
  /\ announced' = announced \cup {step'}
  /\ UNCHANGED <<procVars, watchVars, outVars, beats, torn, hungFor, death>>

StepSaid ==
  /\ Runs /\ SayStep /\ beats' = 0
  /\ UNCHANGED <<procVars, watchVars, outVars, torn, ages, hungFor, announced, death>>

\* When the workers are deadlocked, only mutators still have calls that finish.
Call ==
  /\ Moves /\ total < MaxCalls /\ CallFinishes /\ Moved
  /\ hung = "no" \/ HasMutators
  /\ UNCHANGED <<procVars, watchVars, outVars, beats, torn, hungFor, announced, death>>

\* Once an interval (the heartbeat's is three seconds), and in the first one of a
\* step besides the announcement.
BeatOpens ==
  /\ Moves /\ BeatOpen /\ (beats > 0 \/ line = Said(step, -1))
  /\ UNCHANGED <<procVars, watchVars, outVars, histVars>>

\* Mutants of BeatSays: a line without the count; another step's line.
BeatSaysNoCount ==
  /\ Moves /\ stage = "phase" /\ line = Torn /\ line' = Said(step, -1) /\ beats' = 0
  /\ UNCHANGED <<stage, step, shown, total, procVars, watchVars, outVars, torn, ages, hungFor, announced, death>>
BeatSaysMix ==
  /\ Moves /\ stage = "phase" /\ line = Torn /\ line' = Said(Mix, shown) /\ beats' = 0
  /\ UNCHANGED <<stage, step, shown, total, procVars, watchVars, outVars, torn, ages, hungFor, announced, death>>

BeatSays ==
  /\ Moves /\ BeatSay /\ beats' = 0
  /\ UNCHANGED <<procVars, watchVars, outVars, torn, ages, hungFor, announced, death>>

\* The workers were joined: a pair has been driven, and counts if calls returned.
PhaseEnds ==
  /\ Runs /\ hung = "no" /\ EndPhase /\ stage' = "idle"
  /\ IF step # Mix /\ total > 0 THEN counted' \in {counted, TRUE} ELSE UNCHANGED counted
  /\ UNCHANGED <<surface, proc, code, logged, hung, file, watchVars, outVars, histVars>>

Written == IF counted THEN "driven" ELSE IF surface = "confined" THEN "confined" ELSE "nothing"

\* on_pair(), on_tick() and the write after a group.
WriteResult ==
  /\ Moves /\ stage \in {"idle", "phase", "over"} /\ file # "unmatched"
  /\ file' = Written
  /\ UNCHANGED <<viewVars, surface, proc, code, logged, hung, counted, watchVars, outVars, histVars>>

GroupsOver ==
  /\ Runs /\ Finish
  /\ UNCHANGED <<procVars, watchVars, outVars, histVars>>

\* The last write; progress.say("done") empties the line first.
WriteComplete ==
  /\ Runs /\ stage = "over"
  /\ stage' = "done" /\ line' = Torn
  /\ file' = IF file = "unmatched" THEN file ELSE Written
  /\ UNCHANGED <<step, shown, total, surface, proc, code, logged, hung, counted,
                 watchVars, outVars, histVars>>

Finishes ==
  /\ Runs /\ stage = "done"
  /\ line' = DoneLine /\ proc' = "ended" /\ code' = "zero"
  /\ UNCHANGED <<stage, step, shown, total, surface, logged, hung, counted, file,
                 watchVars, outVars, histVars>>

-----------------------------------------------------------------------------
(* What goes wrong in it. *)

Hang ==
  /\ proc = "runs" /\ stage = "phase" /\ hung = "no"
  /\ hung' \in HangKinds /\ hungFor' = 0
  /\ UNCHANGED <<viewVars, surface, proc, code, logged, counted, file, watchVars, outVars,
                 beats, torn, ages, announced, death>>

\* TSan reports a race in the extension, and the program goes on.
Race ==
  /\ Moves /\ stage = "phase" /\ "race" \in FaultKinds \ logged
  /\ logged' = logged \cup {"race"}
  /\ UNCHANGED <<viewVars, surface, proc, code, hung, counted, file, watchVars, outVars, histVars>>

\* A deadly signal that TSan handles: it reports it, with the extension on the
\* stack, without it, or with no stack, and exits 0 (exitcode=0) if it ever does.
TsanCrash ==
  /\ proc = "runs" /\ ~Crashed
  /\ \E k \in FaultKinds \cap Deadly : logged' = logged \cup {k}
  /\ \/ proc' = "spins" /\ UNCHANGED code
     \/ proc' = "ended" /\ code' = "zero"
  /\ UNCHANGED <<viewVars, surface, hung, counted, file, watchVars, outVars, histVars>>

ReportFinishes ==
  /\ proc = "spins" /\ proc' = "ended" /\ code' = "zero"
  /\ UNCHANGED <<viewVars, surface, logged, hung, counted, file, watchVars, outVars, histVars>>

\* TSan itself cannot go on ("FATAL: ThreadSanitizer").
TsanAborts ==
  /\ "fatal" \in FaultKinds /\ proc = "runs" /\ ~Crashed
  /\ proc' = "ended" /\ code' = "zero" /\ logged' = logged \cup {"fatal"}
  /\ UNCHANGED <<viewVars, surface, hung, counted, file, watchVars, outVars, histVars>>

\* SIGABRT, with or without "Fatal Python error", or a signal from outside.
SignalDeath ==
  /\ "signal" \in FaultKinds /\ proc = "runs" /\ proc' = "ended" /\ code' = "signal"
  /\ logged' \in {logged, logged \cup {"python"}}
  /\ death' = IF kind = "none" THEN "watched" ELSE "unwatched"
  /\ UNCHANGED <<viewVars, surface, hung, counted, file, watchVars, outVars,
                 beats, torn, ages, hungFor, announced>>

\* An exception main() does not catch, or os._exit() in the extension.
Quits ==
  /\ "quits" \in FaultKinds /\ proc = "runs" /\ hung = "no" /\ proc' = "ended" /\ code' \in {"zero", "nonzero"}
  /\ UNCHANGED <<viewVars, surface, logged, hung, counted, file, watchVars, outVars, histVars>>

-----------------------------------------------------------------------------
(* _watch() *)

Writing == Moves /\ (stage = "phase" \/ (stage \in {"idle", "say", "over", "done"} /\ Runs))

\* proc.wait() timed out: the driver lives.  Assumed of it: its heartbeat, and
\* its main thread between two phases, are not late, and polls rarely fall into
\* a rewrite of the line.
Timely ==
  /\ proc # "ended" /\ kind = "none"
  /\ Writing => beats <= MaxMissed /\ (line.text = "torn" => torn < MaxTorn)

Tick ==
  /\ polls' = IF polls > CeilingPolls THEN polls ELSE polls + 1
  /\ beats' = IF Writing THEN beats + 1 ELSE 0
  /\ torn' = IF Writing /\ line.text = "torn" THEN torn + 1 ELSE torn
  /\ ages' = {a + 1 : a \in ages \cap (0 .. Horizon - 1)}
  /\ hungFor' = IF hungFor = -1 THEN -1 ELSE hungFor + 1
  /\ UNCHANGED <<announced, death>>

Driving(l) == l.text = "step"   \* step.startswith(("pair ", "mix "))

\* Mutants of Poll: the clock starts again at every poll; a line that moves is
\* never timed out; the grace period is one poll longer.
PollForgets ==
  /\ Timely /\ Tick
  /\ crashFor' = IF crashFor >= 0 THEN crashFor + 1 ELSE IF Crashed THEN 0 ELSE -1
  /\ seen' = line /\ since' = 0
  /\ kind' = IF crashFor' > GracePolls THEN "crash"
             ELSE IF polls' > CeilingPolls THEN "timeout" ELSE "none"
  /\ UNCHANGED <<viewVars, procVars, outVars>>
PollElif ==
  /\ Timely /\ Tick
  /\ crashFor' = IF crashFor >= 0 THEN crashFor + 1 ELSE IF Crashed THEN 0 ELSE -1
  /\ seen' = line /\ since' = IF line # seen THEN 0 ELSE since + 1
  /\ kind' = IF crashFor' > GracePolls THEN "crash"
             ELSE IF line # seen THEN "none"
             ELSE IF Driving(line) /\ since' > StallPolls THEN "stall"
             ELSE IF polls' > CeilingPolls THEN "timeout" ELSE "none"
  /\ UNCHANGED <<viewVars, procVars, outVars>>
PollLate ==
  /\ Timely /\ Tick
  /\ crashFor' = IF crashFor >= 0 THEN crashFor + 1 ELSE IF Crashed THEN 0 ELSE -1
  /\ seen' = line /\ since' = IF line # seen THEN 0 ELSE since + 1
  /\ kind' = IF crashFor' > GracePolls + 1 THEN "crash"
             ELSE IF Driving(line) /\ since' > StallPolls THEN "stall"
             ELSE IF polls' > CeilingPolls THEN "timeout" ELSE "none"
  /\ UNCHANGED <<viewVars, procVars, outVars>>

Poll ==
  /\ Timely /\ Tick
  /\ crashFor' = IF crashFor >= 0 THEN crashFor + 1 ELSE IF Crashed THEN 0 ELSE -1
  /\ seen' = line /\ since' = IF line # seen THEN 0 ELSE since + 1
  /\ kind' = IF crashFor' > GracePolls THEN "crash"
             ELSE IF Driving(line) /\ since' > StallPolls THEN "stall"
             ELSE IF polls' > CeilingPolls THEN "timeout" ELSE "none"
  /\ UNCHANGED <<viewVars, procVars, outVars>>

\* stop(): the driver, which has gone on in the meantime, is killed, and what
\* it returned is not looked at.
Kill ==
  /\ kind # "none" /\ exit = -1 /\ (proc # "ended" \/ code # "none")
  /\ Writing /\ line.text = "torn" => TornAtEnd
  /\ proc' = "ended" /\ code' = "none"
  /\ UNCHANGED <<viewVars, surface, logged, hung, counted, file, watchVars, outVars, histVars>>

-----------------------------------------------------------------------------
(* The rest of run(), with collect() and verdict(). *)

\* "before driving began" when the file is missing or empty.
Last == IF line \in {Absent, Torn} THEN Absent ELSE line

\* tsan.attribute(): a crash is yours with your code, or nothing, on the stack.
Reported == {[rule |-> "tsan", last |-> Absent] : k \in logged \cap {"race"}}
            \cup {[rule |-> "segv", last |-> Absent] : k \in logged \cap {"mine", "bare"}}

Stalled == IF kind = "stall" THEN {[rule |-> "hang", last |-> Last]} ELSE {}

\* Mutant of Aborted: a crash is looked for in the exit code alone.
AbortedByCode ==
  IF code = "signal" /\ logged \cap {"race", "mine", "bare"} = {}
    THEN {[rule |-> "crash", last |-> Last]} ELSE {}

\* _abort_finding(), unless TSan has reported the crash.
Aborted ==
  IF ("python" \in logged \/ code = "signal") /\ logged \cap {"mine", "bare"} = {}
    THEN {[rule |-> "crash", last |-> Last]} ELSE {}

\* verdict(); what the driver returned, and why it was stopped, is not asked.
Verdict(found) ==
  IF found # {} THEN 1
  ELSE IF file = "none" \/ "fatal" \in logged THEN 3
  ELSE IF file = "unmatched" THEN 2
  ELSE IF file \in {"driven", "confined"} THEN 0 ELSE 3

Collect ==
  /\ proc = "ended" /\ exit = -1 /\ (kind # "none" => code = "none")
  /\ findings' = Reported \cup Stalled \cup Aborted
  /\ exit' = Verdict(findings')
  /\ UNCHANGED <<viewVars, procVars, watchVars, histVars>>

Over == exit # -1 /\ UNCHANGED vars

Driver == \/ Probe \/ Plan \/ StepAnnounced \/ StepSaid \/ Call \/ BeatOpens \/ BeatSays
          \/ PhaseEnds \/ WriteResult \/ GroupsOver \/ WriteComplete \/ Finishes
Faults == \/ Hang \/ Race \/ TsanCrash \/ ReportFinishes \/ TsanAborts \/ SignalDeath \/ Quits
Next   == Driver \/ Faults \/ Poll \/ Kill \/ Collect \/ Over

\* The orchestrator is scheduled, and so are a heartbeat that can write and a main
\* thread that has only files to write.
Spec     == Init /\ [][Next]_vars
FairSpec == Spec /\ WF_vars(Poll) /\ WF_vars(Kill) /\ WF_vars(Collect)
                 /\ WF_vars(BeatOpens \/ BeatSays)
                 /\ WF_vars(StepAnnounced \/ StepSaid \/ GroupsOver \/ WriteComplete \/ Finishes)

-----------------------------------------------------------------------------
(* What is expected of it. *)

TypeOK ==
  /\ stage \in {"boot", "probe", "idle", "say", "phase", "over", "done"}
  /\ step \in Steps /\ shown \in 0 .. MaxCalls /\ total \in 0 .. MaxCalls /\ line \in Lines
  /\ surface \in {"drivable", "unmatched", "confined", "empty"}
  /\ proc \in {"runs", "spins", "ended"} /\ code \in {"none", "zero", "nonzero", "signal"}
  /\ logged \subseteq {"race", "mine", "foreign", "bare", "fatal", "python"}
  /\ hung \in {"no", "workers", "all"} /\ counted \in BOOLEAN /\ file \in Files
  /\ polls \in 0 .. CeilingPolls + 1 /\ seen \in Lines /\ since \in Nat
  /\ crashFor \in -1 .. GracePolls + 1 /\ kind \in {"none", "crash", "stall", "timeout"}
  /\ findings \subseteq [rule: {"tsan", "segv", "hang", "crash"}, last: Lines]
  /\ exit \in {-1, 0, 1, 2, 3}
  /\ beats \in Nat /\ torn \in Nat /\ ages \subseteq 0 .. Horizon
  /\ hungFor \in -1 .. CeilingPolls + 1 /\ announced \subseteq Steps
  /\ death \in {"none", "watched", "unwatched"}

\* A live driver, no thread of which crashed, is stopped as hung only when nothing
\* moved for as long as is claimed, but for what the heartbeat had not got round to
\* showing: a slow call, or a line read while it was being rewritten, is never
\* taken for a deadlock.
NoFalseHang ==
  kind = "stall" /\ ~Crashed /\ hung # "all" =>
    ages \cap ((MaxMissed + 2) .. StallPolls + 1) = {}

\* Longest a standstill of the workers can go on: the stall limit, once more for
\* every poll that read an emptied line, and what the heartbeat had yet to show.
Bound == (MaxTorn + 1) * (StallPolls + 2) + MaxMissed + 1

\* A run whose workers are deadlocked is stopped within that bound.
HangIsStopped == hungFor <= Bound

\* A clean verdict is never read from nothing: in this very run a pair was driven
\* to its end and a call returned, or nothing on the surface can race.
CleanIsEarned == exit = 0 => counted \/ surface = "confined"

\* A driver that is past its ceiling dies of a signal between the decision to stop it
\* and the kill, and nothing was reported before: stop() looks at no return code, and
\* nobody knows of this death.
DeathIsLost ==
  death = "unwatched" /\ kind = "timeout" /\ logged \cap {"race", "mine", "bare", "python"} = {}

\* A driver that died under the extension fails the run, even if it died when the
\* watcher had just decided to stop it: by its return code, by what it said, or
\* because it had hung.  The one death that does not is the one that is lost.
CrashIsAFinding ==
  exit # -1 /\ (logged \cap {"mine", "bare", "python"} # {} \/ death # "none") /\ ~DeathIsLost
    => exit = 1

\* A process that died of a signal TSan reports while it was being driven fails
\* the run (docs/stress.md:216-218), whatever stack TSan captured.
DeathFailsTheRun == exit # -1 /\ Crashed /\ stage = "phase" => exit # 0

\* No finding is filed under a step other than the one that was running, except
\* that a driver which dies before it wrote a line is filed under what an earlier
\* run left in the progress file: run() unlinks the result, and not that line.
NamesNoOtherStep ==
  \A f \in findings : f.last.text = "step" =>
    \/ f.last.step = step /\ step \in announced
    \/ stage = "boot" /\ f.last.step \in LeftSteps

\* Every run comes to an exit code, whatever the driver does.
EveryRunEnds == <>(exit # -1)
=============================================================================
