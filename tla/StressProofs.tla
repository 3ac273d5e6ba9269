---------------------------- MODULE StressProofs ----------------------------
(***************************************************************************)
(* Proofs about StressRun, for any number of steps, whatever the limits of *)
(* the watcher, whatever befalls the driver and whenever it does: what     *)
(* the exit code and the findings of a run of `ftcheck stress' are worth.  *)
(***************************************************************************)
EXTENDS StressRun, TLAPS

\* As long as the driver is left to run, no limit has been passed; and workers
\* cannot have hung for longer than there have been polls.
WatchInv ==
  /\ kind = "none" => crashFor <= GracePolls /\ polls <= CeilingPolls
  /\ hungFor <= polls

\* The verdict is the last thing that happens.
EndInv == (exit # -1 => proc = "ended") /\ (exit = -1 => findings = {})

\* The file never counts more than what happened in this run.
FileInv == (file = "driven" => counted) /\ (file = "confined" => surface = "confined")

\* A line that names a step names the one announced last, once there is one.
LineInv ==
  /\ stage \in {"say", "phase"} => step \in announced
  /\ line.text = "step" =>
       \/ stage = "boot" /\ line.step \in LeftSteps
       \/ line.step = step /\ step \in announced

\* A death under the watcher's eyes is what proc.wait() returned; a driver that is
\* stopped because it crashed has no other death to die.
DeathInv ==
  /\ death = "watched" => code = "signal" /\ kind = "none"
  /\ death = "unwatched" => kind \in {"stall", "timeout"}
  /\ death # "none" => proc = "ended"
  /\ (crashFor >= 0 \/ kind = "crash") => Crashed
  /\ Crashed => proc # "runs"

Verdicts == CleanIsEarned /\ CrashIsAFinding /\ NamesNoOtherStep

IInv == TypeOK /\ WatchInv /\ EndInv /\ FileInv /\ LineInv /\ DeathInv /\ Verdicts

-----------------------------------------------------------------------------
LEMMA InitInv == ASSUME StressAssumption, Init PROVE IInv
<1> USE DEF Init, Start, StressAssumption
<1>0. line \in Lines /\ seen \in Lines
  <2>1. Absent \in Lines BY DEF Absent, Lines
  <2>2. \A s \in LeftSteps : Said(s, 1) \in Lines BY DEF Said, Lines
  <2> QED BY <2>1, <2>2
<1>1. TypeOK
  <2>1. /\ counted \in BOOLEAN /\ ages \subseteq 0 .. Horizon /\ announced \subseteq Steps
        /\ logged \subseteq {"race", "mine", "foreign", "bare", "fatal", "python"}
    OBVIOUS
  <2>2. findings \subseteq [rule: {"tsan", "segv", "hang", "crash"}, last: Lines] OBVIOUS
  <2>3. /\ shown \in 0 .. MaxCalls /\ total \in 0 .. MaxCalls /\ polls \in 0 .. CeilingPolls + 1
        /\ crashFor \in -1 .. GracePolls + 1 /\ hungFor \in -1 .. CeilingPolls + 1
    OBVIOUS
  <2>4. /\ since \in Nat /\ beats \in Nat /\ torn \in Nat /\ exit \in {-1, 0, 1, 2,
           3} /\ step \in Steps OBVIOUS
  <2>5. /\ stage = "boot" /\ proc = "runs" /\ code = "none"
        /\ hung = "no" /\ file = "none" /\ kind = "none" /\ death = "none"
    OBVIOUS
  <2> HIDE DEF Init, Start
  <2> QED BY <1>0, <2>1, <2>2, <2>3, <2>4, <2>5 DEF TypeOK, Files, Init
<1>2. WatchInv /\ EndInv /\ FileInv /\ DeathInv BY DEF WatchInv, EndInv, FileInv, DeathInv, Crashed
<1>3. LineInv BY DEF LineInv, Absent, Said
<1>4. Verdicts BY DEF Verdicts, CleanIsEarned, CrashIsAFinding, DeathIsLost, NamesNoOtherStep
<1> QED BY <1>1, <1>2, <1>3, <1>4 DEF IInv

\* Once there is a verdict nothing moves.
LEMMA EndIsEnd == ASSUME EndInv, exit # -1, Next PROVE UNCHANGED vars
BY DEF EndInv, Next, Driver, Faults, Over, Runs, Moves, Timely, Probe, Plan, StepAnnounced,
   StepSaid, Call, BeatOpens, BeatSays, PhaseEnds, WriteResult, GroupsOver, WriteComplete,
   Finishes, Hang, Race, TsanCrash, ReportFinishes, TsanAborts, SignalDeath, Quits, Poll, Kill,
   Collect

LEMMA Unchanging == ASSUME IInv, UNCHANGED vars PROVE IInv'
<1> USE DEF vars, viewVars, procVars, watchVars, outVars, histVars, IInv
<1>1. TypeOK' BY DEF TypeOK
<1>2. (WatchInv /\ EndInv /\ FileInv /\ LineInv /\ DeathInv)'
  BY DEF WatchInv, EndInv, FileInv, LineInv, DeathInv, Crashed
<1>3. Verdicts' BY DEF Verdicts, CleanIsEarned, CrashIsAFinding, DeathIsLost, NamesNoOtherStep
<1> QED BY <1>1, <1>2, <1>3

\* The types, with the limits of the watcher.
LEMMA TypeStep ==
  ASSUME StressAssumption, IInv, exit = -1, Next PROVE TypeOK' /\ WatchInv'
<1> USE DEF IInv, StressAssumption, TypeOK, WatchInv, Lines, Files, viewVars, procVars, watchVars,
         outVars, histVars
<1>1. CASE Probe BY <1>1 DEF Probe, Runs, Torn, Probing
<1>2. CASE Plan BY <1>2 DEF Plan, Runs, Probing
<1>3. CASE StepAnnounced BY <1>3 DEF StepAnnounced, Runs, Announce, Moved, Torn
<1>4. CASE StepSaid BY <1>4 DEF StepSaid, Runs, SayStep, Said
<1>5. CASE Call BY <1>5 DEF Call, Moves, CallFinishes, Moved
<1>6. CASE BeatOpens BY <1>6 DEF BeatOpens, Moves, BeatOpen, Torn
<1>7. CASE BeatSays BY <1>7 DEF BeatSays, Moves, BeatSay, Said
<1>8. CASE PhaseEnds
  <2>1. counted' \in BOOLEAN BY <1>8 DEF PhaseEnds
  <2> QED BY <1>8, <2>1 DEF PhaseEnds, Runs, EndPhase
<1>9. CASE WriteResult BY <1>9 DEF WriteResult, Moves, Written
<1>10. CASE GroupsOver BY <1>10 DEF GroupsOver, Runs, Finish
<1>11. CASE WriteComplete BY <1>11 DEF WriteComplete, Runs, Written, Torn
<1>12. CASE Finishes BY <1>12 DEF Finishes, Runs, DoneLine
<1>13. CASE Hang BY <1>13 DEF Hang
<1>14. CASE Race BY <1>14 DEF Race, Moves
<1>15. CASE TsanCrash
  <2>1. proc' \in {"runs", "spins", "ended"} /\ code' \in {"none", "zero", "nonzero", "signal"}
    BY <1>15 DEF TsanCrash
  <2>2. logged' \subseteq {"race", "mine", "foreign", "bare", "fatal", "python"}
    BY <1>15 DEF TsanCrash, Deadly
  <2> QED BY <1>15, <2>1, <2>2 DEF TsanCrash
<1>16. CASE ReportFinishes BY <1>16 DEF ReportFinishes
<1>17. CASE TsanAborts BY <1>17 DEF TsanAborts
<1>18. CASE SignalDeath BY <1>18 DEF SignalDeath
<1>19. CASE Quits BY <1>19 DEF Quits
<1>20. CASE Poll BY <1>20 DEF Poll, Timely, Tick
<1>21. CASE Kill BY <1>21 DEF Kill
<1>22. CASE Collect BY <1>22 DEF Collect, Reported, Stalled, Aborted, Verdict, Last, Absent, Torn
<1> QED BY <1>1, <1>2, <1>3, <1>4, <1>5, <1>6, <1>7, <1>8, <1>9, <1>10, <1>11, <1>12, <1>13, <1>14,
         <1>15, <1>16, <1>17, <1>18, <1>19, <1>20, <1>21, <1>22
     DEF Next, Driver, Faults, Over

\* What is written into the file, and said in the line.
LEMMA FileStep ==
  ASSUME StressAssumption, IInv, exit = -1, Next PROVE FileInv' /\ LineInv'
<1> USE DEF IInv, TypeOK, FileInv, LineInv, viewVars, procVars, watchVars, outVars, histVars
<1>1. CASE Probe BY <1>1 DEF Probe, Runs, Torn, Probing
<1>2. CASE Plan BY <1>2 DEF Plan, Runs, Probing
<1>3. CASE StepAnnounced BY <1>3 DEF StepAnnounced, Runs, Announce, Moved, Torn
<1>4. CASE StepSaid BY <1>4 DEF StepSaid, Runs, SayStep, Said
<1>5. CASE Call BY <1>5 DEF Call, Moves, CallFinishes, Moved
<1>6. CASE BeatOpens BY <1>6 DEF BeatOpens, Moves, BeatOpen, Torn
<1>7. CASE BeatSays BY <1>7 DEF BeatSays, Moves, BeatSay, Said
<1>8. CASE PhaseEnds BY <1>8 DEF PhaseEnds, Runs, EndPhase
<1>9. CASE WriteResult BY <1>9 DEF WriteResult, Moves, Written
<1>10. CASE GroupsOver BY <1>10 DEF GroupsOver, Runs, Finish
<1>11. CASE WriteComplete BY <1>11 DEF WriteComplete, Runs, Written, Torn
<1>12. CASE Finishes BY <1>12 DEF Finishes, Runs, DoneLine
<1>13. CASE Hang BY <1>13 DEF Hang
<1>14. CASE Race BY <1>14 DEF Race, Moves
<1>15. CASE TsanCrash BY <1>15 DEF TsanCrash, Deadly
<1>16. CASE ReportFinishes BY <1>16 DEF ReportFinishes
<1>17. CASE TsanAborts BY <1>17 DEF TsanAborts
<1>18. CASE SignalDeath BY <1>18 DEF SignalDeath
<1>19. CASE Quits BY <1>19 DEF Quits
<1>20. CASE Poll BY <1>20 DEF Poll, Timely, Tick
<1>21. CASE Kill BY <1>21 DEF Kill
<1>22. CASE Collect BY <1>22 DEF Collect
<1> QED BY <1>1, <1>2, <1>3, <1>4, <1>5, <1>6, <1>7, <1>8, <1>9, <1>10, <1>11, <1>12, <1>13, <1>14,
         <1>15, <1>16, <1>17, <1>18, <1>19, <1>20, <1>21, <1>22
     DEF Next, Driver, Faults, Over

\* How the driver died.
LEMMA DeathStep == ASSUME StressAssumption, IInv, exit = -1, Next PROVE DeathInv'
<1> USE DEF IInv, DeathInv, Crashed
<1>1. CASE SignalDeath BY <1>1 DEF SignalDeath, watchVars, TypeOK, Deadly
<1>2. CASE Poll BY <1>2 DEF Poll, Timely, Tick, procVars, TypeOK, StressAssumption
<1>3. CASE Kill BY <1>3 DEF Kill, watchVars, histVars
<1>4. CASE TsanCrash BY <1>4 DEF TsanCrash, watchVars, histVars
<1>5. CASE ~SignalDeath /\ ~Poll /\ ~Kill /\ ~TsanCrash
  <2>1. death' = death /\ UNCHANGED watchVars
    BY <1>5 DEF Next, Driver, Faults, Over, vars, histVars, Probe, Plan, StepAnnounced,
       StepSaid, Call, BeatOpens, BeatSays, PhaseEnds, WriteResult, GroupsOver, WriteComplete,
       Finishes, Hang, Race, ReportFinishes, TsanAborts, Quits, Collect
  <2>2. /\ proc = "ended" => proc' = "ended" /\ code' = code
        /\ proc' = "runs" => proc = "runs"
        /\ logged \cap Deadly = logged' \cap Deadly
    BY <1>5 DEF Next, Driver, Faults, Over, vars, procVars, Runs, Moves, Probe, Plan, Deadly,
       StepAnnounced, StepSaid, Call, BeatOpens, BeatSays, PhaseEnds, WriteResult, GroupsOver,
       WriteComplete, Finishes, Hang, Race, ReportFinishes, TsanAborts, Quits, Collect
  <2> QED BY <2>1, <2>2 DEF watchVars
<1> QED BY <1>1, <1>2, <1>3, <1>4, <1>5

-----------------------------------------------------------------------------
\* What collect() and verdict() make of a driver that has ended.
LEMMA VerdictsStep ==
  ASSUME StressAssumption, IInv, exit = -1, Next PROVE EndInv' /\ Verdicts'
<1> USE DEF IInv
<1>1. CASE Collect
  <2> USE <1>1 DEF Collect
  <2>1. /\ proc' = "ended" /\ findings' = Reported \cup Stalled \cup Aborted
        /\ exit' = Verdict(findings')
        /\ UNCHANGED <<stage, step, line, surface, code, logged, counted, file, kind, announced, death>>
    BY DEF viewVars, procVars, watchVars, histVars
  <2>2. EndInv' BY <2>1 DEF EndInv, Verdict
  <2>3. CleanIsEarned' BY <2>1 DEF FileInv, CleanIsEarned, Verdict
  <2>4. CrashIsAFinding'
    <3> SUFFICES ASSUME logged \cap {"mine", "bare", "python"} # {} \/ death # "none", ~DeathIsLost
                 PROVE  exit' = 1
      BY <2>1 DEF CrashIsAFinding, DeathIsLost
    <3>1. logged \cap {"race", "mine", "bare"} # {} => Reported # {} BY DEF Reported
    <3>2. (logged \cap {"mine", "bare"} = {} /\ "python" \in logged) => Aborted # {} BY DEF Aborted
    <3>3. logged \cap {"race", "mine", "bare", "python"} = {} => Stalled # {} \/ Aborted # {}
      <4> SUFFICES ASSUME logged \cap {"race", "mine", "bare", "python"} = {}
                   PROVE  Stalled # {} \/ Aborted # {}
        OBVIOUS
      <4>1. CASE kind = "stall" BY <4>1 DEF Stalled
      <4>2. CASE kind # "stall"
        <5>1. death = "watched" BY <4>2 DEF DeathIsLost, DeathInv, TypeOK
        <5>2. code = "signal" BY <5>1 DEF DeathInv
        <5> QED BY <5>2 DEF Aborted
      <4> QED BY <4>1, <4>2
    <3>4. findings' # {} BY <2>1, <3>1, <3>2, <3>3
    <3> QED BY <2>1, <3>4 DEF Verdict
  <2>5. NamesNoOtherStep'
    <3> SUFFICES ASSUME NEW f \in findings', f.last.text = "step"
                 PROVE \/ f.last.step = step /\ step \in announced
                       \/ stage = "boot" /\ f.last.step \in LeftSteps
      BY <2>1 DEF NamesNoOtherStep
    <3>1. \A g \in Reported \cup Stalled \cup Aborted : g.last \in {Absent, Last}
      BY DEF Reported, Stalled, Aborted
    <3>2. f.last = line BY <2>1, <3>1 DEF Last, Absent
    <3> QED BY <3>2 DEF LineInv
  <2> QED BY <2>2, <2>3, <2>4, <2>5 DEF Verdicts
<1>2. CASE ~Collect
  <2>1. UNCHANGED <<exit, findings>> /\ (exit' # -1 => exit # -1)
    BY <1>2 DEF Next, Driver, Faults, Over, vars, outVars, Probe, Plan, StepAnnounced, StepSaid,
       Call, BeatOpens, BeatSays, PhaseEnds, WriteResult, GroupsOver, WriteComplete, Finishes,
       Hang, Race, TsanCrash, ReportFinishes, TsanAborts, SignalDeath, Quits, Poll, Kill
  <2> QED BY <2>1 DEF EndInv, Verdicts, CleanIsEarned, CrashIsAFinding, DeathIsLost, NamesNoOtherStep
<1> QED BY <1>1, <1>2

LEMMA StepInv == StressAssumption /\ IInv /\ [Next]_vars => IInv'
<1> SUFFICES ASSUME StressAssumption, IInv, [Next]_vars PROVE IInv' OBVIOUS
<1>1. CASE UNCHANGED vars BY <1>1, Unchanging
<1>2. CASE Next /\ exit # -1 BY <1>2, EndIsEnd, Unchanging DEF IInv
<1>3. CASE Next /\ exit = -1 BY <1>3, TypeStep, FileStep, DeathStep, VerdictsStep DEF IInv
<1> QED BY <1>1, <1>2, <1>3

LEMMA AlwaysIInv == Spec => []IInv
BY InitInv, StepInv, StressAssumption, PTL DEF Spec

-----------------------------------------------------------------------------
\* The types, and with them the limits of the watcher: it never polls on past the
\* ceiling, nor waits for a crash report for longer than the grace period.
THEOREM WatchIsBounded == Spec => []TypeOK
<1>1. IInv => TypeOK BY DEF IInv
<1> QED BY <1>1, AlwaysIInv, PTL

\* Exit 0 is earned in the very run: what an earlier run left in the work directory
\* never is its result.
THEOREM ZeroWasDriven == Spec => []CleanIsEarned
<1>1. IInv => CleanIsEarned BY DEF IInv, Verdicts
<1> QED BY <1>1, AlwaysIInv, PTL

\* A driver that died under the extension is exit 1, whatever the watcher did
\* between the crash and the end of the process, but for the one death that is lost:
\* by a signal, without a word, after the decision to stop it at its time limit.
THEOREM CrashFailsTheRun == Spec => []CrashIsAFinding
<1>1. IInv => CrashIsAFinding BY DEF IInv, Verdicts
<1> QED BY <1>1, AlwaysIInv, PTL

\* The step a finding names is the one that was running, but for the line that an
\* earlier run left to a driver which wrote none.
THEOREM FindingsNameTheStep == Spec => []NamesNoOtherStep
<1>1. IInv => NamesNoOtherStep BY DEF IInv, Verdicts
<1> QED BY <1>1, AlwaysIInv, PTL
-----------------------------------------------------------------------------
(* Why a moving driver is not taken for a hung one. *)

Alive == ~Crashed /\ hung # "all"

\* What the line says belongs to the step announced last, and a count is the one the
\* heartbeat read last; what the watcher read is older, of a step that does not
\* come again or with a count that only grows.
ReadInv ==
  /\ shown <= total
  /\ line.text = "step" =>
       \/ stage = "boot" /\ line.step \in LeftSteps
       \/ /\ stage \in {"phase", "idle", "over"}
          /\ line.step = step /\ line.count \in {-1, shown}
  /\ seen.text = "step" =>
       /\ seen.step \in LeftSteps \cup announced
       /\ seen.step = step =>
            /\ stage # "say" /\ seen.count <= shown
            /\ seen.count # -1 => line # Said(step, -1)
  /\ stage \in {"boot", "probe"} => ages = {}
  /\ proc = "spins" => Crashed

\* The line will never again read as it did.
Old == \/ seen.step # step
       \/ seen.count = -1 /\ line # seen
       \/ seen.count # -1 /\ seen.count < shown

\* What happened a polls ago was before the line was last seen to change, or has
\* changed it since, or is a call the heartbeat has yet to show.
Shows(a) ==
  \/ since < a
  \/ Old
  \/ /\ total > seen.count /\ a <= beats
     /\ stage = "phase" /\ line.text = "torn" => a = 0

MoveInv == Alive /\ seen.text = "step" => \A a \in ages : Shows(a)

HangInv == ReadInv /\ MoveInv /\ NoFalseHang

LEMMA HangInit == StressAssumption /\ Init => HangInv
<1> SUFFICES ASSUME Init PROVE HangInv OBVIOUS
<1>1. ReadInv BY DEF Init, Start, ReadInv, Absent, Said
<1>2. MoveInv /\ NoFalseHang BY DEF Init, MoveInv, NoFalseHang, Absent
<1> QED BY <1>1, <1>2 DEF HangInv

LEMMA ReadStep ==
  ASSUME StressAssumption, LeftSteps \cap Steps = {}, IInv, exit = -1, HangInv, Next PROVE ReadInv'
<1> USE DEF IInv, HangInv, TypeOK, LineInv, ReadInv, Lines, Crashed,
         viewVars, procVars, watchVars, outVars, histVars
<1>1. CASE Probe BY <1>1 DEF Probe, Torn, Probing, Said
<1>2. CASE Plan BY <1>2 DEF Plan, Probing
<1>3. CASE StepAnnounced BY <1>3 DEF StepAnnounced, Runs, Announce, Moved, Torn
<1>4. CASE StepSaid BY <1>4 DEF StepSaid, Runs, SayStep, Said
<1>5. CASE Call BY <1>5 DEF Call, Moves, CallFinishes, Moved
<1>6. CASE BeatOpens BY <1>6 DEF BeatOpens, Moves, BeatOpen, Torn, Said
<1>7. CASE BeatSays BY <1>7 DEF BeatSays, Moves, BeatSay, Said
<1>8. CASE PhaseEnds BY <1>8 DEF PhaseEnds, Runs, EndPhase
<1>9. CASE WriteResult BY <1>9 DEF WriteResult, Moves
<1>10. CASE GroupsOver BY <1>10 DEF GroupsOver, Runs, Finish
<1>11. CASE WriteComplete BY <1>11 DEF WriteComplete, Runs, Torn, Said
<1>12. CASE Finishes BY <1>12 DEF Finishes, Runs, DoneLine, Said
<1>13. CASE Hang BY <1>13 DEF Hang
<1>14. CASE Race BY <1>14 DEF Race
<1>15. CASE TsanCrash BY <1>15 DEF TsanCrash, Deadly
<1>16. CASE ReportFinishes BY <1>16 DEF ReportFinishes
<1>17. CASE TsanAborts BY <1>17 DEF TsanAborts
<1>18. CASE SignalDeath BY <1>18 DEF SignalDeath
<1>19. CASE Quits BY <1>19 DEF Quits
<1>20. CASE Poll BY <1>20 DEF Poll, Timely, Tick, Said
<1>21. CASE Kill BY <1>21 DEF Kill
<1>22. CASE Collect BY <1>22 DEF Collect
<1> QED BY <1>1, <1>2, <1>3, <1>4, <1>5, <1>6, <1>7, <1>8, <1>9, <1>10, <1>11,
     <1>12, <1>13, <1>14, <1>15, <1>16, <1>17, <1>18, <1>19, <1>20, <1>21, <1>22
     DEF Next, Driver, Faults, Over

LEMMA MoveStep ==
  ASSUME StressAssumption, LeftSteps \cap Steps = {}, IInv, exit = -1, HangInv, Next,
     ~Poll PROVE MoveInv'
<1> USE DEF IInv, HangInv, TypeOK, LineInv, ReadInv, MoveInv, Shows, Old, Alive, Lines, Crashed,
         viewVars, procVars, watchVars, outVars, histVars
<1>1. CASE Probe BY <1>1 DEF Probe, Torn, Probing
<1>2. CASE Plan BY <1>2 DEF Plan, Probing
<1>3. CASE StepAnnounced BY <1>3 DEF StepAnnounced, Runs, Announce, Moved, Torn
<1>4. CASE StepSaid BY <1>4 DEF StepSaid, Runs, SayStep, Said
<1>5. CASE Call BY <1>5 DEF Call, Moves, CallFinishes, Moved
<1>6. CASE BeatOpens BY <1>6 DEF BeatOpens, Moves, BeatOpen, Torn
<1>7. CASE BeatSays BY <1>7 DEF BeatSays, Moves, BeatSay, Said
<1>8. CASE PhaseEnds BY <1>8 DEF PhaseEnds, Runs, EndPhase
<1>9. CASE WriteResult BY <1>9 DEF WriteResult, Moves
<1>10. CASE GroupsOver BY <1>10 DEF GroupsOver, Runs, Finish
<1>11. CASE WriteComplete BY <1>11 DEF WriteComplete, Runs, Torn
<1>12. CASE Finishes BY <1>12 DEF Finishes, Runs, DoneLine
<1>13. CASE Hang BY <1>13 DEF Hang
<1>14. CASE Race BY <1>14 DEF Race
<1>15. CASE TsanCrash BY <1>15 DEF TsanCrash, Deadly
<1>16. CASE ReportFinishes BY <1>16 DEF ReportFinishes
<1>17. CASE TsanAborts BY <1>17 DEF TsanAborts
<1>18. CASE SignalDeath BY <1>18 DEF SignalDeath
<1>19. CASE Quits BY <1>19 DEF Quits
<1>20. CASE Kill BY <1>20 DEF Kill
<1>21. CASE Collect BY <1>21 DEF Collect
<1> QED BY <1>1, <1>2, <1>3, <1>4, <1>5, <1>6, <1>7, <1>8, <1>9, <1>10, <1>11,
     <1>12, <1>13, <1>14, <1>15, <1>16, <1>17, <1>18, <1>19, <1>20, <1>21
     DEF Next, Driver, Faults, Over

\* The watcher decides at a poll; afterwards the driver only goes on.
LEMMA OnlyPollsDecide ==
  ASSUME StressAssumption, IInv, exit = -1, NoFalseHang, Next, ~Poll PROVE NoFalseHang'
<1>1. kind' = kind /\ logged \subseteq logged' /\ (hung' # "all" => hung # "all")
  BY DEF Next, Driver, Faults, Over, vars, viewVars, procVars, watchVars, outVars,
         Probe, Plan, StepAnnounced, StepSaid, Call, BeatOpens, BeatSays, PhaseEnds, WriteResult,
            GroupsOver, WriteComplete, Finishes, Hang, Race, TsanCrash, ReportFinishes, TsanAborts,
            SignalDeath, Quits, Kill, Collect
<1>2. ages' \subseteq ages \cup {0}
  BY DEF Next, Driver, Faults, Over, Moved, vars, viewVars, procVars, watchVars, outVars, histVars,
         Probe, Plan, StepAnnounced, StepSaid, Call, BeatOpens, BeatSays, PhaseEnds, WriteResult,
            GroupsOver, WriteComplete, Finishes, Hang, Race, TsanCrash, ReportFinishes, TsanAborts,
            SignalDeath, Quits, Kill, Collect
<1>3. 0 \notin (MaxMissed + 2) .. StallPolls + 1 BY DEF StressAssumption
<1> QED BY <1>1, <1>2, <1>3 DEF NoFalseHang, Crashed

LEMMA PollStep ==
  ASSUME StressAssumption, LeftSteps \cap Steps = {}, IInv, exit = -1, HangInv,
     Poll PROVE MoveInv' /\ NoFalseHang'
<1>1. /\ seen' = line /\ since' = (IF line # seen THEN 0 ELSE since + 1) /\ proc # "ended"
      /\ ages' \subseteq {a + 1 : a \in ages} /\ ages \subseteq Nat
      /\ kind' = "stall" => line.text = "step" /\ since' > StallPolls
      /\ UNCHANGED <<viewVars, logged, hung>> /\ kind = "none"
  BY DEF Poll, Timely, Tick, Driving, procVars, IInv, TypeOK
<1>2. Writing => beats <= MaxMissed /\ beats' = beats + 1 BY DEF Poll, Timely, Tick
<1>3. Alive /\ line.text = "step" /\ ages # {} => Writing
  BY <1>1 DEF Alive, HangInv, ReadInv, IInv, TypeOK, Writing, Moves, Runs
<1>4. CASE line # seen
  <2>1. since' = 0 /\ \A a \in ages' : since' < a BY <1>1, <1>4
  <2>2. MoveInv' BY <2>1 DEF MoveInv, Shows
  <2>3. NoFalseHang' BY <1>1, <2>1 DEF NoFalseHang, StressAssumption
  <2> QED BY <2>2, <2>3
<1>5. CASE line = seen
  <2>1. Alive' <=> Alive BY <1>1 DEF Alive, Crashed
  <2>2. CASE Alive /\ line.text = "step" /\ ages # {}
    <3>1. ~Old
      <4>1. line.step = step /\ line.count \in {-1, shown} BY <2>2 DEF HangInv, ReadInv
      <4>2. shown \in Nat BY DEF IInv, TypeOK, StressAssumption
      <4> QED BY <4>1, <4>2, <1>5 DEF Old
    <3>2. \A a \in ages : since < a \/ (total > seen.count /\ a <= beats)
      BY <1>5, <2>2, <3>1 DEF HangInv, MoveInv, Shows
    <3>3. since' = since + 1 /\ beats' = beats + 1 /\ beats <= MaxMissed BY <1>1, <1>2, <1>3, <1>5, <2>2
    <3>4. \A a \in ages' : since' < a \/ (total' > seen'.count /\ a <= beats')
      BY <1>1, <1>5, <3>2, <3>3 DEF IInv, TypeOK, viewVars
    <3>5. MoveInv'
      <4>1. line'.text # "torn" BY <1>1, <2>2 DEF viewVars
      <4> QED BY <3>4, <4>1 DEF MoveInv, Shows
    <3>6. NoFalseHang'
      BY <1>1, <3>3, <3>4 DEF NoFalseHang, StressAssumption, IInv, TypeOK
    <3> QED BY <3>5, <3>6
  <2>3. CASE ~Alive BY <2>1, <2>3, <1>1 DEF MoveInv, NoFalseHang, Alive
  <2>4. CASE line.text # "step" BY <1>1, <2>4 DEF MoveInv, NoFalseHang
  <2>5. CASE ages = {} BY <1>1, <2>5 DEF MoveInv, NoFalseHang
  <2> QED BY <2>2, <2>3, <2>4, <2>5
<1> QED BY <1>4, <1>5

\* A live driver that moves is never stopped as hung, provided that the line an
\* earlier run left in the progress file names no step of this one: that line would
\* be taken for the same step, read again.
THEOREM HangsAreReal == ASSUME LeftSteps \cap Steps = {} PROVE Spec => []NoFalseHang
<1>1. Init => HangInv BY HangInit, StressAssumption
<1>2. IInv /\ HangInv /\ [Next]_vars => HangInv'
  <2> SUFFICES ASSUME IInv, HangInv, [Next]_vars PROVE HangInv' OBVIOUS
  <2>1. CASE UNCHANGED vars
    BY <2>1 DEF HangInv, ReadInv, MoveInv, Shows, Old, Alive, Crashed, NoFalseHang,
                vars, viewVars, procVars, watchVars, histVars
  <2>2. CASE Next /\ exit # -1
    <3>1. UNCHANGED vars BY <2>2, EndIsEnd DEF IInv
    <3> QED BY <3>1, <2>1
  <2>3. CASE Next /\ exit = -1
    <3>1. ReadInv' BY <2>3, ReadStep, StressAssumption
    <3>2. MoveInv' BY <2>3, MoveStep, PollStep, StressAssumption
    <3>3. NoFalseHang' BY <2>3, OnlyPollsDecide, PollStep, StressAssumption DEF HangInv
    <3> QED BY <3>1, <3>2, <3>3 DEF HangInv
  <2> QED BY <2>1, <2>2, <2>3
<1>3. HangInv => NoFalseHang BY DEF HangInv
<1> QED BY <1>1, <1>2, <1>3, AlwaysIInv, PTL DEF Spec
-----------------------------------------------------------------------------
(* Why a hung driver is stopped.  The bound on how long its workers have been *)
(* hung is paid for by the polls that read an emptied line, by the heartbeat  *)
(* that has yet to show the last calls, and by the polls of the stall itself. *)

W(k) == k * (StallPolls + 2)

\* All there was to show is in the line, or about to be.
Final == shown = total /\ (line.text = "torn" \/ line.count = total)
Stalling == IF seen = Said(step, total) THEN since + 1 ELSE 0

StillInv ==
  /\ beats <= MaxMissed + 1 /\ torn <= MaxTorn
  /\ seen.text = "step" => since <= StallPolls + 1 /\ (kind = "none" => since <= StallPolls)
  /\ stage = "phase" => line.text \in {"torn", "step"}
  /\ stage = "phase" /\ line.text = "step" => line.step = step /\ line.count \in {-1, shown}
  /\ IF hung = "no" THEN hungFor = -1 ELSE hung = "workers" /\ stage = "phase" /\ hungFor >= 0

HungInv ==
  hung # "no" =>
    IF Final THEN hungFor <= W(torn) + MaxMissed + 1 + Stalling
    ELSE hungFor <= torn + beats /\ (line.text = "torn" => hungFor <= torn)

LEMMA Weight ==
  ASSUME StressAssumption
  PROVE  /\ \A k \in Nat : W(k) \in Nat /\ k <= W(k) /\ W(k + 1) = W(k) + StallPolls + 2
         /\ \A k \in 0 .. MaxTorn : W(k) <= W(MaxTorn)
BY DEF StressAssumption, W

LEMMA StillStep ==
  ASSUME StressAssumption, "all" \notin HangKinds, IInv, exit = -1, StillInv, Next
  PROVE  StillInv'
<1> USE DEF IInv, TypeOK, StillInv, viewVars, procVars, watchVars, outVars, histVars
<1>1. CASE Probe BY <1>1 DEF Probe, Torn, Probing
<1>2. CASE Plan BY <1>2 DEF Plan
<1>3. CASE StepAnnounced BY <1>3 DEF StepAnnounced, Runs, Announce, Moved, Torn
<1>4. CASE StepSaid BY <1>4 DEF StepSaid, Runs, SayStep, Said
<1>5. CASE Call BY <1>5 DEF Call, Moves, CallFinishes, Moved
<1>6. CASE BeatOpens BY <1>6 DEF BeatOpens, Moves, BeatOpen, Torn
<1>7. CASE BeatSays BY <1>7 DEF BeatSays, Moves, BeatSay, Said
<1>8. CASE PhaseEnds BY <1>8 DEF PhaseEnds, Runs, EndPhase
<1>9. CASE WriteResult BY <1>9 DEF WriteResult, Moves
<1>10. CASE GroupsOver BY <1>10 DEF GroupsOver, Runs, Finish
<1>11. CASE WriteComplete BY <1>11 DEF WriteComplete, Runs, Torn
<1>12. CASE Finishes BY <1>12 DEF Finishes, Runs, DoneLine
<1>13. CASE Hang BY <1>13 DEF Hang, StressAssumption
<1>14. CASE Race BY <1>14 DEF Race
<1>15. CASE TsanCrash BY <1>15 DEF TsanCrash
<1>16. CASE ReportFinishes BY <1>16 DEF ReportFinishes
<1>17. CASE TsanAborts BY <1>17 DEF TsanAborts
<1>18. CASE SignalDeath BY <1>18 DEF SignalDeath
<1>19. CASE Quits BY <1>19 DEF Quits
<1>20. CASE Kill BY <1>20 DEF Kill
<1>21. CASE Collect BY <1>21 DEF Collect
<1>22. CASE Poll BY <1>22 DEF Poll, Timely, Tick, Writing, Moves, Runs, Driving, StressAssumption
<1> QED BY <1>1, <1>2, <1>3, <1>4, <1>5, <1>6, <1>7, <1>8, <1>9, <1>10, <1>11, <1>12, <1>13,
           <1>14, <1>15, <1>16, <1>17, <1>18, <1>19, <1>20, <1>21, <1>22
     DEF Next, Driver, Faults, Over

LEMMA HungStep ==
  ASSUME StressAssumption, ~HasMutators, "all" \notin HangKinds, IInv, exit = -1,
         StillInv, HungInv, Next, ~Poll
  PROVE  HungInv'
<1> USE DEF IInv, TypeOK, StillInv, HungInv, Final, Stalling,
         viewVars, procVars, watchVars, outVars, histVars
<1>0. torn \in Nat /\ torn <= W(torn) /\ W(torn) \in Nat BY Weight
<1>1. CASE Probe BY <1>1, <1>0 DEF Probe, Torn, Probing
<1>2. CASE Plan BY <1>2, <1>0 DEF Plan
<1>3. CASE StepAnnounced BY <1>3, <1>0 DEF StepAnnounced, Runs, Announce, Moved, Torn
<1>4. CASE StepSaid BY <1>4, <1>0 DEF StepSaid, Runs, SayStep, Said
<1>5. CASE Call BY <1>5, <1>0 DEF Call, Moves, CallFinishes, Moved
<1>6. CASE BeatOpens BY <1>6, <1>0 DEF BeatOpens, Moves, BeatOpen, Torn, StressAssumption
<1>7. CASE BeatSays BY <1>7, <1>0 DEF BeatSays, Moves, BeatSay, Said
<1>8. CASE PhaseEnds BY <1>8, <1>0 DEF PhaseEnds, Runs, EndPhase
<1>9. CASE WriteResult BY <1>9, <1>0 DEF WriteResult, Moves
<1>10. CASE GroupsOver BY <1>10, <1>0 DEF GroupsOver, Runs, Finish
<1>11. CASE WriteComplete BY <1>11, <1>0 DEF WriteComplete, Runs, Torn
<1>12. CASE Finishes BY <1>12, <1>0 DEF Finishes, Runs, DoneLine
<1>13. CASE Hang BY <1>13, <1>0 DEF Hang, StressAssumption
<1>14. CASE Race BY <1>14, <1>0 DEF Race
<1>15. CASE TsanCrash BY <1>15, <1>0 DEF TsanCrash
<1>16. CASE ReportFinishes BY <1>16, <1>0 DEF ReportFinishes
<1>17. CASE TsanAborts BY <1>17, <1>0 DEF TsanAborts
<1>18. CASE SignalDeath BY <1>18, <1>0 DEF SignalDeath
<1>19. CASE Quits BY <1>19, <1>0 DEF Quits
<1>20. CASE Kill BY <1>20, <1>0 DEF Kill
<1>21. CASE Collect BY <1>21, <1>0 DEF Collect
<1> QED BY <1>1, <1>2, <1>3, <1>4, <1>5, <1>6, <1>7, <1>8, <1>9, <1>10, <1>11, <1>12, <1>13,
           <1>14, <1>15, <1>16, <1>17, <1>18, <1>19, <1>20, <1>21
     DEF Next, Driver, Faults, Over

LEMMA HungPoll ==
  ASSUME StressAssumption, IInv, StillInv, HungInv, Poll PROVE HungInv'
<1> SUFFICES ASSUME hung # "no" PROVE HungInv' BY DEF Poll, procVars, HungInv
<1>1. /\ hungFor' = hungFor + 1 /\ seen' = line
      /\ since' = (IF line # seen THEN 0 ELSE since + 1)
      /\ UNCHANGED <<viewVars, procVars>> /\ kind = "none" /\ Writing
  BY DEF Poll, Timely, Tick, StillInv, IInv, TypeOK, Writing, Moves
<1>2. beats' = beats + 1 /\ torn' = (IF line.text = "torn" THEN torn + 1 ELSE torn)
  BY <1>1 DEF Poll, Tick
<1>3. (Final' <=> Final) /\ line' = line BY <1>1 DEF Final, viewVars
<1>4. /\ torn \in Nat /\ W(torn) \in Nat /\ W(torn + 1) = W(torn) + StallPolls + 2
      /\ since \in Nat /\ hungFor \in Int /\ beats \in Nat
      /\ StallPolls \in Nat /\ MaxMissed \in Nat
  BY Weight DEF IInv, TypeOK, StressAssumption
<1>5. CASE ~Final
  <2>1. hungFor <= torn + beats /\ (line.text = "torn" => hungFor <= torn) BY <1>5 DEF HungInv
  <2>2. hungFor' <= torn' + beats' /\ (line'.text = "torn" => hungFor' <= torn')
    BY <2>1, <1>1, <1>2, <1>3, <1>4
  <2> QED BY <2>2, <1>5, <1>3 DEF HungInv
<1>6. CASE Final
  <2>1. hungFor <= W(torn) + MaxMissed + 1 + Stalling BY <1>6 DEF HungInv
  <2>2. Stalling \in Nat /\ Stalling <= StallPolls + 1 BY <1>1, <1>4 DEF Stalling, StillInv, Said
  <2>3. CASE line.text = "torn"
    <3>1. W(torn') = W(torn) + StallPolls + 2 BY <1>2, <1>4, <2>3
    <3>2. Stalling' = 0 BY <1>1, <2>3 DEF Stalling, Said
    <3>3. hungFor' <= W(torn') + MaxMissed + 1 + Stalling' BY <3>1, <3>2, <2>1, <2>2, <1>1, <1>4
    <3> QED BY <3>3, <1>6, <1>3 DEF HungInv
  <2>4. CASE line.text = "step"
    <3>0. line = Said(step, total)
      <4>1. line.step = step /\ line.count = total BY <1>1, <1>6, <2>4 DEF StillInv, Final
      <4> QED BY <4>1, <2>4 DEF IInv, TypeOK, Lines, Said
    <3>1. Stalling' = since' + 1 /\ torn' = torn BY <3>0, <1>1, <1>2, <2>4 DEF Stalling, viewVars
    <3>2. CASE line = seen
      <4>1. Stalling = since + 1 /\ since' = since + 1 BY <1>1, <3>0, <3>2 DEF Stalling
      <4>2. hungFor' <= W(torn) + MaxMissed + 1 + Stalling' BY <4>1, <3>1, <2>1, <1>1, <1>4
      <4> QED BY <4>2, <3>1, <1>6, <1>3 DEF HungInv
    <3>3. CASE line # seen
      <4>1. Stalling = 0 /\ Stalling' = 1 BY <1>1, <3>0, <3>1, <3>3 DEF Stalling
      <4>2. hungFor' <= W(torn) + MaxMissed + 1 + Stalling' BY <4>1, <2>1, <1>1, <1>4
      <4> QED BY <4>2, <3>1, <1>6, <1>3 DEF HungInv
    <3> QED BY <3>2, <3>3
  <2> QED BY <2>3, <2>4, <1>1 DEF StillInv
<1> QED BY <1>5, <1>6

\* Workers that are deadlocked are noticed within Bound polls, whatever else the
\* driver does and however its line is read, if no mutator keeps the count moving
\* and the heartbeat is not hung with them.
THEOREM HangsAreStopped ==
  ASSUME ~HasMutators, "all" \notin HangKinds PROVE Spec => []HangIsStopped
<1>1. Init => StillInv /\ HungInv
  BY StressAssumption DEF StressAssumption, Init, Start, StillInv, HungInv, Absent, Said
<1>2. IInv /\ StillInv /\ HungInv /\ [Next]_vars => StillInv' /\ HungInv'
  <2> SUFFICES ASSUME IInv, StillInv, HungInv, [Next]_vars PROVE StillInv' /\ HungInv' OBVIOUS
  <2>1. CASE UNCHANGED vars
    BY <2>1 DEF StillInv, HungInv, Final, Stalling, vars, viewVars, procVars, watchVars, histVars
  <2>2. CASE Next /\ exit # -1
    <3>1. UNCHANGED vars BY <2>2, EndIsEnd DEF IInv
    <3> QED BY <3>1, <2>1
  <2>3. CASE Next /\ exit = -1
    BY <2>3, StillStep, HungStep, HungPoll, StressAssumption
  <2> QED BY <2>1, <2>2, <2>3
<1>3. IInv /\ StillInv /\ HungInv => HangIsStopped
  <2> SUFFICES ASSUME IInv, StillInv, HungInv PROVE hungFor <= Bound BY DEF HangIsStopped
  <2>1. /\ torn \in Nat /\ torn <= MaxTorn /\ torn <= W(torn) /\ W(torn) <= W(MaxTorn)
        /\ W(torn) \in Nat /\ W(MaxTorn) \in Nat
        /\ MaxMissed \in Nat /\ StallPolls \in Nat /\ MaxTorn \in Nat
    BY Weight, StressAssumption DEF StillInv, IInv, TypeOK, StressAssumption
  <2>2. Bound = W(MaxTorn) + StallPolls + 2 + MaxMissed + 1
    BY <2>1 DEF Bound, W
  <2>3. Stalling \in Nat /\ Stalling <= StallPolls + 2
    BY <2>1 DEF Stalling, StillInv, IInv, TypeOK, Said
  <2>4. beats \in Nat /\ beats <= MaxMissed + 1 /\ hungFor \in Int
    BY DEF StillInv, IInv, TypeOK
  <2>5. CASE hung = "no"
    <3>1. hungFor = -1 BY <2>5 DEF StillInv
    <3> QED BY <3>1, <2>1, <2>2
  <2>6. CASE hung # "no" /\ Final
    <3>1. hungFor <= W(torn) + MaxMissed + 1 + Stalling BY <2>6 DEF HungInv
    <3> QED BY <3>1, <2>1, <2>2, <2>3, <2>4
  <2>7. CASE hung # "no" /\ ~Final
    <3>1. hungFor <= torn + beats BY <2>7 DEF HungInv
    <3> QED BY <3>1, <2>1, <2>2, <2>4
  <2> QED BY <2>5, <2>6, <2>7
<1> QED BY <1>1, <1>2, <1>3, AlwaysIInv, PTL DEF Spec
=============================================================================
