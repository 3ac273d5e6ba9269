------------------------------ MODULE CliProofs -----------------------------
(***************************************************************************)
(* Proofs about CiRun and Cli, for every suite, any number of calls in one *)
(* work directory, any commands and every machine: exit 1 is exactly a     *)
(* report on the extension in this run, exit 0 is earned by that very      *)
(* call, and the reports it was asked for tell what it tells.              *)
(***************************************************************************)
EXTENDS Cli, FiniteSetTheorems, TLAPS

-----------------------------------------------------------------------------
(* ftcheck ci.                                                               *)

Outcomes == {"passed", "failed", "errored", "skipped"}
Stages   == {"idle", "build", "venv", "install", "deps", "test", "session"}

\* The outcome of a test is one of four, and only tests of the session ran.
SessionInv ==
  /\ run \in Nat /\ at \in Stages /\ exit \in Int /\ pytest \in Int /\ counted \in Int
  /\ selected \subseteq Tests /\ Ran \subseteq selected
  /\ \A t \in Ran : results[t] \in Outcomes
  /\ Ran # {} => Collected
  /\ ~Collected => Ran = {}
  /\ "stopping after" \in says => pytest # 0 /\ pytest # 99
  /\ at \in Stages \ {"idle", "session"} => pytest = 99 /\ counted = -1 /\ says = {}

\* What was installed is this run's, from the moment it is installed.
InstalledInv ==
  /\ at = "build" => wheels = {}
  /\ at \in {"venv", "install"} => wheels = {run}
  /\ at \in {"deps", "test", "session"} => installed = run

\* The JUnit file is absent until this run's pytest writes what it ran.
JUnitInv == at = "session" => junit = NoFile \/ (junit = JUnit /\ pytest # 99)

\* Reports bear the number of a run that had a session; a verdict is reached
\* by the run that stands idle with it.
LogsInv ==
  /\ logs \subseteq [run: Nat, kind: {"yours", "external", "fatal"}]
  /\ \A l \in logs : l.run <= run
  /\ at \notin {"idle", "session"} => \A l \in logs : l.run < run
  /\ exit # -1 => at = "idle"

IInv == SessionInv /\ InstalledInv /\ JUnitInv /\ LogsInv /\ FindingsAreTheVerdict

\* The run has no report of its own before its session.
LEMMA NoReportYet == SessionInv /\ LogsInv /\ at \notin {"idle", "session"} => ~Yours
<1> SUFFICES ASSUME LogsInv, run \in Nat, at \notin {"idle", "session"}, Yours PROVE FALSE
  BY DEF SessionInv
<1> DEFINE mine == [run |-> run, kind |-> "yours"]
<1>1. mine \in logs /\ mine.run = run BY DEF Yours
<1> QED BY <1>1 DEF LogsInv

\* A step that leaves the session alone.
LEMMA SameSession ==
  ASSUME SessionInv, UNCHANGED <<run, sessionVars>>, at' \in Stages, exit' \in Int,
         at \in {"idle", "session"} => at' \in {"idle", "session"}
  PROVE  SessionInv'
<1>1. UNCHANGED <<run, selected, results, says, counted, pytest>> BY DEF sessionVars
<1>2. UNCHANGED Ran BY <1>1 DEF Ran
<1> QED BY <1>1, <1>2 DEF SessionInv, Collected

\* A report on the extension decides the verdict, and only it does.
LEMMA VerdictIsYours ==
  LogsInv => (Verdict = FINDINGS <=> Yours) /\ Verdict \in Int /\ Verdict # -1
<1> SUFFICES ASSUME LogsInv PROVE (Verdict = FINDINGS <=> Yours) /\ Verdict \in Int /\ Verdict # -1
  OBVIOUS
<1>1. "yours" \in Reports <=> Yours BY DEF Reports, Yours, LogsInv
<1> QED BY <1>1 DEF Verdict, FINDINGS, UNAVAILABLE, SUITE_FAILED, CLEAN

\* What SessionInv asks of the next state, with Ran and Collected primed.
LEMMA SessionIsWell ==
  ASSUME run' \in Nat, at' \in Stages, exit' \in Int, pytest' \in Int, counted' \in Int,
         selected' \subseteq Tests, Ran' \subseteq selected', \A t \in Ran' : results'[t] \in Outcomes,
         Ran' # {} => counted' >= 0,
         "stopping after" \in says' => pytest' # 0 /\ pytest' # 99,
         at' \in {"idle", "session"} \/ (pytest' = 99 /\ counted' = -1 /\ says' = {})
  PROVE  SessionInv'
BY DEF SessionInv, Collected

\* A step of the session that ends it.
LEMMA SessionOver ==
  ASSUME SessionInv, UNCHANGED <<run, at, exit, selected, results, counted>>, at = "session",
         pytest' \in Int, "stopping after" \in says' => pytest' # 0 /\ pytest' # 99
  PROVE  SessionInv'
<1>1. UNCHANGED Ran BY DEF Ran
<1>2. at' = "session" /\ run' \in Nat /\ exit' \in Int /\ counted' \in Int BY DEF SessionInv
<1>3. selected' \subseteq Tests /\ Ran' \subseteq selected' BY <1>1 DEF SessionInv
<1>4. \A t \in Ran' : results'[t] \in Outcomes BY <1>1 DEF SessionInv
<1>5. Ran' # {} => counted' >= 0 BY <1>1 DEF SessionInv, Collected
<1> QED BY <1>2, <1>3, <1>4, <1>5, SessionIsWell DEF Stages

LEMMA InitInv == Init => IInv
<1> SUFFICES ASSUME Init PROVE IInv OBVIOUS
<1> USE DEF Init
<1>1. SessionInv BY DEF SessionInv, Ran, Outcomes, Stages, Collected
<1>2. InstalledInv /\ JUnitInv BY DEF InstalledInv, JUnitInv
<1>3. LogsInv BY DEF LogsInv
<1>4. FindingsAreTheVerdict BY DEF FindingsAreTheVerdict
<1> QED BY <1>1, <1>2, <1>3, <1>4 DEF IInv

\* A step that gives up, before any session, with exit 3.
LEMMA GivingUp ==
  ASSUME SessionInv, LogsInv, at \notin {"idle", "session"}, NotDone, UNCHANGED <<run, logs>>
  PROVE  LogsInv' /\ FindingsAreTheVerdict'
<1>1. LogsInv' BY DEF LogsInv, NotDone, UNAVAILABLE
<1>2. ~Yours' BY NoReportYet DEF Yours
<1> QED BY <1>1, <1>2 DEF FindingsAreTheVerdict, NotDone, UNAVAILABLE, FINDINGS

\* A step that only goes on to the next stage.
LEMMA GoingOn ==
  ASSUME SessionInv, LogsInv, at \notin {"idle"}, UNCHANGED <<run, logs, exit>>,
         at' \in Stages, at' = at \/ (at # "session" /\ at' # "idle")
  PROVE  LogsInv' /\ FindingsAreTheVerdict'
BY DEF LogsInv, FindingsAreTheVerdict

LEMMA StepInv == ASSUME CiAssumption, IInv, [Next]_vars PROVE IInv'
<1> USE DEF IInv
<1>1. CASE UNCHANGED vars
  <2> USE <1>1 DEF vars, diskVars, sessionVars
  <2>1. SessionInv' BY DEF SessionInv, Ran, Collected
  <2>2. InstalledInv' BY DEF InstalledInv
  <2>3. JUnitInv' BY DEF JUnitInv, JUnit, Ran, With, Count, NoFile
  <2>4. LogsInv' BY DEF LogsInv
  <2>5. FindingsAreTheVerdict' BY DEF FindingsAreTheVerdict, Yours
  <2> QED BY <2>1, <2>2, <2>3, <2>4, <2>5
<1>2. CASE Start
  <2> USE <1>2 DEF Start
  <2>1. SessionInv'
    <3>1. DOMAIN results' = {} OBVIOUS
    <3>2. run \in Nat BY DEF SessionInv
    <3>3. run' \in Nat /\ at' \in Stages /\ exit' \in Int BY <3>2 DEF Stages
    <3>4. Ran' = {} /\ says' = {} /\ selected' = {} /\ pytest' = 99 /\ counted' = -1 BY <3>1 DEF Ran
    <3>5. \A t \in Ran' : results'[t] \in Outcomes BY <3>4
    <3> HIDE <1>2 DEF Start, IInv
    <3> QED BY <3>3, <3>4, <3>5, SessionIsWell
  <2>2. InstalledInv' /\ JUnitInv' BY DEF InstalledInv, JUnitInv
  <2>0. run \in Nat /\ \A l \in logs : l.run \in Nat /\ l.run <= run
    BY DEF LogsInv, SessionInv
  <2>3. LogsInv' BY <2>0 DEF LogsInv
  <2>4. FindingsAreTheVerdict' BY DEF FindingsAreTheVerdict
  <2> QED BY <2>1, <2>2, <2>3, <2>4
<1>3. CASE Build
  <2> USE <1>3 DEF Build, sessionVars
  <2>0. at' \in Stages /\ exit' \in Int /\ at \notin {"idle", "session"}
    <3>1. at' \in Stages /\ at \notin {"idle", "session"} BY DEF NotDone, Stages
    <3>2. exit \in Int BY DEF SessionInv
    <3>3. exit' = exit \/ exit' = UNAVAILABLE BY DEF NotDone
    <3> QED BY <3>1, <3>2, <3>3 DEF UNAVAILABLE
  <2>1. SessionInv' BY <2>0, SameSession
  <2>2. InstalledInv' /\ JUnitInv' BY DEF NotDone, InstalledInv, JUnitInv
  <2>3. CASE NotDone BY <2>1, <2>2, <2>3, GivingUp
  <2>4. CASE at' = "venv" /\ UNCHANGED exit BY <2>1, <2>2, <2>4, GoingOn DEF Stages
  <2> QED BY <2>3, <2>4
<1>4. CASE MakeVenv
  <2> USE <1>4 DEF MakeVenv, sessionVars
  <2>0. at' \in Stages /\ exit' \in Int /\ at \notin {"idle", "session"}
    <3>1. at' \in Stages /\ at \notin {"idle", "session"} BY DEF NotDone, Stages
    <3>2. exit \in Int BY DEF SessionInv
    <3>3. exit' = exit \/ exit' = UNAVAILABLE BY DEF NotDone
    <3> QED BY <3>1, <3>2, <3>3 DEF UNAVAILABLE
  <2>1. SessionInv' BY <2>0, SameSession
  <2>2. InstalledInv' /\ JUnitInv' BY DEF NotDone, InstalledInv, JUnitInv
  <2>3. CASE NotDone BY <2>1, <2>2, <2>3, GivingUp
  <2>4. CASE at' = "install" /\ UNCHANGED exit BY <2>1, <2>2, <2>4, GoingOn DEF Stages
  <2> QED BY <2>3, <2>4
<1>5. CASE Install
  <2> USE <1>5 DEF Install, sessionVars
  <2>0. at' \in Stages /\ exit' \in Int /\ at \notin {"idle", "session"}
    <3>1. at' \in Stages /\ at \notin {"idle", "session"} BY DEF NotDone, Stages
    <3>2. exit \in Int BY DEF SessionInv
    <3>3. exit' = exit \/ exit' = UNAVAILABLE BY DEF NotDone
    <3> QED BY <3>1, <3>2, <3>3 DEF UNAVAILABLE
  <2>1. SessionInv' BY <2>0, SameSession
  <2>2. InstalledInv' /\ JUnitInv' BY DEF NotDone, InstalledInv, JUnitInv
  <2>3. CASE NotDone BY <2>1, <2>2, <2>3, GivingUp
  <2>4. CASE at' = "deps" /\ UNCHANGED exit BY <2>1, <2>2, <2>4, GoingOn DEF Stages
  <2> QED BY <2>3, <2>4
<1>6. CASE InstallDeps
  <2> USE <1>6 DEF InstallDeps, sessionVars, diskVars
  <2>0. at' \in Stages /\ exit' \in Int /\ at \notin {"idle", "session"}
    <3>1. at' \in Stages /\ at \notin {"idle", "session"} BY DEF NotDone, Stages
    <3>2. exit \in Int BY DEF SessionInv
    <3>3. exit' = exit \/ exit' = UNAVAILABLE BY DEF NotDone
    <3> QED BY <3>1, <3>2, <3>3 DEF UNAVAILABLE
  <2>1. SessionInv' BY <2>0, SameSession
  <2>2. InstalledInv' /\ JUnitInv' BY DEF NotDone, InstalledInv, JUnitInv
  <2>3. CASE NotDone BY <2>1, <2>2, <2>3, GivingUp
  <2>4. CASE at' = "test" /\ UNCHANGED exit BY <2>1, <2>2, <2>4, GoingOn DEF Stages
  <2> QED BY <2>3, <2>4
<1>7. CASE StartTests
  <2> USE <1>7 DEF StartTests, sessionVars, diskVars
  <2>1. SessionInv' BY DEF SessionInv, Ran, Collected, Stages
  <2>2. InstalledInv' /\ JUnitInv' BY DEF InstalledInv, JUnitInv
  <2> QED BY <2>1, <2>2, GoingOn DEF Stages
<1>8. CASE CollectTests
  <2> USE <1>8 DEF CollectTests, diskVars
  <2>0. Cardinality(Tests) \in Nat /\ \A S \in SUBSET Tests : Cardinality(S) \in Nat
    BY FS_CardinalityType, FS_Subset DEF CiAssumption
  <2>1. counted' \in Nat /\ selected' \subseteq Tests BY <2>0
  <2>2. Ran = {} /\ Ran' = {} /\ says' = says /\ pytest' = pytest BY DEF SessionInv, Ran
  <2>6. run' \in Nat /\ at' = "session" /\ exit' \in Int /\ pytest' \in Int BY DEF SessionInv
  <2>7. "stopping after" \in says' => pytest' # 0 /\ pytest' # 99 BY <2>2 DEF SessionInv
  <2>8. counted' >= 0 BY <2>1
  <2>5. SessionInv'
    <3> HIDE <1>8 DEF CollectTests, IInv
    <3>1. Ran' \subseteq selected' /\ \A t \in Ran' : results'[t] \in Outcomes BY <2>2
    <3>2. counted' \in Int BY <2>1
    <3> QED BY <3>1, <3>2, <2>1, <2>2, <2>6, <2>7, <2>8, SessionIsWell DEF Stages
  <2>3. InstalledInv' BY DEF InstalledInv
  <2>4. JUnitInv' BY DEF JUnitInv
  <2> QED BY <2>3, <2>4, <2>5, GoingOn DEF SessionInv
<1>9. CASE RunTest
  <2> USE <1>9 DEF RunTest, diskVars
  <2>4. PICK t \in selected \ Ran : \E r \in Outcomes :
          results' = [u \in Ran \cup {t} |-> IF u = t THEN r ELSE results[u]]
    BY DEF Outcomes
  <2>5. Ran' = Ran \cup {t} BY <2>4 DEF Ran
  <2>6. \A u \in Ran' : results'[u] \in Outcomes BY <2>4, <2>5 DEF SessionInv
  <2>7. /\ run' \in Nat /\ at' = "session" /\ exit' \in Int /\ pytest' \in Int /\ counted' \in Int
        /\ selected' \subseteq Tests /\ counted' >= 0 /\ says' = says /\ pytest' = pytest
    BY DEF SessionInv, Collected
  <2>8. Ran' \subseteq selected' BY <2>5 DEF SessionInv
  <2>9. "stopping after" \in says' => pytest' # 0 /\ pytest' # 99 BY <2>7 DEF SessionInv
  <2>1. SessionInv'
    <3> HIDE <1>9 DEF RunTest
    <3> QED BY <2>6, <2>7, <2>8, <2>9, SessionIsWell DEF Stages
  <2>2. InstalledInv' BY DEF InstalledInv
  <2>3. JUnitInv' BY DEF JUnitInv
  <2> QED BY <2>1, <2>2, <2>3, GoingOn DEF SessionInv
<1>10. CASE Report
  <2> USE <1>10 DEF Report, sessionVars
  <2>0. run \in Nat /\ at' \in Stages /\ exit' \in Int BY DEF SessionInv
  <2>1. SessionInv' BY <2>0, SameSession
  <2>2. InstalledInv' BY DEF InstalledInv
  <2>3. JUnitInv' BY DEF JUnitInv
  <2>4. LogsInv'
    <3> SUFFICES ASSUME NEW k \in {"yours", "external", "fatal"},
                        logs' = logs \cup {[run |-> run, kind |-> k]}
                 PROVE  LogsInv'
      OBVIOUS
    <3> QED BY <2>0 DEF LogsInv
  <2>5. FindingsAreTheVerdict' BY DEF FindingsAreTheVerdict, LogsInv
  <2> QED BY <2>1, <2>2, <2>3, <2>4, <2>5
<1>11. CASE SessionEnds
  <2> USE <1>11 DEF SessionEnds, diskVars, Ends
  <2>0. UNCHANGED <<run, at, exit, selected, results, counted>> /\ at = "session" OBVIOUS
  <2>4. pytest' \in Int OBVIOUS
  <2>5. "stopping after" \in says => pytest # 0 /\ pytest # 99 BY DEF SessionInv
  <2>6. "stopping after" \in says' => pytest' # 0 /\ pytest' # 99 BY <2>5
  <2>1. SessionInv'
    <3> HIDE <1>11 DEF SessionEnds, Ends
    <3> QED BY <2>0, <2>4, <2>6, SessionOver
  <2>2. InstalledInv' BY DEF InstalledInv
  <2>3. JUnitInv' BY DEF JUnitInv, JUnit, Ran, With, Count, NoFile
  <2> QED BY <2>1, <2>2, <2>3, GoingOn DEF SessionInv
<1>12. CASE SessionStops
  <2> USE <1>12 DEF SessionStops, diskVars
  <2>0. UNCHANGED <<run, at, exit, selected, results, counted>> /\ at = "session" /\ pytest = 99
    OBVIOUS
  <2>1. "stopping after" \notin says BY <2>0 DEF SessionInv
  <2>2. /\ pytest' \in {0, 1, 2, 3, 4}
        /\ "stopping after" \in says' => pytest' = 1
        /\ junit' = JUnit \/ junit' = junit
    BY <2>1 DEF Ends
  <2>3. /\ pytest' \in Int /\ pytest' # 99
        /\ "stopping after" \in says' => pytest' # 0 /\ pytest' # 99
    <3> HIDE <1>12 DEF SessionStops, IInv
    <3>1. \A c \in {0, 1, 2, 3, 4} : c \in Int /\ c # 99 OBVIOUS
    <3>2. pytest' \in Int /\ pytest' # 99 BY <2>2, <3>1
    <3>3. pytest' = 1 => pytest' # 0 OBVIOUS
    <3> QED BY <2>2, <3>2, <3>3
  <2>4. SessionInv'
    <3> HIDE <1>12 DEF SessionStops
    <3> QED BY <2>0, <2>3, SessionOver
  <2>5. InstalledInv' BY DEF InstalledInv
  <2>6. JUnitInv'
    <3>3. junit = NoFile \/ junit = JUnit BY <2>0 DEF JUnitInv
    <3> HIDE <1>12 DEF SessionStops, IInv
    <3>1. JUnit' = JUnit BY <2>0 DEF JUnit, Ran, With, Count
    <3> QED BY <2>2, <2>3, <3>1, <3>3 DEF JUnitInv, NoFile
  <2> QED BY <2>4, <2>5, <2>6, GoingOn DEF SessionInv
<1>13. CASE SessionDies
  <2> USE <1>13 DEF SessionDies, diskVars, Ends
  <2>0. UNCHANGED <<run, at, exit, selected, results, counted>> /\ at = "session" OBVIOUS
  <2>4. pytest' \in Int OBVIOUS
  <2>5. "stopping after" \in says => pytest # 0 /\ pytest # 99 BY DEF SessionInv
  <2>6. "stopping after" \in says' => pytest' # 0 /\ pytest' # 99
    <3>1. CASE pytest = 99 BY <2>5, <3>1
    <3>2. CASE pytest' = -9
      <4> HIDE <1>13 DEF SessionDies, IInv
      <4>1. -9 # 0 /\ -9 # 99 OBVIOUS
      <4> QED BY <3>2, <4>1
    <3> QED BY <3>1, <3>2
  <2>1. SessionInv'
    <3> HIDE <1>13 DEF SessionDies, Ends
    <3> QED BY <2>0, <2>4, <2>6, SessionOver
  <2>2. InstalledInv' BY DEF InstalledInv
  <2>3. JUnitInv' BY DEF JUnitInv, JUnit, Ran, With, Count, NoFile
  <2> QED BY <2>1, <2>2, <2>3, GoingOn DEF SessionInv
<1>14. CASE Collect
  <2> USE <1>14 DEF Collect, sessionVars, diskVars
  <2>1. SessionInv' BY VerdictIsYours DEF SessionInv, Ran, Collected, Stages
  <2>2. InstalledInv' /\ JUnitInv' BY DEF InstalledInv, JUnitInv
  <2>3. LogsInv' BY DEF LogsInv
  <2>4. FindingsAreTheVerdict' BY VerdictIsYours DEF FindingsAreTheVerdict, Yours
  <2> QED BY <2>1, <2>2, <2>3, <2>4
<1>15. CASE Stopped
  <2> USE <1>15 DEF Stopped, sessionVars
  <2>1. SessionInv' BY DEF SessionInv, Ran, Collected, Stages
  <2>2. InstalledInv' /\ JUnitInv' BY DEF InstalledInv, JUnitInv
  <2>3. exit' = -1 BY DEF LogsInv
  <2>4. LogsInv' BY <2>3 DEF LogsInv
  <2>5. FindingsAreTheVerdict' BY <2>3 DEF FindingsAreTheVerdict
  <2> QED BY <2>1, <2>2, <2>4, <2>5
<1> QED
  BY <1>1, <1>2, <1>3, <1>4, <1>5, <1>6, <1>7, <1>8, <1>9, <1>10, <1>11, <1>12, <1>13, <1>14, <1>15
  DEF Next

\* Exit 1 is exactly a report on the extension in this run, for every suite
\* and every history of the work directory (verdict, collect, _new_tsan_dir).
THEOREM OnlyFindingsFail == Spec => []FindingsAreTheVerdict
<1>1. Spec => []IInv BY InitInv, StepInv, CiAssumption, PTL DEF Spec
<1>2. IInv => FindingsAreTheVerdict BY DEF IInv
<1> QED BY <1>1, <1>2, PTL

-----------------------------------------------------------------------------
\* Held against the count of the whole suite, a session whose numbers suffice ran
\* every selected test.
LEMMA WholeCount ==
  ASSUME CiAssumption, SessionInv, CountIsWhole, junit = JUnit,
         ~(Executed + junit.skipped + Deselected < counted)
  PROVE  Ran = selected
<1> DEFINE r == Cardinality(Ran)  s == Cardinality(selected)  d == Cardinality(Tests \ selected)
<1>1. IsFiniteSet(Tests) /\ selected \subseteq Tests /\ Ran \subseteq selected
  BY DEF SessionInv, CiAssumption
<1>2. IsFiniteSet(selected) /\ IsFiniteSet(Ran) /\ IsFiniteSet(Tests \ selected)
  BY <1>1, FS_Subset
<1>3. IsFiniteSet(With("skipped"))
  <2>1. With("skipped") \subseteq Ran BY DEF With
  <2> QED BY <1>2, <2>1, FS_Subset
<1>4. r \in Nat /\ s \in Nat /\ d \in Nat /\ Count("skipped") \in Nat
  BY <1>2, <1>3, FS_CardinalityType DEF Count
<1>5. counted = s + d
  <2>1. Tests \cap selected = selected BY <1>1
  <2>2. d = Cardinality(Tests) - s BY <1>1, <2>1, FS_Difference
  <2>3. Cardinality(Tests) \in Nat BY <1>1, FS_CardinalityType
  <2>4. Cardinality(Tests) = s + d BY <2>2, <2>3, <1>4
  <2> QED BY <2>4 DEF CountIsWhole
<1>6. Executed + junit.skipped = r
  <2>1. junit.tests = r /\ junit.skipped = Count("skipped") BY DEF JUnit
  <2> QED BY <2>1, <1>4 DEF Executed
<1>7. Deselected = d \/ Deselected = 0 BY DEF Deselected
<1>8. r >= s BY <1>4, <1>5, <1>6, <1>7
<1>9. r <= s /\ (s = r => selected = Ran) BY <1>1, <1>2, FS_Subset
<1> QED BY <1>4, <1>8, <1>9

\* What the numbers of a clean verdict say of the sets they count.
LEMMA CleanVerdict ==
  ASSUME CiAssumption, IInv, at = "session", Verdict = CLEAN
  PROVE  /\ installed = run /\ ~Yours
         /\ With("passed") # {} /\ With("failed") \cup With("errored") = {}
         /\ CountIsWhole => Ran = selected
<1>1. /\ "yours" \notin Reports /\ ~StoppedEarly /\ Executed # 0 /\ pytest = 0
      /\ ~(junit.failed > 0) /\ ~(junit.errored > 0)
  BY DEF Verdict, Aborted, CLEAN, FINDINGS, UNAVAILABLE, SUITE_FAILED
<1>2. installed = run /\ ~Yours BY <1>1 DEF IInv, InstalledInv, Reports, Yours
<1>3. junit # NoFile BY <1>1 DEF Executed, NoFile
<1>4. junit = JUnit BY <1>3 DEF IInv, JUnitInv
<1>5. /\ IsFiniteSet(Tests) /\ selected \subseteq Tests /\ Ran \subseteq selected
      /\ \A t \in Ran : results[t] \in Outcomes
  BY DEF IInv, SessionInv, CiAssumption
<1>6. IsFiniteSet(selected) /\ IsFiniteSet(Ran) BY <1>5, FS_Subset
<1>7. \A r \in Outcomes : With(r) \subseteq Ran /\ IsFiniteSet(With(r)) /\ Count(r) \in Nat
  <2>1. \A r \in Outcomes : With(r) \subseteq Ran BY DEF With
  <2> QED BY <2>1, <1>6, FS_Subset, FS_CardinalityType DEF Count
<1>8. /\ junit.tests = Cardinality(Ran) /\ junit.failed = Count("failed")
      /\ junit.errored = Count("errored") /\ junit.skipped = Count("skipped")
  BY <1>4 DEF JUnit
<1>9. With("failed") \cup With("errored") = {}
  <2>1. Count("failed") = 0 /\ Count("errored") = 0 BY <1>1, <1>7, <1>8 DEF Outcomes
  <2> QED BY <2>1, <1>7, FS_EmptySet DEF Count, Outcomes
<1>10. With("passed") # {}
  <2> SUFFICES ASSUME With("passed") = {} PROVE FALSE OBVIOUS
  <2>1. Ran = With("skipped") BY <1>5, <1>9 DEF With, Outcomes
  <2>2. Executed = Cardinality(Ran) - Cardinality(Ran) BY <2>1, <1>8 DEF Executed, Count
  <2>3. Cardinality(Ran) \in Nat BY <1>6, FS_CardinalityType
  <2> QED BY <2>2, <2>3, <1>1
<1>11. ASSUME CountIsWhole PROVE Ran = selected
  <2>1. Collected BY <1>10 DEF IInv, SessionInv, With
  <2>2. "stopping after" \notin says BY <1>1 DEF IInv, SessionInv
  <2>3. ~(Executed + junit.skipped + Deselected < counted) BY <1>1, <2>1, <2>2 DEF StoppedEarly
  <2> QED BY <1>4, <1>11, <2>3, WholeCount DEF IInv
<1> QED BY <1>2, <1>9, <1>10, <1>11

LEMMA InitClean == Init => CleanIsEarned
BY DEF Init, CleanIsEarned, CLEAN

\* Only Collect gives exit 0, and only Start follows it.
LEMMA CleanStaysEarned ==
  ASSUME CiAssumption, IInv, CleanIsEarned, [Next]_vars PROVE CleanIsEarned'
<1>1. CASE Collect
  <2> USE <1>1 DEF Collect, diskVars, sessionVars
  <2>1. UNCHANGED <<installed, run, logs, selected, results, counted>> OBVIOUS
  <2>2. ASSUME exit' = CLEAN
        PROVE  /\ installed' = run' /\ ~Yours' /\ (CountIsWhole => Ran = selected)'
               /\ With("passed")' # {} /\ (With("failed") \cup With("errored"))' = {}
    BY <2>1, <2>2, CleanVerdict DEF Yours, Ran, With, CountIsWhole
  <2> QED BY <2>2 DEF CleanIsEarned
<1>2. CASE at = "idle" /\ ~Start
  <2>1. UNCHANGED vars
    BY <1>2 DEF Next, Build, MakeVenv, Install, InstallDeps, StartTests, CollectTests, RunTest,
       Report, SessionEnds, SessionStops, SessionDies, Collect, Stopped
  <2> QED BY <2>1 DEF vars, diskVars, sessionVars, CleanIsEarned, Yours, Ran, With, CountIsWhole
<1>3. CASE Start \/ (at # "idle" /\ ~Collect)
  <2>1. at # "idle" => exit = -1 BY DEF IInv, LogsInv
  <2>2. exit' = exit \/ exit' \in {-1, UNAVAILABLE}
    BY <1>3 DEF Next, vars, Start, Build, MakeVenv, Install, InstallDeps, StartTests, CollectTests,
       RunTest, Report, SessionEnds, SessionStops, SessionDies, Stopped, NotDone
  <2>3. Start => exit' = -1 BY DEF Start
  <2>4. exit' # CLEAN BY <1>3, <2>1, <2>2, <2>3 DEF CLEAN, UNAVAILABLE
  <2> QED BY <2>4 DEF CleanIsEarned
<1> QED BY <1>1, <1>2, <1>3 DEF Collect

\* Exit 0 is earned: this run's extension was tested, nothing was reported on
\* it, at least one test passed and none failed; and every selected test ran,
\* as long as the session was held against the count of the whole suite
\* (_count_tests, _read_session, verdict).
THEOREM ExitZeroIsEarned == Spec => []CleanIsEarned
<1>1. Init => IInv /\ CleanIsEarned BY InitInv, InitClean
<1>2. IInv /\ CleanIsEarned /\ [Next]_vars => (IInv /\ CleanIsEarned)'
  BY StepInv, CleanStaysEarned, CiAssumption
<1> QED BY <1>1, <1>2, PTL DEF Spec

-----------------------------------------------------------------------------
Failing == With("failed") \cup With("errored")

EndingCodes == {-9, 0, 1, 2, 3, 4, 5, 99}

\* What pytest says of its end: "stopping after" and status 1 of a session that wrote
\* its results are about a failure, or about an end that came early.
EndingInv ==
  /\ pytest \in EndingCodes
  /\ "stopping after" \in says => Failing # {}
  /\ at = "session" /\ pytest = 1 /\ junit # NoFile => Failing # {} \/ Ran # selected

LEMMA FailedVerdict ==
  ASSUME CiAssumption, IInv, EndingInv, at = "session", pytest # 99, Verdict = SUITE_FAILED
  PROVE  IF pytest = -9 THEN junit.run = run
         ELSE CountIsWhole => Failing # {} /\ (Ran = selected \/ "stopping after" \in says)
<1>1. /\ ~StoppedEarly /\ pytest \notin {2, 3, 4, 5} /\ Executed # 0
      /\ pytest # 0 \/ junit.failed > 0 \/ junit.errored > 0
  BY DEF Verdict, Aborted, CLEAN, FINDINGS, UNAVAILABLE, SUITE_FAILED
<1>2. junit # NoFile BY <1>1 DEF Executed, NoFile
<1>3. junit = JUnit BY <1>2 DEF IInv, JUnitInv
<1>4. SessionInv BY DEF IInv
<1>5. ASSUME pytest # -9, CountIsWhole PROVE Failing # {} /\ (Ran = selected \/ "stopping after" \in says)
  <2>1. pytest \in {0, 1} BY <1>1, <1>5 DEF EndingInv, EndingCodes
  <2>2. Collected
    <3>1. Ran # {}
      <4> SUFFICES ASSUME Ran = {} PROVE FALSE OBVIOUS
      <4>1. With("skipped") = {} BY DEF With
      <4>2. Cardinality({}) = 0 BY FS_EmptySet
      <4>3. junit.tests = 0 /\ junit.skipped = 0 BY <1>3, <4>1, <4>2 DEF JUnit, Count
      <4> QED BY <1>1, <4>3 DEF Executed
    <3> QED BY <1>4, <3>1 DEF SessionInv
  <2>3. "stopping after" \in says \/ ~(Executed + junit.skipped + Deselected < counted)
    BY <1>1, <2>1, <2>2 DEF StoppedEarly
  <2>4. Ran = selected \/ "stopping after" \in says BY <1>3, <1>4, <1>5, <2>3, WholeCount
  <2>5. ASSUME Failing = {} PROVE FALSE
    <3>1. Count("failed") = 0 /\ Count("errored") = 0
      BY <2>5, FS_EmptySet DEF Failing, Count
    <3>2. pytest = 1 BY <1>1, <1>3, <2>1, <3>1 DEF JUnit
    <3>3. Ran # selected BY <1>2, <2>5, <3>2 DEF EndingInv
    <3> QED BY <2>4, <2>5, <3>3 DEF EndingInv
  <2> QED BY <2>4, <2>5
<1>6. junit.run = run BY <1>3 DEF JUnit
<1> QED BY <1>5, <1>6

\* A step of the session, or one that only leaves or enters it.
LEMMA EndingStepOf ==
  ASSUME pytest' \in EndingCodes,
         "stopping after" \in says' => Failing' # {},
         at' = "session" /\ pytest' = 1 /\ junit' # NoFile => Failing' # {} \/ Ran' # selected'
  PROVE  EndingInv'
BY DEF EndingInv

LEMMA EndingStep == ASSUME IInv, EndingInv, [Next]_vars PROVE EndingInv'
<1>0. results' = results => UNCHANGED <<Ran, Failing>> BY DEF Failing, With, Ran
<1>10. /\ at = "test" => pytest = 99
       /\ pytest \in Int /\ 99 # 1
       /\ pytest = 99 => "stopping after" \notin says
  <2>1. SessionInv BY DEF IInv
  <2>2. at = "test" => at \in Stages \ {"idle", "session"} BY DEF Stages
  <2>3. pytest \in Int BY <2>1 DEF SessionInv
  <2>6. 99 # 1 OBVIOUS
  <2>4. at = "test" => pytest = 99 BY <2>1, <2>2 DEF SessionInv
  <2>5. pytest = 99 => "stopping after" \notin says BY <2>1 DEF SessionInv
  <2> QED BY <2>3, <2>4, <2>5, <2>6
<1>1. CASE UNCHANGED vars BY <1>0, <1>1 DEF vars, sessionVars, EndingInv
<1>2. 99 \in EndingCodes /\ \A n \in {-9, 0, 1, 2, 3, 4, 5} : n \in EndingCodes BY DEF EndingCodes
<1>3. CASE Start
  <2>1. says' = {} /\ pytest' = 99 BY <1>3 DEF Start
  <2>2. "stopping after" \notin says' /\ pytest' # 1 BY <2>1
  <2> QED BY <1>2, <2>1, <2>2, EndingStepOf
<1>4. CASE Build \/ MakeVenv \/ Install \/ InstallDeps \/ StartTests \/ Collect \/ Stopped
  <2>1. UNCHANGED sessionVars /\ (at' = "session" => at = "test")
    BY <1>4 DEF Build, MakeVenv, Install, InstallDeps, StartTests, Collect, Stopped, NotDone
  <2>2. at = "test" => pytest # 1 BY <1>10
  <2>3. UNCHANGED <<selected, results, says, pytest>> BY <2>1 DEF sessionVars
  <2>4. pytest' \in EndingCodes /\ ("stopping after" \in says' => Failing' # {}) BY <1>0, <2>3 DEF EndingInv
  <2> QED BY <2>1, <2>2, <2>3, <2>4, EndingStepOf
<1>5. CASE CollectTests \/ Report
  <2>1. pytest' = 99 /\ UNCHANGED <<results, says>> BY <1>5 DEF CollectTests, Report, sessionVars
  <2>2. "stopping after" \in says' => Failing' # {} BY <1>0, <2>1 DEF EndingInv
  <2>3. pytest' # 1 BY <2>1
  <2> QED BY <1>2, <2>1, <2>2, <2>3, EndingStepOf
<1>6. CASE RunTest
  <2>1. pytest' = 99 /\ pytest = 99 /\ UNCHANGED says BY <1>6 DEF RunTest
  <2>2. "stopping after" \notin says' /\ pytest' # 1 BY <1>10, <2>1
  <2> QED BY <1>2, <2>1, <2>2, EndingStepOf
<1>7. CASE SessionEnds
  <2>1. UNCHANGED <<selected, results>> /\ says' = says \cup {"deselected"} BY <1>7 DEF SessionEnds
  <2>2. pytest' \in {0, 1, 5} /\ (pytest' = 1 => Failing # {}) BY <1>7 DEF SessionEnds, Ends, Failing
  <2>3. "stopping after" \in says' => "stopping after" \in says BY <2>1
  <2>4. "stopping after" \in says' => Failing' # {} BY <1>0, <2>1, <2>3 DEF EndingInv
  <2>5. pytest' \in EndingCodes BY <1>2, <2>2
  <2> QED BY <1>0, <2>1, <2>2, <2>4, <2>5, EndingStepOf
<1>8. CASE SessionStops
  <2>1. UNCHANGED <<selected, results>> BY <1>8 DEF SessionStops
  <2> DEFINE Says(more) == says' = says \cup more
  <2>2. \/ Failing # {} /\ pytest' = 1
        \/ pytest' = 3 /\ Says({"INTERNALERROR"})
        \/ pytest' = 2 /\ Says({"deselected"})
        \/ pytest' = 4 /\ says' = says
        \/ pytest' \in {0, 1} /\ Ran # selected /\ Says({"deselected"})
    <3> HIDE DEF With, Ran
    <3> QED BY <1>8 DEF SessionStops, Ends, Failing
  <2>3. \A more : Says(more) /\ "stopping after" \in says' => "stopping after" \in says \cup more OBVIOUS
  <2>7. "stopping after" \in says' => "stopping after" \in says \/ Failing # {}
    <3>1. "stopping after" \notin {"INTERNALERROR"} /\ "stopping after" \notin {"deselected"} OBVIOUS
    <3> HIDE DEF Says
    <3> QED BY <2>2, <2>3, <3>1
  <2>4. "stopping after" \in says' => Failing' # {} BY <1>0, <2>1, <2>7 DEF EndingInv
  <2>5. pytest' = 1 => Failing # {} \/ Ran # selected BY <2>2
  <2>6. pytest' \in EndingCodes BY <1>2, <2>2
  <2> QED BY <1>0, <2>1, <2>4, <2>5, <2>6, EndingStepOf
<1>9. CASE SessionDies
  <2>1. UNCHANGED <<at, junit, selected, results, says>> BY <1>9 DEF SessionDies, Ends
  <2>2. pytest' \in {0, 1, -9} /\ at = "session" /\ (pytest' = 1 => pytest = 99) BY <1>9 DEF SessionDies, Ends
  <2>3. pytest = 99 => junit = NoFile BY <2>2 DEF IInv, JUnitInv
  <2>4. pytest' \in EndingCodes BY <1>2, <2>2
  <2>5. "stopping after" \in says' => Failing' # {} BY <1>0, <2>1 DEF EndingInv
  <2>6. pytest' = 1 => junit' = NoFile BY <2>1, <2>2, <2>3
  <2>7. UNCHANGED NoFile BY DEF NoFile
  <2> QED BY <2>4, <2>5, <2>6, EndingStepOf
<1> QED BY <1>1, <1>3, <1>4, <1>5, <1>6, <1>7, <1>8, <1>9 DEF Next

LEMMA SuiteStays ==
  ASSUME CiAssumption, IInv, EndingInv, SuiteFailedIsTheSuite, [Next]_vars PROVE SuiteFailedIsTheSuite'
<1>1. CASE Collect
  <2>1. at = "session" /\ pytest # 99 /\ exit' = Verdict /\ UNCHANGED <<run, junit, sessionVars>>
    BY <1>1 DEF Collect
  <2>2. UNCHANGED <<run, junit, selected, results, says, counted, pytest>> BY <2>1 DEF sessionVars
  <2> QED BY <2>1, <2>2, FailedVerdict DEF SuiteFailedIsTheSuite, Failing, Ran, With, CountIsWhole
<1>2. CASE at = "idle" /\ ~Start
  <2>1. UNCHANGED vars
    BY <1>2 DEF Next, Build, MakeVenv, Install, InstallDeps, StartTests, CollectTests, RunTest,
       Report, SessionEnds, SessionStops, SessionDies, Collect, Stopped
  <2> QED BY <2>1 DEF vars, sessionVars, SuiteFailedIsTheSuite, Ran, With, CountIsWhole
<1>3. CASE Start \/ (at # "idle" /\ ~Collect)
  <2>1. at # "idle" => exit = -1 BY DEF IInv, LogsInv
  <2>2. exit' = exit \/ exit' \in {-1, UNAVAILABLE}
    BY <1>3 DEF Next, vars, Start, Build, MakeVenv, Install, InstallDeps, StartTests, CollectTests,
       RunTest, Report, SessionEnds, SessionStops, SessionDies, Stopped, NotDone
  <2>3. Start => exit' = -1 BY DEF Start
  <2>4. exit' # SUITE_FAILED BY <1>3, <2>1, <2>2, <2>3 DEF SUITE_FAILED, UNAVAILABLE
  <2> QED BY <2>4 DEF SuiteFailedIsTheSuite
<1> QED BY <1>1, <1>2, <1>3 DEF Collect

\* Exit 4 is about the suite: a test failed, and the session ran to its end or said
\* why it stopped; or its process died after it had written its results
\* (verdict, _read_session).
THEOREM ExitFourIsTheSuite == Spec => []SuiteFailedIsTheSuite
<1>1. Init => IInv /\ EndingInv /\ SuiteFailedIsTheSuite
  BY InitInv DEF Init, EndingInv, EndingCodes, SuiteFailedIsTheSuite, SUITE_FAILED
<1>2. IInv /\ EndingInv /\ SuiteFailedIsTheSuite /\ [Next]_vars
        => (IInv /\ EndingInv /\ SuiteFailedIsTheSuite)'
  BY StepInv, EndingStep, SuiteStays, CiAssumption
<1> QED BY <1>1, <1>2, PTL DEF Spec

-----------------------------------------------------------------------------
\* What is on the disk was put there by a run that took place.
DiskInv ==
  /\ run \in 0 .. MaxRuns /\ (at # "idle" => run > 0)
  /\ wheels \subseteq {run} /\ (run = 0 => wheels = {})
  /\ venv \in {"none", "half", "ready"} /\ installed \in 0 .. run
  /\ \A l \in logs : l.run \in 1 .. run
  /\ exit \in {-1, CLEAN, FINDINGS, UNAVAILABLE, SUITE_FAILED}

FileOK(f, last) ==
  /\ f.run \in 0 .. last /\ {f.tests, f.failed, f.errored, f.skipped} \subseteq Nat
  /\ f.failed + f.errored + f.skipped <= f.tests

\* The outcomes of tests add up.
LEMMA CountsAddUp == ASSUME CiAssumption, SessionInv, run \in Nat PROVE FileOK(JUnit, run)
<1> DEFINE f == With("failed")  e == With("errored")  s == With("skipped")
<1>1. f \subseteq Ran /\ e \subseteq Ran /\ s \subseteq Ran BY DEF With
<1>2. IsFiniteSet(Ran) BY FS_Subset DEF SessionInv, CiAssumption
<1>3. IsFiniteSet(f) /\ IsFiniteSet(e) /\ IsFiniteSet(s) BY <1>1, <1>2, FS_Subset
<1>4. f \cap e = {} /\ (f \cup e) \cap s = {} BY DEF With
<1>5. IsFiniteSet(f \cup e) /\ Cardinality(f \cup e) = Count("failed") + Count("errored")
  <2>1. Cardinality(f) \in Nat /\ Cardinality(e) \in Nat BY <1>3, FS_CardinalityType
  <2>2. IsFiniteSet(f \cup e) /\ Cardinality(f \cup e) = Cardinality(f) + Cardinality(e) - Cardinality(f \cap e)
    BY <1>3, FS_Union
  <2>3. Cardinality(f \cap e) = 0 BY <1>4, FS_EmptySet
  <2> QED BY <2>1, <2>2, <2>3 DEF Count
<1>6. Cardinality((f \cup e) \cup s) = Count("failed") + Count("errored") + Count("skipped")
  <2>1. Cardinality(f \cup e) \in Nat /\ Cardinality(s) \in Nat BY <1>3, <1>5, FS_CardinalityType
  <2>2. Cardinality((f \cup e) \cup s) = Cardinality(f \cup e) + Cardinality(s) - Cardinality((f \cup e) \cap s)
    BY <1>3, <1>5, FS_Union
  <2>3. Cardinality((f \cup e) \cap s) = 0 BY <1>4, FS_EmptySet
  <2> QED BY <1>5, <2>1, <2>2, <2>3 DEF Count
<1>7. Cardinality((f \cup e) \cup s) <= Cardinality(Ran)
  <2>1. (f \cup e) \cup s \subseteq Ran BY <1>1
  <2> QED BY <2>1, <1>2, FS_Subset
<1>8. {Cardinality(Ran), Count("failed"), Count("errored"), Count("skipped")} \subseteq Nat
  BY <1>2, <1>3, FS_CardinalityType DEF Count
<1> QED BY <1>6, <1>7, <1>8 DEF FileOK, JUnit

LEMMA DiskStep == ASSUME CiAssumption, IInv, DiskInv, [Next]_vars PROVE DiskInv'
<1> USE DEF DiskInv
<1>0. run \in Nat /\ MaxRuns \in Nat BY DEF IInv, SessionInv, CiAssumption
<1>1. CASE Start
  BY <1>0, <1>1 DEF Start
<1>2. CASE Build
  <2>1. /\ at = "build" /\ wheels' \subseteq {run} /\ (exit' = exit \/ exit' = UNAVAILABLE)
        /\ UNCHANGED <<run, venv, installed, logs>>
    BY <1>2 DEF Build, NotDone
  <2> QED BY <1>0, <2>1
<1>9. CASE MakeVenv
  BY <1>0, <1>9 DEF MakeVenv, NotDone
<1>3. CASE Install
  <2>1. wheels = {run} BY <1>3 DEF Install, IInv, InstalledInv
  <2>2. installed' \in 0 .. run BY <1>0, <1>3, <2>1 DEF Install
  <2> QED BY <1>0, <1>3, <2>2 DEF Install, NotDone
<1>4. CASE InstallDeps
  BY <1>0, <1>4 DEF InstallDeps, NotDone, diskVars
<1>10. CASE StartTests
  BY <1>0, <1>10 DEF StartTests, NotDone, diskVars
<1>12. CASE CollectTests
  BY <1>12 DEF CollectTests, diskVars
<1>13. CASE RunTest
  BY <1>13 DEF RunTest, diskVars
<1>11. CASE SessionEnds \/ SessionStops \/ SessionDies
  BY <1>0, <1>11 DEF SessionEnds, SessionStops, SessionDies, diskVars
<1>5. CASE Report
  BY <1>0, <1>5 DEF Report
<1>6. CASE Collect
  <2>1. Verdict \in {CLEAN, FINDINGS, UNAVAILABLE, SUITE_FAILED} BY DEF Verdict
  <2> QED BY <1>0, <1>6, <2>1 DEF Collect, diskVars
<1>7. CASE Stopped
  BY <1>0, <1>7 DEF Stopped
<1>8. CASE UNCHANGED vars
  BY <1>8 DEF vars, diskVars
<1> QED BY <1>1, <1>2, <1>3, <1>4, <1>5, <1>6, <1>7, <1>8, <1>9, <1>10, <1>11, <1>12, <1>13 DEF Next

LEMMA FileStep ==
  ASSUME CiAssumption, IInv, FileOK(junit, run), [Next]_vars PROVE FileOK(junit, run)'
<1>0. run \in Nat BY DEF IInv, SessionInv
<1>1. (run' = run \/ run' = run + 1) /\ run' \in Nat
  <2>1. CASE Start BY <1>0, <2>1 DEF Start
  <2>2. CASE ~Start
    <3>1. UNCHANGED run
      BY <2>2 DEF Next, vars, Build, MakeVenv, Install, InstallDeps, StartTests, CollectTests,
         RunTest, Report, SessionEnds, SessionStops, SessionDies, Collect, Stopped, diskVars
    <3> QED BY <1>0, <3>1
  <2> QED BY <2>1, <2>2
<1>2. junit' \in {junit, JUnit, NoFile}
  BY DEF Next, vars, Start, Build, MakeVenv, Install, InstallDeps, StartTests, CollectTests,
     RunTest, Report, SessionEnds, SessionStops, SessionDies, Collect, Stopped, Ends
<1>3. CASE junit' = junit BY <1>0, <1>1, <1>3 DEF FileOK
<1>4. CASE junit' = JUnit
  <2>1. FileOK(JUnit, run) BY <1>0, CountsAddUp DEF IInv
  <2> QED BY <1>0, <1>1, <1>4, <2>1 DEF FileOK
<1>5. CASE junit' = NoFile BY <1>1, <1>5 DEF FileOK, NoFile
<1> QED BY <1>2, <1>3, <1>4, <1>5

LEMMA InitDisk == Init => DiskInv /\ FileOK(junit, run)
BY CiAssumption DEF Init, DiskInv, FileOK, NoFile, CiAssumption

LEMMA TypesFollow == ASSUME CiAssumption, IInv, DiskInv, FileOK(junit, run) PROVE TypeOK
<1>1. wheels \subseteq 1 .. run BY DEF DiskInv
<1>2. Cardinality(wheels) <= 1
  <2>1. IsFiniteSet({run}) /\ Cardinality({run}) = 1 BY FS_Singleton
  <2>2. Cardinality(wheels) <= Cardinality({run}) BY <2>1, FS_Subset DEF DiskInv
  <2>3. IsFiniteSet(wheels) /\ Cardinality(wheels) \in Nat BY <2>1, FS_Subset, FS_CardinalityType DEF DiskInv
  <2> QED BY <2>1, <2>2, <2>3
<1>3. junit.failed + junit.errored + junit.skipped <= junit.tests /\ junit.run \in 0 .. run BY DEF FileOK
<1> QED BY <1>1, <1>2, <1>3 DEF TypeOK, DiskInv, IInv, SessionInv, Stages

LEMMA DiskStays == Spec => [](DiskInv /\ TypeOK)
<1>1. Init => IInv /\ DiskInv /\ FileOK(junit, run) BY InitInv, InitDisk
<1>2. IInv /\ DiskInv /\ FileOK(junit, run) /\ [Next]_vars => (IInv /\ DiskInv /\ FileOK(junit, run))'
  BY StepInv, DiskStep, FileStep, CiAssumption
<1>3. IInv /\ DiskInv /\ FileOK(junit, run) => TypeOK BY TypesFollow, CiAssumption
<1> QED BY <1>1, <1>2, <1>3, PTL DEF Spec

\* What the work directory holds is that of a run that took place, and the
\* counts of a JUnit file add up, whenever a run was stopped.
THEOREM DiskIsWell == Spec => []TypeOK
BY DiskStays, PTL


-----------------------------------------------------------------------------
(* The preflight and --min-coverage. *)

\* A machine that passes is one whose silence means something: whatever is not
\* asked any more follows a check that failed.
LEMMA PassingIsFit == ASSUME NEW m \in MachineFacts, EnvOk(m) PROVE Fit(m)
<1>1. \A name, ok : Check(name, ok) \in Checks(m) => ok
  BY DEF EnvOk, Check
<1>2. m.interpreter = "starts"
  <2> SUFFICES ASSUME m.interpreter # "starts" PROVE FALSE OBVIOUS
  <2>1. Check("interpreter", FALSE) \in Checks(m) BY DEF Checks
  <2> QED BY <2>1, <1>1
<1>3. /\ InterpreterChecks(m) \subseteq Checks(m) /\ CompilerChecks(m) \subseteq Checks(m)
      /\ RustChecks(m) \subseteq Checks(m) /\ RuntimeChecks(m) \subseteq Checks(m)
  BY <1>2 DEF Checks
<1>4. m.gil_disabled /\ m.tsan
  <2>1. Check("free_threaded", m.gil_disabled) \in Checks(m) BY <1>3 DEF InterpreterChecks
  <2>2. Check("tsan_interpreter", m.tsan) \in Checks(m) BY <1>3 DEF InterpreterChecks
  <2> QED BY <2>1, <2>2, <1>1
<1>5. m.cc = "found"
  <2>1. Check("c_compiler", m.cc = "found") \in Checks(m) BY <1>3 DEF CompilerChecks
  <2> QED BY <2>1, <1>1
<1>6. m.rustc = "runs"
  <2> SUFFICES ASSUME m.rustc # "runs" PROVE FALSE OBVIOUS
  <2>1. Check("rust_toolchain", FALSE) \in Checks(m) BY <1>3 DEF RustChecks
  <2> QED BY <2>1, <1>1
<1>7. /\ Check("rust_toolchain", m.nightly) \in Checks(m) /\ Check("rust_src", m.rust_src) \in Checks(m)
      /\ Check("maturin", m.maturin) \in Checks(m)
      /\ Check("llvm_match", m.rust_llvm = m.cc_llvm) \in Checks(m)
  BY <1>3, <1>5, <1>6 DEF RustChecks
<1>8. m.nightly BY <1>7, <1>1
<1>9. m.rust_src BY <1>7, <1>1
<1>10. m.maturin BY <1>7, <1>1
<1>11. m.rust_llvm = m.cc_llvm BY <1>7, <1>1
<1>12. /\ Check("symbolizer", m.symbolizer) \in Checks(m)
       /\ Check("tsan_options", m.options # "masked") \in Checks(m)
  BY <1>3, <1>6 DEF RuntimeChecks
<1>13. m.symbolizer BY <1>12, <1>1
<1>14. m.options # "masked" BY <1>12, <1>1
<1> QED BY <1>2, <1>4, <1>5, <1>6, <1>8, <1>9, <1>10, <1>11, <1>13, <1>14 DEF Fit

LEMMA ProbeIsRight == \A p \in Probes : p.ok => p.fit
BY PassingIsFit DEF Probes

\* A clean run of `stress' drove what it was asked to drive.
LEMMA CleanIsDriven ==
  ASSUME NEW o \in StressOutcomes, NEW min \in 0 .. 100, StressCode(o, min) = CLEAN
  PROVE  Driven(o, min)
<1> DEFINE want == min * o.total
<1>1. /\ o.driven \in Int /\ o.total \in Int /\ o.driven >= 0 /\ o.total >= o.driven /\ want \in Int
      /\ o.confined \in 0 .. 1
  BY CliAssumption DEF StressOutcomes
<1>2. StressVerdict(o) = CLEAN
  BY DEF StressCode, CLEAN, UNAVAILABLE
<1>3. /\ o.done /\ ~o.findings /\ ~o.fatal /\ ~o.unmatched
      /\ ~(o.driven = 0 /\ (o.total > 0 \/ o.confined = 0))
  BY <1>2 DEF StressVerdict, CLEAN, FINDINGS, USAGE, UNAVAILABLE
<1>4. ~(min > 0 /\ o.total > 0 /\ 100 * o.driven < want)
  BY <1>2 DEF StressCode, CLEAN, UNAVAILABLE
<1>5. min = 0 \/ o.total = 0 => want = 0
  BY <1>1
<1>6. 100 * o.driven >= want
  <2> HIDE DEF want
  <2> QED BY <1>1, <1>4, <1>5
<1> QED BY <1>1, <1>3, <1>6 DEF Driven

\* A stress run's result has the code 1 exactly when it has findings.
LEMMA FoundIsOne ==
  ASSUME NEW o \in StressOutcomes, NEW min
  PROVE  /\ o.findings <=> StressCode(o, min) = FINDINGS
         /\ StressCode(o, min) # -1
BY DEF StressOutcomes, StressCode, StressVerdict, CLEAN, FINDINGS, USAGE, UNAVAILABLE

LEMMA ResultsAreRight ==
  ASSUME NEW c \in Commands, NEW r \in StressResults[c.min]
  PROVE  /\ r.found <=> r.code = FINDINGS
         /\ r.code # -1 /\ r.code \in Int
         /\ r.code = CLEAN => r.drove
<1> DEFINE mins == {d.min : d \in Commands}
<1>1. c.min \in mins /\ c.min \in 0 .. 100 BY CliAssumption
<1>2. PICK o \in StressOutcomes :
        r = [code |-> StressCode(o, c.min), found |-> o.findings, drove |-> Driven(o, c.min)]
  BY <1>1 DEF StressResults
<1>3. r.code = CLEAN => r.drove BY <1>1, <1>2, CleanIsDriven
<1>4. r.found <=> r.code = FINDINGS BY <1>2, FoundIsOne
<1>5. r.code # -1 /\ r.code \in Int
  BY <1>2, FoundIsOne DEF StressCode, StressVerdict, CLEAN, FINDINGS, USAGE, UNAVAILABLE
<1> QED BY <1>3, <1>4, <1>5

LEMMA ResultTypes ==
  ASSUME NEW c \in Commands, NEW r \in StressResults[c.min]
  PROVE  r.drove \in BOOLEAN /\ r.found \in BOOLEAN /\ r.code \in {CLEAN, FINDINGS, USAGE, UNAVAILABLE}
<1> DEFINE mins == {d.min : d \in Commands}
<1>1. c.min \in mins OBVIOUS
<1>2. PICK o \in StressOutcomes :
        r = [code |-> StressCode(o, c.min), found |-> o.findings, drove |-> Driven(o, c.min)]
  BY <1>1 DEF StressResults
<1>3. o.findings \in BOOLEAN BY DEF StressOutcomes
<1>4. StressCode(o, c.min) \in {CLEAN, FINDINGS, USAGE, UNAVAILABLE} BY DEF StressCode, StressVerdict
<1>5. Driven(o, c.min) \in BOOLEAN BY DEF Driven
<1> QED BY <1>2, <1>3, <1>4, <1>5

-----------------------------------------------------------------------------
(* Calls. *)

\* The pipeline only moves while a call of `ci' is in it.
LEMMA CiRunsAreRuns == ASSUME [CliNext]_<<ciVars, cliVars>> PROVE [Next]_vars
<1> USE DEF ciVars
<1>1. CASE RunCi BY <1>1 DEF RunCi, CiStep, Next
<1>2. CASE Dies BY <1>2 DEF Dies, Next
<1> QED BY <1>1, <1>2 DEF CliNext, Begin, ParseArgs, RunLint, Probe, RunStress,
           WriteSarif, WriteJunit, Show

\* A sequence of calls is, to the work directory, a sequence of runs.
THEOREM CliRefinesCiRun == CliSpec => Spec
<1>1. CliInit => Init BY DEF CliInit
<1> QED BY <1>1, CiRunsAreRuns, PTL DEF CliSpec, Spec

Verdict0 ==
  /\ ~found
  /\ cmd.name # "lint" => fit
  /\ cmd.name = "ci" /\ ~cmd.check => by = call /\ exit = CLEAN
  /\ cmd.name = "stress" /\ ~cmd.check => drove

\* What leads to a verdict, and what is true once there is one.
VerdictInv ==
  /\ pc \in {"shell", "args", "lint", "probe", "ci", "stress", "sarif", "junit", "show"}
  /\ cmd \in Commands
  /\ pc = "lint" => cmd.name = "lint"
  /\ pc = "probe" => cmd.name # "lint"
  /\ pc \in {"ci", "stress"} => cmd.name = pc /\ ~cmd.check /\ fit
  /\ pc = "ci" /\ at # "idle" => by = call
  /\ at # "idle" => pc = "ci"
  /\ pc \in {"sarif", "junit", "show"} => (found <=> code = FINDINGS) /\ (code = CLEAN => Verdict0)
  /\ Returned /\ code = CLEAN => Verdict0

Told == [call |-> call, tells |-> IF code = FINDINGS THEN "findings" ELSE "no findings"]

\* The reports written so far on the way from a verdict.
ReportInv ==
  /\ pc \in {"junit", "show"} /\ "sarif" \in cmd.reports => sarif = Told
  /\ pc = "show" /\ "junit" \in cmd.reports => xml = Told
  /\ ReportTellsTheVerdict

LEMMA VerdictInit == CliInit => VerdictInv /\ ReportInv
BY DEF CliInit, Init, VerdictInv, ReportInv, ReportTellsTheVerdict, Returned, CLEAN

LEMMA VerdictStep ==
  ASSUME VerdictInv, [CliNext]_<<ciVars, cliVars>> PROVE VerdictInv'
<1> USE DEF VerdictInv, ciVars
<1>0. cmd \in Commands /\ (cmd.name = "lint" \/ cmd.name = "ci" \/ cmd.name = "stress")
  BY CliAssumption
<1>1. CASE Begin
  BY <1>1 DEF Begin, vars, Returned
<1>2. CASE ParseArgs
  BY <1>2, <1>0 DEF ParseArgs, vars, Exits, Returned
<1>3. CASE RunLint
  BY <1>3 DEF RunLint, vars, Exits, Reaches, Returned, Verdict0, CLEAN, FINDINGS, USAGE, UNAVAILABLE
<1>4. CASE Probe
  <2>1. PICK p \in Probes :
          /\ fit' = p.fit
          /\ IF ~p.ok THEN Reaches(UNAVAILABLE, FALSE)
             ELSE IF cmd.check THEN Reaches(CLEAN, FALSE)
             ELSE pc' = cmd.name /\ UNCHANGED <<code, found, how>>
    BY <1>4 DEF Probe
  <2>2. pc = "probe" /\ UNCHANGED <<call, cmd, drove, by, reports, vars>>
    BY <1>4 DEF Probe
  <2>3. p.ok => fit' BY <2>1, ProbeIsRight
  <2>4. CASE ~p.ok
    BY <2>1, <2>2, <2>4 DEF vars, Reaches, Returned, CLEAN, FINDINGS, UNAVAILABLE
  <2>5. CASE p.ok /\ cmd.check
    BY <2>1, <2>2, <2>3, <2>5 DEF vars, Reaches, Returned, Verdict0, CLEAN, FINDINGS
  <2>6. CASE p.ok /\ ~cmd.check
    BY <2>1, <2>2, <2>3, <2>6, <1>0 DEF vars, Returned
  <2> QED BY <2>4, <2>5, <2>6
<1>5. CASE RunCi
  <2>1. CASE Start
    BY <1>5, <2>1 DEF RunCi, Start, CiStep, Build, MakeVenv, Install, InstallDeps, StartTests, CollectTests,
       RunTest, Report, SessionEnds, SessionStops, SessionDies, Collect, Returned
  <2>2. CASE CiStep /\ UNCHANGED by
    <3>1. at # "idle"
      BY <2>2 DEF CiStep, Build, MakeVenv, Install, InstallDeps, StartTests, CollectTests,
         RunTest, Report, SessionEnds, SessionStops, SessionDies, Collect
    <3>2. IF at' = "idle" THEN Reaches(exit', exit' = FINDINGS) ELSE UNCHANGED <<pc, code, found, how>>
      BY <1>5, <3>1 DEF RunCi, Start
    <3>3. pc = "ci" /\ UNCHANGED <<call, cmd, fit, drove>> BY <1>5 DEF RunCi
    <3>4. by' = call /\ cmd.name = "ci" /\ fit BY <2>2, <3>1, <3>3
    <3>5. CASE at' = "idle"
      <4>1. pc' = "sarif" /\ code' = exit' /\ found' = (exit' = FINDINGS) BY <3>2, <3>5 DEF Reaches
      <4>2. found' <=> code' = FINDINGS BY <4>1
      <4>3. (code = CLEAN => Verdict0)' BY <4>1, <4>2, <3>3, <3>4 DEF Verdict0, CLEAN, FINDINGS
      <4> QED BY <4>1, <4>2, <4>3, <3>3, <3>5 DEF Returned
    <3>6. CASE at' # "idle"
      BY <3>2, <3>3, <3>4, <3>6 DEF Returned
    <3> QED BY <3>5, <3>6
  <2> QED BY <1>5, <2>1, <2>2 DEF RunCi
<1>6. CASE RunStress
  <2>1. PICK r \in StressResults[cmd.min] : drove' = r.drove /\ Reaches(r.code, r.found)
    BY <1>6 DEF RunStress
  <2>2. pc = "stress" /\ UNCHANGED <<call, cmd, fit, by, vars>> BY <1>6 DEF RunStress
  <2>3. (r.found <=> r.code = FINDINGS) /\ (r.code = CLEAN => r.drove)
    BY <2>1, ResultsAreRight
  <2> QED BY <2>1, <2>2, <2>3 DEF vars, Reaches, Returned, Verdict0, CLEAN, FINDINGS
<1>7. CASE WriteSarif \/ WriteJunit
  BY <1>7 DEF WriteSarif, WriteJunit, vars, Returned, Verdict0
<1>8. CASE Show
  BY <1>8 DEF Show, Exits, vars, Returned, Verdict0
<1>9. CASE Dies
  <2>1. /\ pc' = "shell" /\ how' # "returned" /\ at' = "idle"
        /\ UNCHANGED cmd
    BY <1>9 DEF Dies, Stopped, vars
  <2> QED BY <2>1 DEF Returned
<1>10. CASE UNCHANGED <<ciVars, cliVars>>
  BY <1>10 DEF cliVars, reports, vars, Returned, Verdict0
<1> QED BY <1>1, <1>2, <1>3, <1>4, <1>5, <1>6, <1>7, <1>8, <1>9, <1>10 DEF CliNext

LEMMA ReportStep ==
  ASSUME VerdictInv, ReportInv, [CliNext]_<<ciVars, cliVars>> PROVE ReportInv'
<1> USE DEF ReportInv, ReportTellsTheVerdict, Returned, Told
<1>1. CASE Begin \/ ParseArgs \/ RunStress
  BY <1>1 DEF Begin, ParseArgs, RunStress, Exits, Reaches, VerdictInv
<1>2. CASE RunLint
  <2>1. cmd' = cmd /\ cmd.name = "lint" BY <1>2 DEF RunLint, VerdictInv
  <2>2. pc' = "sarif" \/ (pc' = "shell" /\ code' \notin {CLEAN, FINDINGS})
    BY <1>2 DEF RunLint, Exits, Reaches, CLEAN, FINDINGS, USAGE, UNAVAILABLE
  <2> QED BY <2>1, <2>2
<1>3. CASE Probe
  BY <1>3, CliAssumption DEF Probe, Reaches, VerdictInv
<1>4. CASE RunCi
  BY <1>4 DEF RunCi, Reaches
<1>5. CASE WriteSarif
  BY <1>5 DEF WriteSarif, Written, VerdictInv
<1>6. CASE WriteJunit
  BY <1>6 DEF WriteJunit, Written, VerdictInv
<1>7. CASE Show
  BY <1>7 DEF Show, Exits, reports, VerdictInv
<1>8. CASE Dies
  BY <1>8 DEF Dies
<1>9. CASE UNCHANGED <<ciVars, cliVars>>
  BY <1>9 DEF cliVars, reports
<1> QED BY <1>1, <1>2, <1>3, <1>4, <1>5, <1>6, <1>7, <1>8, <1>9 DEF CliNext

LEMMA AlwaysVerdictInv == CliSpec => [](VerdictInv /\ ReportInv)
<1>1. VerdictInv /\ ReportInv /\ [CliNext]_<<ciVars, cliVars>> => (VerdictInv /\ ReportInv)'
  BY VerdictStep, ReportStep
<1> QED BY <1>1, VerdictInit, PTL DEF CliSpec

\* Exit status 0 of a call with work to do is earned by that call, on a machine
\* that passed every check it should (main, _run_ci, _run_stress, probe).
THEOREM StatusZeroIsEarned == CliSpec => []ZeroIsEarned
<1>1. VerdictInv /\ CleanIsEarned => ZeroIsEarned
  BY DEF VerdictInv, CleanIsEarned, ZeroIsEarned, Verdict0
<1> QED BY <1>1, AlwaysVerdictInv, CliRefinesCiRun, ExitZeroIsEarned, PTL

\* The reports asked for are this call's and tell its verdict (_write_reports).
THEOREM ReportsTellTheVerdict == CliSpec => []ReportTellsTheVerdict
<1>1. ReportInv => ReportTellsTheVerdict BY DEF ReportInv
<1> QED BY <1>1, AlwaysVerdictInv, PTL

\* Whatever calls came before, exit 1 of the pipeline is a report in this run.
THEOREM OnlyFindingsFailCalls == CliSpec => []FindingsAreTheVerdict
BY CliRefinesCiRun, OnlyFindingsFail, PTL

-----------------------------------------------------------------------------
Codes == {-1, CLEAN, FINDINGS, USAGE, UNAVAILABLE, SUITE_FAILED, 130}

\* A call starts at most one run of `ci'; what it found and wrote is its own.
CallInv ==
  /\ call \in 0 .. MaxCalls /\ by \in 0 .. call /\ run <= call
  /\ pc \in {"args", "lint", "probe", "stress"} \/ (pc = "ci" /\ at = "idle") => run < call
  /\ fit \in BOOLEAN /\ found \in BOOLEAN /\ drove \in BOOLEAN
  /\ code \in Codes /\ how \in {"runs", "returned", "interrupted", "raised"}
  /\ sarif.call \in 0 .. call /\ xml.call \in 0 .. call

LEMMA CallStep ==
  ASSUME VerdictInv, CallInv, DiskInv, DiskInv', [CliNext]_<<ciVars, cliVars>> PROVE CallInv'
<1> USE DEF CallInv, Codes
<1>0. /\ call \in Nat /\ run \in Nat /\ by \in Nat /\ MaxCalls \in Nat
      /\ cmd \in Commands /\ (cmd.name = "lint" \/ cmd.name = "ci" \/ cmd.name = "stress")
  BY CliAssumption DEF DiskInv, VerdictInv, CiAssumption
<1>1. CASE Begin
  <2>1. /\ pc = "shell" /\ call' = call + 1 /\ call < MaxCalls /\ pc' = "args" /\ code' = -1 /\ how' = "runs"
        /\ fit' = FALSE /\ found' = FALSE /\ drove' = FALSE /\ UNCHANGED <<by, run, sarif, xml>>
    BY <1>1 DEF Begin, ciVars, vars, reports
  <2>2. sarif'.call \in 0 .. call' /\ xml'.call \in 0 .. call' BY <1>0, <2>1
  <2>3. call' \in 0 .. MaxCalls /\ by' \in 0 .. call' /\ run' < call' /\ run' <= call'
    BY <1>0, <2>1
  <2>4. fit' \in BOOLEAN /\ found' \in BOOLEAN /\ drove' \in BOOLEAN BY <2>1, Zenon
  <2>5. pc' = "args" /\ code' \in Codes /\ how' = "runs" BY <2>1
  <2> QED BY <2>2, <2>3, <2>4, <2>5
<1>2. CASE ParseArgs
  BY <1>0, <1>2 DEF ParseArgs, Exits, ciVars, vars, reports, CLEAN, USAGE
<1>3. CASE RunLint
  BY <1>0, <1>3 DEF RunLint, Exits, Reaches, ciVars, vars, reports, CLEAN, USAGE
<1>4. CASE Probe
  <2>1. PICK p \in Probes :
          /\ fit' = p.fit
          /\ IF ~p.ok THEN Reaches(UNAVAILABLE, FALSE)
             ELSE IF cmd.check THEN Reaches(CLEAN, FALSE)
             ELSE pc' = cmd.name /\ UNCHANGED <<code, found, how>>
    BY <1>4 DEF Probe
  <2>2. p.fit \in BOOLEAN
    <3>1. PICK m \in MachineFacts : p = [ok |-> EnvOk(m), fit |-> Fit(m)] BY DEF Probes
    <3>2. Fit(m) \in BOOLEAN BY DEF Fit
    <3> QED BY <3>1, <3>2
  <2>3. pc = "probe" /\ UNCHANGED <<call, drove, by, sarif, xml, run, at>>
    BY <1>4 DEF Probe, ciVars, vars, reports
  <2>4. /\ code' \in Codes /\ found' \in BOOLEAN /\ how' = how
        /\ pc' = "sarif" \/ pc' = "lint" \/ pc' = "ci" \/ pc' = "stress"
    <3>1. CASE ~p.ok
      BY <1>0, <2>1, <3>1 DEF Reaches
    <3>2. CASE p.ok /\ cmd.check
      BY <1>0, <2>1, <3>2 DEF Reaches
    <3>3. CASE p.ok /\ ~cmd.check
      BY <1>0, <2>1, <3>3
    <3> QED BY <3>1, <3>2, <3>3
  <2> QED BY <1>0, <2>1, <2>2, <2>3, <2>4
<1>5. CASE RunCi
  <2>1. pc = "ci" /\ UNCHANGED <<call, fit, drove, sarif, xml>> BY <1>5 DEF RunCi, reports
  <2>2. CASE Start /\ by' = call /\ UNCHANGED <<pc, code, found, how>>
    BY <1>0, <2>1, <2>2 DEF Start
  <2>3. CASE CiStep /\ UNCHANGED by
                /\ IF at' = "idle" THEN Reaches(exit', exit' = FINDINGS) ELSE UNCHANGED <<pc, code, found, how>>
    <3>1. UNCHANGED run /\ at # "idle"
      BY <2>3 DEF CiStep, Build, MakeVenv, Install, InstallDeps, StartTests, CollectTests,
         RunTest, Report, SessionEnds, SessionStops, SessionDies, Collect
    <3>2. CASE at' = "idle"
      <4>1. pc' = "sarif" /\ code' = exit' /\ found' = (exit' = FINDINGS) /\ how' = how
        BY <2>3, <3>2 DEF Reaches
      <4>2. code' \in Codes BY <4>1 DEF DiskInv
      <4> QED BY <1>0, <2>1, <2>3, <3>1, <4>1, <4>2
    <3>3. CASE at' # "idle"
      BY <1>0, <2>1, <2>3, <3>1, <3>3
    <3> QED BY <3>2, <3>3
  <2> QED BY <1>5, <2>2, <2>3 DEF RunCi
<1>6. CASE RunStress
  <2>1. PICK r \in StressResults[cmd.min] : drove' = r.drove /\ Reaches(r.code, r.found)
    BY <1>6 DEF RunStress
  <2>2. r.drove \in BOOLEAN /\ r.found \in BOOLEAN /\ r.code \in Codes
    BY <1>0, <2>1, ResultTypes
  <2>3. pc = "stress" /\ UNCHANGED <<call, fit, by, sarif, xml, run, at>>
    BY <1>6 DEF RunStress, ciVars, vars, reports
  <2> QED BY <1>0, <2>1, <2>2, <2>3 DEF Reaches
<1>7. CASE WriteSarif
  <2>1. Written.call = call BY DEF Written
  <2>2. sarif' = sarif \/ sarif' = Written BY <1>7 DEF WriteSarif
  <2>3. sarif'.call \in 0 .. call BY <1>0, <2>1, <2>2
  <2>4. pc' = "junit" /\ UNCHANGED <<call, fit, found, drove, by, code, how, xml, run>>
    BY <1>7 DEF WriteSarif, ciVars, vars
  <2> QED BY <2>3, <2>4
<1>8. CASE WriteJunit
  <2>1. Written.call = call BY DEF Written
  <2>2. xml' = xml \/ xml' = Written BY <1>8 DEF WriteJunit
  <2>3. xml'.call \in 0 .. call BY <1>0, <2>1, <2>2
  <2>4. pc' = "show" /\ UNCHANGED <<call, fit, found, drove, by, code, how, sarif, run>>
    BY <1>8 DEF WriteJunit, ciVars, vars
  <2> QED BY <2>3, <2>4
<1>9. CASE Show
  BY <1>0, <1>9 DEF Show, Exits, ciVars, vars, reports
<1>10. CASE Dies
  <2>1. pc' = "shell" /\ code' \in Codes /\ how' \in {"interrupted", "raised"}
    BY <1>10 DEF Dies, FINDINGS
  <2>2. UNCHANGED <<call, fit, found, drove, by, run>> BY <1>10 DEF Dies, ciVars, vars, Stopped
  <2>3. sarif' \in {sarif, Torn} /\ xml' \in {xml, Torn} BY <1>10 DEF Dies
  <2>5. Torn.call = call BY DEF Torn
  <2>4. sarif'.call \in 0 .. call /\ xml'.call \in 0 .. call BY <1>0, <2>3, <2>5
  <2> QED BY <1>0, <2>1, <2>2, <2>4
<1>11. CASE UNCHANGED <<ciVars, cliVars>>
  BY <1>11 DEF cliVars, ciVars, vars, reports
<1> QED BY <1>1, <1>2, <1>3, <1>4, <1>5, <1>6, <1>7, <1>8, <1>9, <1>10, <1>11 DEF CliNext

LEMMA CallInit == CliInit => CallInv
<1> SUFFICES ASSUME CliInit PROVE CallInv OBVIOUS
<1>1. NoReport.call = 0 BY DEF NoReport
<1>2. MaxCalls \in Nat BY CliAssumption
<1>3. fit \in BOOLEAN /\ found \in BOOLEAN /\ drove \in BOOLEAN BY Zenon DEF CliInit
<1>4. call = 0 /\ by = 0 /\ run = 0 /\ pc = "shell" /\ how = "runs" /\ sarif = NoReport /\ xml = NoReport
  BY DEF CliInit, Init
<1>5. code \in Codes BY DEF CliInit, Codes
<1> QED BY <1>1, <1>2, <1>3, <1>4, <1>5 DEF CallInv

\* A call leads to one run of `ci' at most, and only while it is in it does the
\* pipeline stand elsewhere than idle: however calls before it were stopped.
THEOREM CallsAreWell == CliSpec => []CliTypeOK
<1>1. CallInv /\ VerdictInv /\ TypeOK => CliTypeOK
  BY DEF CallInv, VerdictInv, CliTypeOK, Codes
<1>2. CliSpec => [](DiskInv /\ TypeOK) BY CliRefinesCiRun, DiskStays, PTL
<1>3. CallInv /\ VerdictInv /\ DiskInv /\ DiskInv' /\ [CliNext]_<<ciVars, cliVars>> => CallInv'
  BY CallStep
<1> QED BY <1>1, <1>2, <1>3, CallInit, AlwaysVerdictInv, PTL DEF CliSpec
=============================================================================
