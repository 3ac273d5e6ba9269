----------------------------- MODULE DriverView -----------------------------
(***************************************************************************)
(* What the driver process promises to whoever reads its progress file: it *)
(* announces a step, runs it, and now and then rewrites the line with the  *)
(* number of calls that have finished.  Drive implements this view; the    *)
(* orchestrator, StressRun, is built on it and on nothing else of Drive.   *)
(***************************************************************************)
EXTENDS Integers

CONSTANTS
  Steps,  \* what the driver may announce: the pairs, and the mix
  Mix     \* every callable of the group together, after its pairs

VARIABLES
  stage,  \* "idle": between steps; "say": announcing one; "phase"; "over"
  step,   \* the step announced last
  shown,  \* the count the heartbeat read last
  total,  \* calls finished
  line    \* the progress file

viewVars == <<stage, step, shown, total, line>>

Torn       == [text |-> "torn", step |-> Mix, count |-> -1]
Said(s, n) == [text |-> "step", step |-> s, count |-> n]

ViewInit ==
  /\ stage = "idle" /\ step \in Steps /\ shown = 0 /\ total = 0 /\ line = Torn

\* Progress.say(step) empties the file first ...
Announce ==
  /\ stage = "idle"
  /\ stage' = "say" /\ step' \in Steps
  /\ line' = Torn
  /\ UNCHANGED <<shown, total>>

\* ... then writes the step; its threads start after that.
SayStep ==
  /\ stage = "say"
  /\ stage' = "phase" /\ line' = Said(step, -1)
  /\ UNCHANGED <<step, shown, total>>

CallFinishes ==
  /\ stage = "phase"
  /\ total' = total + 1
  /\ UNCHANGED <<stage, step, shown, line>>

BeatOpen ==
  /\ stage = "phase"
  /\ shown' = total /\ line' = Torn
  /\ UNCHANGED <<stage, step, total>>

BeatSay ==
  /\ stage = "phase" /\ line.text = "torn"
  /\ line' = Said(step, shown)
  /\ UNCHANGED <<stage, step, shown, total>>

\* A phase ends with its heartbeat: never in the middle of a line.
EndPhase ==
  /\ stage = "phase" /\ line.text = "step"
  /\ stage' \in {"idle", "over"}
  /\ UNCHANGED <<step, shown, total, line>>

Finish == stage = "idle" /\ stage' = "over" /\ UNCHANGED <<step, shown, total, line>>

ViewNext == Announce \/ SayStep \/ CallFinishes \/ BeatOpen \/ BeatSay \/ EndPhase \/ Finish
ViewSpec == ViewInit /\ [][ViewNext]_viewVars
=============================================================================
