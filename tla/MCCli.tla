-------------------------------- MODULE MCCli -------------------------------
EXTENDS Cli, TLC
CONSTANTS a, b, c
TheTests == {a, b, c}

Call(name, asked, min) ==
  [name |-> name, args |-> "fine", check |-> FALSE, reports |-> asked, min |-> min]

\* Each command with reports, those that end early, and a coverage that a surface
\* of two just reaches (50) or misses (60).
TheCommands ==
  LET ci == Call("ci", {"sarif"}, 0)  lint == Call("lint", {"sarif", "junit"}, 0)
  IN  {ci, [ci EXCEPT !.check = TRUE], lint, [lint EXCEPT !.args = "wrong"], [lint EXCEPT !.args = "help"],
       Call("stress", {"sarif"}, 50), Call("stress", {}, 60)}
=============================================================================
