------------------------------ MODULE MCDrive ------------------------------
(* Values of Drive's constants that a configuration file cannot write. *)
EXTENDS Drive

\* Every call answers.
AllAnswer == [q \in Quals |-> {"returns"}]

\* The first callable answers, exits or deadlocks; a mutator raises or exits.
SomeNeverDo ==
  [q \in Quals |-> IF q = 1 THEN {"returns", "exits", "hangs"}
                   ELSE IF q \in CallIds THEN {"returns"} ELSE {"raises", "exits"}]
=============================================================================
