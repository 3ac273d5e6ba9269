------------------------------ MODULE MCCiRun -------------------------------
EXTENDS CiRun, TLC
CONSTANTS a, b
TwoTests == {a, b}
=============================================================================
