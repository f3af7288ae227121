\* The linker exits: a state without successor is a normal end.
CHECK_DEADLOCK FALSE
SPECIFICATION Spec
CONSTANTS
  Children = {c1, c2}
  MaxSigints = 2
INVARIANTS TeardownComplete ExitStatus
PROPERTIES MainKillsOnlyItsChildren OneEndsAllEnd SigintEndsAll
