\* The linker exits: a state without successor is a normal end.
CHECK_DEADLOCK FALSE
SPECIFICATION StubbornSpec
CONSTANTS
  Children = {c1, c2}
  MaxSigints = 2
PROPERTIES SecondAttempt
