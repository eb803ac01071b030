SPECIFICATION Spec
CONSTANT N = 10
VIEW Live
CHECK_DEADLOCK FALSE
INVARIANTS
  StaysBalanced
