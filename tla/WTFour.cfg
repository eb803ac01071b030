SPECIFICATION Spec
CONSTANT N = 4
VIEW Live
CHECK_DEADLOCK FALSE
INVARIANTS
  DeleteSafe
