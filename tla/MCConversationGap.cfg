SPECIFICATION Spec
CONSTANTS
  Turns = {t1, t2, t3}
  Window = 2
  Faulty = FALSE
SYMMETRY Interchangeable
INVARIANT NothingForgotten
CHECK_DEADLOCK FALSE
