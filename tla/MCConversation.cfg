SPECIFICATION Spec
CONSTANTS
  Turns = {t1, t2, t3}
  Window = 2
  Faulty = TRUE
SYMMETRY Interchangeable
INVARIANTS Gapless AnswerFollowsQuestion SummaryExact
CHECK_DEADLOCK FALSE
