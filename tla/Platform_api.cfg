SPECIFICATION Spec
CONSTANTS
  Tenants = {t1}
  Registered = {}
  Operators = {o1, o2}
  Callers = {c1, b1}
  Background = {b1}
  MaxEngines = 3
  MaxTransitions = 1
SYMMETRY Symmetry
INVARIANTS EnginesAccounted FlushedByTransition AuditTellsStatus AnswersAreHonest
CHECK_DEADLOCK FALSE
