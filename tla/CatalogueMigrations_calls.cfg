CONSTANTS
  Operators = {o1, o2}
  TemplateNames = {"LVTGuide"}
  Scores = {1}
  MaxCalls = 2
  MaxEarlyCalls = 1
  LegacyNames = {"LVT"}
  MaxDowngrades = 1
SYMMETRY Symmetry
SPECIFICATION Spec
INVARIANTS IntactUnlessDisturbed AdoptionIsSafe AgentsResolve NeverLooserThanItsRole
PROPERTY PinnedIsFixed
CHECK_DEADLOCK FALSE
