SPECIFICATION Spec
CONSTANTS
  MaxIterations = 2
  MaxCalls = 1
  Costs = {0, 1}
  Citations = {c1}
  Consumers = {"stream", "collect"}
  MaxLostAcks = 1
PROPERTY CollectedIsRecorded
