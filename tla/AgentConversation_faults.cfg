SPECIFICATION ConversationSpec
CONSTANTS
  MaxIterations = 3
  MaxCalls = 2
  MaxFragments = 2
  Costs = {0, 1}
  Citations = {c1}
  Consumers = {"stream", "collect"}
  MaxLostAcks = 2
INVARIANTS
  ProjectsTheAudit
  ReportsItsCost
  CitesWhatWasRetrieved
  CallsAsSent
  RequestsAreAnswered
PROPERTIES StopsWorking Answered AnswerIsRecorded ImplementsLedger
