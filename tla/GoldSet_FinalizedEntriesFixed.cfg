SPECIFICATION Spec
CONSTANTS
  Actors = {a1, a2}
  Queries = {q1}
  MaxRevision = 2
  MaxEntries = 2

PROPERTY FinalizedEntriesFixed
