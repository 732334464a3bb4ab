SPECIFICATION Spec
CONSTANTS
  Actors = {a1, a2, a3}
  Queries = {q1, q2}
  MaxRevision = 2
  MaxEntries = 2
INVARIANTS TypeOK LinearChain IndexesContiguous
PROPERTY ImplementsLog
