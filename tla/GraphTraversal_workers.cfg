SPECIFICATION SearchSpec
CONSTANTS
  MaxSources = 2
  Workers = {w1, w2}
  Names = {n1}
  MaxCrashes = 0
  MaxFlips = 1
  MaxRequeues = 0
  Depth = 1
INVARIANT OwnsItsSource
PROPERTIES ImplementsLifecycle Settles
