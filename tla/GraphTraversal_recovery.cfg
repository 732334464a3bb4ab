SPECIFICATION SearchSpec
CONSTANTS
  MaxSources = 1
  Workers = {w1, w2}
  Names = {n1, n2}
  MaxCrashes = 1
  MaxFlips = 1
  MaxRequeues = 1
  Depth = 1
INVARIANTS TypeOK StateTellsData SurfacesWholeSources
PROPERTY IndexedIsInGraph
SYMMETRY Symmetry
