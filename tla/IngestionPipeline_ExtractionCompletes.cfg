SPECIFICATION Spec
CONSTANTS
  MaxSources = 1
  Workers = {w1}
  Names = {n1}
  MaxCrashes = 1
  MaxFlips = 0
  MaxRequeues = 0
PROPERTY ExtractionCompletes
