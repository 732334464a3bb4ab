SPECIFICATION PagesSpec
CONSTANTS
  Writers = {w1, w2}
  Destinations = {control, tenant}
  MaxEvents = 3
  MaxTicks = 1
  Readers = {tenant}
  Filters = {{1, 2, 3}, {1, 3}}
  PageSizes = {1, 2, 3}
  MaxWalks = 1
INVARIANTS ForkDetected SequentialIntact WalkCoversSnapshot VerdictsAgree
PROPERTY EmitEnds
