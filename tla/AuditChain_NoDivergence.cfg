SPECIFICATION Spec
CONSTANTS
  Writers = {w1, w2}
  Destinations = {tenant}
  MaxEvents = 3
  MaxTicks = 1
INVARIANT NoDivergence
