\* Three processes of two interpreters for two slots, and every order of calls.
SPECIFICATION Spec
CONSTANTS
  Processes = {p1, p2, p3}
  Iids = {i1, i2}
  Gens = {1}
  MaxRings = 2
  Advisory = 60
  MaxRuns = 5
SYMMETRY Symmetry
INVARIANTS SlotsAreCounted SampledWhole TotalsAreWhole LowCoverageIsSaid
