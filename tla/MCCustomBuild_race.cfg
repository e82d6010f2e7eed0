SPECIFICATION Spec
CONSTANTS
  b1 = b1
  b2 = b2
  d1 = d1
  d2 = d2
  d3 = d3
  Builders = {b1, b2}
  Hosted = {d1, d2}
  New = {d3}
  MaxBuilds = 2
  MaxSets = 2
  MaxFaults = 0
  MaxKills = 0
  MaxSetups = 0
  MaxReboots = 0
  Targets = {"web"}
SYMMETRY Symmetric
CHECK_DEADLOCK FALSE
INVARIANT NewDomainServed
