SPECIFICATION Spec
CONSTANTS
  c1 = c1
  c2 = c2
  c3 = c3
  Commands <- ThreeCommands
  Nobody = Nobody
  MaxFaults = 2
SYMMETRY Symmetry
INVARIANT TypeOK
INVARIANT EffectsFollowCommit
INVARIANT TrailSurvives
INVARIANT NeverWaitsForItself
PROPERTY CommandsAreAtomic
CHECK_DEADLOCK FALSE
