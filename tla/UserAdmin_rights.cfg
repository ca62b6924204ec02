SPECIFICATION Spec
CONSTANTS
  u1 = u1
  u2 = u2
  u3 = u3
  n1 = n1
  n2 = n2
  n3 = n3
  c1 = c1
  c2 = c2
  Users <- ThreeUsers
  Names <- ThreeNames
  Calls <- TwoCalls
  Life = 2
  Patience = 1
  Nobody = Nobody
SYMMETRY Symmetry
INVARIANT TypeOK
INVARIANT RightsExpire
PROPERTY AnAdminRemains
