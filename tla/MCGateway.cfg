\* Three concurrent requests, a pool of two and a pool of one.
SPECIFICATION GatewaySpec
CONSTANTS
  Requests = {r1, r2, r3}
  Deployments = {1, 2, 3}
  Names = {"a", "b"}
  NameOf <- MCNameOf
  Declared <- MCDeclared
  Wrap = 4
  MaxChanges = 1
SYMMETRY RequestSymmetry
INVARIANT
  CountsExact
PROPERTIES
  LeastOutstanding
  EvenRotation
