CONSTANTS
  f1 = f1
  f2 = f2
  r1 = r1
  r2 = r2
  r3 = r3
  b1 = b1
  b2 = b2
  u1 = u1
  u2 = u2
  None = None
  Flows = {f1, f2}
  Requests = {r1, r2, r3}
  Browsers = {b1, b2}
  People = {u1, u2}
  Developer = u1
  Deployments <- ThreeDeployments
SPECIFICATION Spec
INVARIANTS
    SessionsAreMembers
    OwnLogin
    RefusedForAReason
    ServedByRole
SYMMETRY Symmetry
CHECK_DEADLOCK FALSE
