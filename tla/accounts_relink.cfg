\* A second provider's first sign-in overlaps the erasure of the account.
CONSTANTS
  Call = {c1, c2, c3}
  Identity = {i1, i2}
  Email = {e1}
  AdminEmail = {}
  None = None
SPECIFICATION Spec
INVARIANTS ErasureUnlinks
CHECK_DEADLOCK FALSE
