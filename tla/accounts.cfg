\* Four requests, two identities of one person, an admin and a plain address.
CONSTANTS
  Call = {c1, c2, c3, c4}
  Identity = {i1, i2}
  Email = {e1, e2}
  AdminEmail = {e2}
  None = None
SYMMETRY Interchangeable
SPECIFICATION Spec
INVARIANTS AccountsAreDistinct QuietErasureIsFinal
PROPERTY IdentityStaysPut
CHECK_DEADLOCK FALSE
