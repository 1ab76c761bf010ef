SPECIFICATION Spec
CONSTANTS
  w1 = w1  w2 = w2  o1 = o1  o2 = o2
  ann = ann  bob = bob  cid = cid
  chief = chief  owner = owner  clerk = clerk
  None = None
  Organizations = {o1, o2}
  Users = {ann, bob, cid}
  Roles = {chief, owner, clerk}
  Workers = {w1, w2}
  Permissions <- MCPermissions
  Grants <- MCGrants
  Changes <- MCChanges
  SeededRoles <- MCRoles
  SeededUsers <- MCUsers
  Limit = 2
  Mistaken = {cid}
  MaxAttempts = 2
SYMMETRY Symmetry
CHECK_DEADLOCK FALSE
INVARIANTS
  IInv
  GrantsAreCovered
  NothingUnaudited
PROPERTIES
  LockedAtLimit
