SPECIFICATION Spec
CONSTANTS
  u1 = u1
  u2 = u2
  c1 = c1
  c2 = c2
  Users = {u1, u2}
  Channels = {c1, c2}
  Zero = Zero
  MaxEntries = 3
CHECK_DEADLOCK FALSE
INVARIANT LeftUsersNotFound
