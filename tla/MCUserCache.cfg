SPECIFICATION Spec
CONSTANTS
  u1 = u1
  u2 = u2
  c1 = c1
  c2 = c2
  Users = {u1, u2}
  Channels = {c1, c2}
  Zero = Zero
  MaxEntries = 5
SYMMETRY CacheSymmetry
CHECK_DEADLOCK FALSE
INVARIANTS TypeOK NewestEntryIsCurrent LookupPlausible
PROPERTIES LookupNeverWorsens
