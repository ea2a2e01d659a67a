---------------------------- MODULE MCUserCache ----------------------------
(* Small instance of UserCache for TLC; users and channels are symmetric.  *)
EXTENDS UserCache, TLC

CONSTANTS u1, u2, c1, c2

CacheSymmetry == Permutations({u1, u2}) \cup Permutations({c1, c2})
=============================================================================
