----------------------------- MODULE MCAuthSync -----------------------------
(* A small instance of AuthSync.                                             *)
EXTENDS AuthSync, TLC

CONSTANTS p1, p2, t1, t2, t3, u1, u2, s1, s2

Symmetry == Permutations(AuthCalls) \cup Permutations(TenantIDs)
            \cup Permutations(UserIDs) \cup Permutations(Subdomains)
=============================================================================
