----------------------------- MODULE MCGateway -----------------------------
(* Small instances of Gateway.                                             *)
EXTENDS Gateway, TLC

CONSTANTS t1, t2, o1, o2, r1, r2, s1, s2, p1, p2, path, other, good, bad, get

\* Both patterns match one path, one matches the other; none matches /health.
MCLike == {<<path, p1>>, <<path, p2>>, <<other, p1>>}
MCMethodSets == {{get}}
MCPriorities == {0, 1}

Symmetry == Permutations(TenantIDs) \cup Permutations(OriginIDs) \cup Permutations(RouteIDs)
            \cup Permutations(Subdomains)
=============================================================================
