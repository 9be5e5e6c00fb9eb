------------------------------ MODULE MCSystem ------------------------------
(* A small instance of System: a client of the control plane and one of the  *)
(* gateway.                                                                  *)
EXTENDS System, TLC

CONSTANTS t1, t2, o1, r1, a, s1, s2, p1

MCSubdomainOf == [c \in ClerkOrgs |-> s1]
MCLike == {<<"path", p1>>}

\* Two tenants are set up, each by its UUID.
SetUpJobs ==
  [op : {"CreateTenant"}, name : {"name"}, subdomain : Subdomains, clerkOrg : {NoValue}]
  \cup [op : {"CreateOrigin"}, tref : TenantIDs, name : {"name"}, url : URLs]
  \cup [op : {"CreateRoute"}, tref : TenantIDs, origin : OriginIDs, pattern : Patterns,
        methods : MethodSets, priority : Priorities, auth : {"public"}, active : {TRUE},
        policy : Policies]
  \cup [op : {"DeleteTenant"}, id : TenantIDs]
=============================================================================
