--------------------------- MODULE MCControlPlane ---------------------------
(* Small instances of ControlPlane: the requests that clients send.          *)
EXTENDS ControlPlane, TLC

CONSTANTS t1, t2, o1, o2, r1, r2, k1, a, b, c1, c2, s1, s2, p1, p2

MCSubdomainOf == [c \in ClerkOrgs |-> s1]

TenantJobs ==
  [op : {"CreateTenant"}, name : {"name"}, subdomain : Subdomains, clerkOrg : {NoValue}]
  \cup [op : {"UpdateTenant"}, id : TenantIDs, name : {"name"}, status : {NoValue}]
  \cup [op : {"UpdateTenant"}, id : TenantIDs, name : {NoValue}, status : {"suspended", "bogus"}]
  \cup [op : {"DeleteTenant"}, id : TenantIDs]

KeyJobs ==
  [op : {"CreateAPIKey"}, tref : ClerkOrgs, name : {"name"}]
  \cup [op : {"CreateAPIKey"}, tref : {c1}, name : {EmptyName, NoValue}]
  \cup [op : {"DeleteAPIKey"}, id : KeyIDs]

ListJobs == [op : {"ListAPIKeys"}, tref : {c1}]

\* A dashboard that lists and a script that creates, for a new Clerk ID.
ListAndKeyJobs == ListJobs \cup [op : {"CreateAPIKey"}, tref : ClerkOrgs, name : {"name"}]

\* Requests about tenants and what belongs to them by Clerk ID.
WorkspaceJobs == TenantJobs \cup KeyJobs \cup ListJobs \cup {Malformed}

NewRoutes ==
  [op : {"CreateRoute"}, tref : {c1}, origin : OriginIDs, pattern : Patterns, methods : MethodSets,
   priority : Priorities, auth : {"public"}, active : {FALSE}, policy : Policies]

NewRoutesToOne == {j \in NewRoutes : j.origin = o1 /\ j.pattern = p1}

\* Requests about origins and routes, some without a required field or with
\* an auth_mode that is none.
RouteJobs ==
  [op : {"CreateOrigin"}, tref : {c1}, name : {"name"}, url : URLs]
  \cup [op : {"CreateOrigin"}, tref : {t1}, name : {"other"}, url : URLs]
  \cup [op : {"CreateOrigin"}, tref : {c1}, name : {NoValue}, url : URLs]
  \cup [op : {"UpdateOrigin"}, id : {o1}, name : {"name"}, url : URLs]
  \cup [op : {"DeleteOrigin"}, id : {o1}]
  \cup NewRoutes
  \cup {[j EXCEPT !.origin = NoValue] : j \in NewRoutesToOne}
  \cup {[j EXCEPT !.auth = "bogus"] : j \in NewRoutesToOne}
  \cup [op : {"UpdateRoute"}, id : {r1}, pattern : {p1}, methods : MethodSets,
        priority : Priorities, auth : {"public"}, active : {FALSE}, policy : Policies]
  \cup [op : {"DeleteRoute"}, id : {r1}]
  \cup [op : {"DeleteTenant"}, id : TenantIDs]

Symmetry == Permutations(Slots) \cup Permutations(TenantIDs)
=============================================================================
