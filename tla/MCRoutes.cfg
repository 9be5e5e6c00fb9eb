SPECIFICATION FairCPSpec
PROPERTY EveryRequestAnswered
CONSTANTS
  t1 = t1
  t2 = t2
  o1 = o1
  o2 = o2
  r1 = r1
  r2 = r2
  k1 = k1
  a = a
  b = b
  c1 = c1
  c2 = c2
  s1 = s1
  s2 = s2
  p1 = p1
  p2 = p2
  NoValue = NoValue
  Unused = Unused
  Deleted = Deleted
  Slots = {a, b}
  Jobs <- RouteJobs
  SubdomainOf <- MCSubdomainOf
  EmptyName = ""
  WorkspaceName = "My Workspace"
  TenantIDs = {t1}
  OriginIDs = {o1, o2}
  RouteIDs = {r1, r2}
  KeyIDs = {}
  Subdomains = {s1}
  ClerkOrgs = {c1}
  Names = {"name", "other", "My Workspace"}
  Statuses = {"active"}
  URLs = {"url"}
  Patterns = {p1, p2}
  MethodSets = {{"GET"}}
  Priorities = {0}
  AuthModes = {"public"}
  Policies = {"policy"}
  Expiries = {}
  Paths = {"path"}
  Methods = {"GET"}
  Like = {}
