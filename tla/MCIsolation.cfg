SPECIFICATION SystemSpec
INVARIANT OriginOfOwnTenant
CONSTANTS
  t1 = t1
  t2 = t2
  o1 = o1
  r1 = r1
  a = a
  s1 = s1
  s2 = s2
  p1 = p1
  NoValue = NoValue
  Unused = Unused
  Deleted = Deleted
  Slots = {a}
  Jobs <- SetUpJobs
  SubdomainOf <- MCSubdomainOf
  EmptyName = ""
  WorkspaceName = "My Workspace"
  Requests = {"q"}
  HealthPath = HealthPath
  BadURLs = {}
  TenantIDs = {t1, t2}
  OriginIDs = {o1}
  RouteIDs = {r1}
  KeyIDs = {}
  Subdomains = {s1, s2}
  ClerkOrgs = {}
  Names = {"name", "My Workspace"}
  Statuses = {"active"}
  URLs = {"url"}
  Patterns = {p1}
  MethodSets = {{"GET"}}
  Priorities = {0}
  AuthModes = {"public"}
  Policies = {"policy"}
  Expiries = {}
  Paths = {"path"}
  Methods = {"GET"}
  Like <- MCLike
