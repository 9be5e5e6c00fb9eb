SPECIFICATION CPSpec
PROPERTY ResolveFindsTenant
CONSTANTS
  t1 = t1
  t2 = t2
  o1 = o1
  o2 = o2
  r1 = r1
  r2 = r2
  k1 = k1
  a = a
  b = b
  c1 = c1
  c2 = c2
  s1 = s1
  s2 = s2
  p1 = p1
  p2 = p2
  NoValue = NoValue
  Unused = Unused
  Deleted = Deleted
  Slots = {a, b}
  Jobs <- ListAndKeyJobs
  SubdomainOf <- MCSubdomainOf
  EmptyName = ""
  WorkspaceName = "My Workspace"
  TenantIDs = {t1, t2}
  OriginIDs = {}
  RouteIDs = {}
  KeyIDs = {k1}
  Subdomains = {s1, s2}
  ClerkOrgs = {c1}
  Names = {"name", "My Workspace"}
  Statuses = {"active", "suspended"}
  URLs = {}
  Patterns = {}
  MethodSets = {}
  Priorities = {}
  AuthModes = {}
  Policies = {}
  Expiries = {}
  Paths = {}
  Methods = {}
  Like = {}
