SPECIFICATION FairGatewaySpec
PROPERTY ServedRequestReachesOrigin
CONSTANTS
  t1 = t1
  t2 = t2
  o1 = o1
  o2 = o2
  r1 = r1
  r2 = r2
  s1 = s1
  s2 = s2
  p1 = p1
  p2 = p2
  path = path
  other = other
  good = good
  bad = bad
  get = get
  NoValue = NoValue
  Unused = Unused
  Deleted = Deleted
  HealthPath = HealthPath
  Requests = {"q", "r"}
  TenantIDs = {t1, t2}
  OriginIDs = {o1}
  RouteIDs = {r1}
  KeyIDs = {}
  Subdomains = {s1}
  ClerkOrgs = {}
  Names = {"name"}
  Statuses = {"active"}
  URLs = {good, bad}
  BadURLs = {bad}
  Patterns = {p1, p2}
  MethodSets <- MCMethodSets
  Priorities = {0}
  AuthModes = {"public"}
  Policies = {"policy"}
  Expiries = {}
  Paths = {path}
  Methods = {get}
  Like <- MCLike
