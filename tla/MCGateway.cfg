SPECIFICATION GatewaySpec
SYMMETRY Symmetry
INVARIANTS GatewayTypeOK StoreTypeOK ForeignKeys UniqueColumns NoSpuriousNotFound UnavailableMeansOriginDeleted
PROPERTIES RowLifecycle RoutingSpec
CONSTANTS
  t1 = t1
  t2 = t2
  o1 = o1
  o2 = o2
  r1 = r1
  r2 = r2
  s1 = s1
  s2 = s2
  p1 = p1
  p2 = p2
  path = path
  other = other
  good = good
  bad = bad
  get = get
  NoValue = NoValue
  Unused = Unused
  Deleted = Deleted
  HealthPath = HealthPath
  Requests = {"q"}
  TenantIDs = {t1, t2}
  OriginIDs = {o1, o2}
  RouteIDs = {r1, r2}
  KeyIDs = {}
  Subdomains = {s1, s2}
  ClerkOrgs = {}
  Names = {"name"}
  Statuses = {"active"}
  URLs = {good}
  BadURLs = {}
  Patterns = {p1, p2}
  MethodSets <- MCMethodSets
  Priorities <- MCPriorities
  AuthModes = {"public"}
  Policies = {"policy"}
  Expiries = {}
  Paths = {path, other}
  Methods = {get}
  Like <- MCLike
