SPECIFICATION AuthSpec
SYMMETRY Symmetry
INVARIANTS OrphanMeansError SyncedUserIsOne
CONSTANTS
  p1 = p1 p2 = p2
  t1 = t1 t2 = t2 t3 = t3
  u1 = u1 u2 = u2
  s1 = s1 s2 = s2
  AuthCalls = {p1, p2}
  UserIDs = {u1, u2}
  ClerkUsers = {"c"}
  NoValue = NoValue
  Unused = Unused
  Deleted = Deleted
  TenantIDs = {t1, t2, t3}
  OriginIDs = {}
  RouteIDs = {}
  KeyIDs = {}
  Subdomains = {s1, s2}
  ClerkOrgs = {}
  Names = {"name", "other"}
  Statuses = {"active"}
  URLs = {}
  Patterns = {}
  MethodSets = {}
  Priorities = {}
  AuthModes = {}
  Policies = {}
  Expiries = {}
  Paths = {}
  Methods = {}
  Like = {}
