------------------------------ MODULE Gateway ------------------------------
(***************************************************************************)
(* handleRequest of src/internal/gateway/router/router.go: three lookups,  *)
(* each a statement of its own, and then the reverse proxy.  The control   *)
(* plane's statements (StoreNext) run between any two of them.             *)
(*                                                                         *)
(* net/http runs a goroutine per request; requests share only the store.   *)
(* A statement can also fail: the connection breaks, the client goes away  *)
(* and its context is cancelled, main closes the pool after the ten        *)
(* seconds of Shutdown.  faulty remembers that one did.                    *)
(***************************************************************************)
EXTENDS ConfigStore

CONSTANTS
  Requests,
  HealthPath,     \* /health, which New answers without a lookup
  BadURLs         \* the URLs url.Parse rejects

VARIABLES
  pc,             \* "new", "tenant", "route", "origin", "proxy", "upstream", "done"
  input,          \* what the request asks for
  tenantID,       \* the result of extractTenant
  originID,       \* route.OriginID of the matching route
  address,        \* origin.URL
  status,         \* the status of the answer, 0 before
  faulty,         \* a statement of this request failed in the database
  always          \* history: the routes that served the request ever since it arrived

gatewayVars == <<storeVars, pc, input, tenantID, originID, address, status, faulty, always>>

ASSUME GatewayAssumption == NoValue \notin Subdomains \cup TenantIDs \cup OriginIDs \cup URLs
ASSUME BadURLsAreURLs == BadURLs \subseteq URLs

\* A host of fewer than two labels names no subdomain.
Inputs == [subdomain : Subdomains \cup {NoValue}, path : Paths \cup {HealthPath}, method : Methods]

\* The history variable, a conjunct of every step.
Track == always' = [q \in Requests |->
                      IF pc[q] = "new" THEN {} ELSE always[q] \cap Serving(input[q])']

GatewayInit ==
  /\ StoreInit
  /\ pc = [q \in Requests |-> "new"]
  /\ input = [q \in Requests |-> NoValue]
  /\ tenantID = [q \in Requests |-> NoValue]
  /\ originID = [q \in Requests |-> NoValue]
  /\ address = [q \in Requests |-> NoValue]
  /\ status = [q \in Requests |-> 0]
  /\ faulty = [q \in Requests |-> FALSE]
  /\ always = [q \in Requests |-> {}]

Goto(q, label) == pc' = [pc EXCEPT ![q] = label]

\* Mutant: a return without a status.
AnswerNothing(q, code) == Goto(q, "done") /\ UNCHANGED status

\* http.Error, or the handler's last write: the request is answered.
Answer(q, code) ==
  /\ Goto(q, "done")
  /\ status' = [status EXCEPT ![q] = code]

------------------------------------------------------------------------------
\* The mux: /health is answered at once, everything else goes to handleRequest.
Receive(q) ==
  /\ pc[q] = "new"
  /\ \E in \in Inputs :
        /\ input' = [input EXCEPT ![q] = in]
        /\ always' = [always EXCEPT ![q] = Serving(in)]
        /\ IF in.path = HealthPath
           THEN Answer(q, 200)
           ELSE Goto(q, "tenant") /\ UNCHANGED status
  /\ UNCHANGED <<storeVars, tenantID, originID, address, faulty>>

\* GetBySubdomain
ExtractTenant(q) ==
  /\ pc[q] = "tenant"
  /\ \/ \E t \in BySubdomain(input[q].subdomain) :
           /\ tenantID' = [tenantID EXCEPT ![q] = t]
           /\ Goto(q, "route")
           /\ UNCHANGED status
     \/ /\ BySubdomain(input[q].subdomain) = {}
        /\ Answer(q, 400)
        /\ UNCHANGED tenantID
  /\ UNCHANGED <<storeVars, input, originID, address, faulty>>
  /\ Track

\* Mutant: LIMIT 1 without ORDER BY.
FindRouteUnordered(q) ==
  LET found == Matching(tenantID[q], input[q].path, input[q].method) IN
  /\ pc[q] = "route"
  /\ \/ \E r \in found :
           /\ originID' = [originID EXCEPT ![q] = routes[r].origin]
           /\ Goto(q, "origin")
           /\ UNCHANGED status
     \/ /\ found = {}
        /\ Answer(q, 404)
        /\ UNCHANGED originID
  /\ UNCHANGED <<storeVars, input, tenantID, address, faulty>>
  /\ Track

\* FindMatchingRoute
FindRoute(q) ==
  LET found == Matching(tenantID[q], input[q].path, input[q].method) IN
  /\ pc[q] = "route"
  /\ \/ \E r \in TopPriority(found) :
           /\ originID' = [originID EXCEPT ![q] = routes[r].origin]
           /\ Goto(q, "origin")
           /\ UNCHANGED status
     \/ /\ found = {}
        /\ Answer(q, 404)
        /\ UNCHANGED originID
  /\ UNCHANGED <<storeVars, input, tenantID, address, faulty>>
  /\ Track

\* Mutant: the lookup asks for the origins of the request's tenant only.
GetOriginOfTenant(q) ==
  LET found == {originID[q]} \cap OriginsOf(tenantID[q]) IN
  /\ pc[q] = "origin"
  /\ \/ \E o \in found : /\ address' = [address EXCEPT ![q] = origins[o].url]
                         /\ Goto(q, "proxy")
                         /\ UNCHANGED status
     \/ /\ found = {}
        /\ Answer(q, 503)
        /\ UNCHANGED address
  /\ UNCHANGED <<storeVars, input, tenantID, originID, faulty>>
  /\ Track

\* Origin.GetByID: by id alone, whichever tenant owns the origin.
GetOrigin(q) ==
  /\ pc[q] = "origin"
  /\ \/ /\ originID[q] \in Live(origins)
        /\ address' = [address EXCEPT ![q] = origins[originID[q]].url]
        /\ Goto(q, "proxy")
        /\ UNCHANGED status
     \/ /\ originID[q] \notin Live(origins)
        /\ Answer(q, 503)
        /\ UNCHANGED address
  /\ UNCHANGED <<storeVars, input, tenantID, originID, faulty>>
  /\ Track

\* The answer when a lookup fails in the database: the one for "not found".
FaultStatus(label) ==
  CASE label = "tenant" -> 400 [] label = "route" -> 404 [] label = "origin" -> 503

LookupFails(q) ==
  /\ pc[q] \in {"tenant", "route", "origin"}
  /\ Answer(q, FaultStatus(pc[q]))
  /\ faulty' = [faulty EXCEPT ![q] = TRUE]
  /\ UNCHANGED <<storeVars, input, tenantID, originID, address>>
  /\ Track

\* Mutant: the return after a URL that does not parse, without http.Error.
ProxyRequestSilent(q) ==
  /\ pc[q] = "proxy"
  /\ Goto(q, IF address[q] \in BadURLs THEN "done" ELSE "upstream")
  /\ UNCHANGED <<storeVars, input, tenantID, originID, address, status, faulty>>
  /\ Track

\* proxyRequest, up to the round trip
ProxyRequest(q) ==
  /\ pc[q] = "proxy"
  /\ IF address[q] \in BadURLs
     THEN Answer(q, 500)
     ELSE Goto(q, "upstream") /\ UNCHANGED status
  /\ UNCHANGED <<storeVars, input, tenantID, originID, address, faulty>>
  /\ Track

\* httputil.ReverseProxy: the origin's answer is relayed (200 stands for any
\* status it chose), a failed round trip is a 502.
Upstream(q) ==
  /\ pc[q] = "upstream"
  /\ \E code \in {200, 502} : Answer(q, code)
  /\ UNCHANGED <<storeVars, input, tenantID, originID, address, faulty>>
  /\ Track

Handle(q) == \/ Receive(q) \/ ExtractTenant(q) \/ FindRoute(q) \/ GetOrigin(q)
             \/ LookupFails(q) \/ ProxyRequest(q)

\* The control plane runs a statement.
Reconfigure ==
  /\ StoreNext
  /\ UNCHANGED <<pc, input, tenantID, originID, address, status, faulty>>
  /\ Track

GatewayNext == Reconfigure \/ \E q \in Requests : Handle(q) \/ Upstream(q)

GatewaySpec == GatewayInit /\ [][GatewayNext]_gatewayVars

\* A goroutine is scheduled, and database/sql returns a row or an error.
\* Nothing is assumed of origins: the proxy's transport waits for them without
\* a limit.
FairGatewaySpec == GatewaySpec /\ \A q \in Requests : WF_gatewayVars(Handle(q))

------------------------------------------------------------------------------
(* Properties *)

\* The locals of a handler have their types, and a request has a status
\* exactly when it has been answered.
GatewayTypeOK ==
  /\ pc \in [Requests -> {"new", "tenant", "route", "origin", "proxy", "upstream", "done"}]
  /\ input \in [Requests -> Inputs \cup {NoValue}]
  /\ tenantID \in [Requests -> TenantIDs \cup {NoValue}]
  /\ originID \in [Requests -> OriginIDs \cup {NoValue}]
  /\ address \in [Requests -> URLs \cup {NoValue}]
  /\ status \in [Requests -> {0, 200, 400, 404, 500, 502, 503}]
  /\ faulty \in [Requests -> BOOLEAN]
  /\ always \in [Requests -> SUBSET RouteIDs]
  /\ \A q \in Requests : pc[q] = "done" <=> status[q] # 0

\* A request is told "invalid tenant" or "route not found" only if every route
\* that served it when it arrived was gone, switched off or changed for a
\* moment since: no interleaving of the two lookups with updates, deletions or
\* a subdomain that moves to another tenant makes the gateway miss a route
\* that was there all along (router.go:48-61).
NoSpuriousNotFound ==
  \A q \in Requests : status[q] \in {400, 404} /\ ~faulty[q] => always[q] = {}

\* "Service unavailable" without a failure of the database means that the
\* origin was deleted between the second lookup and the third
\* (router.go:64-69): the foreign key lets no route point nowhere.
UnavailableMeansOriginDeleted ==
  \A q \in Requests : status[q] = 503 /\ ~faulty[q] => origins[originID[q]] = Deleted

\* Every request goes where Routing says: although the tenant and the route
\* are looked up by two statements, it is as if both had been chosen at once.
Stage(q) == CASE pc[q] = "new" -> "new"
              [] pc[q] \in {"tenant", "route"} -> "open"
              [] pc[q] = "origin" -> "chosen"
              [] pc[q] \in {"proxy", "upstream"} -> "resolved"
              [] pc[q] = "done" -> IF address[q] = NoValue THEN "refused" ELSE "resolved"

Abs == INSTANCE Routing WITH stage <- [q \in Requests |-> Stage(q)], target <- originID

RoutingSpec == Abs!RoutingSpec

\* A request that some route serves for long enough reaches an origin's
\* address, unless the database fails it, its origin is deleted under it or
\* the address is no URL.  The origin itself may take for ever.
ServedRequestReachesOrigin ==
  \A q \in Requests :
     pc[q] = "tenant" ~> \/ pc[q] = "upstream"
                         \/ faulty[q] \/ always[q] = {} \/ status[q] \in {500, 503}

\* README.md:237, "Isolated configurations per tenant": a request of one
\* tenant is sent to an origin of that tenant.
OriginOfOwnTenant ==
  \A q \in Requests :
     pc[q] = "proxy" /\ originID[q] \in Live(origins) => origins[originID[q]].tenant = tenantID[q]
==============================================================================
