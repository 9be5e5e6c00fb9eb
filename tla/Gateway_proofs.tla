---------------------------- MODULE Gateway_proofs ----------------------------
(***************************************************************************)
(* What holds of the gateway for any number of requests, tenants, origins  *)
(* and routes, and whatever the control plane writes in between.  The      *)
(* facts about the store come from ConfigStore_proofs: every step of the   *)
(* gateway is a statement of the store or leaves it alone.                 *)
(***************************************************************************)
EXTENDS Gateway, ConfigStore_proofs

\* What a request's handler changes; every action of a request is one of these.
Step(q) == Handle(q) \/ Upstream(q)

LEMMA HandlersOnlyRead ==
  ASSUME NEW q \in Requests, Step(q)
  PROVE  UNCHANGED storeVars
BY DEF Step, Handle, Receive, ExtractTenant, FindRoute, GetOrigin, LookupFails, ProxyRequest,
       Upstream

LEMMA GatewayStoreStep ==
  ASSUME [GatewayNext]_gatewayVars
  PROVE  [StoreNext]_storeVars
<1>1. CASE Reconfigure
  BY <1>1 DEF Reconfigure
<1>2. CASE \E q \in Requests : Step(q)
  BY <1>2, HandlersOnlyRead
<1>3. CASE UNCHANGED gatewayVars
  BY <1>3 DEF gatewayVars
<1> QED BY <1>1, <1>2, <1>3 DEF GatewayNext, Step

\* The gateway runs on a store that only the statements of ConfigStore change.
THEOREM GatewayRunsOnStore == GatewaySpec => StoreSpec
<1>1. GatewayInit => StoreInit
  BY DEF GatewayInit
<1> QED BY <1>1, GatewayStoreStep, PTL DEF GatewaySpec, StoreSpec

StoreInv == StoreTypeOK /\ ForeignKeys /\ UniqueColumns

LEMMA GatewayStoreInv == GatewaySpec => []StoreInv
BY GatewayRunsOnStore, StoreTypeCorrect, ForeignKeysHold, UniqueColumnsHold, PTL DEF StoreInv

-----------------------------------------------------------------------------
LEMMA ServingAreRoutes ==
  ASSUME StoreTypeOK, NEW in
  PROVE  Serving(in) \subseteq RouteIDs
BY DEF Serving, Live, StoreTypeOK, Table

LEMMA RouteColumns ==
  ASSUME StoreTypeOK, NEW r \in Live(routes)
  PROVE  r \in RouteIDs /\ routes[r].tenant \in TenantIDs /\ routes[r].origin \in OriginIDs
<1>1. r \in RouteIDs /\ routes[r] \in RouteRow
  BY LiveRow DEF StoreTypeOK
<1> QED BY <1>1 DEF RouteRow

LEMMA OriginColumns ==
  ASSUME StoreTypeOK, NEW o \in Live(origins)
  PROVE  o \in OriginIDs /\ origins[o].url \in URLs
<1>1. o \in OriginIDs /\ origins[o] \in OriginRow
  BY LiveRow DEF StoreTypeOK
<1> QED BY <1>1 DEF OriginRow

LEMMA TrackType ==
  ASSUME StoreTypeOK', GatewayTypeOK, Track
  PROVE  always' \in [Requests -> SUBSET RouteIDs]
BY DEF Track, GatewayTypeOK


LEMMA GatewayInitType == GatewayInit => GatewayTypeOK
BY DEF GatewayInit, GatewayTypeOK

LEMMA GatewayStepType ==
  ASSUME StoreTypeOK, StoreTypeOK', GatewayTypeOK, [GatewayNext]_gatewayVars
  PROVE  GatewayTypeOK'
<1>1. ASSUME NEW q \in Requests, Receive(q) PROVE GatewayTypeOK'
  <2>1. PICK in \in Inputs :
          /\ input' = [input EXCEPT ![q] = in]
          /\ always' = [always EXCEPT ![q] = Serving(in)]
          /\ IF in.path = HealthPath
             THEN Answer(q, 200)
             ELSE Goto(q, "tenant") /\ UNCHANGED status
    BY <1>1 DEF Receive
  <2>2. always' \in [Requests -> SUBSET RouteIDs]
    BY <2>1, ServingAreRoutes DEF GatewayTypeOK
  <2> QED BY <1>1, <2>1, <2>2 DEF Receive, Answer, Goto, GatewayTypeOK
<1>2. ASSUME NEW q \in Requests, ExtractTenant(q) PROVE GatewayTypeOK'
  <2>1. always' \in [Requests -> SUBSET RouteIDs]
    BY <1>2, TrackType DEF ExtractTenant
  <2>2. BySubdomain(input[q].subdomain) \subseteq TenantIDs
    BY DEF BySubdomain, Live, StoreTypeOK, Table
  <2> QED BY <1>2, <2>1, <2>2 DEF ExtractTenant, Answer, Goto, GatewayTypeOK
<1>3. ASSUME NEW q \in Requests, FindRoute(q) PROVE GatewayTypeOK'
  <2>1. always' \in [Requests -> SUBSET RouteIDs]
    BY <1>3, TrackType DEF FindRoute
  <2>2. \A r \in Live(routes) : routes[r].origin \in OriginIDs
    BY RouteColumns
  <2>3. TopPriority(Matching(tenantID[q], input[q].path, input[q].method)) \subseteq Live(routes)
    BY DEF TopPriority, Matching, RoutesOf
  <2> QED BY <1>3, <2>1, <2>2, <2>3 DEF FindRoute, Answer, Goto, GatewayTypeOK
<1>4. ASSUME NEW q \in Requests, GetOrigin(q) PROVE GatewayTypeOK'
  <2>1. always' \in [Requests -> SUBSET RouteIDs]
    BY <1>4, TrackType DEF GetOrigin
  <2>2. \A o \in Live(origins) : origins[o].url \in URLs
    BY OriginColumns
  <2> QED BY <1>4, <2>1, <2>2 DEF GetOrigin, Answer, Goto, GatewayTypeOK
<1>5. ASSUME NEW q \in Requests, LookupFails(q) PROVE GatewayTypeOK'
  <2>1. always' \in [Requests -> SUBSET RouteIDs]
    BY <1>5, TrackType DEF LookupFails
  <2>2. FaultStatus(pc[q]) \in {400, 404, 503}
    BY <1>5 DEF LookupFails, FaultStatus
  <2>3. /\ pc' = [pc EXCEPT ![q] = "done"]
        /\ status' = [status EXCEPT ![q] = FaultStatus(pc[q])]
    BY <1>5 DEF LookupFails, Answer, Goto
  <2> QED BY <1>5, <2>1, <2>2, <2>3 DEF LookupFails, GatewayTypeOK
<1>6. ASSUME NEW q \in Requests, ProxyRequest(q) PROVE GatewayTypeOK'
  <2>1. always' \in [Requests -> SUBSET RouteIDs]
    BY <1>6, TrackType DEF ProxyRequest
  <2> QED BY <1>6, <2>1 DEF ProxyRequest, Answer, Goto, GatewayTypeOK
<1>7. ASSUME NEW q \in Requests, Upstream(q) PROVE GatewayTypeOK'
  <2>1. always' \in [Requests -> SUBSET RouteIDs]
    BY <1>7, TrackType DEF Upstream
  <2>2. PICK code \in {200, 502} : Answer(q, code)
    BY <1>7 DEF Upstream
  <2>3. pc' = [pc EXCEPT ![q] = "done"] /\ status' = [status EXCEPT ![q] = code]
    BY <2>2 DEF Answer, Goto
  <2> QED BY <1>7, <2>1, <2>3 DEF Upstream, GatewayTypeOK
<1>8. CASE Reconfigure
  <2>1. always' \in [Requests -> SUBSET RouteIDs]
    BY <1>8, TrackType DEF Reconfigure
  <2> QED BY <1>8, <2>1 DEF Reconfigure, GatewayTypeOK
<1>9. CASE UNCHANGED gatewayVars
  BY <1>9 DEF gatewayVars, GatewayTypeOK
<1> QED BY <1>1, <1>2, <1>3, <1>4, <1>5, <1>6, <1>7, <1>8, <1>9 DEF GatewayNext, Handle

\* Whatever the store holds, the locals of every handler have their types and
\* a request has a status exactly when it is answered.
THEOREM GatewayTypeCorrect == GatewaySpec => []GatewayTypeOK
<1>1. StoreInv => StoreTypeOK
  BY DEF StoreInv
<1> QED BY <1>1, GatewayInitType, GatewayStepType, GatewayStoreInv, PTL DEF GatewaySpec

-----------------------------------------------------------------------------
(* The inductive invariant.  Each part says what a handler knows between two *)
(* statements although the store has changed since the first.                *)

\* The tenant found has kept its subdomain, or it is gone; and the routes that
\* served the request all along are its own.
TenantFound(q) ==
  pc[q] = "route" =>
    /\ tenantID[q] \in TenantIDs /\ tenants[tenantID[q]] # Unused
    /\ tenantID[q] \in Live(tenants) => tenants[tenantID[q]].subdomain = input[q].subdomain
    /\ \A r \in always[q] : routes[r].tenant = tenantID[q]

\* The origin found existed: if it does not now, it was deleted.
OriginFound(q) == pc[q] = "origin" => originID[q] \in OriginIDs /\ origins[originID[q]] # Unused

AddressFound(q) ==
  /\ pc[q] \in {"new", "tenant", "route", "origin"} => address[q] = NoValue
  /\ pc[q] \in {"proxy", "upstream"} => address[q] # NoValue

NotFoundMeans(q) == status[q] \in {400, 404} /\ ~faulty[q] => always[q] = {}

UnavailableMeans(q) == status[q] = 503 /\ ~faulty[q] => originID[q] \in OriginIDs
                                                       /\ origins[originID[q]] = Deleted

RequestInv(q) == /\ always[q] \subseteq Live(routes)
                 /\ TenantFound(q) /\ OriginFound(q) /\ AddressFound(q)
                 /\ NotFoundMeans(q) /\ UnavailableMeans(q)

GatewayInv == GatewayTypeOK /\ \A q \in Requests : RequestInv(q)

\* A step that does not concern p: its locals stay, its history may shrink.
Same(p) == /\ pc'[p] = pc[p] /\ input'[p] = input[p] /\ tenantID'[p] = tenantID[p]
           /\ originID'[p] = originID[p] /\ address'[p] = address[p]
           /\ status'[p] = status[p] /\ faulty'[p] = faulty[p]
           /\ always'[p] \subseteq always[p] \cap Live(routes')

LEMMA ServingAreLive == ASSUME NEW in PROVE Serving(in) \subseteq Live(routes)
BY DEF Serving

LEMMA TrackShrinks ==
  ASSUME Track, NEW p \in Requests
  PROVE  always'[p] \subseteq always[p] \cap Live(routes')
BY DEF Track, Serving, Live

\* Between two statements of the store, a handler's own step.
LEMMA TrackServing ==
  ASSUME Track, NEW q \in Requests, pc[q] # "new", UNCHANGED <<storeVars, input>>
  PROVE  always'[q] = always[q] \cap Serving(input[q])
BY DEF Track, storeVars, Serving, BySubdomain, Matches, Live

LEMMA ReconfigureSame ==
  ASSUME Reconfigure, NEW p \in Requests
  PROVE  Same(p)
BY TrackShrinks DEF Reconfigure, Same

LEMMA OthersSame ==
  ASSUME GatewayTypeOK, NEW q \in Requests, Step(q), NEW p \in Requests \ {q},
         always[p] \subseteq Live(routes)
  PROVE  Same(p)
<1>1. ASSUME Receive(q) PROVE Same(p)
  <2>1. always'[p] = always[p] /\ routes' = routes
    BY <1>1 DEF Receive, GatewayTypeOK, storeVars
  <2> QED BY <1>1, <2>1 DEF Receive, Same, Answer, Goto, GatewayTypeOK
<1>2. ASSUME Track PROVE always'[p] \subseteq always[p] \cap Live(routes')
  BY <1>2, TrackShrinks
<1>3. CASE ExtractTenant(q)
  BY <1>2, <1>3 DEF ExtractTenant, Same, Answer, Goto, GatewayTypeOK
<1>4. CASE FindRoute(q)
  BY <1>2, <1>4 DEF FindRoute, Same, Answer, Goto, GatewayTypeOK
<1>5. CASE GetOrigin(q)
  BY <1>2, <1>5 DEF GetOrigin, Same, Answer, Goto, GatewayTypeOK
<1>6. CASE LookupFails(q)
  BY <1>2, <1>6 DEF LookupFails, Same, Answer, Goto, GatewayTypeOK
<1>7. CASE ProxyRequest(q)
  BY <1>2, <1>7 DEF ProxyRequest, Same, Answer, Goto, GatewayTypeOK
<1>8. CASE Upstream(q)
  BY <1>2, <1>8 DEF Upstream, Same, Answer, Goto, GatewayTypeOK
<1> QED BY <1>1, <1>3, <1>4, <1>5, <1>6, <1>7, <1>8 DEF Step, Handle

\* What a handler knows survives every statement of the store.
LEMMA SameKeepsInv ==
  ASSUME StoreTypeOK, [StoreNext]_storeVars, NEW p \in Requests, RequestInv(p), Same(p)
  PROVE  RequestInv(p)'
<1>1. RowLifecycleStep
  BY StoreStepLifecycle
<1>2. /\ always[p] \subseteq Live(routes)
      /\ TenantFound(p) /\ OriginFound(p) /\ AddressFound(p)
      /\ NotFoundMeans(p) /\ UnavailableMeans(p)
  BY DEF RequestInv
<1>3. (always[p] \subseteq Live(routes))'
  BY DEF Same, Live
<1>4. TenantFound(p)'
  <2> SUFFICES ASSUME pc[p] = "route"
               PROVE  /\ tenantID[p] \in TenantIDs /\ tenants'[tenantID[p]] # Unused
                      /\ tenantID[p] \in Live(tenants') =>
                           tenants'[tenantID[p]].subdomain = input[p].subdomain
                      /\ \A r \in always'[p] : routes'[r].tenant = tenantID[p]
    BY DEF TenantFound, Same, Live
  <2>1. tenantID[p] \in TenantIDs /\ tenants'[tenantID[p]] # Unused
    BY <1>1, <1>2 DEF TenantFound, RowLifecycleStep, Ages, StoreTypeOK, Table
  <2>2. ASSUME tenantID[p] \in Live(tenants')
        PROVE  tenants'[tenantID[p]].subdomain = input[p].subdomain
    <3>1. tenantID[p] \in Live(tenants)
      BY <1>1, <1>2, <2>2 DEF TenantFound, RowLifecycleStep, Ages, Live, StoreTypeOK, Table
    <3> QED BY <1>1, <1>2, <2>2, <3>1 DEF TenantFound, RowLifecycleStep
  <2>3. ASSUME NEW r \in always'[p]
        PROVE  routes'[r].tenant = tenantID[p]
    <3>1. r \in always[p] /\ r \in Live(routes) \cap Live(routes')
      BY <1>2 DEF Same
    <3> QED BY <1>1, <1>2, <3>1 DEF TenantFound, RowLifecycleStep
  <2> QED BY <2>1, <2>2, <2>3
<1>5. OriginFound(p)'
  BY <1>1, <1>2 DEF OriginFound, Same, RowLifecycleStep, Ages, StoreTypeOK, Table
<1>6. AddressFound(p)'
  BY <1>2 DEF AddressFound, Same
<1>7. NotFoundMeans(p)'
  BY <1>2 DEF NotFoundMeans, Same
<1>8. UnavailableMeans(p)'
  BY <1>1, <1>2 DEF UnavailableMeans, Same, RowLifecycleStep, Ages, StoreTypeOK, Table
<1> QED BY <1>3, <1>4, <1>5, <1>6, <1>7, <1>8 DEF RequestInv

-----------------------------------------------------------------------------
(* The handler's own steps.                                                  *)

LEMMA OwnReceive ==
  ASSUME GatewayTypeOK, NEW q \in Requests, RequestInv(q), Receive(q)
  PROVE  RequestInv(q)'
<1>1. PICK in \in Inputs :
        /\ always' = [always EXCEPT ![q] = Serving(in)]
        /\ IF in.path = HealthPath
           THEN Answer(q, 200)
           ELSE Goto(q, "tenant") /\ UNCHANGED status
  BY DEF Receive
<1>2. always'[q] \subseteq Live(routes')
  BY <1>1, ServingAreLive DEF Receive, GatewayTypeOK, storeVars
<1>3. \/ pc'[q] = "done" /\ status'[q] = 200
      \/ pc'[q] = "tenant" /\ status'[q] = status[q]
  BY <1>1 DEF Answer, Goto, GatewayTypeOK
<1>4. status[q] = 0 /\ address'[q] = NoValue
  BY DEF Receive, GatewayTypeOK, RequestInv, AddressFound
<1> QED BY <1>2, <1>3, <1>4
  DEF RequestInv, TenantFound, OriginFound, AddressFound, NotFoundMeans, UnavailableMeans, Live

LEMMA OwnExtractTenant ==
  ASSUME StoreInv, GatewayTypeOK, NEW q \in Requests, RequestInv(q), ExtractTenant(q)
  PROVE  RequestInv(q)'
<1>1. always'[q] = always[q] \cap Serving(input[q]) /\ always'[q] \subseteq Live(routes')
  BY TrackServing, TrackShrinks DEF ExtractTenant, GatewayTypeOK
<1>2. status[q] = 0 /\ address'[q] = NoValue
  BY DEF ExtractTenant, GatewayTypeOK, RequestInv, AddressFound
<1>3. ASSUME NEW t \in BySubdomain(input[q].subdomain),
             tenantID' = [tenantID EXCEPT ![q] = t], Goto(q, "route"), UNCHANGED status
      PROVE  RequestInv(q)'
  <2>1. t \in Live(tenants) /\ tenants[t].subdomain = input[q].subdomain /\ t \in TenantIDs
    BY DEF BySubdomain, StoreInv, StoreTypeOK, Live, Table
  <2>2. \A r \in Serving(input[q]) : routes[r].tenant = t
    BY <2>1 DEF Serving, BySubdomain, StoreInv, UniqueColumns, UniqueTenants
  <2>3. pc'[q] = "route" /\ tenantID'[q] = t /\ status'[q] = 0
    BY <1>2, <1>3 DEF Goto, GatewayTypeOK
  <2>4. TenantFound(q)'
    BY <1>1, <2>1, <2>2, <2>3 DEF TenantFound, ExtractTenant, storeVars, Live
  <2> QED BY <1>1, <1>2, <2>3, <2>4
    DEF RequestInv, OriginFound, AddressFound, NotFoundMeans, UnavailableMeans, Live
<1>4. ASSUME BySubdomain(input[q].subdomain) = {}, Answer(q, 400)
      PROVE  RequestInv(q)'
  <2>1. pc'[q] = "done" /\ status'[q] = 400
    BY <1>4 DEF Answer, Goto, GatewayTypeOK
  <2>2. always'[q] = {}
    BY <1>1, <1>4 DEF Serving
  <2> QED BY <2>1, <2>2
    DEF RequestInv, TenantFound, OriginFound, AddressFound, NotFoundMeans, UnavailableMeans
<1> QED BY <1>3, <1>4 DEF ExtractTenant

LEMMA OwnFindRoute ==
  ASSUME StoreInv, GatewayTypeOK, NEW q \in Requests, RequestInv(q), FindRoute(q)
  PROVE  RequestInv(q)'
<1> DEFINE found == Matching(tenantID[q], input[q].path, input[q].method)
<1>1. always'[q] = always[q] \cap Serving(input[q]) /\ always'[q] \subseteq Live(routes')
  BY TrackServing, TrackShrinks DEF FindRoute, GatewayTypeOK
<1>2. status[q] = 0 /\ address'[q] = NoValue /\ pc[q] = "route"
  BY DEF FindRoute, GatewayTypeOK, RequestInv, AddressFound
<1>3. ASSUME NEW r \in TopPriority(found),
             originID' = [originID EXCEPT ![q] = routes[r].origin], Goto(q, "origin"),
             UNCHANGED status
      PROVE  RequestInv(q)'
  <2>1. r \in Live(routes)
    BY DEF TopPriority, Matching, RoutesOf
  <2>2. routes[r].origin \in Live(origins) /\ routes[r].origin \in OriginIDs
    BY <2>1, RouteColumns DEF StoreInv, ForeignKeys
  <2>3. pc'[q] = "origin" /\ originID'[q] = routes[r].origin /\ status'[q] = 0
    BY <1>2, <1>3 DEF Goto, GatewayTypeOK
  <2>4. origins' = origins
    BY DEF FindRoute, storeVars
  <2>5. OriginFound(q)'
    BY <2>2, <2>3, <2>4 DEF OriginFound, Live
  <2> QED BY <1>1, <1>2, <2>3, <2>5
    DEF RequestInv, TenantFound, AddressFound, NotFoundMeans, UnavailableMeans, Live
<1>4. ASSUME found = {}, Answer(q, 404)
      PROVE  RequestInv(q)'
  <2>1. pc'[q] = "done" /\ status'[q] = 404
    BY <1>4 DEF Answer, Goto, GatewayTypeOK
  <2>2. ASSUME NEW r \in always'[q] PROVE FALSE
    <3>1. r \in Live(routes) /\ Matches(r, input[q].path, input[q].method)
      BY <1>1, <2>2 DEF Serving
    <3>2. routes[r].tenant = tenantID[q]
      BY <1>1, <1>2, <2>2 DEF RequestInv, TenantFound
    <3> QED BY <1>4, <3>1, <3>2 DEF Matching, RoutesOf
  <2>3. always'[q] = {}
    BY <2>2
  <2> QED BY <2>1, <2>3
    DEF RequestInv, TenantFound, OriginFound, AddressFound, NotFoundMeans, UnavailableMeans
<1> QED BY <1>3, <1>4 DEF FindRoute

LEMMA OwnGetOrigin ==
  ASSUME StoreInv, GatewayTypeOK, NEW q \in Requests, RequestInv(q), GetOrigin(q)
  PROVE  RequestInv(q)'
<1>1. always'[q] \subseteq Live(routes')
  BY TrackShrinks DEF GetOrigin
<1>2. status[q] = 0 /\ pc[q] = "origin" /\ origins' = origins /\ originID' = originID
  BY DEF GetOrigin, GatewayTypeOK, storeVars
<1>3. ASSUME originID[q] \in Live(origins),
             address' = [address EXCEPT ![q] = origins[originID[q]].url], Goto(q, "proxy"),
             UNCHANGED status
      PROVE  RequestInv(q)'
  <2>1. pc'[q] = "proxy" /\ status'[q] = 0 /\ address'[q] = origins[originID[q]].url
    BY <1>2, <1>3 DEF Goto, GatewayTypeOK
  <2>2. address'[q] # NoValue
    BY <1>3, <2>1, OriginColumns, GatewayAssumption DEF StoreInv
  <2> QED BY <1>1, <2>1, <2>2
    DEF RequestInv, TenantFound, OriginFound, AddressFound, NotFoundMeans, UnavailableMeans, Live
<1>4. ASSUME originID[q] \notin Live(origins), Answer(q, 503)
      PROVE  RequestInv(q)'
  <2>1. pc'[q] = "done" /\ status'[q] = 503
    BY <1>4 DEF Answer, Goto, GatewayTypeOK
  <2>2. originID[q] \in OriginIDs /\ origins[originID[q]] = Deleted
    BY <1>2, <1>4 DEF RequestInv, OriginFound, Live, StoreInv, StoreTypeOK, Table
  <2> QED BY <1>1, <1>2, <2>1, <2>2
    DEF RequestInv, TenantFound, OriginFound, AddressFound, NotFoundMeans, UnavailableMeans, Live
<1> QED BY <1>3, <1>4 DEF GetOrigin

LEMMA OwnAnswers ==
  ASSUME GatewayTypeOK, NEW q \in Requests, RequestInv(q),
         LookupFails(q) \/ ProxyRequest(q) \/ Upstream(q)
  PROVE  RequestInv(q)'
<1>1. always'[q] \subseteq Live(routes')
  BY TrackShrinks DEF LookupFails, ProxyRequest, Upstream
<1>2. CASE LookupFails(q)
  BY <1>1, <1>2 DEF LookupFails, Answer, Goto, GatewayTypeOK,
     RequestInv, TenantFound, OriginFound, AddressFound, NotFoundMeans, UnavailableMeans, Live
<1>3. CASE ProxyRequest(q)
  BY <1>1, <1>3 DEF ProxyRequest, Answer, Goto, GatewayTypeOK,
     RequestInv, TenantFound, OriginFound, AddressFound, NotFoundMeans, UnavailableMeans, Live
<1>4. CASE Upstream(q)
  <2>1. PICK code \in {200, 502} : Answer(q, code)
    BY <1>4 DEF Upstream
  <2>2. pc'[q] = "done" /\ status'[q] = code
    BY <2>1 DEF Answer, Goto, GatewayTypeOK
  <2> QED BY <1>1, <2>2
    DEF RequestInv, TenantFound, OriginFound, AddressFound, NotFoundMeans, UnavailableMeans, Live
<1> QED BY <1>2, <1>3, <1>4

LEMMA GatewayInitInv == GatewayInit => \A q \in Requests : RequestInv(q)
BY DEF GatewayInit, RequestInv, TenantFound, OriginFound, AddressFound, NotFoundMeans,
       UnavailableMeans

LEMMA GatewayStepInv ==
  ASSUME StoreInv, GatewayTypeOK, \A q \in Requests : RequestInv(q), [GatewayNext]_gatewayVars,
         NEW p \in Requests
  PROVE  RequestInv(p)'
<1>1. StoreTypeOK /\ [StoreNext]_storeVars /\ RequestInv(p)
  BY GatewayStoreStep DEF StoreInv
<1>2. CASE Reconfigure
  BY <1>1, <1>2, ReconfigureSame, SameKeepsInv
<1>3. ASSUME NEW q \in Requests, Step(q) PROVE RequestInv(p)'
  <2>1. CASE p = q
    BY <1>1, <1>3, <2>1, OwnReceive, OwnExtractTenant, OwnFindRoute, OwnGetOrigin, OwnAnswers
       DEF Step, Handle
  <2>2. CASE p # q
    <3>1. Same(p)
      BY <1>1, <1>3, <2>2, OthersSame DEF RequestInv
    <3> QED BY <1>1, <3>1, SameKeepsInv
  <2> QED BY <2>1, <2>2
<1>4. CASE UNCHANGED gatewayVars
  <2>1. Same(p)
    BY <1>1, <1>4 DEF gatewayVars, storeVars, Same, RequestInv
  <2> QED BY <1>1, <2>1, SameKeepsInv
<1> QED BY <1>2, <1>3, <1>4 DEF GatewayNext, Step

LEMMA GatewayInvariant == GatewaySpec => [](StoreInv /\ GatewayInv)
<1>1. GatewayInit => GatewayInv
  BY GatewayInitType, GatewayInitInv DEF GatewayInv
<1>2. StoreInv /\ StoreInv' /\ GatewayInv /\ [GatewayNext]_gatewayVars => GatewayInv'
  BY GatewayStepType, GatewayStepInv DEF GatewayInv, StoreInv
<1> QED BY <1>1, <1>2, GatewayStoreInv, PTL DEF GatewaySpec

\* A request is told "invalid tenant" or "route not found" without a failure of
\* the database only if no route served it all along.
THEOREM NotFoundIsNeverSpurious == GatewaySpec => []NoSpuriousNotFound
<1>1. GatewayInv => NoSpuriousNotFound
  BY DEF GatewayInv, RequestInv, NotFoundMeans, NoSpuriousNotFound
<1> QED BY <1>1, GatewayInvariant, PTL

\* "Service unavailable" without a failure of the database means that the
\* origin was deleted after its route was found.
THEOREM UnavailableIsDeleted == GatewaySpec => []UnavailableMeansOriginDeleted
<1>1. GatewayInv => UnavailableMeansOriginDeleted
  BY DEF GatewayInv, RequestInv, UnavailableMeans, UnavailableMeansOriginDeleted
<1> QED BY <1>1, GatewayInvariant, PTL

-----------------------------------------------------------------------------
(* The gateway implements Routing.                                           *)

LEMMA AbsStoreNext == StoreNext => Abs!StoreNext
BY DEF StoreNext, Abs!StoreNext, Live, Abs!Live, Drop, Abs!Drop, OriginsOf, Abs!OriginsOf,
       RoutesOf, Abs!RoutesOf, KeysOf, Abs!KeysOf, RoutesTo, Abs!RoutesTo,
       TenantStatement, Abs!TenantStatement, InsertTenant, Abs!InsertTenant,
       TenantInsertable, Abs!TenantInsertable, UpdateTenantRow, Abs!UpdateTenantRow,
       TenantUpdatable, Abs!TenantUpdatable, DeleteTenantRow, Abs!DeleteTenantRow,
       OriginStatement, Abs!OriginStatement, OriginRow, Abs!OriginRow,
       InsertOrigin, Abs!InsertOrigin, OriginInsertable, Abs!OriginInsertable,
       OriginNameFree, Abs!OriginNameFree, UpdateOriginRow, Abs!UpdateOriginRow,
       OriginUpdatable, Abs!OriginUpdatable, DeleteOriginRow, Abs!DeleteOriginRow,
       RouteStatement, Abs!RouteStatement, RouteRow, Abs!RouteRow,
       RouteSettings, Abs!RouteSettings, InsertRoute, Abs!InsertRoute,
       RouteInsertable, Abs!RouteInsertable, PatternFree, Abs!PatternFree,
       UpdateRouteRow, Abs!UpdateRouteRow, RouteUpdatable, Abs!RouteUpdatable,
       DeleteRouteRow, Abs!DeleteRouteRow, KeyStatement, Abs!KeyStatement,
       KeyRow, Abs!KeyRow, InsertKey, Abs!InsertKey, KeyInsertable, Abs!KeyInsertable,
       DeleteKeyRow, Abs!DeleteKeyRow

LEMMA AbsServing ==
  ASSUME NEW in
  PROVE  Abs!TopPriority(Abs!Serving(in)) = TopPriority(Serving(in))
BY DEF Abs!TopPriority, Abs!Serving, Abs!Live, Abs!BySubdomain, Abs!Matches,
       TopPriority, Serving, Live, BySubdomain, Matches

LEMMA RoutingInitImplemented == GatewayInit => Abs!RoutingInit
BY DEF GatewayInit, Abs!RoutingInit, StoreInit, Abs!StoreInit, Stage

\* A step of request q moves the stage of q alone.
LEMMA StageMoves ==
  ASSUME NEW q \in Requests, \A p \in Requests \ {q} : Same(p)
  PROVE  [p \in Requests |-> Stage(p)]' = [[p \in Requests |-> Stage(p)] EXCEPT ![q] = Stage(q)']
<1>1. \A p \in Requests \ {q} : Stage(p)' = Stage(p)
  BY DEF Same, Stage
<1> QED BY <1>1

\* If the tenant that was found still has a route for the request, it is still
\* the tenant of the subdomain: the two lookups see one configuration.
LEMMA FoundIsServing ==
  ASSUME StoreInv, NEW q \in Requests, RequestInv(q), pc[q] = "route",
         Matching(tenantID[q], input[q].path, input[q].method) # {}
  PROVE  Matching(tenantID[q], input[q].path, input[q].method) = Serving(input[q])
<1> DEFINE found == Matching(tenantID[q], input[q].path, input[q].method)
<1>1. PICK r \in Live(routes) : routes[r].tenant = tenantID[q]
  BY DEF Matching, RoutesOf
<1>2. tenantID[q] \in Live(tenants)
  BY <1>1 DEF StoreInv, ForeignKeys
<1>3. tenants[tenantID[q]].subdomain = input[q].subdomain
  BY <1>2 DEF RequestInv, TenantFound
<1>4. BySubdomain(input[q].subdomain) = {tenantID[q]}
  BY <1>2, <1>3 DEF BySubdomain, StoreInv, UniqueColumns, UniqueTenants
<1> QED BY <1>4 DEF Matching, RoutesOf, Serving

LEMMA RoutingStepImplemented ==
  ASSUME StoreInv, GatewayInv, GatewayInv', [GatewayNext]_gatewayVars
  PROVE  [Abs!RoutingNext]_(Abs!routingVars)
<1> DEFINE stage == [p \in Requests |-> Stage(p)]
<1> USE DEF GatewayInv
<1>1. CASE Reconfigure
  <2>1. stage' = stage
    BY <1>1 DEF Reconfigure, Stage
  <2> QED BY <1>1, <2>1, AbsStoreNext DEF Reconfigure, Abs!RoutingNext, Abs!Reconfigure
<1>2. ASSUME NEW q \in Requests, Step(q)
      PROVE  [Abs!RoutingNext]_(Abs!routingVars)
  <2>1. stage' = [stage EXCEPT ![q] = Stage(q)']
    BY <1>2, OthersSame, StageMoves DEF RequestInv
  <2>2. UNCHANGED storeVars
    BY <1>2, HandlersOnlyRead
  <2>3. RequestInv(q) /\ AddressFound(q) /\ AddressFound(q)'
    BY DEF RequestInv
  <2>4. Stage(q)' = Stage(q) => stage' = stage
    BY <2>1
  <2>5. CASE Receive(q)
    <3>1. Stage(q) = "new" /\ Stage(q)' \in {"open", "refused"}
      BY <2>3, <2>5 DEF Receive, Answer, Goto, Stage, AddressFound, GatewayTypeOK
    <3>2. Abs!Ask(q)
      BY <2>1, <2>2, <2>5, <3>1 DEF Receive, Abs!Ask, Abs!storeVars, storeVars
    <3> QED BY <3>2 DEF Abs!RoutingNext
  <2>6. ASSUME Stage(q) \in {"open", "chosen"}, Stage(q)' = "refused",
               UNCHANGED <<input, originID, address>>
        PROVE  Abs!RoutingNext
    BY <2>1, <2>2, <2>6 DEF Abs!RoutingNext, Abs!Refuse, Abs!storeVars, storeVars
  <2>7. ASSUME Stage(q)' = Stage(q), UNCHANGED <<input, originID, address>>
        PROVE  UNCHANGED Abs!routingVars
    BY <2>2, <2>4, <2>7 DEF Abs!routingVars, Abs!storeVars, storeVars
  <2>8. CASE ExtractTenant(q)
    <3>1. Stage(q) = "open" /\ Stage(q)' \in {"open", "refused"}
      BY <2>3, <2>8 DEF ExtractTenant, Answer, Goto, Stage, AddressFound, GatewayTypeOK
    <3> QED BY <2>6, <2>7, <2>8, <3>1 DEF ExtractTenant
  <2>9. CASE FindRoute(q)
    <3> DEFINE found == Matching(tenantID[q], input[q].path, input[q].method)
    <3>1. Stage(q) = "open"
      BY <2>9 DEF FindRoute, Stage
    <3>2. ASSUME NEW r \in TopPriority(found),
                 originID' = [originID EXCEPT ![q] = routes[r].origin], Goto(q, "origin")
          PROVE  Abs!RoutingNext
      <4>1. r \in TopPriority(Serving(input[q]))
        BY <2>3, <2>9, <3>2, FoundIsServing DEF FindRoute, TopPriority
      <4>2. Stage(q)' = "chosen"
        BY <3>2 DEF Goto, Stage, GatewayTypeOK
      <4>3. Abs!Choose(q)
        BY <2>1, <2>2, <2>9, <3>1, <3>2, <4>1, <4>2, AbsServing
           DEF FindRoute, Abs!Choose, Abs!storeVars, storeVars
      <4> QED BY <4>3 DEF Abs!RoutingNext
    <3>3. ASSUME Answer(q, 404), UNCHANGED originID
          PROVE  Abs!RoutingNext
      <4>1. Stage(q)' = "refused"
        BY <2>3, <2>9, <3>3 DEF FindRoute, Answer, Goto, Stage, AddressFound, GatewayTypeOK
      <4> QED BY <2>6, <2>9, <3>1, <3>3, <4>1 DEF FindRoute
    <3> QED BY <2>9, <3>2, <3>3 DEF FindRoute
  <2>10. CASE GetOrigin(q)
    <3>1. Stage(q) = "chosen"
      BY <2>10 DEF GetOrigin, Stage
    <3>2. ASSUME originID[q] \in Live(origins),
                 address' = [address EXCEPT ![q] = origins[originID[q]].url], Goto(q, "proxy")
          PROVE  Abs!RoutingNext
      <4>1. Stage(q)' = "resolved"
        BY <3>2 DEF Goto, Stage, GatewayTypeOK
      <4>2. Abs!Resolve(q)
        BY <2>1, <2>2, <2>10, <3>1, <3>2, <4>1
           DEF GetOrigin, Abs!Resolve, Abs!Live, Live, Abs!storeVars, storeVars
      <4> QED BY <4>2 DEF Abs!RoutingNext
    <3>3. ASSUME Answer(q, 503), UNCHANGED address
          PROVE  Abs!RoutingNext
      <4>1. Stage(q)' = "refused"
        BY <2>3, <2>10, <3>3 DEF GetOrigin, Answer, Goto, Stage, AddressFound, GatewayTypeOK
      <4> QED BY <2>6, <2>10, <3>1, <3>3, <4>1 DEF GetOrigin
    <3> QED BY <2>10, <3>2, <3>3 DEF GetOrigin
  <2>11. CASE LookupFails(q)
    <3>1. Stage(q) \in {"open", "chosen"} /\ Stage(q)' = "refused"
      BY <2>3, <2>11 DEF LookupFails, Answer, Goto, Stage, AddressFound, GatewayTypeOK
    <3> QED BY <2>6, <2>11, <3>1 DEF LookupFails
  <2>12. CASE ProxyRequest(q)
    <3>1. Stage(q)' = Stage(q)
      BY <2>3, <2>12 DEF ProxyRequest, Answer, Goto, Stage, AddressFound, GatewayTypeOK
    <3> QED BY <2>7, <2>12, <3>1 DEF ProxyRequest
  <2>13. CASE Upstream(q)
    <3>1. pc'[q] = "done"
      BY <2>13 DEF Upstream, Answer, Goto, GatewayTypeOK
    <3>2. Stage(q)' = Stage(q)
      BY <2>3, <2>13, <3>1 DEF Upstream, Stage, AddressFound
    <3> QED BY <2>7, <2>13, <3>2 DEF Upstream
  <2> QED BY <1>2, <2>5, <2>8, <2>9, <2>10, <2>11, <2>12, <2>13 DEF Step, Handle
<1>3. CASE UNCHANGED gatewayVars
  <2>1. stage' = stage
    BY <1>3 DEF gatewayVars, Stage
  <2> QED BY <1>3, <2>1 DEF gatewayVars, storeVars, Abs!routingVars, Abs!storeVars
<1> QED BY <1>1, <1>2, <1>3 DEF GatewayNext, Step

\* Although tenant, route and origin are looked up by three statements, each
\* request goes where Routing sends it: as if its tenant and its route had been
\* chosen at one moment.
THEOREM GatewayImplementsRouting == GatewaySpec => RoutingSpec
<1>1. StoreInv /\ GatewayInv /\ GatewayInv' /\ [GatewayNext]_gatewayVars
        => [Abs!RoutingNext]_(Abs!routingVars)
  BY RoutingStepImplemented
<1> QED BY <1>1, RoutingInitImplemented, GatewayInvariant, PTL
  DEF GatewaySpec, RoutingSpec, Abs!RoutingSpec
=============================================================================
