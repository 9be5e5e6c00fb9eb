------------------------- MODULE ConfigStore_proofs -------------------------
(***************************************************************************)
(* What holds of every store that runs the statements of ConfigStore, for  *)
(* every choice of ids and values.  One lemma per statement and invariant  *)
(* that the statement can disturb; the theorems put them together.         *)
(***************************************************************************)
EXTENDS ConfigStore, TLAPS

LEMMA LiveRow ==
  ASSUME NEW ids, NEW rows, NEW table \in Table(ids, rows), NEW id \in Live(table)
  PROVE  id \in ids /\ table[id] \in rows
BY DEF Table, Live

LEMMA DropLive ==
  ASSUME NEW table, NEW ids
  PROVE  /\ Live(Drop(table, ids)) = Live(table) \ ids
         /\ \A id \in Live(table) \ ids : Drop(table, ids)[id] = table[id]
BY DEF Drop, Live

LEMMA DropType ==
  ASSUME NEW ids, NEW rows, NEW table \in Table(ids, rows), NEW gone
  PROVE  Drop(table, gone) \in Table(ids, rows)
BY DEF Drop, Table

-----------------------------------------------------------------------------
LEMMA TenantType ==
  ASSUME StoreTypeOK, TenantStatement
  PROVE  StoreTypeOK'
<1>1. PICK id \in TenantIDs :
         \/ \E name \in Names, subdomain \in Subdomains, clerkOrg \in ClerkOrgs \cup {NoValue} :
               InsertTenant(id, name, subdomain, clerkOrg)
         \/ \E name \in Names, status \in Statuses : UpdateTenantRow(id, name, status)
         \/ DeleteTenantRow(id)
  BY DEF TenantStatement
<1>2. ASSUME NEW name \in Names, NEW subdomain \in Subdomains,
             NEW clerkOrg \in ClerkOrgs \cup {NoValue},
             InsertTenant(id, name, subdomain, clerkOrg)
      PROVE  StoreTypeOK'
  <2>1. [name |-> name, subdomain |-> subdomain, clerkOrg |-> clerkOrg, status |-> "active"]
           \in TenantRow
    BY NewTenantsAreActive DEF TenantRow
  <2>2. tenants' \in Table(TenantIDs, TenantRow)
    BY <1>2, <2>1 DEF InsertTenant, StoreTypeOK, Table
  <2> QED BY <1>2, <2>2 DEF InsertTenant, StoreTypeOK
<1>3. ASSUME NEW name \in Names, NEW status \in Statuses, UpdateTenantRow(id, name, status)
      PROVE  StoreTypeOK'
  <2>1. CASE id \in Live(tenants)
    <3>1. tenants[id] \in TenantRow
      BY <2>1, LiveRow DEF StoreTypeOK
    <3>2. [tenants[id] EXCEPT !.name = name, !.status = status] \in TenantRow
      BY <3>1 DEF TenantRow
    <3>3. tenants' = [tenants EXCEPT ![id] = [tenants[id] EXCEPT !.name = name, !.status = status]]
      BY <1>3, <2>1 DEF UpdateTenantRow, StoreTypeOK, Table
    <3>4. tenants' \in Table(TenantIDs, TenantRow)
      BY <3>2, <3>3 DEF StoreTypeOK, Table
    <3> QED BY <1>3, <3>4 DEF UpdateTenantRow, StoreTypeOK
  <2>2. CASE id \notin Live(tenants)
    BY <1>3, <2>2 DEF UpdateTenantRow, StoreTypeOK
  <2> QED BY <2>1, <2>2
<1>4. ASSUME DeleteTenantRow(id) PROVE StoreTypeOK'
  BY <1>4, DropType DEF DeleteTenantRow, StoreTypeOK
<1> QED BY <1>1, <1>2, <1>3, <1>4

LEMMA OriginType ==
  ASSUME StoreTypeOK, OriginStatement
  PROVE  StoreTypeOK'
<1>1. PICK id \in OriginIDs :
         \/ \E row \in OriginRow : InsertOrigin(id, row)
         \/ \E name \in Names, url \in URLs : UpdateOriginRow(id, name, url)
         \/ DeleteOriginRow(id)
  BY DEF OriginStatement
<1>2. ASSUME NEW row \in OriginRow, InsertOrigin(id, row) PROVE StoreTypeOK'
  <2>1. origins' \in Table(OriginIDs, OriginRow)
    BY <1>2 DEF InsertOrigin, StoreTypeOK, Table
  <2> QED BY <1>2, <2>1 DEF InsertOrigin, StoreTypeOK
<1>3. ASSUME NEW name \in Names, NEW url \in URLs, UpdateOriginRow(id, name, url)
      PROVE  StoreTypeOK'
  <2>1. CASE id \in Live(origins)
    <3>1. origins[id] \in OriginRow
      BY <2>1, LiveRow DEF StoreTypeOK
    <3>2. [origins[id] EXCEPT !.name = name, !.url = url] \in OriginRow
      BY <3>1 DEF OriginRow
    <3>3. origins' = [origins EXCEPT ![id] = [origins[id] EXCEPT !.name = name, !.url = url]]
      BY <1>3, <2>1 DEF UpdateOriginRow, StoreTypeOK, Table
    <3>4. origins' \in Table(OriginIDs, OriginRow)
      BY <3>2, <3>3 DEF StoreTypeOK, Table
    <3> QED BY <1>3, <3>4 DEF UpdateOriginRow, StoreTypeOK
  <2>2. CASE id \notin Live(origins)
    BY <1>3, <2>2 DEF UpdateOriginRow, StoreTypeOK
  <2> QED BY <2>1, <2>2
<1>4. ASSUME DeleteOriginRow(id) PROVE StoreTypeOK'
  BY <1>4, DropType DEF DeleteOriginRow, StoreTypeOK
<1> QED BY <1>1, <1>2, <1>3, <1>4

LEMMA RouteType ==
  ASSUME StoreTypeOK, RouteStatement
  PROVE  StoreTypeOK'
<1>1. PICK id \in RouteIDs :
         \/ \E row \in RouteRow : InsertRoute(id, row)
         \/ \E new \in RouteSettings : UpdateRouteRow(id, new)
         \/ DeleteRouteRow(id)
  BY DEF RouteStatement
<1>2. ASSUME NEW row \in RouteRow, InsertRoute(id, row) PROVE StoreTypeOK'
  <2>1. [row EXCEPT !.active = TRUE] \in RouteRow
    BY DEF RouteRow
  <2>2. routes' \in Table(RouteIDs, RouteRow)
    BY <1>2, <2>1 DEF InsertRoute, StoreTypeOK, Table
  <2> QED BY <1>2, <2>2 DEF InsertRoute, StoreTypeOK
<1>3. ASSUME NEW new \in RouteSettings, UpdateRouteRow(id, new) PROVE StoreTypeOK'
  <2>1. CASE id \in Live(routes)
    <3> DEFINE changed == [routes[id] EXCEPT !.pattern = new.pattern, !.methods = new.methods,
                                             !.priority = new.priority, !.auth = new.auth,
                                             !.active = new.active]
    <3>1. routes[id] \in RouteRow
      BY <2>1, LiveRow DEF StoreTypeOK
    <3>2. changed \in RouteRow
      BY <3>1 DEF RouteRow, RouteSettings
    <3>3. routes' = [routes EXCEPT ![id] = changed]
      BY <1>3, <2>1 DEF UpdateRouteRow, StoreTypeOK, Table
    <3>4. routes' \in Table(RouteIDs, RouteRow)
      BY <3>2, <3>3 DEF StoreTypeOK, Table
    <3> QED BY <1>3, <3>4 DEF UpdateRouteRow, StoreTypeOK
  <2>2. CASE id \notin Live(routes)
    BY <1>3, <2>2 DEF UpdateRouteRow, StoreTypeOK
  <2> QED BY <2>1, <2>2
<1>4. ASSUME DeleteRouteRow(id) PROVE StoreTypeOK'
  BY <1>4, DropType DEF DeleteRouteRow, StoreTypeOK
<1> QED BY <1>1, <1>2, <1>3, <1>4

LEMMA KeyType ==
  ASSUME StoreTypeOK, KeyStatement
  PROVE  StoreTypeOK'
<1>1. PICK id \in KeyIDs : (\E row \in KeyRow : InsertKey(id, row)) \/ DeleteKeyRow(id)
  BY DEF KeyStatement
<1>2. ASSUME NEW row \in KeyRow, InsertKey(id, row) PROVE StoreTypeOK'
  <2>1. apiKeys' \in Table(KeyIDs, KeyRow)
    BY <1>2 DEF InsertKey, StoreTypeOK, Table
  <2> QED BY <1>2, <2>1 DEF InsertKey, StoreTypeOK
<1>3. ASSUME DeleteKeyRow(id) PROVE StoreTypeOK'
  BY <1>3, DropType DEF DeleteKeyRow, StoreTypeOK
<1> QED BY <1>1, <1>2, <1>3

LEMMA StoreInitType == StoreInit => StoreTypeOK
BY DEF StoreInit, StoreTypeOK, Table

LEMMA StoreStepType ==
  ASSUME StoreTypeOK, [StoreNext]_storeVars
  PROVE  StoreTypeOK'
<1>1. CASE StoreNext
  BY <1>1, TenantType, OriginType, RouteType, KeyType DEF StoreNext
<1>2. CASE UNCHANGED storeVars
  BY <1>2 DEF storeVars, StoreTypeOK
<1> QED BY <1>1, <1>2

\* Whatever statements run, in whichever order, a table holds rows of its own
\* columns.
THEOREM StoreTypeCorrect == StoreSpec => []StoreTypeOK
BY StoreInitType, StoreStepType, PTL DEF StoreSpec

-----------------------------------------------------------------------------
(* What a statement does to the live rows.                                   *)

LEMMA InsertTenantRows ==
  ASSUME StoreTypeOK, NEW id \in TenantIDs, NEW name \in Names, NEW subdomain \in Subdomains,
         NEW clerkOrg \in ClerkOrgs \cup {NoValue}, InsertTenant(id, name, subdomain, clerkOrg)
  PROVE  /\ tenants[id] = Unused
         /\ Live(tenants)' = Live(tenants) \cup {id}
         /\ \A t \in TenantIDs \ {id} : tenants'[t] = tenants[t]
         /\ tenants'[id].subdomain = subdomain
         /\ tenants'[id].clerkOrg = clerkOrg
         /\ UNCHANGED <<origins, routes, apiKeys>>
<1> DEFINE new == [name |-> name, subdomain |-> subdomain, clerkOrg |-> clerkOrg, status |-> "active"]
<1>1. new \in TenantRow /\ new.subdomain = subdomain /\ new.clerkOrg = clerkOrg
  BY NewTenantsAreActive DEF TenantRow
<1>2. new \notin {Unused, Deleted}
  BY <1>1, TombstonesAreNotRows
<1>3. tenants' = [tenants EXCEPT ![id] = new]
  BY DEF InsertTenant
<1>4. tenants \in Table(TenantIDs, TenantRow)
  BY DEF StoreTypeOK
<1> HIDE DEF new
<1>5. Live([tenants EXCEPT ![id] = new]) = Live(tenants) \cup {id}
  BY <1>2, <1>4 DEF Live, Table
<1>6. Live(tenants)' = Live(tenants) \cup {id}
  BY <1>3, <1>5 DEF Live
<1>7. tenants'[id] = new /\ \A t \in TenantIDs \ {id} : tenants'[t] = tenants[t]
  BY <1>3, <1>4 DEF Table
<1> QED BY <1>1, <1>6, <1>7 DEF InsertTenant

LEMMA UpdateTenantRows ==
  ASSUME StoreTypeOK, NEW id \in TenantIDs, NEW name \in Names, NEW status \in Statuses,
         UpdateTenantRow(id, name, status)
  PROVE  /\ Live(tenants)' = Live(tenants)
         /\ \A t \in TenantIDs \ Live(tenants) : tenants'[t] = tenants[t]
         /\ \A t \in Live(tenants) : /\ tenants'[t].subdomain = tenants[t].subdomain
                                     /\ tenants'[t].clerkOrg = tenants[t].clerkOrg
         /\ UNCHANGED <<origins, routes, apiKeys>>
<1>1. CASE id \in Live(tenants)
  <2> DEFINE changed == [tenants[id] EXCEPT !.name = name, !.status = status]
  <2>1. tenants[id] \in TenantRow /\ tenants \in Table(TenantIDs, TenantRow)
    BY <1>1, LiveRow DEF StoreTypeOK
  <2>2. /\ changed \in TenantRow
        /\ changed.subdomain = tenants[id].subdomain
        /\ changed.clerkOrg = tenants[id].clerkOrg
    BY <2>1 DEF TenantRow
  <2>3. tenants' = [tenants EXCEPT ![id] = changed]
    BY <1>1, <2>1 DEF UpdateTenantRow, Table
  <2>4. changed \notin {Unused, Deleted}
    BY <2>2, TombstonesAreNotRows
  <2> HIDE DEF changed
  <2>5. Live([tenants EXCEPT ![id] = changed]) = Live(tenants)
    BY <1>1, <2>1, <2>4 DEF Live, Table
  <2>6. Live(tenants)' = Live(tenants)
    BY <2>3, <2>5 DEF Live
  <2>7. tenants'[id] = changed /\ \A t \in TenantIDs \ {id} : tenants'[t] = tenants[t]
    BY <2>1, <2>3 DEF Table
  <2>8. Live(tenants) \subseteq TenantIDs
    BY <2>1 DEF Live, Table
  <2> QED BY <1>1, <2>2, <2>6, <2>7, <2>8 DEF UpdateTenantRow
<1>2. CASE id \notin Live(tenants)
  BY <1>2 DEF UpdateTenantRow, Live
<1> QED BY <1>1, <1>2

LEMMA InsertOriginRows ==
  ASSUME StoreTypeOK, NEW id \in OriginIDs, NEW row \in OriginRow, InsertOrigin(id, row)
  PROVE  /\ origins[id] = Unused
         /\ Live(origins)' = Live(origins) \cup {id}
         /\ \A o \in OriginIDs \ {id} : origins'[o] = origins[o]
         /\ origins'[id] = row
         /\ UNCHANGED <<tenants, routes, apiKeys>>
<1>1. row \notin {Unused, Deleted}
  BY TombstonesAreNotRows
<1>2. origins \in Table(OriginIDs, OriginRow) /\ origins' = [origins EXCEPT ![id] = row]
  BY DEF StoreTypeOK, InsertOrigin
<1>3. Live([origins EXCEPT ![id] = row]) = Live(origins) \cup {id}
  BY <1>1, <1>2 DEF Live, Table
<1>4. Live(origins)' = Live(origins) \cup {id}
  BY <1>2, <1>3 DEF Live
<1> QED BY <1>2, <1>4 DEF InsertOrigin, Table

LEMMA UpdateOriginRows ==
  ASSUME StoreTypeOK, NEW id \in OriginIDs, NEW name \in Names, NEW url \in URLs,
         UpdateOriginRow(id, name, url)
  PROVE  /\ Live(origins)' = Live(origins)
         /\ \A o \in OriginIDs \ ({id} \cap Live(origins)) : origins'[o] = origins[o]
         /\ id \in Live(origins) => /\ origins'[id].tenant = origins[id].tenant
                                    /\ origins'[id].name = name
         /\ UNCHANGED <<tenants, routes, apiKeys>>
<1>1. CASE id \in Live(origins)
  <2> DEFINE changed == [origins[id] EXCEPT !.name = name, !.url = url]
  <2>1. origins[id] \in OriginRow /\ origins \in Table(OriginIDs, OriginRow)
    BY <1>1, LiveRow DEF StoreTypeOK
  <2>2. /\ changed \in OriginRow
        /\ changed.tenant = origins[id].tenant
        /\ changed.name = name
    BY <2>1 DEF OriginRow
  <2>3. origins' = [origins EXCEPT ![id] = changed]
    BY <1>1, <2>1 DEF UpdateOriginRow, Table
  <2>4. changed \notin {Unused, Deleted}
    BY <2>2, TombstonesAreNotRows
  <2> HIDE DEF changed
  <2>5. Live([origins EXCEPT ![id] = changed]) = Live(origins)
    BY <1>1, <2>1, <2>4 DEF Live, Table
  <2>6. Live(origins)' = Live(origins)
    BY <2>3, <2>5 DEF Live
  <2>7. origins'[id] = changed /\ \A o \in OriginIDs \ {id} : origins'[o] = origins[o]
    BY <2>1, <2>3 DEF Table
  <2> QED BY <1>1, <2>2, <2>6, <2>7 DEF UpdateOriginRow
<1>2. CASE id \notin Live(origins)
  BY <1>2 DEF UpdateOriginRow, Live
<1> QED BY <1>1, <1>2

LEMMA InsertRouteRows ==
  ASSUME StoreTypeOK, NEW id \in RouteIDs, NEW row \in RouteRow, InsertRoute(id, row)
  PROVE  /\ routes[id] = Unused
         /\ Live(routes)' = Live(routes) \cup {id}
         /\ \A r \in RouteIDs \ {id} : routes'[r] = routes[r]
         /\ routes'[id].tenant = row.tenant
         /\ routes'[id].origin = row.origin
         /\ routes'[id].pattern = row.pattern
         /\ UNCHANGED <<tenants, origins, apiKeys>>
<1> DEFINE new == [row EXCEPT !.active = TRUE]
<1>1. /\ new \in RouteRow
      /\ new.tenant = row.tenant /\ new.origin = row.origin /\ new.pattern = row.pattern
  BY DEF RouteRow
<1>2. new \notin {Unused, Deleted}
  BY <1>1, TombstonesAreNotRows
<1>3. routes \in Table(RouteIDs, RouteRow) /\ routes' = [routes EXCEPT ![id] = new]
  BY DEF StoreTypeOK, InsertRoute
<1> HIDE DEF new
<1>4. Live([routes EXCEPT ![id] = new]) = Live(routes) \cup {id}
  BY <1>2, <1>3 DEF Live, Table
<1>5. Live(routes)' = Live(routes) \cup {id}
  BY <1>3, <1>4 DEF Live
<1>6. routes'[id] = new /\ \A r \in RouteIDs \ {id} : routes'[r] = routes[r]
  BY <1>3 DEF Table
<1> QED BY <1>1, <1>5, <1>6 DEF InsertRoute

LEMMA UpdateRouteRows ==
  ASSUME StoreTypeOK, NEW id \in RouteIDs, NEW new \in RouteSettings, UpdateRouteRow(id, new)
  PROVE  /\ Live(routes)' = Live(routes)
         /\ \A r \in RouteIDs \ ({id} \cap Live(routes)) : routes'[r] = routes[r]
         /\ id \in Live(routes) => /\ routes'[id].tenant = routes[id].tenant
                                   /\ routes'[id].origin = routes[id].origin
                                   /\ routes'[id].policy = routes[id].policy
                                   /\ routes'[id].pattern = new.pattern
         /\ UNCHANGED <<tenants, origins, apiKeys>>
<1>1. CASE id \in Live(routes)
  <2> DEFINE changed == [routes[id] EXCEPT !.pattern = new.pattern, !.methods = new.methods,
                                           !.priority = new.priority, !.auth = new.auth,
                                           !.active = new.active]
  <2>1. routes[id] \in RouteRow /\ routes \in Table(RouteIDs, RouteRow)
    BY <1>1, LiveRow DEF StoreTypeOK
  <2>2. /\ changed \in RouteRow
        /\ changed.tenant = routes[id].tenant
        /\ changed.origin = routes[id].origin
        /\ changed.policy = routes[id].policy
        /\ changed.pattern = new.pattern
    BY <2>1 DEF RouteRow, RouteSettings
  <2>3. routes' = [routes EXCEPT ![id] = changed]
    BY <1>1, <2>1 DEF UpdateRouteRow, Table
  <2>4. changed \notin {Unused, Deleted}
    BY <2>2, TombstonesAreNotRows
  <2> HIDE DEF changed
  <2>5. Live([routes EXCEPT ![id] = changed]) = Live(routes)
    BY <1>1, <2>1, <2>4 DEF Live, Table
  <2>6. Live(routes)' = Live(routes)
    BY <2>3, <2>5 DEF Live
  <2>7. routes'[id] = changed /\ \A r \in RouteIDs \ {id} : routes'[r] = routes[r]
    BY <2>1, <2>3 DEF Table
  <2> QED BY <1>1, <2>2, <2>6, <2>7 DEF UpdateRouteRow
<1>2. CASE id \notin Live(routes)
  BY <1>2 DEF UpdateRouteRow, Live
<1> QED BY <1>1, <1>2

LEMMA InsertKeyRows ==
  ASSUME StoreTypeOK, NEW id \in KeyIDs, NEW row \in KeyRow, InsertKey(id, row)
  PROVE  /\ apiKeys[id] = Unused
         /\ Live(apiKeys)' = Live(apiKeys) \cup {id}
         /\ \A k \in KeyIDs \ {id} : apiKeys'[k] = apiKeys[k]
         /\ apiKeys'[id] = row
         /\ UNCHANGED <<tenants, origins, routes>>
<1>1. row \notin {Unused, Deleted}
  BY TombstonesAreNotRows
<1>2. apiKeys \in Table(KeyIDs, KeyRow) /\ apiKeys' = [apiKeys EXCEPT ![id] = row]
  BY DEF StoreTypeOK, InsertKey
<1>3. Live([apiKeys EXCEPT ![id] = row]) = Live(apiKeys) \cup {id}
  BY <1>1, <1>2 DEF Live, Table
<1>4. Live(apiKeys)' = Live(apiKeys) \cup {id}
  BY <1>2, <1>3 DEF Live
<1> QED BY <1>2, <1>4 DEF InsertKey, Table

\* The rows that a statement deletes; the others stay as they are.
DropRows(table, after, gone) ==
  /\ Live(after) = Live(table) \ gone
  /\ \A id \in DOMAIN table : after[id] = IF id \in gone THEN Deleted ELSE table[id]

LEMMA DropIsDropRows ==
  ASSUME NEW table, NEW gone
  PROVE  DropRows(table, Drop(table, gone), gone)
BY DEF DropRows, Drop, Live

LEMMA DeleteTenantRows ==
  ASSUME NEW id, DeleteTenantRow(id)
  PROVE  /\ DropRows(tenants, tenants', {id} \cap Live(tenants))
         /\ DropRows(origins, origins', OriginsOf(id))
         /\ DropRows(routes, routes', RoutesOf(id) \cup RoutesTo(OriginsOf(id)))
         /\ DropRows(apiKeys, apiKeys', KeysOf(id))
BY DropIsDropRows DEF DeleteTenantRow

LEMMA DeleteOriginRows ==
  ASSUME NEW id, DeleteOriginRow(id)
  PROVE  /\ DropRows(origins, origins', {id} \cap Live(origins))
         /\ DropRows(routes, routes', RoutesTo({id} \cap Live(origins)))
         /\ UNCHANGED <<tenants, apiKeys>>
BY DropIsDropRows DEF DeleteOriginRow

-----------------------------------------------------------------------------
LEMMA StoreStepForeignKeys ==
  ASSUME StoreTypeOK, ForeignKeys, [StoreNext]_storeVars
  PROVE  ForeignKeys'
<1>1. ASSUME NEW id \in TenantIDs, NEW name \in Names, NEW subdomain \in Subdomains,
             NEW clerkOrg \in ClerkOrgs \cup {NoValue},
             InsertTenant(id, name, subdomain, clerkOrg)
      PROVE  ForeignKeys'
  BY <1>1, InsertTenantRows DEF ForeignKeys, Live
<1>2. ASSUME NEW id \in TenantIDs, NEW name \in Names, NEW status \in Statuses,
             UpdateTenantRow(id, name, status)
      PROVE  ForeignKeys'
  BY <1>2, UpdateTenantRows DEF ForeignKeys, Live
<1>3. ASSUME NEW id \in TenantIDs, DeleteTenantRow(id)
      PROVE  ForeignKeys'
  <2>1. /\ DropRows(tenants, tenants', {id} \cap Live(tenants))
        /\ DropRows(origins, origins', OriginsOf(id))
        /\ DropRows(routes, routes', RoutesOf(id) \cup RoutesTo(OriginsOf(id)))
        /\ DropRows(apiKeys, apiKeys', KeysOf(id))
    BY <1>3, DeleteTenantRows
  <2> QED BY <2>1 DEF DropRows, ForeignKeys, Live, OriginsOf, RoutesOf, RoutesTo, KeysOf
<1>4. ASSUME NEW id \in OriginIDs, NEW row \in OriginRow, InsertOrigin(id, row)
      PROVE  ForeignKeys'
  BY <1>4, InsertOriginRows DEF ForeignKeys, InsertOrigin, OriginInsertable, Live, StoreTypeOK, Table
<1>5. ASSUME NEW id \in OriginIDs, NEW name \in Names, NEW url \in URLs,
             UpdateOriginRow(id, name, url)
      PROVE  ForeignKeys'
  BY <1>5, UpdateOriginRows DEF ForeignKeys, Live, StoreTypeOK, Table
<1>6. ASSUME NEW id \in OriginIDs, DeleteOriginRow(id)
      PROVE  ForeignKeys'
  BY <1>6, DeleteOriginRows DEF DropRows, ForeignKeys, Live, RoutesTo
<1>7. ASSUME NEW id \in RouteIDs, NEW row \in RouteRow, InsertRoute(id, row)
      PROVE  ForeignKeys'
  BY <1>7, InsertRouteRows DEF ForeignKeys, InsertRoute, RouteInsertable, Live, StoreTypeOK, Table
<1>8. ASSUME NEW id \in RouteIDs, NEW new \in RouteSettings, UpdateRouteRow(id, new)
      PROVE  ForeignKeys'
  BY <1>8, UpdateRouteRows DEF ForeignKeys, Live, StoreTypeOK, Table
<1>9. ASSUME NEW id \in RouteIDs, DeleteRouteRow(id)
      PROVE  ForeignKeys'
  BY <1>9, DropIsDropRows DEF DeleteRouteRow, DropRows, ForeignKeys, Live
<1>10. ASSUME NEW id \in KeyIDs, NEW row \in KeyRow, InsertKey(id, row)
      PROVE  ForeignKeys'
  BY <1>10, InsertKeyRows DEF ForeignKeys, InsertKey, KeyInsertable, Live, StoreTypeOK, Table
<1>11. ASSUME NEW id \in KeyIDs, DeleteKeyRow(id)
      PROVE  ForeignKeys'
  BY <1>11, DropIsDropRows DEF DeleteKeyRow, DropRows, ForeignKeys, Live
<1>12. CASE UNCHANGED storeVars
  BY <1>12 DEF storeVars, Live, ForeignKeys
<1> QED BY <1>1, <1>2, <1>3, <1>4, <1>5, <1>6, <1>7, <1>8, <1>9, <1>10, <1>11, <1>12
  DEF StoreNext, TenantStatement, OriginStatement, RouteStatement, KeyStatement, RouteSettings

\* No statement leaves a row behind whose tenant or origin is gone.
THEOREM ForeignKeysHold == StoreSpec => []ForeignKeys
<1>1. StoreInit => ForeignKeys
  BY DEF StoreInit, ForeignKeys, Live
<1> QED BY <1>1, StoreInitType, StoreStepType, StoreStepForeignKeys, PTL DEF StoreSpec

\* Deleting rows frees values and takes none.
LEMMA DropOrigins ==
  ASSUME UniqueOriginNames, NEW gone, DropRows(origins, origins', gone)
  PROVE  UniqueOriginNames'
BY DEF DropRows, UniqueOriginNames, Live

LEMMA DropRoutes ==
  ASSUME UniquePatterns, NEW gone, DropRows(routes, routes', gone)
  PROVE  UniquePatterns'
BY DEF DropRows, UniquePatterns, Live

LEMMA StoreStepUniqueColumns ==
  ASSUME StoreTypeOK, UniqueColumns, [StoreNext]_storeVars
  PROVE  UniqueColumns'
<1>1. ASSUME NEW id \in TenantIDs, NEW name \in Names, NEW subdomain \in Subdomains,
             NEW clerkOrg \in ClerkOrgs \cup {NoValue},
             InsertTenant(id, name, subdomain, clerkOrg)
      PROVE  UniqueColumns'
  <2>1. UniqueTenants'
    BY <1>1, InsertTenantRows, NullIsNoClerkOrg
       DEF UniqueColumns, UniqueTenants, InsertTenant, TenantInsertable, Live, StoreTypeOK, Table
  <2> QED BY <1>1, <2>1, InsertTenantRows DEF UniqueColumns, UniqueOriginNames, UniquePatterns, Live
<1>2. ASSUME NEW id \in TenantIDs, NEW name \in Names, NEW status \in Statuses,
             UpdateTenantRow(id, name, status)
      PROVE  UniqueColumns'
  BY <1>2, UpdateTenantRows
     DEF UniqueColumns, UniqueTenants, UniqueOriginNames, UniquePatterns, Live
<1>3. ASSUME NEW id \in TenantIDs, DeleteTenantRow(id)
      PROVE  UniqueColumns'
  <2>1. UniqueTenants'
    BY <1>3, DeleteTenantRows DEF DropRows, UniqueColumns, UniqueTenants, Live
  <2>2. UniqueOriginNames'
    BY <1>3, DeleteTenantRows, DropOrigins DEF UniqueColumns
  <2>3. UniquePatterns'
    BY <1>3, DeleteTenantRows, DropRoutes DEF UniqueColumns
  <2> QED BY <2>1, <2>2, <2>3 DEF UniqueColumns
<1>4. ASSUME NEW id \in OriginIDs, NEW row \in OriginRow, InsertOrigin(id, row)
      PROVE  UniqueColumns'
  <2>1. \A o \in Live(origins) :
          ~ (origins[o].tenant = row.tenant /\ origins[o].name = row.name)
    BY <1>4 DEF InsertOrigin, OriginInsertable, OriginNameFree, OriginsOf
  <2>2. UniqueOriginNames'
    BY <1>4, <2>1, InsertOriginRows DEF UniqueColumns, UniqueOriginNames, Live, StoreTypeOK, Table
  <2> QED BY <1>4, <2>2, InsertOriginRows DEF UniqueColumns, UniqueTenants, UniquePatterns, Live
<1>5. ASSUME NEW id \in OriginIDs, NEW name \in Names, NEW url \in URLs,
             UpdateOriginRow(id, name, url)
      PROVE  UniqueColumns'
  <2>1. id \in Live(origins) =>
          \A o \in Live(origins) \ {id} :
             ~ (origins[o].tenant = origins[id].tenant /\ origins[o].name = name)
    BY <1>5 DEF UpdateOriginRow, OriginUpdatable, OriginNameFree, OriginsOf
  <2>2. UniqueOriginNames'
    BY <1>5, <2>1, UpdateOriginRows DEF UniqueColumns, UniqueOriginNames, Live, StoreTypeOK, Table
  <2> QED BY <1>5, <2>2, UpdateOriginRows DEF UniqueColumns, UniqueTenants, UniquePatterns, Live
<1>6. ASSUME NEW id \in OriginIDs, DeleteOriginRow(id)
      PROVE  UniqueColumns'
  <2>1. UniqueOriginNames'
    BY <1>6, DeleteOriginRows, DropOrigins DEF UniqueColumns
  <2>2. UniquePatterns'
    BY <1>6, DeleteOriginRows, DropRoutes DEF UniqueColumns
  <2> QED BY <1>6, <2>1, <2>2, DeleteOriginRows DEF UniqueColumns, UniqueTenants, Live
<1>7. ASSUME NEW id \in RouteIDs, NEW row \in RouteRow, InsertRoute(id, row)
      PROVE  UniqueColumns'
  <2>1. \A r \in Live(routes) :
          ~ (routes[r].tenant = row.tenant /\ routes[r].pattern = row.pattern)
    BY <1>7 DEF InsertRoute, RouteInsertable, PatternFree, RoutesOf
  <2>2. UniquePatterns'
    BY <1>7, <2>1, InsertRouteRows DEF UniqueColumns, UniquePatterns, Live, StoreTypeOK, Table
  <2> QED BY <1>7, <2>2, InsertRouteRows DEF UniqueColumns, UniqueTenants, UniqueOriginNames, Live
<1>8. ASSUME NEW id \in RouteIDs, NEW new \in RouteSettings, UpdateRouteRow(id, new)
      PROVE  UniqueColumns'
  <2>1. id \in Live(routes) =>
          \A r \in Live(routes) \ {id} :
             ~ (routes[r].tenant = routes[id].tenant /\ routes[r].pattern = new.pattern)
    BY <1>8 DEF UpdateRouteRow, RouteUpdatable, PatternFree, RoutesOf
  <2>2. UniquePatterns'
    BY <1>8, <2>1, UpdateRouteRows DEF UniqueColumns, UniquePatterns, Live, StoreTypeOK, Table
  <2> QED BY <1>8, <2>2, UpdateRouteRows DEF UniqueColumns, UniqueTenants, UniqueOriginNames, Live
<1>9. ASSUME NEW id \in RouteIDs, DeleteRouteRow(id)
      PROVE  UniqueColumns'
  <2>1. UniquePatterns'
    BY <1>9, DropIsDropRows, DropRoutes DEF DeleteRouteRow, UniqueColumns
  <2> QED BY <1>9, <2>1 DEF DeleteRouteRow, UniqueColumns, UniqueTenants, UniqueOriginNames, Live
<1>10. ASSUME NEW id \in KeyIDs, NEW row \in KeyRow, InsertKey(id, row)
      PROVE  UniqueColumns'
  BY <1>10, InsertKeyRows
     DEF UniqueColumns, UniqueTenants, UniqueOriginNames, UniquePatterns, Live
<1>11. ASSUME NEW id \in KeyIDs, DeleteKeyRow(id)
      PROVE  UniqueColumns'
  BY <1>11
     DEF DeleteKeyRow, UniqueColumns, UniqueTenants, UniqueOriginNames, UniquePatterns, Live
<1>12. CASE UNCHANGED storeVars
  BY <1>12 DEF storeVars, Live, UniqueColumns, UniqueTenants, UniqueOriginNames, UniquePatterns
<1> QED BY <1>1, <1>2, <1>3, <1>4, <1>5, <1>6, <1>7, <1>8, <1>9, <1>10, <1>11, <1>12
  DEF StoreNext, TenantStatement, OriginStatement, RouteStatement, KeyStatement, RouteSettings

\* A subdomain and a Clerk organization name at most one tenant at any time.
THEOREM UniqueColumnsHold == StoreSpec => []UniqueColumns
<1>1. StoreInit => UniqueColumns
  BY DEF StoreInit, UniqueColumns, UniqueTenants, UniqueOriginNames, UniquePatterns, Live
<1> QED BY <1>1, StoreInitType, StoreStepType, StoreStepUniqueColumns, PTL DEF StoreSpec

\* An insert or a delete ages a table, and leaves the rows alone that live
\* before and after it.
LEMMA InsertAges ==
  ASSUME NEW table, NEW after, NEW id \in DOMAIN table, table[id] = Unused,
         \A k \in DOMAIN table \ {id} : after[k] = table[k]
  PROVE  /\ Ages(table, after)
         /\ \A k \in Live(table) : after[k] = table[k]
BY TombstonesAreNotRows DEF Ages, Live

LEMMA DropAges ==
  ASSUME NEW table, NEW after, NEW gone, DropRows(table, after, gone)
  PROVE  /\ Ages(table, after)
         /\ \A k \in Live(table) \cap Live(after) : after[k] = table[k]
BY TombstonesAreNotRows DEF DropRows, Ages, Live

LEMMA SameAges == ASSUME NEW table PROVE Ages(table, table)
BY DEF Ages

LEMMA StoreStepLifecycle ==
  ASSUME StoreTypeOK, [StoreNext]_storeVars
  PROVE  RowLifecycleStep
<1>1. ASSUME NEW id \in TenantIDs, NEW name \in Names, NEW subdomain \in Subdomains,
             NEW clerkOrg \in ClerkOrgs \cup {NoValue},
             InsertTenant(id, name, subdomain, clerkOrg)
      PROVE  RowLifecycleStep
  <2>1. id \in DOMAIN tenants
    BY DEF StoreTypeOK, Table
  <2>2. tenants[id] = Unused /\ \A k \in DOMAIN tenants \ {id} : tenants'[k] = tenants[k]
    BY <1>1, InsertTenantRows DEF StoreTypeOK, Table
  <2>3. Ages(tenants, tenants') /\ \A k \in Live(tenants) : tenants'[k] = tenants[k]
    BY <2>1, <2>2, InsertAges
  <2> QED BY <1>1, <2>3, InsertTenantRows, SameAges DEF RowLifecycleStep
<1>2. ASSUME NEW id \in TenantIDs, NEW name \in Names, NEW status \in Statuses,
             UpdateTenantRow(id, name, status)
      PROVE  RowLifecycleStep
  BY <1>2, UpdateTenantRows DEF RowLifecycleStep, Ages, Live, StoreTypeOK, Table
<1>3. ASSUME NEW id \in TenantIDs, DeleteTenantRow(id)
      PROVE  RowLifecycleStep
  <2>1. /\ Ages(tenants, tenants') /\ \A k \in Live(tenants) \cap Live(tenants') : tenants'[k] = tenants[k]
        /\ Ages(origins, origins') /\ \A k \in Live(origins) \cap Live(origins') : origins'[k] = origins[k]
        /\ Ages(routes, routes') /\ \A k \in Live(routes) \cap Live(routes') : routes'[k] = routes[k]
        /\ Ages(apiKeys, apiKeys') /\ \A k \in Live(apiKeys) \cap Live(apiKeys') : apiKeys'[k] = apiKeys[k]
    BY <1>3, DeleteTenantRows, DropAges
  <2> QED BY <2>1 DEF RowLifecycleStep
<1>4. ASSUME NEW id \in OriginIDs, NEW row \in OriginRow, InsertOrigin(id, row)
      PROVE  RowLifecycleStep
  <2>1. id \in DOMAIN origins
    BY DEF StoreTypeOK, Table
  <2>2. origins[id] = Unused /\ \A k \in DOMAIN origins \ {id} : origins'[k] = origins[k]
    BY <1>4, InsertOriginRows DEF StoreTypeOK, Table
  <2>3. Ages(origins, origins') /\ \A k \in Live(origins) : origins'[k] = origins[k]
    BY <2>1, <2>2, InsertAges
  <2> QED BY <1>4, <2>3, InsertOriginRows, SameAges DEF RowLifecycleStep
<1>5. ASSUME NEW id \in OriginIDs, NEW name \in Names, NEW url \in URLs,
             UpdateOriginRow(id, name, url)
      PROVE  RowLifecycleStep
  BY <1>5, UpdateOriginRows DEF RowLifecycleStep, Ages, Live, StoreTypeOK, Table
<1>6. ASSUME NEW id \in OriginIDs, DeleteOriginRow(id)
      PROVE  RowLifecycleStep
  <2>1. /\ Ages(origins, origins') /\ \A k \in Live(origins) \cap Live(origins') : origins'[k] = origins[k]
        /\ Ages(routes, routes') /\ \A k \in Live(routes) \cap Live(routes') : routes'[k] = routes[k]
    BY <1>6, DeleteOriginRows, DropAges
  <2> QED BY <1>6, <2>1, DeleteOriginRows, SameAges DEF RowLifecycleStep
<1>7. ASSUME NEW id \in RouteIDs, NEW row \in RouteRow, InsertRoute(id, row)
      PROVE  RowLifecycleStep
  <2>1. id \in DOMAIN routes
    BY DEF StoreTypeOK, Table
  <2>2. routes[id] = Unused /\ \A k \in DOMAIN routes \ {id} : routes'[k] = routes[k]
    BY <1>7, InsertRouteRows DEF StoreTypeOK, Table
  <2>3. Ages(routes, routes') /\ \A k \in Live(routes) : routes'[k] = routes[k]
    BY <2>1, <2>2, InsertAges
  <2> QED BY <1>7, <2>3, InsertRouteRows, SameAges DEF RowLifecycleStep
<1>8. ASSUME NEW id \in RouteIDs, NEW new \in RouteSettings, UpdateRouteRow(id, new)
      PROVE  RowLifecycleStep
  BY <1>8, UpdateRouteRows DEF RowLifecycleStep, Ages, Live, StoreTypeOK, Table
<1>9. ASSUME NEW id \in RouteIDs, DeleteRouteRow(id)
      PROVE  RowLifecycleStep
  <2>1. /\ Ages(routes, routes') /\ \A k \in Live(routes) \cap Live(routes') : routes'[k] = routes[k]
    BY <1>9, DropIsDropRows, DropAges DEF DeleteRouteRow
  <2> QED BY <1>9, <2>1, SameAges DEF DeleteRouteRow, RowLifecycleStep
<1>10. ASSUME NEW id \in KeyIDs, NEW row \in KeyRow, InsertKey(id, row)
      PROVE  RowLifecycleStep
  <2>1. id \in DOMAIN apiKeys
    BY DEF StoreTypeOK, Table
  <2>2. apiKeys[id] = Unused /\ \A k \in DOMAIN apiKeys \ {id} : apiKeys'[k] = apiKeys[k]
    BY <1>10, InsertKeyRows DEF StoreTypeOK, Table
  <2>3. Ages(apiKeys, apiKeys') /\ \A k \in Live(apiKeys) : apiKeys'[k] = apiKeys[k]
    BY <2>1, <2>2, InsertAges
  <2> QED BY <1>10, <2>3, InsertKeyRows, SameAges DEF RowLifecycleStep
<1>11. ASSUME NEW id \in KeyIDs, DeleteKeyRow(id)
      PROVE  RowLifecycleStep
  <2>1. Ages(apiKeys, apiKeys')
    BY <1>11, DropIsDropRows, DropAges DEF DeleteKeyRow
  <2> QED BY <1>11, <2>1, SameAges DEF DeleteKeyRow, RowLifecycleStep
<1>12. CASE UNCHANGED storeVars
  BY <1>12 DEF storeVars, Live, RowLifecycleStep, Ages
<1> QED BY <1>1, <1>2, <1>3, <1>4, <1>5, <1>6, <1>7, <1>8, <1>9, <1>10, <1>11, <1>12
  DEF StoreNext, TenantStatement, OriginStatement, RouteStatement, KeyStatement, RouteSettings

\* A deleted row never comes back, and a live row keeps its owner and its
\* identifying columns: what a handler may rely on between two statements.
THEOREM RowLifecycleHolds == StoreSpec => RowLifecycle
BY StoreInitType, StoreStepType, StoreStepLifecycle, PTL DEF StoreSpec, RowLifecycle
=============================================================================
