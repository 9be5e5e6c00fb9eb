---------------------------- MODULE ConfigStore ----------------------------
(***************************************************************************)
(* The PostgreSQL schema of src/migrations and the SQL statements of       *)
(* src/internal/repository.  The control plane writes it, the gateway      *)
(* reads it; they share nothing else.  A statement is atomic; no handler   *)
(* wraps two statements in a transaction.                                  *)
(*                                                                         *)
(* A table maps every id that will ever be drawn to Unused, to a row, or   *)
(* to Deleted.  uuid_generate_v4 never draws an id twice, so a deleted id  *)
(* stays Deleted.  Columns that no statement condition, constraint or      *)
(* property reads (timeouts, headers, timestamps, settings...) are left    *)
(* out.                                                                    *)
(***************************************************************************)
EXTENDS Integers, FiniteSets

CONSTANTS
  TenantIDs, OriginIDs, RouteIDs, KeyIDs,   \* the UUIDs of each table
  Subdomains, ClerkOrgs, Names, Statuses,   \* column values
  URLs, Patterns, MethodSets, Priorities, AuthModes, Policies, Expiries,
  Paths, Methods,                           \* what a request can ask for
  Like,                                     \* <<path, pattern>>: path LIKE pattern
  NoValue,                                  \* SQL NULL
  Unused, Deleted                           \* an id not drawn yet, a deleted row

VARIABLES tenants, origins, routes, apiKeys

storeVars == <<tenants, origins, routes, apiKeys>>

TenantRow == [name : Names, subdomain : Subdomains,
              clerkOrg : ClerkOrgs \cup {NoValue}, status : Statuses]
OriginRow == [tenant : TenantIDs, name : Names, url : URLs]
RouteRow  == [tenant : TenantIDs, origin : OriginIDs, pattern : Patterns,
              methods : MethodSets, priority : Priorities, auth : AuthModes,
              active : BOOLEAN, policy : Policies]
\* The columns that UPDATE routes sets.
RouteSettings == [pattern : Patterns, methods : MethodSets, priority : Priorities,
                  auth : AuthModes, active : BOOLEAN]
KeyRow    == [tenant : TenantIDs, expiresAt : Expiries \cup {NoValue}]

ASSUME TombstonesAreNotRows ==
  /\ Unused # Deleted
  /\ {Unused, Deleted} \cap (TenantRow \cup OriginRow \cup RouteRow \cup KeyRow) = {}
ASSUME PrioritiesAreIntegers == Priorities \subseteq Int
ASSUME NewTenantsAreActive == "active" \in Statuses
ASSUME NullIsNoClerkOrg == NoValue \notin ClerkOrgs

Live(table) == {id \in DOMAIN table : table[id] \notin {Unused, Deleted}}

\* DELETE FROM the table, of the rows in ids.
Drop(table, ids) == [id \in DOMAIN table |-> IF id \in ids THEN Deleted ELSE table[id]]

------------------------------------------------------------------------------
(* tenants: subdomain and clerk_org_id are UNIQUE, NULLs apart.               *)

\* Mutants: a UNIQUE constraint dropped, both dropped.
TenantInsertableAnySubdomain(subdomain, clerkOrg) ==
  \A t \in Live(tenants) : clerkOrg # NoValue => tenants[t].clerkOrg # clerkOrg
TenantInsertableAlways(subdomain, clerkOrg) == TRUE

TenantInsertable(subdomain, clerkOrg) ==
  \A t \in Live(tenants) : /\ tenants[t].subdomain # subdomain
                           /\ clerkOrg # NoValue => tenants[t].clerkOrg # clerkOrg

\* Mutant: ON CONFLICT (id) DO UPDATE.
InsertTenantOverwrites(id, name, subdomain, clerkOrg) ==
  /\ TenantInsertable(subdomain, clerkOrg)
  /\ tenants' = [tenants EXCEPT ![id] = [name |-> name, subdomain |-> subdomain,
                                         clerkOrg |-> clerkOrg, status |-> "active"]]
  /\ UNCHANGED <<origins, routes, apiKeys>>

\* Every caller of TenantRepository.Create passes status "active".
InsertTenant(id, name, subdomain, clerkOrg) ==
  /\ tenants[id] = Unused
  /\ TenantInsertable(subdomain, clerkOrg)
  /\ tenants' = [tenants EXCEPT ![id] = [name |-> name, subdomain |-> subdomain,
                                         clerkOrg |-> clerkOrg, status |-> "active"]]
  /\ UNCHANGED <<origins, routes, apiKeys>>

TenantUpdatable(id, status) == id \in Live(tenants) => status \in Statuses

\* No row with this id: zero rows are updated and the statement succeeds.
UpdateTenantRow(id, name, status) ==
  /\ TenantUpdatable(id, status)
  /\ tenants' = IF id \in Live(tenants)
                THEN [tenants EXCEPT ![id].name = name, ![id].status = status]
                ELSE tenants
  /\ UNCHANGED <<origins, routes, apiKeys>>

OriginsOf(t) == {o \in Live(origins) : origins[o].tenant = t}
RoutesOf(t)  == {r \in Live(routes) : routes[r].tenant = t}
KeysOf(t)    == {k \in Live(apiKeys) : apiKeys[k].tenant = t}
RoutesTo(os) == {r \in Live(routes) : routes[r].origin \in os}

\* ON DELETE CASCADE runs through origins, routes and api_keys, and from an
\* origin to the routes of any tenant that point to it.
DeleteTenantRow(id) ==
  /\ tenants' = Drop(tenants, {id} \cap Live(tenants))
  /\ origins' = Drop(origins, OriginsOf(id))
  /\ routes'  = Drop(routes, RoutesOf(id) \cup RoutesTo(OriginsOf(id)))
  /\ apiKeys' = Drop(apiKeys, KeysOf(id))

------------------------------------------------------------------------------
(* origins: the tenant must exist, UNIQUE(tenant_id, name).                   *)

OriginNameFree(os, name) == \A o \in os : origins[o].name # name

OriginInsertable(row) == /\ row.tenant \in Live(tenants)
                         /\ OriginNameFree(OriginsOf(row.tenant), row.name)

InsertOrigin(id, row) ==
  /\ origins[id] = Unused
  /\ OriginInsertable(row)
  /\ origins' = [origins EXCEPT ![id] = row]
  /\ UNCHANGED <<tenants, routes, apiKeys>>

OriginUpdatable(id, name) ==
  id \in Live(origins) => OriginNameFree(OriginsOf(origins[id].tenant) \ {id}, name)

UpdateOriginRow(id, name, url) ==
  /\ OriginUpdatable(id, name)
  /\ origins' = IF id \in Live(origins)
                THEN [origins EXCEPT ![id].name = name, ![id].url = url]
                ELSE origins
  /\ UNCHANGED <<tenants, routes, apiKeys>>

\* Mutant: routes.origin_id without ON DELETE CASCADE.
DeleteOriginRowOnly(id) ==
  /\ origins' = Drop(origins, {id} \cap Live(origins))
  /\ UNCHANGED <<tenants, routes, apiKeys>>

DeleteOriginRow(id) ==
  /\ origins' = Drop(origins, {id} \cap Live(origins))
  /\ routes'  = Drop(routes, RoutesTo({id} \cap Live(origins)))
  /\ UNCHANGED <<tenants, apiKeys>>

------------------------------------------------------------------------------
(* routes: tenant and origin must exist, each on its own: nothing asks that   *)
(* the origin belong to the tenant.  UNIQUE(tenant_id, path_pattern).         *)

PatternFree(rs, pattern) == \A r \in rs : routes[r].pattern # pattern

RouteInsertable(row) == /\ row.tenant \in Live(tenants) /\ row.origin \in Live(origins)
                        /\ row.auth \in AuthModes
                        /\ PatternFree(RoutesOf(row.tenant), row.pattern)

\* Mutant: is_active without a default.
InsertRouteNoDefault(id, row) ==
  /\ routes[id] = Unused
  /\ RouteInsertable(row)
  /\ routes' = [routes EXCEPT ![id] = [row EXCEPT !.active = NoValue]]
  /\ UNCHANGED <<tenants, origins, apiKeys>>

\* The INSERT does not name is_active: the column default, true, applies.
InsertRoute(id, row) ==
  /\ routes[id] = Unused
  /\ RouteInsertable(row)
  /\ routes' = [routes EXCEPT ![id] = [row EXCEPT !.active = TRUE]]
  /\ UNCHANGED <<tenants, origins, apiKeys>>

RouteUpdatable(id, new) ==
  /\ new.auth \in AuthModes
  /\ id \in Live(routes) => PatternFree(RoutesOf(routes[id].tenant) \ {id}, new.pattern)

\* The UPDATE does not name the rate limit and cache columns.
UpdateRouteRow(id, new) ==
  /\ RouteUpdatable(id, new)
  /\ routes' = IF id \in Live(routes)
               THEN [routes EXCEPT ![id].pattern = new.pattern, ![id].methods = new.methods,
                                   ![id].priority = new.priority, ![id].auth = new.auth,
                                   ![id].active = new.active]
               ELSE routes
  /\ UNCHANGED <<tenants, origins, apiKeys>>

DeleteRouteRow(id) ==
  /\ routes' = Drop(routes, {id} \cap Live(routes))
  /\ UNCHANGED <<tenants, origins, apiKeys>>

------------------------------------------------------------------------------
(* api_keys: the tenant must exist; key_hash is UNIQUE and never collides.    *)

\* Mutant: tenant_id without REFERENCES.
KeyInsertableAlways(row) == TRUE

KeyInsertable(row) == row.tenant \in Live(tenants)

InsertKey(id, row) ==
  /\ apiKeys[id] = Unused
  /\ KeyInsertable(row)
  /\ apiKeys' = [apiKeys EXCEPT ![id] = row]
  /\ UNCHANGED <<tenants, origins, routes>>

DeleteKeyRow(id) ==
  /\ apiKeys' = Drop(apiKeys, {id} \cap Live(apiKeys))
  /\ UNCHANGED <<tenants, origins, routes>>

------------------------------------------------------------------------------
(* The lookups.                                                               *)

\* TenantRepository.GetBySubdomain: the status of the tenant is not looked at.
BySubdomain(subdomain) == {t \in Live(tenants) : tenants[t].subdomain = subdomain}

\* TenantRepository.GetByClerkOrgID
ByClerkOrg(clerkOrg) == {t \in Live(tenants) : tenants[t].clerkOrg = clerkOrg}

Matches(r, path, method) == /\ routes[r].active
                            /\ <<path, routes[r].pattern>> \in Like
                            /\ method \in routes[r].methods

\* ORDER BY priority DESC LIMIT 1: among equal priorities, any.
TopPriority(rs) == {r \in rs : \A s \in rs : routes[s].priority <= routes[r].priority}

\* Mutant: the LIMIT in a subquery, before the conditions.
MatchingTop(t, path, method) == {r \in TopPriority(RoutesOf(t)) : Matches(r, path, method)}

\* RouteRepository.FindMatchingRoute before ORDER BY and LIMIT
Matching(t, path, method) == {r \in RoutesOf(t) : Matches(r, path, method)}

\* The routes that answer a request, whichever tenant's they are.
Serving(in) == {r \in Live(routes) : /\ routes[r].tenant \in BySubdomain(in.subdomain)
                                     /\ Matches(r, in.path, in.method)}

------------------------------------------------------------------------------
StoreInit ==
  /\ tenants = [t \in TenantIDs |-> Unused]
  /\ origins = [o \in OriginIDs |-> Unused]
  /\ routes  = [r \in RouteIDs |-> Unused]
  /\ apiKeys = [k \in KeyIDs |-> Unused]

TenantStatement ==
  \E id \in TenantIDs :
     \/ \E name \in Names, subdomain \in Subdomains, clerkOrg \in ClerkOrgs \cup {NoValue} :
           InsertTenant(id, name, subdomain, clerkOrg)
     \/ \E name \in Names, status \in Statuses : UpdateTenantRow(id, name, status)
     \/ DeleteTenantRow(id)

OriginStatement ==
  \E id \in OriginIDs :
     \/ \E row \in OriginRow : InsertOrigin(id, row)
     \/ \E name \in Names, url \in URLs : UpdateOriginRow(id, name, url)
     \/ DeleteOriginRow(id)

RouteStatement ==
  \E id \in RouteIDs :
     \/ \E row \in RouteRow : InsertRoute(id, row)
     \/ \E new \in RouteSettings : UpdateRouteRow(id, new)
     \/ DeleteRouteRow(id)

KeyStatement ==
  \E id \in KeyIDs : \/ \E row \in KeyRow : InsertKey(id, row)
                     \/ DeleteKeyRow(id)

StoreNext == TenantStatement \/ OriginStatement \/ RouteStatement \/ KeyStatement

StoreSpec == StoreInit /\ [][StoreNext]_storeVars

------------------------------------------------------------------------------
(* Properties *)

Table(ids, rows) == [ids -> rows \cup {Unused, Deleted}]

\* Every table holds rows of its own columns.
StoreTypeOK ==
  /\ tenants \in Table(TenantIDs, TenantRow)
  /\ origins \in Table(OriginIDs, OriginRow)
  /\ routes \in Table(RouteIDs, RouteRow)
  /\ apiKeys \in Table(KeyIDs, KeyRow)

\* Every row's tenant exists, and every route's origin: the ON DELETE CASCADE
\* clauses leave nothing behind, whichever statements run in whichever order.
ForeignKeys ==
  /\ \A o \in Live(origins) : origins[o].tenant \in Live(tenants)
  /\ \A r \in Live(routes) : /\ routes[r].tenant \in Live(tenants)
                             /\ routes[r].origin \in Live(origins)
  /\ \A k \in Live(apiKeys) : apiKeys[k].tenant \in Live(tenants)

\* No two tenants answer for one subdomain or one Clerk organization, no two
\* origins of a tenant have one name, no two routes of a tenant one pattern:
\* across inserts and updates, and after deletions free a value again.
UniqueTenants ==
  \A s, t \in Live(tenants) :
     \/ tenants[s].subdomain = tenants[t].subdomain
     \/ tenants[s].clerkOrg = tenants[t].clerkOrg /\ tenants[s].clerkOrg # NoValue
     => s = t
UniqueOriginNames ==
  \A o, p \in Live(origins) :
     origins[o].tenant = origins[p].tenant /\ origins[o].name = origins[p].name => o = p
UniquePatterns ==
  \A r, s \in Live(routes) :
     routes[r].tenant = routes[s].tenant /\ routes[r].pattern = routes[s].pattern => r = s
UniqueColumns == UniqueTenants /\ UniqueOriginNames /\ UniquePatterns

\* An id is drawn once, and a deleted row never comes back.
Ages(before, after) ==
  \A id \in DOMAIN before : /\ before[id] = Deleted => after[id] = Deleted
                            /\ before[id] # Unused => after[id] # Unused

\* What a multi-step reader may rely on between two of its statements: a row
\* that is gone stays gone, and as long as a row lives its owner, its
\* subdomain and Clerk organization, and a route's origin, stay the same.
RowLifecycleStep ==
  /\ Ages(tenants, tenants') /\ Ages(origins, origins')
  /\ Ages(routes, routes') /\ Ages(apiKeys, apiKeys')
  /\ \A t \in Live(tenants) \cap Live(tenants') :
        /\ tenants'[t].subdomain = tenants[t].subdomain
        /\ tenants'[t].clerkOrg = tenants[t].clerkOrg
  /\ \A o \in Live(origins) \cap Live(origins') : origins'[o].tenant = origins[o].tenant
  /\ \A r \in Live(routes) \cap Live(routes') :
        /\ routes'[r].tenant = routes[r].tenant
        /\ routes'[r].origin = routes[r].origin
        /\ routes'[r].policy = routes[r].policy

RowLifecycle == [][RowLifecycleStep]_storeVars
==============================================================================
