------------------------------ MODULE AuthSync ------------------------------
(***************************************************************************)
(* src/internal/controlplane/service/auth.go: SyncUser and SyncTenant, the *)
(* calls of the AuthService that write, over the users table and the       *)
(* tenants of ConfigStore.  Each statement is a step; between two of them  *)
(* run other calls and any statement on tenants.  Emails, names and roles  *)
(* of users are left out: the UPDATE of a user changes nothing here.       *)
(***************************************************************************)
EXTENDS ConfigStore

CONSTANTS AuthCalls,         \* goroutines that call the service, one call after another
          UserIDs, ClerkUsers

VARIABLES users,
          at,                \* the next statement of each call
          request,           \* its argument
          user,              \* the user that was found or created
          tenant,            \* the tenant that SyncUser created, or SyncTenant's
          tenantRow,         \* the row that SyncTenant read
          made, failed       \* history: tenants that SyncUser created, and those whose
                             \* SyncUser returned an error

callVars == <<at, request, user, tenant, tenantRow, made, failed>>
authVars == <<storeVars, users, callVars>>

UserRow == [tenant : TenantIDs, clerkUser : ClerkUsers]
Requests == [op : {"SyncUser"}, clerkUser : ClerkUsers]
            \cup [op : {"SyncTenant"}, clerkUser : ClerkUsers, name : Names \cup {NoValue}]

ASSUME TombstonesAreNotUsers == {Unused, Deleted} \cap UserRow = {}

ByClerkUser(clerkUser) == {u \in Live(users) : users[u].clerkUser = clerkUser}

AuthInit ==
  /\ StoreInit
  /\ users = [u \in UserIDs |-> Unused]
  /\ at = [p \in AuthCalls |-> "idle"]
  /\ request = [p \in AuthCalls |-> NoValue]
  /\ user = [p \in AuthCalls |-> NoValue]
  /\ tenant = [p \in AuthCalls |-> NoValue]
  /\ tenantRow = [p \in AuthCalls |-> NoValue]
  /\ made = {} /\ failed = {}

At(p, label) == at[p] = label
Goto(p, label) == at' = [at EXCEPT ![p] = label]

\* The tenant that SyncUser has created stays behind when it returns an error.
ReturnError(p) ==
  /\ Goto(p, "error")
  /\ failed' = IF request[p].op = "SyncUser" THEN failed \cup ({tenant[p]} \cap made) ELSE failed

\* The last statement has committed; its acknowledgement may be lost.
Committed(p) == \/ Goto(p, "ok") /\ UNCHANGED failed
                \/ ReturnError(p)

Call(p, r) ==
  /\ at[p] \in {"idle", "ok", "error"}
  /\ Goto(p, "lookup")
  /\ request' = [request EXCEPT ![p] = r]
  /\ user' = [user EXCEPT ![p] = NoValue]
  /\ tenant' = [tenant EXCEPT ![p] = NoValue]
  /\ tenantRow' = [tenantRow EXCEPT ![p] = NoValue]
  /\ UNCHANGED <<storeVars, users, made, failed>>

------------------------------------------------------------------------------
\* GetByClerkID
LookupUser(p) ==
  LET r == request[p] IN
  /\ At(p, "lookup")
  /\ \/ \E u \in ByClerkUser(r.clerkUser) :
           /\ user' = [user EXCEPT ![p] = u]
           /\ IF r.op = "SyncUser"
              THEN Goto(p, "update") /\ UNCHANGED tenant
              ELSE Goto(p, "read") /\ tenant' = [tenant EXCEPT ![p] = users[u].tenant]
           /\ UNCHANGED failed
     \/ /\ ByClerkUser(r.clerkUser) = {}
        /\ IF r.op = "SyncUser" THEN Goto(p, "tenant") /\ UNCHANGED failed ELSE ReturnError(p)
        /\ UNCHANGED <<user, tenant>>
  /\ UNCHANGED <<storeVars, users, request, tenantRow, made>>

\* SyncUser takes any error for "no rows".
LookupUserFails(p) ==
  /\ At(p, "lookup")
  /\ IF request[p].op = "SyncUser" THEN Goto(p, "tenant") /\ UNCHANGED failed ELSE ReturnError(p)
  /\ UNCHANGED <<storeVars, users, request, user, tenant, tenantRow, made>>

\* The user may be gone by now: zero rows are updated and the call succeeds.
UpdateUser(p) ==
  /\ At(p, "update")
  /\ Committed(p)
  /\ UNCHANGED <<storeVars, users, request, user, tenant, tenantRow, made>>

\* The subdomain ends in eight characters of a UUID: any that is drawn.
CreateTenant(p) ==
  /\ At(p, "tenant")
  /\ \E id \in TenantIDs, name \in Names, subdomain \in Subdomains :
        \/ /\ InsertTenant(id, name, subdomain, NoValue)
           /\ made' = made \cup {id}
           /\ tenant' = [tenant EXCEPT ![p] = id]
           /\ \/ Goto(p, "user") /\ UNCHANGED failed
              \/ Goto(p, "error") /\ failed' = failed \cup {id}
        \/ /\ ~TenantInsertable(subdomain, NoValue)
           /\ ReturnError(p)
           /\ UNCHANGED <<storeVars, tenant, made>>
  /\ UNCHANGED <<users, request, user, tenantRow>>

\* Mutant: clerk_user_id without UNIQUE.
UserInsertableAgain(row) == row.tenant \in Live(tenants)

UserInsertable(row) == row.tenant \in Live(tenants) /\ ByClerkUser(row.clerkUser) = {}

\* Mutant: a Clerk user who exists by now is not an error.
CreateUserIfAbsent(p) ==
  LET row == [tenant |-> tenant[p], clerkUser |-> request[p].clerkUser] IN
  /\ At(p, "user")
  /\ IF UserInsertable(row)
     THEN \E u \in UserIDs : /\ users[u] = Unused
                             /\ users' = [users EXCEPT ![u] = row]
                             /\ user' = [user EXCEPT ![p] = u]
     ELSE UNCHANGED <<users, user>>
  /\ Goto(p, "ok")
  /\ UNCHANGED <<storeVars, request, tenant, tenantRow, made, failed>>

CreateUser(p) ==
  LET row == [tenant |-> tenant[p], clerkUser |-> request[p].clerkUser] IN
  /\ At(p, "user")
  /\ \/ /\ UserInsertable(row)
        /\ \E u \in UserIDs : /\ users[u] = Unused
                              /\ users' = [users EXCEPT ![u] = row]
                              /\ user' = [user EXCEPT ![p] = u]
        /\ Committed(p)
     \/ /\ ~UserInsertable(row)
        /\ ReturnError(p)
        /\ UNCHANGED <<users, user>>
  /\ UNCHANGED <<storeVars, request, tenant, tenantRow, made>>

\* The rest of SyncTenant: a name that is given and new is written back, with
\* the status that was read.
ReadTenant(p) ==
  LET t == tenant[p] name == request[p].name IN
  /\ At(p, "read")
  /\ \/ /\ t \in Live(tenants)
        /\ tenantRow' = [tenantRow EXCEPT ![p] = tenants[t]]
        /\ Goto(p, IF name \in {NoValue, tenants[t].name} THEN "ok" ELSE "write")
        /\ UNCHANGED failed
     \/ t \notin Live(tenants) /\ ReturnError(p) /\ UNCHANGED tenantRow
  /\ UNCHANGED <<storeVars, users, request, user, tenant, made>>

WriteTenant(p) ==
  /\ At(p, "write")
  /\ UpdateTenantRow(tenant[p], request[p].name, tenantRow[p].status)
  /\ Committed(p)
  /\ UNCHANGED <<users, request, user, tenant, tenantRow, made>>

\* Without an effect; the UPDATE of a user has none here anyway.
StatementFails(p) ==
  /\ at[p] \in {"tenant", "user", "read", "write"}
  /\ ReturnError(p)
  /\ UNCHANGED <<storeVars, users, request, user, tenant, tenantRow, made>>

\* Other statements on tenants; a user goes with its tenant.
Elsewhere ==
  /\ TenantStatement
  /\ users' = Drop(users, {u \in Live(users) : users[u].tenant \notin Live(tenants')})
  /\ UNCHANGED callVars

AuthNext ==
  \/ \E p \in AuthCalls :
        \/ \E r \in Requests : Call(p, r)
        \/ LookupUser(p) \/ LookupUserFails(p) \/ UpdateUser(p)
        \/ CreateTenant(p) \/ CreateUser(p)
        \/ ReadTenant(p) \/ WriteTenant(p) \/ StatementFails(p)
  \/ Elsewhere

AuthSpec == AuthInit /\ [][AuthNext]_authVars

------------------------------------------------------------------------------
(* Properties *)

AuthTypeOK ==
  /\ users \in [UserIDs -> UserRow \cup {Unused, Deleted}]
  /\ at \in [AuthCalls -> {"idle", "lookup", "update", "tenant", "user", "read", "write", "ok", "error"}]
  /\ request \in [AuthCalls -> Requests \cup {NoValue}]
  /\ user \in [AuthCalls -> UserIDs \cup {NoValue}]
  /\ tenant \in [AuthCalls -> TenantIDs \cup {NoValue}]
  /\ made \subseteq TenantIDs /\ failed \subseteq made

\* The two inserts of SyncUser are no transaction, but a tenant is left
\* without a user only by a call that returned an error or has not returned:
\* whoever was told "ok" has a user in a tenant (auth.go:93, 119).
OrphanMeansError ==
  \A t \in made \cap Live(tenants) :
     \/ \E u \in Live(users) : users[u].tenant = t
     \/ t \in failed
     \/ \E p \in AuthCalls : at[p] = "user" /\ tenant[p] = t

\* Calls for one Clerk user that succeeded returned one user, in one tenant,
\* also when they raced or the lookup of one failed, as long as that user
\* lives; and a user never moves to another tenant (auth.go:45, 119).
SyncedUserIsOne ==
  \A p, q \in AuthCalls :
     /\ at[p] = "ok" /\ at[q] = "ok"
     /\ request[p].clerkUser = request[q].clerkUser
     /\ {user[p], user[q]} \subseteq Live(users)
     => user[p] = user[q]
=============================================================================
