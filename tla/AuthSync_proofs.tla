--------------------------- MODULE AuthSync_proofs ---------------------------
(***************************************************************************)
(* SyncUser and SyncTenant for any number of concurrent calls, users and   *)
(* tenants.  The argument: a call that is about to insert a user has made  *)
(* the tenant it will name, and a call that has found or created a user    *)
(* still holds the one of its Clerk user, or one that is gone for good.    *)
(***************************************************************************)
EXTENDS AuthSync, ConfigStore_proofs

Labels == {"idle", "lookup", "update", "tenant", "user", "read", "write", "ok", "error"}

AuthTypes ==
  /\ AuthTypeOK
  /\ tenantRow \in [AuthCalls -> TenantRow \cup {NoValue}]

HoldsUser(p) ==
  /\ user[p] \in UserIDs
  /\ \/ users[user[p]] = Deleted
     \/ users[user[p]] \in UserRow /\ users[user[p]].clerkUser = request[p].clerkUser

\* What a call that has come so far relies on.
Progress(p) ==
  /\ at[p] # "idle" => request[p] \in Requests
  /\ at[p] \in {"update", "tenant", "user"} => request[p].op = "SyncUser"
  /\ at[p] \in {"read", "write"} => request[p].op = "SyncTenant" /\ tenant[p] \in TenantIDs
  /\ at[p] = "user" => tenant[p] \in made
  /\ at[p] = "write" => request[p].name \in Names /\ tenantRow[p] \in TenantRow
  /\ at[p] \in {"update", "read", "write", "ok"} => HoldsUser(p)

MadeIsDrawn == \A t \in made : tenants[t] # Unused

OneUser == \A u, v \in Live(users) : users[u].clerkUser = users[v].clerkUser => u = v

AuthInv ==
  /\ StoreTypeOK /\ AuthTypes /\ MadeIsDrawn /\ OneUser /\ OrphanMeansError
  /\ \A p \in AuthCalls : Progress(p)

\* The locals of all calls but p stay.
OnlyMoves(p) ==
  \A q \in AuthCalls \ {p} :
     /\ at'[q] = at[q] /\ request'[q] = request[q] /\ user'[q] = user[q]
     /\ tenant'[q] = tenant[q] /\ tenantRow'[q] = tenantRow[q]

UsersAge == \A u \in UserIDs : users[u] # Unused => users'[u] = users[u] \/ users'[u] = Deleted

LEMMA OthersProgress ==
  ASSUME AuthInv, NEW q \in AuthCalls, made \subseteq made', UsersAge,
         at'[q] = at[q], request'[q] = request[q], user'[q] = user[q],
         tenant'[q] = tenant[q], tenantRow'[q] = tenantRow[q]
  PROVE  Progress(q)'
<1>1. Progress(q)
  BY DEF AuthInv
<1>2. ASSUME HoldsUser(q) PROVE HoldsUser(q)'
  <2>1. users[user[q]] # Unused
    BY <1>2, TombstonesAreNotUsers, TombstonesAreNotRows DEF HoldsUser
  <2> QED BY <1>2, <2>1 DEF HoldsUser, UsersAge
<1> QED BY <1>1, <1>2 DEF Progress

LEMMA AuthInitInv == AuthInit => AuthInv
<1> SUFFICES ASSUME AuthInit PROVE AuthInv
  OBVIOUS
<1>1. StoreTypeOK
  BY StoreInitType DEF AuthInit
<1>2. AuthTypes
  BY DEF AuthInit, AuthTypes, AuthTypeOK
<1>3. MadeIsDrawn /\ OrphanMeansError
  BY DEF AuthInit, MadeIsDrawn, OrphanMeansError
<1>4. OneUser
  BY DEF AuthInit, OneUser, Live
<1>5. \A p \in AuthCalls : Progress(p)
  BY DEF AuthInit, Progress
<1> QED BY <1>1, <1>2, <1>3, <1>4, <1>5 DEF AuthInv

\* Most steps leave the tables and the history alone, but for the tenants of
\* calls that failed.
LEMMA QuietStep ==
  ASSUME AuthInv, UNCHANGED <<storeVars, users, made>>, NEW p \in AuthCalls, OnlyMoves(p),
         AuthTypes', failed \subseteq failed', Progress(p)',
         at[p] = "user" => tenant[p] \in failed'
  PROVE  AuthInv'
<1>1. StoreTypeOK'
  BY DEF AuthInv, StoreTypeOK, storeVars
<1>2. MadeIsDrawn' /\ OneUser'
  BY DEF AuthInv, MadeIsDrawn, OneUser, Live, storeVars
<1>3. OrphanMeansError'
  <2> SUFFICES ASSUME NEW t \in made, t \in Live(tenants)
               PROVE  \/ \E u \in Live(users) : users[u].tenant = t
                      \/ t \in failed'
                      \/ \E q \in AuthCalls : at'[q] = "user" /\ tenant'[q] = t
    BY DEF OrphanMeansError, Live, storeVars
  <2>1. CASE \E q \in AuthCalls : at[q] = "user" /\ tenant[q] = t
    <3>1. PICK q \in AuthCalls : at[q] = "user" /\ tenant[q] = t
      BY <2>1
    <3>2. CASE q = p
      BY <3>1, <3>2
    <3>3. CASE q # p
      BY <3>1, <3>3 DEF OnlyMoves
    <3> QED BY <3>2, <3>3
  <2>2. CASE ~ \E q \in AuthCalls : at[q] = "user" /\ tenant[q] = t
    BY <2>2 DEF AuthInv, OrphanMeansError
  <2> QED BY <2>1, <2>2
<1>4. UsersAge /\ made \subseteq made'
  BY DEF UsersAge
<1>5. \A q \in AuthCalls \ {p} : Progress(q)'
  BY <1>4, OthersProgress DEF OnlyMoves
<1> QED BY <1>1, <1>2, <1>3, <1>5 DEF AuthInv

LEMMA ErrorTypes ==
  ASSUME AuthTypes, NEW p \in AuthCalls, ReturnError(p)
  PROVE  /\ at' \in [AuthCalls -> Labels] /\ at'[p] = "error"
         /\ \A q \in AuthCalls \ {p} : at'[q] = at[q]
         /\ failed \subseteq failed' /\ failed' \subseteq made
         /\ request[p].op = "SyncUser" /\ tenant[p] \in made => tenant[p] \in failed'
BY DEF AuthTypes, AuthTypeOK, ReturnError, Goto, Labels

\* An error of any statement but the one that creates the tenant.
LEMMA ErrorKeepsAuth ==
  ASSUME AuthInv, NEW p \in AuthCalls, ReturnError(p), at[p] # "idle",
         UNCHANGED <<storeVars, users, request, user, tenant, tenantRow, made>>
  PROVE  AuthInv'
<1>1. /\ at' \in [AuthCalls -> Labels] /\ at'[p] = "error"
      /\ \A q \in AuthCalls \ {p} : at'[q] = at[q]
      /\ failed \subseteq failed' /\ failed' \subseteq made
      /\ request[p].op = "SyncUser" /\ tenant[p] \in made => tenant[p] \in failed'
  BY ErrorTypes DEF AuthInv
<1>2. AuthTypes' /\ OnlyMoves(p)
  BY <1>1 DEF AuthInv, AuthTypes, AuthTypeOK, OnlyMoves, Labels
<1>3. request[p] \in Requests /\ Progress(p)
  BY DEF AuthInv, Progress
<1>4. Progress(p)'
  BY <1>1, <1>3 DEF Progress
<1>5. at[p] = "user" => tenant[p] \in failed'
  BY <1>1, <1>3 DEF Progress
<1> QED BY <1>1, <1>2, <1>4, <1>5, QuietStep

LEMMA CallKeepsAuth ==
  ASSUME AuthInv, NEW p \in AuthCalls, NEW r \in Requests, Call(p, r)
  PROVE  AuthInv'
<1>1. /\ at' = [at EXCEPT ![p] = "lookup"] /\ request' = [request EXCEPT ![p] = r]
      /\ user' = [user EXCEPT ![p] = NoValue] /\ tenant' = [tenant EXCEPT ![p] = NoValue]
      /\ tenantRow' = [tenantRow EXCEPT ![p] = NoValue]
      /\ UNCHANGED <<storeVars, users, made, failed>> /\ at[p] # "user"
  BY DEF Call, Goto
<1>2. AuthTypes' /\ OnlyMoves(p) /\ at'[p] = "lookup" /\ request'[p] = r
  BY <1>1 DEF AuthInv, AuthTypes, AuthTypeOK, OnlyMoves
<1>3. Progress(p)'
  BY <1>2 DEF Progress
<1> QED BY <1>1, <1>2, <1>3, QuietStep

\* SyncUser goes on to the tenant, SyncTenant returns the error.
LEMMA NothingFound ==
  ASSUME AuthInv, NEW p \in AuthCalls, at[p] = "lookup",
         IF request[p].op = "SyncUser" THEN Goto(p, "tenant") /\ UNCHANGED failed ELSE ReturnError(p),
         UNCHANGED <<storeVars, users, request, user, tenant, tenantRow, made>>
  PROVE  AuthInv'
<1>1. request[p] \in Requests
  BY DEF AuthInv, Progress
<1>2. CASE request[p].op = "SyncUser"
  <2>1. AuthTypes' /\ OnlyMoves(p) /\ at'[p] = "tenant" /\ UNCHANGED failed
    BY <1>2 DEF AuthInv, AuthTypes, AuthTypeOK, OnlyMoves, Goto
  <2>2. Progress(p)'
    BY <1>1, <1>2, <2>1 DEF Progress
  <2> QED BY <2>1, <2>2, QuietStep
<1>3. CASE request[p].op # "SyncUser"
  <2>1. ReturnError(p)
    BY <1>3
  <2> QED BY <2>1, ErrorKeepsAuth
<1> QED BY <1>2, <1>3

\* Of a lookup: found, or an error, or the next insert of SyncUser.
LEMMA LookupKeepsAuth ==
  ASSUME AuthInv, NEW p \in AuthCalls, LookupUser(p)
  PROVE  AuthInv'
<1>1. at[p] = "lookup" /\ UNCHANGED <<storeVars, users, request, tenantRow, made>>
  BY DEF LookupUser, At
<1>2. request[p] \in Requests
  BY <1>1 DEF AuthInv, Progress
<1>3. request[p].op \in {"SyncUser", "SyncTenant"}
  BY <1>2 DEF Requests
<1>4. CASE \E u \in ByClerkUser(request[p].clerkUser) :
             /\ user' = [user EXCEPT ![p] = u]
             /\ IF request[p].op = "SyncUser"
                THEN Goto(p, "update") /\ UNCHANGED tenant
                ELSE Goto(p, "read") /\ tenant' = [tenant EXCEPT ![p] = users[u].tenant]
             /\ UNCHANGED failed
  <2>1. PICK u \in ByClerkUser(request[p].clerkUser) :
             /\ user' = [user EXCEPT ![p] = u]
             /\ IF request[p].op = "SyncUser"
                THEN Goto(p, "update") /\ UNCHANGED tenant
                ELSE Goto(p, "read") /\ tenant' = [tenant EXCEPT ![p] = users[u].tenant]
             /\ UNCHANGED failed
    BY <1>4
  <2>2. u \in UserIDs /\ users[u] \in UserRow /\ users[u].clerkUser = request[p].clerkUser
    BY DEF ByClerkUser, Live, AuthInv, AuthTypes, AuthTypeOK
  <2>3. users[u].tenant \in TenantIDs
    BY <2>2 DEF UserRow
  <2>4. AuthTypes' /\ OnlyMoves(p) /\ user'[p] = u
    BY <1>1, <2>1, <2>2, <2>3 DEF AuthInv, AuthTypes, AuthTypeOK, OnlyMoves, Goto
  <2>5. HoldsUser(p)'
    BY <1>1, <2>2, <2>4 DEF HoldsUser
  <2>6. CASE request[p].op = "SyncUser"
    <3>1. at'[p] = "update"
      BY <2>1, <2>6 DEF Goto, AuthInv, AuthTypes, AuthTypeOK
    <3>2. Progress(p)'
      BY <1>1, <1>2, <2>5, <2>6, <3>1 DEF Progress
    <3> QED BY <1>1, <2>1, <2>4, <3>2, QuietStep
  <2>7. CASE request[p].op = "SyncTenant"
    <3>1. at'[p] = "read" /\ tenant'[p] \in TenantIDs
      BY <2>1, <2>3, <2>7 DEF Goto, AuthInv, AuthTypes, AuthTypeOK
    <3>2. Progress(p)'
      BY <1>1, <1>2, <2>5, <2>7, <3>1 DEF Progress
    <3> QED BY <1>1, <2>1, <2>4, <3>2, QuietStep
  <2> QED BY <1>3, <2>6, <2>7
<1>5. CASE /\ IF request[p].op = "SyncUser" THEN Goto(p, "tenant") /\ UNCHANGED failed ELSE ReturnError(p)
           /\ UNCHANGED <<user, tenant>>
  BY <1>1, <1>5, NothingFound
<1> QED BY <1>4, <1>5 DEF LookupUser

LEMMA LookupFailsKeepsAuth ==
  ASSUME AuthInv, NEW p \in AuthCalls, LookupUserFails(p)
  PROVE  AuthInv'
BY NothingFound DEF LookupUserFails, At

\* The last statement of a call has committed.
LEMMA CommittedKeepsAuth ==
  ASSUME AuthInv, NEW p \in AuthCalls, Committed(p), at[p] \in {"update", "write"},
         UNCHANGED <<users, request, user, tenant, tenantRow, made>>,
         StoreTypeOK', MadeIsDrawn', Live(tenants)' = Live(tenants)
  PROVE  AuthInv'
<1>1. /\ at' \in [AuthCalls -> Labels] /\ at'[p] \in {"ok", "error"}
      /\ \A q \in AuthCalls \ {p} : at'[q] = at[q]
      /\ failed \subseteq failed' /\ failed' \subseteq made
  <2>1. CASE Goto(p, "ok") /\ UNCHANGED failed
    BY <2>1 DEF AuthInv, AuthTypes, AuthTypeOK, Goto, Labels
  <2>2. CASE ReturnError(p)
    BY <2>2, ErrorTypes DEF AuthInv
  <2> QED BY <2>1, <2>2 DEF Committed
<1>2. AuthTypes'
  BY <1>1 DEF AuthInv, AuthTypes, AuthTypeOK, Labels
<1>3. OneUser' /\ UsersAge
  BY DEF AuthInv, OneUser, Live, UsersAge
<1>4. HoldsUser(p)' /\ request[p] \in Requests
  BY DEF AuthInv, Progress, HoldsUser
<1>5. Progress(p)'
  BY <1>1, <1>4 DEF Progress
<1>6. \A q \in AuthCalls \ {p} : Progress(q)'
  BY <1>1, <1>3, OthersProgress
<1>7. OrphanMeansError'
  <2> SUFFICES ASSUME NEW t \in made, t \in Live(tenants)
               PROVE  \/ \E u \in Live(users) : users[u].tenant = t
                      \/ t \in failed'
                      \/ \E q \in AuthCalls : at'[q] = "user" /\ tenant[q] = t
    BY DEF OrphanMeansError, Live
  <2>1. \/ \E u \in Live(users) : users[u].tenant = t
        \/ t \in failed
        \/ \E q \in AuthCalls : at[q] = "user" /\ tenant[q] = t
    BY DEF AuthInv, OrphanMeansError
  <2>2. \A q \in AuthCalls : at[q] = "user" => at'[q] = "user"
    BY <1>1
  <2> QED BY <1>1, <2>1, <2>2
<1> QED BY <1>2, <1>3, <1>5, <1>6, <1>7 DEF AuthInv

LEMMA UpdateUserKeepsAuth ==
  ASSUME AuthInv, NEW p \in AuthCalls, UpdateUser(p)
  PROVE  AuthInv'
<1>1. StoreTypeOK' /\ MadeIsDrawn' /\ Live(tenants)' = Live(tenants)
  BY DEF UpdateUser, AuthInv, StoreTypeOK, MadeIsDrawn, Live, storeVars
<1> QED BY <1>1, CommittedKeepsAuth DEF UpdateUser, At

LEMMA WriteTenantKeepsAuth ==
  ASSUME AuthInv, NEW p \in AuthCalls, WriteTenant(p)
  PROVE  AuthInv' /\ TenantStatement
<1>1. at[p] = "write" /\ tenant[p] \in TenantIDs /\ request[p].name \in Names /\ tenantRow[p] \in TenantRow
  BY DEF WriteTenant, At, AuthInv, Progress
<1>2. tenantRow[p].status \in Statuses
  BY <1>1 DEF TenantRow
<1>3. UpdateTenantRow(tenant[p], request[p].name, tenantRow[p].status)
  BY DEF WriteTenant
<1>4. TenantStatement
  BY <1>1, <1>2, <1>3 DEF TenantStatement
<1>5. StoreTypeOK'
  BY <1>4, TenantType DEF AuthInv
<1>6. /\ Live(tenants)' = Live(tenants)
      /\ \A t \in TenantIDs \ Live(tenants) : tenants'[t] = tenants[t]
  BY <1>1, <1>2, <1>3, UpdateTenantRows DEF AuthInv
<1>7. MadeIsDrawn'
  BY <1>6 DEF WriteTenant, AuthInv, MadeIsDrawn, Live, AuthTypes, AuthTypeOK
<1> QED BY <1>1, <1>4, <1>5, <1>6, <1>7, CommittedKeepsAuth DEF WriteTenant

LEMMA ReadTenantKeepsAuth ==
  ASSUME AuthInv, NEW p \in AuthCalls, ReadTenant(p)
  PROVE  AuthInv'
<1>1. at[p] = "read" /\ UNCHANGED <<storeVars, users, request, user, tenant, made>>
  BY DEF ReadTenant, At
<1>2. Progress(p) /\ request[p] \in Requests /\ request[p].op = "SyncTenant"
      /\ tenant[p] \in TenantIDs /\ HoldsUser(p)
  BY <1>1 DEF AuthInv, Progress
<1>3. request[p].name \in Names \cup {NoValue}
  BY <1>2 DEF Requests
<1>4. CASE /\ tenant[p] \in Live(tenants)
           /\ tenantRow' = [tenantRow EXCEPT ![p] = tenants[tenant[p]]]
           /\ Goto(p, IF request[p].name \in {NoValue, tenants[tenant[p]].name} THEN "ok" ELSE "write")
           /\ UNCHANGED failed
  <2>1. tenants[tenant[p]] \in TenantRow
    BY <1>4, LiveRow DEF AuthInv, StoreTypeOK
  <2>2. /\ tenantRow'[p] \in TenantRow /\ OnlyMoves(p) /\ AuthTypes'
        /\ at'[p] = "ok" \/ (at'[p] = "write" /\ request[p].name # NoValue)
    BY <1>1, <1>4, <2>1 DEF AuthInv, AuthTypes, AuthTypeOK, OnlyMoves, Goto
  <2>3. HoldsUser(p)'
    BY <1>1, <1>2 DEF HoldsUser
  <2>4. Progress(p)'
    BY <1>1, <1>2, <1>3, <2>2, <2>3 DEF Progress
  <2> QED BY <1>1, <1>4, <2>2, <2>4, QuietStep
<1>5. CASE ReturnError(p) /\ UNCHANGED tenantRow
  BY <1>1, <1>5, ErrorKeepsAuth
<1> QED BY <1>4, <1>5 DEF ReadTenant

LEMMA FailureKeepsAuth ==
  ASSUME AuthInv, NEW p \in AuthCalls, StatementFails(p)
  PROVE  AuthInv'
BY ErrorKeepsAuth DEF StatementFails

------------------------------------------------------------------------------
\* A tenant that SyncUser creates has a new id.
LEMMA CreateTenantKeepsAuth ==
  ASSUME AuthInv, NEW p \in AuthCalls, CreateTenant(p)
  PROVE  AuthInv' /\ [StoreNext]_storeVars
<1>1. at[p] = "tenant" /\ UNCHANGED <<users, request, user, tenantRow>>
  BY DEF CreateTenant, At
<1>2. request[p] \in Requests /\ request[p].op = "SyncUser"
  BY <1>1 DEF AuthInv, Progress
<1>3. UsersAge /\ OneUser'
  BY <1>1 DEF AuthInv, UsersAge, OneUser, Live
<1>4. ASSUME NEW id \in TenantIDs, NEW name \in Names, NEW subdomain \in Subdomains,
             InsertTenant(id, name, subdomain, NoValue), made' = made \cup {id},
             tenant' = [tenant EXCEPT ![p] = id],
             \/ Goto(p, "user") /\ UNCHANGED failed
             \/ Goto(p, "error") /\ failed' = failed \cup {id}
      PROVE  AuthInv' /\ [StoreNext]_storeVars
  <2>1. TenantStatement
    BY <1>4 DEF TenantStatement
  <2>2. StoreTypeOK'
    BY <2>1, TenantType DEF AuthInv
  <2>3. /\ tenants[id] = Unused /\ Live(tenants)' = Live(tenants) \cup {id}
        /\ \A t \in TenantIDs \ {id} : tenants'[t] = tenants[t]
    BY <1>4, InsertTenantRows DEF AuthInv
  <2>4. id \notin made /\ made' \subseteq TenantIDs /\ made \subseteq TenantIDs
    BY <1>4, <2>3 DEF AuthInv, MadeIsDrawn, AuthTypes, AuthTypeOK
  <2>5. MadeIsDrawn'
    BY <1>4, <2>3, <2>4 DEF AuthInv, MadeIsDrawn, Live
  <2>6. /\ at'[p] = "user" \/ (at'[p] = "error" /\ id \in failed')
        /\ at' \in [AuthCalls -> Labels] /\ tenant'[p] = id
        /\ failed \subseteq failed' /\ failed' \subseteq made' /\ OnlyMoves(p)
    <3>1. /\ at \in [AuthCalls -> Labels] /\ tenant \in [AuthCalls -> TenantIDs \cup {NoValue}]
          /\ failed \subseteq made
      BY DEF AuthInv, AuthTypes, AuthTypeOK, Labels
    <3>2. tenant'[p] = id /\ \A q \in AuthCalls \ {p} : tenant'[q] = tenant[q]
      BY <1>4, <3>1
    <3>3. CASE Goto(p, "user") /\ UNCHANGED failed
      <4>1. /\ at' \in [AuthCalls -> Labels] /\ at'[p] = "user"
            /\ \A q \in AuthCalls \ {p} : at'[q] = at[q]
        BY <3>1, <3>3 DEF Goto, Labels
      <4> QED BY <1>1, <1>4, <3>1, <3>2, <3>3, <4>1 DEF OnlyMoves
    <3>4. CASE Goto(p, "error") /\ failed' = failed \cup {id}
      <4>1. /\ at' \in [AuthCalls -> Labels] /\ at'[p] = "error"
            /\ \A q \in AuthCalls \ {p} : at'[q] = at[q]
        BY <3>1, <3>4 DEF Goto, Labels
      <4> QED BY <1>1, <1>4, <3>1, <3>2, <3>4, <4>1 DEF OnlyMoves
    <3> QED BY <1>4, <3>3, <3>4
  <2>7. AuthTypes'
    BY <1>1, <1>4, <2>4, <2>6 DEF AuthInv, AuthTypes, AuthTypeOK, Labels
  <2>8. Progress(p)'
    BY <1>1, <1>2, <1>4, <2>6 DEF Progress
  <2>9. \A q \in AuthCalls \ {p} : Progress(q)'
    BY <1>3, <1>4, <2>6, OthersProgress DEF OnlyMoves
  <2>10. OrphanMeansError'
    <3> SUFFICES ASSUME NEW t \in made', t \in Live(tenants)'
                 PROVE  \/ \E u \in Live(users) : users[u].tenant = t
                        \/ t \in failed'
                        \/ \E q \in AuthCalls : at'[q] = "user" /\ tenant'[q] = t
      BY <1>1 DEF OrphanMeansError, Live
    <3>1. CASE t = id
      BY <2>6, <3>1
    <3>2. CASE t # id
      <4>1. t \in made /\ t \in Live(tenants)
        BY <1>4, <2>3, <3>2
      <4>2. \/ \E u \in Live(users) : users[u].tenant = t
            \/ t \in failed
            \/ \E q \in AuthCalls : at[q] = "user" /\ tenant[q] = t
        BY <4>1 DEF AuthInv, OrphanMeansError
      <4>3. \A q \in AuthCalls : at[q] = "user" => at'[q] = "user" /\ tenant'[q] = tenant[q]
        BY <1>1, <2>6 DEF OnlyMoves
      <4> QED BY <2>6, <4>2, <4>3
    <3> QED BY <3>1, <3>2
  <2> QED BY <1>3, <2>1, <2>2, <2>5, <2>7, <2>8, <2>9, <2>10 DEF AuthInv, StoreNext
<1>5. ASSUME ReturnError(p), UNCHANGED <<storeVars, tenant, made>>
      PROVE  AuthInv' /\ [StoreNext]_storeVars
  BY <1>1, <1>5, ErrorKeepsAuth
<1> QED BY <1>4, <1>5 DEF CreateTenant

LEMMA CreateUserKeepsAuth ==
  ASSUME AuthInv, NEW p \in AuthCalls, CreateUser(p)
  PROVE  AuthInv'
<1> DEFINE row == [tenant |-> tenant[p], clerkUser |-> request[p].clerkUser]
<1>1. at[p] = "user" /\ UNCHANGED <<storeVars, request, tenant, tenantRow, made>>
  BY DEF CreateUser, At
<1>2. request[p] \in Requests /\ request[p].op = "SyncUser" /\ tenant[p] \in made
  BY <1>1 DEF AuthInv, Progress
<1>3. row \in UserRow /\ row.clerkUser = request[p].clerkUser /\ row.tenant = tenant[p]
  BY <1>2 DEF Requests, UserRow, AuthInv, AuthTypes, AuthTypeOK
<1>4. row \notin {Unused, Deleted}
  BY <1>3, TombstonesAreNotUsers
<1> HIDE DEF row
<1>5. ASSUME UserInsertable(row), NEW u \in UserIDs, users[u] = Unused,
             users' = [users EXCEPT ![u] = row], user' = [user EXCEPT ![p] = u], Committed(p)
      PROVE  AuthInv'
  <2>1. /\ users'[u] = row /\ \A v \in UserIDs \ {u} : users'[v] = users[v]
        /\ Live(users)' = Live(users) \cup {u} /\ u \notin Live(users)
    BY <1>4, <1>5 DEF AuthInv, AuthTypes, AuthTypeOK, Live
  <2>2. UsersAge
    BY <1>5, <2>1 DEF UsersAge
  <2>3. /\ at' \in [AuthCalls -> Labels] /\ at'[p] \in {"ok", "error"}
        /\ \A q \in AuthCalls \ {p} : at'[q] = at[q]
        /\ failed \subseteq failed' /\ failed' \subseteq made
    <3>1. CASE Goto(p, "ok") /\ UNCHANGED failed
      BY <3>1 DEF AuthInv, AuthTypes, AuthTypeOK, Goto, Labels
    <3>2. CASE ReturnError(p)
      BY <3>2, ErrorTypes DEF AuthInv
    <3> QED BY <1>5, <3>1, <3>2 DEF Committed
  <2>4. AuthTypes' /\ OnlyMoves(p) /\ user'[p] = u
    BY <1>1, <1>3, <1>5, <2>3 DEF AuthInv, AuthTypes, AuthTypeOK, OnlyMoves, Labels
  <2>5. OneUser'
    <3>1. \A v \in Live(users) : users[v].clerkUser # row.clerkUser
      BY <1>5 DEF UserInsertable, ByClerkUser
    <3>2. \A v \in Live(users) : users'[v] = users[v]
      BY <2>1 DEF Live, AuthInv, AuthTypes, AuthTypeOK
    <3> QED BY <2>1, <3>1, <3>2 DEF OneUser, AuthInv
  <2>6. HoldsUser(p)'
    BY <1>1, <1>3, <2>1, <2>4 DEF HoldsUser
  <2>7. Progress(p)'
    BY <1>1, <1>2, <2>3, <2>6 DEF Progress
  <2>8. \A q \in AuthCalls \ {p} : Progress(q)'
    BY <1>1, <2>2, <2>4, OthersProgress DEF OnlyMoves
  <2>9. OrphanMeansError'
    <3> SUFFICES ASSUME NEW t \in made, t \in Live(tenants)
                 PROVE  \/ \E v \in Live(users)' : users'[v].tenant = t
                        \/ t \in failed'
                        \/ \E q \in AuthCalls : at'[q] = "user" /\ tenant[q] = t
      BY <1>1 DEF OrphanMeansError, Live, storeVars
    <3>1. CASE t = tenant[p]
      BY <1>3, <2>1, <3>1
    <3>2. CASE t # tenant[p]
      <4>1. \/ \E v \in Live(users) : users[v].tenant = t
            \/ t \in failed
            \/ \E q \in AuthCalls \ {p} : at[q] = "user" /\ tenant[q] = t
        BY <3>2 DEF AuthInv, OrphanMeansError
      <4>2. \A v \in Live(users) : users'[v] = users[v]
        BY <2>1 DEF Live, AuthInv, AuthTypes, AuthTypeOK
      <4> QED BY <2>1, <2>3, <4>1, <4>2
    <3> QED BY <3>1, <3>2
  <2>10. StoreTypeOK' /\ MadeIsDrawn'
    BY <1>1 DEF AuthInv, StoreTypeOK, MadeIsDrawn, storeVars
  <2> QED BY <2>4, <2>5, <2>7, <2>8, <2>9, <2>10 DEF AuthInv
<1>6. ASSUME ReturnError(p), UNCHANGED <<users, user>>
      PROVE  AuthInv'
  BY <1>1, <1>6, ErrorKeepsAuth
<1> QED BY <1>5, <1>6 DEF CreateUser, row

LEMMA ElsewhereKeepsAuth ==
  ASSUME AuthInv, Elsewhere
  PROVE  AuthInv'
<1> DEFINE gone == {u \in Live(users) : users[u].tenant \notin Live(tenants')}
<1>1. users' = Drop(users, gone) /\ UNCHANGED callVars /\ TenantStatement
  BY DEF Elsewhere
<1>2. /\ Live(users)' = Live(users) \ gone
      /\ \A u \in Live(users) \ gone : users'[u] = users[u]
  <2>1. \A table : Live(Drop(table, gone)) = Live(table) \ gone
    BY DropLive
  <2>2. \A u \in Live(users) \ gone : Drop(users, gone)[u] = users[u]
    BY DropLive
  <2>3. Live(users)' = Live(users')
    BY DEF Live
  <2> QED BY <1>1, <2>1, <2>2, <2>3
<1>3. UsersAge /\ users' \in [UserIDs -> UserRow \cup {Unused, Deleted}]
  BY <1>1 DEF Drop, UsersAge, AuthInv, AuthTypes, AuthTypeOK
<1>4. StoreTypeOK' /\ RowLifecycleStep
  BY <1>1, TenantType, StoreStepLifecycle DEF AuthInv, StoreNext
<1>5. Ages(tenants, tenants') /\ DOMAIN tenants = TenantIDs /\ DOMAIN tenants' = TenantIDs
  BY <1>4 DEF RowLifecycleStep, AuthInv, StoreTypeOK, Table
<1>6. AuthTypes'
  BY <1>1, <1>3 DEF AuthInv, AuthTypes, AuthTypeOK, callVars
<1>7. MadeIsDrawn'
  BY <1>1, <1>5 DEF AuthInv, AuthTypes, AuthTypeOK, MadeIsDrawn, Ages, callVars
<1>8. OneUser'
  BY <1>2 DEF AuthInv, OneUser
<1>9. \A q \in AuthCalls : Progress(q)'
  BY <1>1, <1>3, OthersProgress DEF callVars
<1>10. OrphanMeansError'
  <2> SUFFICES ASSUME NEW t \in made, t \in Live(tenants)'
               PROVE  \/ \E v \in Live(users)' : users'[v].tenant = t
                      \/ t \in failed
                      \/ \E q \in AuthCalls : at[q] = "user" /\ tenant[q] = t
    BY <1>1 DEF OrphanMeansError, callVars
  <2>1. t \in Live(tenants)
    <3>1. tenants[t] # Unused /\ t \in TenantIDs
      BY DEF AuthInv, MadeIsDrawn, AuthTypes, AuthTypeOK
    <3>2. tenants'[t] # Deleted
      BY DEF Live
    <3> QED BY <1>5, <3>1, <3>2 DEF Ages, Live
  <2>2. \A u \in Live(users) : users[u].tenant = t => u \notin gone
    BY DEF Live
  <2>3. \/ \E u \in Live(users) : users[u].tenant = t
        \/ t \in failed
        \/ \E q \in AuthCalls : at[q] = "user" /\ tenant[q] = t
    BY <2>1 DEF AuthInv, OrphanMeansError
  <2> QED BY <1>2, <2>2, <2>3
<1> QED BY <1>4, <1>6, <1>7, <1>8, <1>9, <1>10 DEF AuthInv

------------------------------------------------------------------------------
LEMMA AuthStep ==
  ASSUME AuthInv, [AuthNext]_authVars
  PROVE  AuthInv' /\ [StoreNext]_storeVars
<1>1. CASE UNCHANGED authVars
  BY <1>1 DEF authVars, callVars, storeVars, AuthInv, StoreTypeOK, AuthTypes, AuthTypeOK, MadeIsDrawn,
              OneUser, OrphanMeansError, Progress, HoldsUser, Live
<1>2. ASSUME NEW p \in AuthCalls, \E r \in Requests : Call(p, r)
      PROVE  AuthInv' /\ [StoreNext]_storeVars
  BY <1>2, CallKeepsAuth DEF Call
<1>3. ASSUME NEW p \in AuthCalls,
             LookupUser(p) \/ LookupUserFails(p) \/ UpdateUser(p) \/ ReadTenant(p) \/ StatementFails(p)
      PROVE  AuthInv' /\ [StoreNext]_storeVars
  <2>1. UNCHANGED storeVars
    BY <1>3 DEF LookupUser, LookupUserFails, UpdateUser, ReadTenant, StatementFails
  <2> QED BY <1>3, <2>1, LookupKeepsAuth, LookupFailsKeepsAuth, UpdateUserKeepsAuth,
             ReadTenantKeepsAuth, FailureKeepsAuth
<1>4. ASSUME NEW p \in AuthCalls, CreateTenant(p)
      PROVE  AuthInv' /\ [StoreNext]_storeVars
  BY <1>4, CreateTenantKeepsAuth
<1>5. ASSUME NEW p \in AuthCalls, CreateUser(p)
      PROVE  AuthInv' /\ [StoreNext]_storeVars
  BY <1>5, CreateUserKeepsAuth DEF CreateUser
<1>6. ASSUME NEW p \in AuthCalls, WriteTenant(p)
      PROVE  AuthInv' /\ [StoreNext]_storeVars
  BY <1>6, WriteTenantKeepsAuth DEF StoreNext
<1>7. CASE Elsewhere
  BY <1>7, ElsewhereKeepsAuth DEF Elsewhere, StoreNext
<1> QED BY <1>1, <1>2, <1>3, <1>4, <1>5, <1>6, <1>7 DEF AuthNext

LEMMA AuthInvariant == AuthSpec => []AuthInv
BY AuthInitInv, AuthStep, PTL DEF AuthSpec

\* The service is one more writer of the store: what is proved of StoreSpec
\* holds while users are synchronized.
THEOREM AuthRunsOnStore == AuthSpec => StoreSpec
<1>1. AuthInit => StoreInit
  BY DEF AuthInit
<1> QED BY <1>1, AuthInvariant, AuthStep, PTL DEF AuthSpec, StoreSpec

\* The types of users and of the locals of every call (auth.go:43-153).
THEOREM AuthTypeCorrect == AuthSpec => []AuthTypeOK
<1>1. AuthInv => AuthTypeOK
  BY DEF AuthInv, AuthTypes
<1> QED BY <1>1, AuthInvariant, PTL

\* A tenant without a user is the trace of an error or of a call that runs,
\* for any number of calls, failures and deletions (auth.go:93, 119).
THEOREM OrphansComeFromErrors == AuthSpec => []OrphanMeansError
BY AuthInvariant, PTL DEF AuthInv

\* Calls for one Clerk user that succeed agree on the user (auth.go:45, 119).
THEOREM OneUserPerClerkUser == AuthSpec => []SyncedUserIsOne
<1>1. AuthInv => SyncedUserIsOne
  <2> SUFFICES ASSUME AuthInv, NEW p \in AuthCalls, NEW q \in AuthCalls,
                      at[p] = "ok", at[q] = "ok", request[p].clerkUser = request[q].clerkUser,
                      {user[p], user[q]} \subseteq Live(users)
               PROVE  user[p] = user[q]
    BY DEF SyncedUserIsOne
  <2>1. HoldsUser(p) /\ HoldsUser(q)
    BY DEF AuthInv, Progress
  <2>2. /\ user[p] \in Live(users) /\ user[q] \in Live(users)
        /\ users[user[p]] # Deleted /\ users[user[q]] # Deleted
    BY DEF Live
  <2> QED BY <2>1, <2>2 DEF HoldsUser, AuthInv, OneUser
<1> QED BY <1>1, AuthInvariant, PTL
=============================================================================
