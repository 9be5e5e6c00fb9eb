---------------------------- MODULE ControlPlane ----------------------------
(***************************************************************************)
(* The REST handlers of src/internal/controlplane/handlers and the         *)
(* services they call.  A slot is a goroutine of net/http serving one      *)
(* request after another; between two statements of a handler any other    *)
(* slot may run.                                                           *)
(*                                                                         *)
(* A statement can fail before it is executed, and the acknowledgement of  *)
(* a committed one can be lost (broken connection, client gone, the 60     *)
(* seconds of middleware.Timeout): the handler sees an error in both       *)
(* cases.  fault remembers that one of them happened to the request.       *)
(***************************************************************************)
EXTENDS ConfigStore

CONSTANTS
  Slots,
  Jobs,              \* the requests that clients send, as records
  SubdomainOf,       \* a Clerk id cut to 50 bytes: the subdomain of its workspace
  EmptyName,         \* ""
  WorkspaceName      \* "My Workspace"

VARIABLES
  pc,                \* "idle", "resolve", "workspace", "exec", "read", "write", "done"
  job,               \* the request being served
  tenantID,          \* what resolveTenantID returned
  row,               \* the model the service holds: read, then changed in memory
  status,            \* the answer, 0 before
  fault,             \* the database failed this request
  wrote              \* history: ids of the rows this request inserted, updated or deleted

cpVars == <<storeVars, pc, job, tenantID, row, status, fault, wrote>>

Malformed == [op |-> "Malformed"]
Creates == {"CreateOrigin", "CreateRoute", "CreateAPIKey"}
Lists   == {"ListOrigins", "ListRoutes", "ListAPIKeys"}
Updates == {"UpdateTenant", "UpdateOrigin", "UpdateRoute"}
Deletes == {"DeleteTenant", "DeleteOrigin", "DeleteRoute", "DeleteAPIKey"}
ByTenant == Creates \cup Lists      \* the operations that call resolveTenantID

ASSUME JobOps ==
  \A j \in Jobs : j.op \in {"Malformed", "CreateTenant"} \cup ByTenant \cup Updates \cup Deletes
ASSUME TenantReferences ==
  \A j \in Jobs : j.op \in ByTenant => j.tref \in TenantIDs \cup ClerkOrgs
ASSUME ClerkIDsAreNotUUIDs == ClerkOrgs \cap TenantIDs = {} /\ NoValue \notin TenantIDs
ASSUME SubdomainsOfClerkIDs == SubdomainOf \in [ClerkOrgs -> Subdomains]
ASSUME WorkspacesHaveAName == WorkspaceName \in Names
ASSUME IDsOfTablesDiffer == TenantIDs \cap (OriginIDs \cup RouteIDs \cup KeyIDs) = {}

\* A body has the JSON types of its request; a field may be absent, and an
\* auth_mode or a status may be none that the schema knows.
RouteFields(j) == /\ j.methods \in MethodSets /\ j.priority \in Priorities
                  /\ j.active \in BOOLEAN /\ j.policy \in Policies
ASSUME JobFields ==
  \A j \in Jobs :
     /\ j.op = "CreateTenant" => /\ j.name \in Names /\ j.subdomain \in Subdomains
                                 /\ j.clerkOrg \in ClerkOrgs \cup {NoValue}
     /\ j.op = "CreateOrigin" => /\ j.name \in Names \cup {NoValue, EmptyName}
                                 /\ j.url \in URLs \cup {NoValue}
     /\ j.op = "CreateRoute" => /\ j.origin \in OriginIDs \cup {NoValue}
                                /\ j.pattern \in Patterns \cup {NoValue} /\ RouteFields(j)
     /\ j.op = "UpdateTenant" => j.id \in TenantIDs /\ j.name \in Names \cup {NoValue}
     /\ j.op = "UpdateOrigin" => j.id \in OriginIDs /\ j.name \in Names /\ j.url \in URLs
     /\ j.op = "UpdateRoute" => j.id \in RouteIDs /\ j.pattern \in Patterns /\ RouteFields(j)
     /\ j.op = "DeleteTenant" => j.id \in TenantIDs
     /\ j.op = "DeleteOrigin" => j.id \in OriginIDs
     /\ j.op = "DeleteRoute" => j.id \in RouteIDs
     /\ j.op = "DeleteAPIKey" => j.id \in KeyIDs

CPInit ==
  /\ StoreInit
  /\ pc = [p \in Slots |-> "idle"]
  /\ job = [p \in Slots |-> Malformed]
  /\ tenantID = [p \in Slots |-> NoValue]
  /\ row = [p \in Slots |-> NoValue]
  /\ status = [p \in Slots |-> 0]
  /\ fault = [p \in Slots |-> FALSE]
  /\ wrote = [p \in Slots |-> {}]

Goto(p, label) == pc' = [pc EXCEPT ![p] = label]

\* Mutant: a return without a status.
AnswerNothing(p, code) == Goto(p, "done") /\ UNCHANGED status

Answer(p, code) == /\ Goto(p, "done")
                   /\ status' = [status EXCEPT ![p] = code]

------------------------------------------------------------------------------
(* The pool of ids is finite: a request that may insert a row is accepted only *)
(* while every slot that may insert one can still draw an id.                  *)

MayInsertTenant(j) == j.op = "CreateTenant" \/ (j.op \in ByTenant /\ j.tref \in ClerkOrgs)

Busy == {p \in Slots : pc[p] \notin {"idle", "done"}}

Spare(table, takers) == Cardinality({id \in DOMAIN table : table[id] = Unused}) > Cardinality(takers)

Room(j) ==
  /\ MayInsertTenant(j) => Spare(tenants, {p \in Busy : MayInsertTenant(job[p])})
  /\ j.op = "CreateOrigin" => Spare(origins, {p \in Busy : job[p].op = "CreateOrigin"})
  /\ j.op = "CreateRoute" => Spare(routes, {p \in Busy : job[p].op = "CreateRoute"})
  /\ j.op = "CreateAPIKey" => Spare(apiKeys, {p \in Busy : job[p].op = "CreateAPIKey"})

\* A body that is no JSON, an id that is no UUID and a missing tenant_id are
\* refused before anything else is done.
Accept(p) ==
  /\ pc[p] \in {"idle", "done"}
  /\ \E j \in Jobs :
        /\ Room(j)
        /\ job' = [job EXCEPT ![p] = j]
        /\ pc' = [pc EXCEPT ![p] = CASE j.op = "Malformed" -> "done"
                                     [] j.op \in ByTenant -> "resolve"
                                     [] j.op \in Updates -> "read"
                                     [] OTHER -> "exec"]
        /\ status' = [status EXCEPT ![p] = IF j.op = "Malformed" THEN 400 ELSE 0]
  /\ tenantID' = [tenantID EXCEPT ![p] = NoValue]
  /\ row' = [row EXCEPT ![p] = NoValue]
  /\ fault' = [fault EXCEPT ![p] = FALSE]
  /\ wrote' = [wrote EXCEPT ![p] = {}]
  /\ UNCHANGED storeVars

------------------------------------------------------------------------------
(* resolveTenantID, and the validation that only follows it.                  *)

\* The answer to a create whose fields do not pass: 0 if they do.  An absent
\* name makes CreateAPIKey panic, which middleware.Recoverer turns into a 500.
Rejection(j) ==
  CASE j.op = "CreateOrigin" -> IF j.name \in {NoValue, EmptyName} \/ j.url = NoValue THEN 400 ELSE 0
    [] j.op = "CreateRoute" -> IF j.origin = NoValue \/ j.pattern = NoValue THEN 400 ELSE 0
    [] j.op = "CreateAPIKey" -> IF j.name = NoValue THEN 500 ELSE IF j.name = EmptyName THEN 400 ELSE 0
    [] OTHER -> 0

Resolved(p, t) ==
  /\ tenantID' = [tenantID EXCEPT ![p] = t]
  /\ IF Rejection(job[p]) = 0
     THEN Goto(p, "exec") /\ UNCHANGED status
     ELSE Answer(p, Rejection(job[p]))

\* Mutant: resolveTenantID starts over when the insert fails.
UnresolvedRetries(p) == Goto(p, "resolve") /\ UNCHANGED <<tenantID, status>>

\* An error answers 500 to a create, and to a list 200 with an empty array.
Unresolved(p) ==
  /\ Answer(p, IF job[p].op \in Lists THEN 200 ELSE 500)
  /\ UNCHANGED tenantID

\* A UUID is taken as it is; a Clerk ID is looked up.
Resolve(p) ==
  LET tref == job[p].tref IN
  /\ pc[p] = "resolve"
  /\ \/ tref \in TenantIDs /\ Resolved(p, tref)
     \/ \E t \in ByClerkOrg(tref) : Resolved(p, t)
     \/ /\ tref \in ClerkOrgs /\ ByClerkOrg(tref) = {}
        /\ Goto(p, "workspace")
        /\ UNCHANGED <<tenantID, status>>
  /\ UNCHANGED <<storeVars, job, row, fault, wrote>>

\* Any error of the lookup, not only "no rows", leads to the insert.
LookupFails(p) ==
  /\ pc[p] = "resolve" /\ job[p].tref \in ClerkOrgs
  /\ Goto(p, "workspace")
  /\ fault' = [fault EXCEPT ![p] = TRUE]
  /\ UNCHANGED <<storeVars, job, tenantID, row, status, wrote>>

Wrote(p, ids) == wrote' = [wrote EXCEPT ![p] = @ \cup ids]

CreateWorkspace(p) ==
  LET clerkOrg == job[p].tref
      subdomain == SubdomainOf[clerkOrg] IN
  /\ pc[p] = "workspace"
  /\ \/ \E id \in TenantIDs :
           /\ InsertTenant(id, WorkspaceName, subdomain, clerkOrg)
           /\ Wrote(p, {id})
           /\ \/ Resolved(p, id) /\ UNCHANGED fault
              \/ Unresolved(p) /\ fault' = [fault EXCEPT ![p] = TRUE]
     \/ /\ ~TenantInsertable(subdomain, clerkOrg)
        /\ Unresolved(p)
        /\ UNCHANGED <<storeVars, fault, wrote>>
     \/ /\ Unresolved(p)
        /\ fault' = [fault EXCEPT ![p] = TRUE]
        /\ UNCHANGED <<storeVars, wrote>>
  /\ UNCHANGED <<job, row>>

------------------------------------------------------------------------------
(* The statement of an operation, and its three outcomes: committed (with the *)
(* answer possibly lost), refused by a constraint, failed.                    *)

At(p, label, op) == pc[p] = label /\ job[p].op = op

Committed(p, ids, code) ==
  /\ Wrote(p, ids)
  /\ \/ Answer(p, code) /\ UNCHANGED fault
     \/ Answer(p, 500) /\ fault' = [fault EXCEPT ![p] = TRUE]
  /\ UNCHANGED <<job, tenantID>>

\* Mutant: the error of the repository is dropped.
RefusedUnnoticed(p) ==
  /\ Answer(p, 201)
  /\ UNCHANGED <<storeVars, job, tenantID, row, fault, wrote>>

Refused(p) ==
  /\ Answer(p, 500)
  /\ UNCHANGED <<storeVars, job, tenantID, row, fault, wrote>>

StatementFails(p) ==
  /\ pc[p] \in {"exec", "read", "write"}
  /\ Answer(p, 500)
  /\ fault' = [fault EXCEPT ![p] = TRUE]
  /\ UNCHANGED <<storeVars, job, tenantID, row, wrote>>

CreateTenant(p) ==
  LET j == job[p] IN
  /\ At(p, "exec", "CreateTenant")
  /\ \/ /\ \E id \in TenantIDs : /\ InsertTenant(id, j.name, j.subdomain, j.clerkOrg)
                                 /\ Committed(p, {id}, 201)
        /\ UNCHANGED row
     \/ ~TenantInsertable(j.subdomain, j.clerkOrg) /\ Refused(p)

\* The key's hash is stored; expires_at is read from the body and not passed on.
CreateAPIKey(p) ==
  LET new == [tenant |-> tenantID[p], expiresAt |-> NoValue] IN
  /\ At(p, "exec", "CreateAPIKey")
  /\ \/ /\ \E id \in KeyIDs : InsertKey(id, new) /\ Committed(p, {id}, 201)
        /\ row' = [row EXCEPT ![p] = new]
     \/ ~KeyInsertable(new) /\ Refused(p)

CreateOrigin(p) ==
  LET new == [tenant |-> tenantID[p], name |-> job[p].name, url |-> job[p].url] IN
  /\ At(p, "exec", "CreateOrigin")
  /\ \/ /\ \E id \in OriginIDs : InsertOrigin(id, new) /\ Committed(p, {id}, 201)
        /\ row' = [row EXCEPT ![p] = new]
     \/ ~OriginInsertable(new) /\ Refused(p)

NewRoute(t, j) == [tenant |-> t, origin |-> j.origin, pattern |-> j.pattern,
                   methods |-> j.methods, priority |-> j.priority, auth |-> j.auth,
                   active |-> j.active, policy |-> j.policy]

\* Nothing asks whether the origin belongs to the tenant.
CreateRoute(p) ==
  LET new == NewRoute(tenantID[p], job[p]) IN
  /\ At(p, "exec", "CreateRoute")
  /\ \/ /\ \E id \in RouteIDs : InsertRoute(id, new) /\ Committed(p, {id}, 201)
        /\ row' = [row EXCEPT ![p] = new]
     \/ ~RouteInsertable(new) /\ Refused(p)

\* The SELECT of a list; the rows are not modelled.
List(p) ==
  /\ pc[p] = "exec" /\ job[p].op \in Lists
  /\ Answer(p, 200)
  /\ UNCHANGED <<storeVars, job, tenantID, row, fault, wrote>>

DeleteTenant(p) ==
  LET id == job[p].id IN
  /\ At(p, "exec", "DeleteTenant")
  /\ DeleteTenantRow(id)
  /\ Committed(p, {id} \cap Live(tenants), 204)
  /\ UNCHANGED row

DeleteOrigin(p) ==
  LET id == job[p].id IN
  /\ At(p, "exec", "DeleteOrigin")
  /\ DeleteOriginRow(id)
  /\ Committed(p, {id} \cap Live(origins), 204)
  /\ UNCHANGED row

DeleteRoute(p) ==
  LET id == job[p].id IN
  /\ At(p, "exec", "DeleteRoute")
  /\ DeleteRouteRow(id)
  /\ Committed(p, {id} \cap Live(routes), 204)
  /\ UNCHANGED row

DeleteAPIKey(p) ==
  LET id == job[p].id IN
  /\ At(p, "exec", "DeleteAPIKey")
  /\ DeleteKeyRow(id)
  /\ Committed(p, {id} \cap Live(apiKeys), 204)
  /\ UNCHANGED row

------------------------------------------------------------------------------
(* An update reads the row, changes it in memory and writes it back.          *)

\* GetByID; no row is a 500.
ReadRow(p, table) ==
  LET id == job[p].id IN
  /\ pc[p] = "read"
  /\ \/ /\ id \in Live(table)
        /\ row' = [row EXCEPT ![p] = table[id]]
        /\ Goto(p, "write")
        /\ UNCHANGED <<storeVars, job, tenantID, status, fault, wrote>>
     \/ id \notin Live(table) /\ Refused(p)

Read(p) == \/ job[p].op = "UpdateTenant" /\ ReadRow(p, tenants)
           \/ job[p].op = "UpdateOrigin" /\ ReadRow(p, origins)
           \/ job[p].op = "UpdateRoute" /\ ReadRow(p, routes)

\* Mutant: PUT semantics, an absent field is cleared.
GivenOrCleared(value, old) == value

\* A field that the request leaves out keeps the value that was read.
Given(value, old) == IF value = NoValue THEN old ELSE value

\* Mutant: the row is saved whole, and inserted when it is gone.
UpdateTenantUpsert(p) ==
  LET j == job[p]
      new == [row[p] EXCEPT !.name = Given(j.name, @), !.status = Given(j.status, @)] IN
  /\ At(p, "write", "UpdateTenant")
  /\ new.status \in Statuses
  /\ tenants' = [tenants EXCEPT ![j.id] = new]
  /\ Committed(p, {j.id}, 200)
  /\ UNCHANGED <<origins, routes, apiKeys, row>>

UpdateTenant(p) ==
  LET j == job[p]
      new == [row[p] EXCEPT !.name = Given(j.name, @), !.status = Given(j.status, @)] IN
  /\ At(p, "write", "UpdateTenant")
  /\ \/ /\ UpdateTenantRow(j.id, new.name, new.status)
        /\ Committed(p, {j.id} \cap Live(tenants), 200)
        /\ row' = [row EXCEPT ![p] = new]
     \/ ~TenantUpdatable(j.id, new.status) /\ Refused(p)

\* PUT and PATCH alike overwrite every field, with "" where the body has none.
UpdateOrigin(p) ==
  LET j == job[p]
      new == [row[p] EXCEPT !.name = j.name, !.url = j.url] IN
  /\ At(p, "write", "UpdateOrigin")
  /\ \/ /\ UpdateOriginRow(j.id, new.name, new.url)
        /\ Committed(p, {j.id} \cap Live(origins), 200)
        /\ row' = [row EXCEPT ![p] = new]
     \/ ~OriginUpdatable(j.id, new.name) /\ Refused(p)

UpdateRoute(p) ==
  LET j == job[p]
      new == [row[p] EXCEPT !.pattern = j.pattern, !.methods = j.methods,
                            !.priority = j.priority, !.auth = j.auth,
                            !.active = j.active, !.policy = j.policy] IN
  /\ At(p, "write", "UpdateRoute")
  /\ \/ /\ UpdateRouteRow(j.id, new)
        /\ Committed(p, {j.id} \cap Live(routes), 200)
        /\ row' = [row EXCEPT ![p] = new]
     \/ ~RouteUpdatable(j.id, new) /\ Refused(p)

------------------------------------------------------------------------------
Serve(p) ==
  \/ Resolve(p) \/ LookupFails(p) \/ CreateWorkspace(p) \/ StatementFails(p)
  \/ CreateTenant(p) \/ Read(p) \/ UpdateTenant(p) \/ DeleteTenant(p)
  \/ CreateOrigin(p) \/ UpdateOrigin(p) \/ DeleteOrigin(p)
  \/ CreateRoute(p) \/ UpdateRoute(p) \/ DeleteRoute(p)
  \/ CreateAPIKey(p) \/ DeleteAPIKey(p) \/ List(p)

CPNext == \E p \in Slots : Accept(p) \/ Serve(p)

CPSpec == CPInit /\ [][CPNext]_cpVars

\* Goroutines are scheduled, and a statement ends: Timeout cancels its context
\* after 60 seconds.  Clients need not send anything.
FairCPSpec == CPSpec /\ \A p \in Slots : WF_cpVars(Serve(p))

------------------------------------------------------------------------------
(* Properties *)

\* The locals of a handler have their types, and a request has a status
\* exactly when it has been answered.
CPTypeOK ==
  /\ pc \in [Slots -> {"idle", "resolve", "workspace", "exec", "read", "write", "done"}]
  /\ job \in [Slots -> Jobs \cup {Malformed}]
  /\ tenantID \in [Slots -> TenantIDs \cup {NoValue}]
  /\ status \in [Slots -> {0, 200, 201, 204, 400, 500}]
  /\ fault \in [Slots -> BOOLEAN]
  /\ wrote \in [Slots -> SUBSET (TenantIDs \cup OriginIDs \cup RouteIDs \cup KeyIDs)]
  /\ \A p \in Slots : pc[p] = "done" <=> status[p] # 0

\* A row created for a Clerk ID goes to the tenant of that Clerk ID as it is at
\* the insert, although resolveTenantID answered earlier and the tenant may
\* have been deleted and another workspace created in between
\* (handlers.go:199, 239).
CreatedUnderRequestedTenant ==
  [][\A p \in Slots :
        pc[p] = "exec" /\ status'[p] = 201 /\ job[p].op \in Creates /\ job[p].tref \in ClerkOrgs
           => tenantID[p] \in ByClerkOrg(job[p].tref)']_cpVars

\* What the client is told is what happened: a 201 means that this request
\* inserted its row, and after an error of its own making (no failure of the
\* database) nothing is left of the request but the workspace that
\* resolveTenantID created for its Clerk ID before the validation.
AnswerTellsEffect ==
  \A p \in Slots :
     /\ status[p] = 201 => wrote[p] \ {tenantID[p]} # {}
     /\ status[p] \in {400, 500} /\ ~fault[p] => wrote[p] \subseteq {tenantID[p]}

\* An update of a tenant leaves the fields alone that its request does not
\* name, unless the row was changed between the read and the write
\* (tenant.go:68-83): only an overlapping update can be undone.
UpdateKeepsOtherFields ==
  [][\A p \in Slots : LET j == job[p] IN
        At(p, "write", "UpdateTenant") /\ status'[p] = 200
        /\ j.id \in Live(tenants) /\ tenants[j.id] = row[p]
           => /\ j.name = NoValue => tenants'[j.id].name = tenants[j.id].name
              /\ j.status = NoValue => tenants'[j.id].status = tenants[j.id].status]_cpVars

\* Two requests for one Clerk ID work in one workspace, as long as it lives.
OneWorkspacePerClerkID ==
  \A p, q \in Slots :
     /\ {job[p].op, job[q].op} \subseteq ByTenant
     /\ {tenantID[p], tenantID[q]} \subseteq Live(tenants)
     /\ job[p].tref = job[q].tref
     => tenantID[p] = tenantID[q]

\* Every request is answered, whatever the database does.
EveryRequestAnswered == \A p \in Slots : pc[p] \in {"resolve", "exec", "read"} ~> pc[p] = "done"

\* handlers.go:21, "looks up or creates the tenant": a request for a Clerk ID
\* is not refused for want of a tenant when that tenant exists.
ResolveFindsTenant ==
  [][\A p \in Slots :
        pc[p] = "workspace" /\ status'[p] = 500 /\ ~fault'[p] => ByClerkOrg(job[p].tref) = {}]_cpVars

\* BACKEND_STATUS.md:179, "Fully functional for basic CRUD operations": the
\* route that a create or an update answers with is the route that is stored.
RouteAnswerIsStored ==
  [][\A p \in Slots :
        pc[p] # "done" /\ job[p].op \in {"CreateRoute", "UpdateRoute"} /\ status'[p] \in {200, 201}
           => \E id \in Live(routes)' : routes'[id] = row'[p]]_cpVars
=============================================================================
