------------------------ MODULE ControlPlane_proofs ------------------------
(***************************************************************************)
(* The handlers of the control plane, for any number of concurrent         *)
(* requests.  The argument: a request has written nothing before its       *)
(* statement but the workspace that it then works in, and the tenant that  *)
(* resolveTenantID found is the one of its Clerk ID or gone for good.      *)
(* Then the control plane and the gateway on one database.                 *)
(***************************************************************************)
EXTENDS System, ConfigStore_proofs

Labels == {"idle", "resolve", "workspace", "exec", "read", "write", "done"}
Codes == {0, 200, 201, 204, 400, 500}
RowIDs == TenantIDs \cup OriginIDs \cup RouteIDs \cup KeyIDs

Locals == CPTypeOK /\ row = [q \in Slots |-> row[q]]

Resolving(p) ==
  pc[p] \in {"resolve", "workspace"} =>
     /\ job[p] \in Jobs /\ job[p].op \in ByTenant
     /\ tenantID[p] = NoValue /\ wrote[p] = {}
     /\ pc[p] = "workspace" => job[p].tref \in ClerkOrgs

Executing(p) ==
  pc[p] = "exec" =>
     /\ job[p] \in Jobs /\ job[p].op \notin Updates \cup {"Malformed"}
     /\ wrote[p] \subseteq {tenantID[p]}
     /\ job[p].op \in ByTenant => tenantID[p] \in TenantIDs /\ Rejection(job[p]) = 0
     /\ job[p].op \notin ByTenant => tenantID[p] = NoValue

RowRead(p) ==
  /\ job[p].op = "UpdateTenant" => row[p] \in TenantRow
  /\ job[p].op = "UpdateOrigin" => row[p] \in OriginRow
  /\ job[p].op = "UpdateRoute" => row[p] \in RouteRow

Updating(p) ==
  pc[p] \in {"read", "write"} =>
     /\ job[p] \in Jobs /\ job[p].op \in Updates /\ wrote[p] = {}
     /\ pc[p] = "write" => RowRead(p)

AnswerTells(p) ==
  /\ status[p] = 201 => wrote[p] \ {tenantID[p]} # {}
  /\ status[p] \in {400, 500} /\ ~fault[p] => wrote[p] \subseteq {tenantID[p]}

\* What a request that has come so far relies on.
Progress(p) == Resolving(p) /\ Executing(p) /\ Updating(p) /\ AnswerTells(p)

\* The tenant that a request works for is the one it asked for, or is gone.
WorksFor(p) ==
  job[p].op \in ByTenant /\ tenantID[p] \in TenantIDs =>
     \/ job[p].tref \in TenantIDs /\ tenantID[p] = job[p].tref
     \/ /\ job[p].tref \in ClerkOrgs /\ tenants[tenantID[p]] # Unused
        /\ tenantID[p] \in Live(tenants) => tenants[tenantID[p]].clerkOrg = job[p].tref

CPInv == /\ StoreTypeOK /\ UniqueColumns /\ Locals
         /\ \A p \in Slots : Progress(p) /\ WorksFor(p)

\* The locals of all requests but the one of p stay.
OnlySlot(p) ==
  \A q \in Slots \ {p} :
     /\ pc'[q] = pc[q] /\ job'[q] = job[q] /\ tenantID'[q] = tenantID[q] /\ row'[q] = row[q]
     /\ status'[q] = status[q] /\ fault'[q] = fault[q] /\ wrote'[q] = wrote[q]

-----------------------------------------------------------------------------
(* Steps of one slot.                                                        *)

LEMMA WorkStays ==
  ASSUME CPInv, [StoreNext]_storeVars, NEW q \in Slots,
         job'[q] = job[q], tenantID'[q] = tenantID[q]
  PROVE  WorksFor(q)'
<1> SUFFICES ASSUME job[q].op \in ByTenant, tenantID[q] \in TenantIDs
             PROVE  WorksFor(q)'
  BY DEF WorksFor
<1> DEFINE t == tenantID[q]
<1>1. WorksFor(q) /\ StoreTypeOK
  BY DEF CPInv
<1>2. CASE job[q].tref \in TenantIDs /\ t = job[q].tref
  BY <1>2 DEF WorksFor
<1>3. CASE /\ job[q].tref \in ClerkOrgs /\ tenants[t] # Unused
           /\ t \in Live(tenants) => tenants[t].clerkOrg = job[q].tref
  <2>1. RowLifecycleStep /\ StoreTypeOK'
    BY <1>1, StoreStepLifecycle, StoreStepType
  <2>2. DOMAIN tenants = TenantIDs /\ DOMAIN tenants' = TenantIDs
    BY <1>1, <2>1 DEF StoreTypeOK, Table
  <2>3. tenants'[t] # Unused /\ (tenants[t] = Deleted => tenants'[t] = Deleted)
    BY <1>3, <2>1, <2>2 DEF RowLifecycleStep, Ages
  <2>4. ASSUME t \in Live(tenants')
        PROVE  tenants'[t].clerkOrg = job[q].tref
    <3>1. t \in Live(tenants)
      BY <1>3, <2>2, <2>3, <2>4 DEF Live
    <3> QED BY <1>3, <2>1, <2>4, <3>1 DEF RowLifecycleStep
  <2> QED BY <1>3, <2>3, <2>4 DEF WorksFor, Live
<1> QED BY <1>1, <1>2, <1>3 DEF WorksFor

LEMMA SlotStep ==
  ASSUME CPInv, [StoreNext]_storeVars, NEW p \in Slots, OnlySlot(p),
         Locals', Progress(p)', WorksFor(p)'
  PROVE  CPInv'
<1>1. StoreTypeOK' /\ UniqueColumns'
  BY StoreStepType, StoreStepUniqueColumns DEF CPInv
<1>2. ASSUME NEW q \in Slots \ {p} PROVE Progress(q)' /\ WorksFor(q)'
  <2>1. /\ pc'[q] = pc[q] /\ job'[q] = job[q] /\ tenantID'[q] = tenantID[q] /\ row'[q] = row[q]
        /\ status'[q] = status[q] /\ fault'[q] = fault[q] /\ wrote'[q] = wrote[q]
    BY DEF OnlySlot
  <2>2. Progress(q)
    BY DEF CPInv
  <2>3. Resolving(q)' /\ Executing(q)'
    BY <2>1, <2>2 DEF Progress, Resolving, Executing, Rejection
  <2>4. Updating(q)' /\ AnswerTells(q)'
    BY <2>1, <2>2 DEF Progress, Updating, RowRead, AnswerTells
  <2>5. WorksFor(q)'
    BY <2>1, WorkStays
  <2> QED BY <2>3, <2>4, <2>5 DEF Progress
<1> QED BY <1>1, <1>2 DEF CPInv

\* p's locals after a step.
Move(p, l, s, t, r, f, w) ==
  /\ pc' = [pc EXCEPT ![p] = l] /\ status' = [status EXCEPT ![p] = s]
  /\ job' = job /\ tenantID' = [tenantID EXCEPT ![p] = t]
  /\ row' = [row EXCEPT ![p] = r] /\ fault' = [fault EXCEPT ![p] = f]
  /\ wrote' = [wrote EXCEPT ![p] = w]

LEMMA Still ==
  ASSUME Locals, NEW p \in Slots
  PROVE  /\ status = [status EXCEPT ![p] = status[p]]
         /\ tenantID = [tenantID EXCEPT ![p] = tenantID[p]]
         /\ row = [row EXCEPT ![p] = row[p]]
         /\ fault = [fault EXCEPT ![p] = fault[p]]
         /\ wrote = [wrote EXCEPT ![p] = wrote[p]]
BY DEF Locals, CPTypeOK

LEMMA MoveLocals ==
  ASSUME Locals, NEW p \in Slots, NEW l \in Labels, NEW s \in Codes, l = "done" <=> s # 0,
         NEW t \in TenantIDs \cup {NoValue}, NEW r, NEW f \in BOOLEAN, NEW w \in SUBSET RowIDs,
         Move(p, l, s, t, r, f, w)
  PROVE  /\ Locals' /\ OnlySlot(p)
         /\ pc'[p] = l /\ status'[p] = s /\ job'[p] = job[p] /\ tenantID'[p] = t
         /\ row'[p] = r /\ fault'[p] = f /\ wrote'[p] = w
<1>1. /\ pc' \in [Slots -> Labels] /\ status' \in [Slots -> Codes]
      /\ job' \in [Slots -> Jobs \cup {Malformed}]
      /\ tenantID' \in [Slots -> TenantIDs \cup {NoValue}]
      /\ fault' \in [Slots -> BOOLEAN] /\ wrote' \in [Slots -> SUBSET RowIDs]
  BY DEF Move, Locals, CPTypeOK, Labels, Codes, RowIDs
<1>2. row' = [q \in Slots |-> row'[q]] /\ row'[p] = r
  BY DEF Move, Locals
<1>3. /\ pc'[p] = l /\ status'[p] = s /\ job'[p] = job[p] /\ tenantID'[p] = t
      /\ fault'[p] = f /\ wrote'[p] = w
  BY DEF Move, Locals, CPTypeOK
<1>4. OnlySlot(p)
  BY DEF Move, Locals, CPTypeOK, OnlySlot
<1>5. \A q \in Slots : pc'[q] = "done" <=> status'[q] # 0
  BY <1>3, <1>4 DEF Locals, CPTypeOK, OnlySlot
<1>6. CPTypeOK'
  BY <1>1, <1>5 DEF CPTypeOK, Labels, Codes, RowIDs
<1> QED BY <1>2, <1>3, <1>4, <1>6 DEF Locals

\* A step that answers and leaves the tenant of the request alone.
LEMMA AnswerStep ==
  ASSUME CPInv, [StoreNext]_storeVars, NEW p \in Slots, NEW s \in Codes \ {0}, NEW r,
         NEW f \in BOOLEAN, NEW w \in SUBSET RowIDs,
         Move(p, "done", s, tenantID[p], r, f, w),
         s = 201 => w \ {tenantID[p]} # {},
         s \in {400, 500} /\ ~f => w \subseteq {tenantID[p]}
  PROVE  CPInv'
<1>1. tenantID[p] \in TenantIDs \cup {NoValue}
  BY DEF CPInv, Locals, CPTypeOK
<1>2. Locals
  BY DEF CPInv
<1>3. /\ Locals' /\ OnlySlot(p)
      /\ pc'[p] = "done" /\ status'[p] = s /\ job'[p] = job[p] /\ tenantID'[p] = tenantID[p]
      /\ row'[p] = r /\ fault'[p] = f /\ wrote'[p] = w
  BY <1>1, <1>2, MoveLocals DEF Labels
<1>4. Progress(p)'
  BY <1>3 DEF Progress, Resolving, Executing, Updating, AnswerTells
<1>5. WorksFor(p)'
  BY <1>3, WorkStays
<1> QED BY <1>3, <1>4, <1>5, SlotStep

\* A request that has come to a statement has no answer yet, and has written
\* nothing but its workspace.
LEMMA Unanswered ==
  ASSUME CPInv, NEW p \in Slots, pc[p] \in {"resolve", "workspace", "exec", "read", "write"}
  PROVE  /\ status[p] = 0 /\ wrote[p] \subseteq {tenantID[p]} /\ job[p] \in Jobs
         /\ wrote[p] \in SUBSET RowIDs /\ tenantID[p] \in TenantIDs \cup {NoValue}
         /\ fault[p] \in BOOLEAN
<1>1. Progress(p)
  BY DEF CPInv
<1>2. wrote[p] \subseteq {tenantID[p]} /\ job[p] \in Jobs
  BY <1>1 DEF Progress, Resolving, Executing, Updating
<1> QED BY <1>2 DEF CPInv, Locals, CPTypeOK, RowIDs

LEMMA RefusedStep ==
  ASSUME CPInv, NEW p \in Slots, Refused(p),
         pc[p] \in {"resolve", "workspace", "exec", "read", "write"}
  PROVE  CPInv' /\ UNCHANGED storeVars
<1>1. Locals
  BY DEF CPInv
<1>2. Move(p, "done", 500, tenantID[p], row[p], fault[p], wrote[p])
  BY <1>1, Still DEF Refused, Answer, Goto, Move
<1>3. UNCHANGED storeVars
  BY DEF Refused
<1> QED BY <1>2, <1>3, Unanswered, AnswerStep DEF Codes

\* No model but the one of p changes.
RowOnly(p) == \E r : row' = [row EXCEPT ![p] = r]

LEMMA CommittedStep ==
  ASSUME CPInv, [StoreNext]_storeVars, NEW p \in Slots, NEW ids \in SUBSET RowIDs,
         NEW code \in {200, 201, 204}, Committed(p, ids, code),
         RowOnly(p), pc[p] \in {"exec", "write"},
         code = 201 => ids \ {tenantID[p]} # {}
  PROVE  CPInv'
<1>1. Locals
  BY DEF CPInv
<1>2. PICK r : row' = [row EXCEPT ![p] = r]
  BY DEF RowOnly
<1> DEFINE w == wrote[p] \cup ids
<1>3. wrote' = [wrote EXCEPT ![p] = w] /\ w \in SUBSET RowIDs
  BY Unanswered DEF Committed, Wrote
<1>4. PICK g \in BOOLEAN : g = fault[p]
  BY Unanswered
<1>5. PICK f \in BOOLEAN : f = TRUE
  OBVIOUS
<1>6. CASE Answer(p, code) /\ UNCHANGED fault
  <2>1. Move(p, "done", code, tenantID[p], r, g, w)
    BY <1>1, <1>2, <1>3, <1>4, <1>6, Still DEF Committed, Answer, Goto, Move
  <2>2. code = 201 => w \ {tenantID[p]} # {}
    OBVIOUS
  <2>3. code \in Codes \ {0} /\ code \notin {400, 500}
    BY DEF Codes
  <2>4. w \in SUBSET RowIDs
    BY <1>3
  <2> HIDE DEF w
  <2> QED BY <2>1, <2>2, <2>3, <2>4, AnswerStep
<1>7. CASE Answer(p, 500) /\ fault' = [fault EXCEPT ![p] = TRUE]
  <2>1. Move(p, "done", 500, tenantID[p], r, f, w)
    BY <1>1, <1>2, <1>3, <1>5, <1>7, Still DEF Committed, Answer, Goto, Move
  <2>2. 500 \in Codes \ {0} /\ 500 # 201
    BY DEF Codes
  <2>3. ~f => w \subseteq {tenantID[p]}
    BY <1>5
  <2> HIDE DEF w
  <2> QED BY <1>3, <2>1, <2>2, <2>3, AnswerStep
<1> QED BY <1>6, <1>7 DEF Committed

LEMMA FailureStep ==
  ASSUME CPInv, NEW p \in Slots, StatementFails(p)
  PROVE  CPInv' /\ UNCHANGED storeVars
<1>1. Locals
  BY DEF CPInv
<1>7. PICK f \in BOOLEAN : f = TRUE
  OBVIOUS
<1>2. Move(p, "done", 500, tenantID[p], row[p], f, wrote[p])
  BY <1>1, <1>7, Still DEF StatementFails, Answer, Goto, Move
<1>3. UNCHANGED storeVars
  BY DEF StatementFails
<1>4. pc[p] \in {"exec", "read", "write"}
  BY DEF StatementFails
<1>5. wrote[p] \in SUBSET RowIDs
  BY <1>4, Unanswered
<1>6. 500 \in Codes \ {0} /\ 500 # 201
  BY DEF Codes
<1>8. ~f => wrote[p] \subseteq {tenantID[p]}
  BY <1>7
<1> QED BY <1>2, <1>3, <1>5, <1>6, <1>8, AnswerStep

LEMMA ListStep ==
  ASSUME CPInv, NEW p \in Slots, List(p)
  PROVE  CPInv' /\ UNCHANGED storeVars
<1>1. Locals
  BY DEF CPInv
<1>2. Move(p, "done", 200, tenantID[p], row[p], fault[p], wrote[p])
  BY <1>1, Still DEF List, Answer, Goto, Move
<1>3. UNCHANGED storeVars
  BY DEF List
<1>4. pc[p] = "exec"
  BY DEF List
<1>5. wrote[p] \in SUBSET RowIDs /\ fault[p] \in BOOLEAN
  BY <1>4, Unanswered
<1>6. 200 \in Codes \ {0} /\ 200 \notin {201, 400, 500}
  BY DEF Codes
<1> QED BY <1>2, <1>3, <1>5, <1>6, AnswerStep

-----------------------------------------------------------------------------
(* Accepting a request, and resolveTenantID.                                 *)

LEMMA AcceptStep ==
  ASSUME CPInv, NEW p \in Slots, Accept(p)
  PROVE  CPInv' /\ UNCHANGED storeVars
<1>1. Locals
  BY DEF CPInv
<1>2. PICK j \in Jobs :
         /\ job' = [job EXCEPT ![p] = j]
         /\ pc' = [pc EXCEPT ![p] = CASE j.op = "Malformed" -> "done"
                                      [] j.op \in ByTenant -> "resolve"
                                      [] j.op \in Updates -> "read"
                                      [] OTHER -> "exec"]
         /\ status' = [status EXCEPT ![p] = IF j.op = "Malformed" THEN 400 ELSE 0]
  BY DEF Accept
<1>3. /\ tenantID' = [tenantID EXCEPT ![p] = NoValue] /\ row' = [row EXCEPT ![p] = NoValue]
      /\ fault' = [fault EXCEPT ![p] = FALSE] /\ wrote' = [wrote EXCEPT ![p] = {}]
      /\ UNCHANGED storeVars
  BY DEF Accept
<1>4. PICK l \in Labels, c \in Codes :
         /\ pc' = [pc EXCEPT ![p] = l] /\ status' = [status EXCEPT ![p] = c]
         /\ l = "done" <=> c # 0
         /\ \/ l = "done" /\ c = 400
            \/ l = "resolve" /\ j.op \in ByTenant
            \/ l = "read" /\ j.op \in Updates
            \/ l = "exec" /\ j.op \notin ByTenant \cup Updates \cup {"Malformed"}
  <2>1. CASE j.op = "Malformed"
    <3>1. /\ j.op \notin ByTenant /\ j.op \notin Updates
          /\ pc' = [pc EXCEPT ![p] = "done"] /\ status' = [status EXCEPT ![p] = 400]
      BY <1>2, <2>1 DEF ByTenant, Creates, Lists, Updates
    <3>2. "done" \in Labels /\ 400 \in Codes /\ 400 # 0
      BY DEF Labels, Codes
    <3> QED BY <3>1, <3>2
  <2>2. CASE j.op \in ByTenant
    <3>1. j.op # "Malformed" /\ j.op \notin Updates
      BY <2>2 DEF ByTenant, Creates, Lists, Updates
    <3>2. pc' = [pc EXCEPT ![p] = "resolve"] /\ status' = [status EXCEPT ![p] = 0]
      BY <1>2, <2>2, <3>1
    <3>3. "resolve" \in Labels /\ 0 \in Codes /\ "resolve" # "done"
      BY DEF Labels, Codes
    <3> QED BY <2>2, <3>2, <3>3
  <2>3. CASE j.op \in Updates
    <3>1. j.op # "Malformed" /\ j.op \notin ByTenant
      BY <2>3 DEF ByTenant, Creates, Lists, Updates
    <3>2. pc' = [pc EXCEPT ![p] = "read"] /\ status' = [status EXCEPT ![p] = 0]
      BY <1>2, <2>3, <3>1
    <3>3. "read" \in Labels /\ 0 \in Codes /\ "read" # "done"
      BY DEF Labels, Codes
    <3> QED BY <2>3, <3>2, <3>3
  <2>4. CASE j.op \notin ByTenant \cup Updates \cup {"Malformed"}
    <3>1. pc' = [pc EXCEPT ![p] = "exec"] /\ status' = [status EXCEPT ![p] = 0]
      BY <1>2, <2>4
    <3>2. "exec" \in Labels /\ 0 \in Codes /\ "exec" # "done"
      BY DEF Labels, Codes
    <3> QED BY <2>4, <3>1, <3>2
  <2> QED BY <2>1, <2>2, <2>3, <2>4
<1>5. /\ pc'[p] = l /\ status'[p] = c /\ job'[p] = j /\ tenantID'[p] = NoValue
      /\ fault'[p] = FALSE /\ wrote'[p] = {}
  BY <1>1, <1>2, <1>3, <1>4 DEF Locals, CPTypeOK
<1>6. OnlySlot(p)
  BY <1>1, <1>2, <1>3, <1>4 DEF Locals, CPTypeOK, OnlySlot
<1>7. Locals'
  <2>1. /\ pc' \in [Slots -> Labels] /\ status' \in [Slots -> Codes]
        /\ job' \in [Slots -> Jobs \cup {Malformed}]
        /\ tenantID' \in [Slots -> TenantIDs \cup {NoValue}]
        /\ fault' \in [Slots -> BOOLEAN] /\ wrote' \in [Slots -> SUBSET RowIDs]
    BY <1>1, <1>2, <1>3, <1>4 DEF Locals, CPTypeOK, Labels, Codes, RowIDs
  <2>2. row' = [q \in Slots |-> row'[q]]
    BY <1>1, <1>3 DEF Locals
  <2>3. \A q \in Slots : pc'[q] = "done" <=> status'[q] # 0
    BY <1>1, <1>4, <1>5, <1>6 DEF Locals, CPTypeOK, OnlySlot
  <2> QED BY <2>1, <2>2, <2>3 DEF Locals, CPTypeOK, Labels, Codes, RowIDs
<1>8. Progress(p)'
  <2>1. Resolving(p)' /\ Executing(p)' /\ Updating(p)'
    BY <1>4, <1>5 DEF Resolving, Executing, Updating
  <2>2. AnswerTells(p)'
    BY <1>4, <1>5 DEF AnswerTells
  <2> QED BY <2>1, <2>2 DEF Progress
<1>9. WorksFor(p)'
  BY <1>5, ClerkIDsAreNotUUIDs DEF WorksFor
<1> QED BY <1>3, <1>6, <1>7, <1>8, <1>9, SlotStep

LEMMA RejectionCode == ASSUME NEW j PROVE Rejection(j) \in {0, 400, 500}
BY DEF Rejection

\* resolveTenantID returns the tenant t.
LEMMA ResolvedStep ==
  ASSUME CPInv, [StoreNext]_storeVars, NEW p \in Slots, pc[p] \in {"resolve", "workspace"},
         NEW t \in TenantIDs, NEW w \in SUBSET {t}, Resolved(p, t),
         UNCHANGED <<job, row, fault>>, wrote' = [wrote EXCEPT ![p] = w],
         \/ job[p].tref \in TenantIDs /\ t = job[p].tref
         \/ job[p].tref \in ClerkOrgs /\ t \in Live(tenants') /\ tenants'[t].clerkOrg = job[p].tref
  PROVE  CPInv'
<1>1. Locals /\ Resolving(p)
  BY DEF CPInv, Progress
<1>2. job[p] \in Jobs /\ job[p].op \in ByTenant /\ status[p] = 0 /\ fault[p] \in BOOLEAN
  BY <1>1, Unanswered DEF Resolving
<1>3. PICK l \in Labels, c \in Codes :
         /\ l = "done" <=> c # 0
         /\ Move(p, l, c, t, row[p], fault[p], w)
         /\ \/ l = "exec" /\ Rejection(job[p]) = 0
            \/ l = "done" /\ c \in {400, 500}
  <2>1. CASE Rejection(job[p]) = 0
    <3>1. Move(p, "exec", 0, t, row[p], fault[p], w)
      BY <1>1, <1>2, <2>1, Still DEF Resolved, Goto, Move
    <3> QED BY <2>1, <3>1 DEF Labels, Codes
  <2>2. CASE Rejection(job[p]) # 0
    <3>1. Rejection(job[p]) \in {400, 500}
      BY <2>2, RejectionCode
    <3>2. Move(p, "done", Rejection(job[p]), t, row[p], fault[p], w)
      BY <1>1, <2>2, Still DEF Resolved, Answer, Goto, Move
    <3> QED BY <3>1, <3>2 DEF Labels, Codes
  <2> QED BY <2>1, <2>2
<1>4. w \in SUBSET RowIDs
  BY DEF RowIDs
<1>5. /\ Locals' /\ OnlySlot(p)
      /\ pc'[p] = l /\ status'[p] = c /\ job'[p] = job[p] /\ tenantID'[p] = t /\ wrote'[p] = w
  BY <1>1, <1>2, <1>3, <1>4, MoveLocals
<1>6. job[p].op \notin Updates \cup {"Malformed"}
  BY <1>2 DEF ByTenant, Creates, Lists, Updates
<1>7. Resolving(p)' /\ Executing(p)' /\ Updating(p)'
  BY <1>2, <1>3, <1>5, <1>6 DEF Resolving, Executing, Updating, Rejection
<1>8. AnswerTells(p)'
  BY <1>3, <1>5 DEF AnswerTells
<1>9. WorksFor(p)'
  BY <1>5 DEF WorksFor, Live
<1> QED BY <1>5, <1>7, <1>8, <1>9, SlotStep DEF Progress

LEMMA UnresolvedStep ==
  ASSUME CPInv, [StoreNext]_storeVars, NEW p \in Slots, pc[p] \in {"resolve", "workspace"},
         NEW f \in BOOLEAN, NEW w \in SUBSET RowIDs, Unresolved(p), UNCHANGED <<job, row>>,
         fault' = [fault EXCEPT ![p] = f], wrote' = [wrote EXCEPT ![p] = w],
         ~f => w \subseteq {tenantID[p]}
  PROVE  CPInv'
<1>1. Locals
  BY DEF CPInv
<1>2. PICK c \in {200, 500} : Answer(p, c) /\ UNCHANGED tenantID
  BY DEF Unresolved
<1>3. Move(p, "done", c, tenantID[p], row[p], f, w)
  BY <1>1, <1>2, Still DEF Answer, Goto, Move
<1>4. c \in Codes \ {0} /\ c # 201
  BY DEF Codes
<1> QED BY <1>3, <1>4, AnswerStep

LEMMA ToWorkspace ==
  ASSUME CPInv, NEW p \in Slots, pc[p] = "resolve", job[p].tref \in ClerkOrgs,
         Goto(p, "workspace"), NEW f \in BOOLEAN, fault' = [fault EXCEPT ![p] = f],
         UNCHANGED <<storeVars, job, tenantID, row, status, wrote>>
  PROVE  CPInv'
<1>1. Locals /\ Resolving(p)
  BY DEF CPInv, Progress
<1>2. /\ status[p] = 0 /\ wrote[p] \in SUBSET RowIDs /\ tenantID[p] \in TenantIDs \cup {NoValue}
  BY Unanswered
<1>3. Move(p, "workspace", 0, tenantID[p], row[p], f, wrote[p])
  BY <1>1, <1>2, Still DEF Goto, Move
<1>4. /\ Locals' /\ OnlySlot(p)
      /\ pc'[p] = "workspace" /\ status'[p] = 0 /\ job'[p] = job[p]
      /\ tenantID'[p] = tenantID[p] /\ wrote'[p] = wrote[p]
  BY <1>1, <1>2, <1>3, MoveLocals DEF Labels, Codes
<1>5. Progress(p)'
  BY <1>1, <1>4 DEF Progress, Resolving, Executing, Updating, AnswerTells
<1>6. WorksFor(p)'
  BY <1>4, WorkStays
<1> QED BY <1>4, <1>5, <1>6, SlotStep

LEMMA ResolveStep ==
  ASSUME CPInv, NEW p \in Slots, Resolve(p)
  PROVE  CPInv' /\ UNCHANGED storeVars
<1>1. Locals /\ Resolving(p) /\ wrote[p] = {} /\ fault[p] \in BOOLEAN
  BY Unanswered DEF CPInv, Progress, Resolve, Resolving
<1>2. wrote' = [wrote EXCEPT ![p] = {}] /\ UNCHANGED <<storeVars, job, row, fault, wrote>>
  BY <1>1, Still DEF Resolve
<1> DEFINE tref == job[p].tref
<1>3. ASSUME NEW t \in TenantIDs, Resolved(p, t),
             \/ tref \in TenantIDs /\ t = tref
             \/ tref \in ClerkOrgs /\ t \in Live(tenants') /\ tenants'[t].clerkOrg = tref
      PROVE  CPInv'
  BY <1>2, <1>3, ResolvedStep DEF Resolve
<1>4. CASE tref \in TenantIDs /\ Resolved(p, tref)
  BY <1>2, <1>3, <1>4
<1>5. CASE \E t \in ByClerkOrg(tref) : Resolved(p, t)
  <2>1. PICK t \in ByClerkOrg(tref) : Resolved(p, t)
    BY <1>5
  <2>2. t \in Live(tenants) /\ tenants[t].clerkOrg = tref
    BY <2>1 DEF ByClerkOrg
  <2>3. t \in TenantIDs
    BY <2>2 DEF Live, CPInv, StoreTypeOK, Table
  <2>4. job[p] \in Jobs /\ job[p].op \in ByTenant
    BY <1>1 DEF Resolve, Resolving
  <2>5. tref \in TenantIDs \cup ClerkOrgs
    BY <2>4, TenantReferences
  <2>6. tenants[t] \in TenantRow
    BY <2>2, LiveRow DEF CPInv, StoreTypeOK
  <2>7. tref \in ClerkOrgs
    BY <2>2, <2>5, <2>6, ClerkIDsAreNotUUIDs DEF TenantRow
  <2> QED BY <1>2, <1>3, <2>1, <2>2, <2>3, <2>7 DEF storeVars
<1>6. CASE /\ tref \in ClerkOrgs /\ Goto(p, "workspace") /\ UNCHANGED <<tenantID, status>>
  <2>1. fault' = [fault EXCEPT ![p] = fault[p]]
    BY <1>1, <1>2, Still
  <2> QED BY <1>1, <1>2, <1>6, <2>1, ToWorkspace DEF Resolve
<1> QED BY <1>2, <1>4, <1>5, <1>6 DEF Resolve

LEMMA LookupFailsStep ==
  ASSUME CPInv, NEW p \in Slots, LookupFails(p)
  PROVE  CPInv' /\ UNCHANGED storeVars
<1>1. PICK f \in BOOLEAN : f = TRUE
  OBVIOUS
<1>2. fault' = [fault EXCEPT ![p] = f]
  BY <1>1 DEF LookupFails
<1>3. /\ pc[p] = "resolve" /\ job[p].tref \in ClerkOrgs /\ Goto(p, "workspace")
      /\ UNCHANGED <<storeVars, job, tenantID, row, status, wrote>>
  BY DEF LookupFails
<1>4. CPInv'
  BY <1>2, <1>3, ToWorkspace
<1>5. UNCHANGED storeVars
  BY DEF LookupFails
<1> QED BY <1>4, <1>5

LEMMA CreateWorkspaceStep ==
  ASSUME CPInv, NEW p \in Slots, CreateWorkspace(p)
  PROVE  CPInv' /\ [StoreNext]_storeVars
<1> DEFINE tref == job[p].tref
           subdomain == SubdomainOf[tref]
<1>1. Locals /\ Resolving(p) /\ pc[p] = "workspace" /\ wrote[p] = {} /\ fault[p] \in BOOLEAN
  BY Unanswered DEF CPInv, Progress, CreateWorkspace, Resolving
<1>2. tref \in ClerkOrgs /\ subdomain \in Subdomains /\ UNCHANGED <<job, row>>
  BY <1>1, SubdomainsOfClerkIDs DEF Resolving, CreateWorkspace
<1>3. PICK f \in BOOLEAN : f = TRUE
  OBVIOUS
<1>4. ASSUME NEW id \in TenantIDs, InsertTenant(id, WorkspaceName, subdomain, tref), Wrote(p, {id}),
             \/ Resolved(p, id) /\ UNCHANGED fault
             \/ Unresolved(p) /\ fault' = [fault EXCEPT ![p] = TRUE]
      PROVE  CPInv' /\ StoreNext
  <2>1. StoreNext
    BY <1>2, <1>4, WorkspacesHaveAName DEF StoreNext, TenantStatement
  <2>2. wrote' = [wrote EXCEPT ![p] = {id}]
    BY <1>1, <1>4 DEF Wrote
  <2>3. CASE Resolved(p, id) /\ UNCHANGED fault
    <3>1. tenants'[id] = [name |-> WorkspaceName, subdomain |-> subdomain,
                          clerkOrg |-> tref, status |-> "active"]
      BY <1>4 DEF InsertTenant, CPInv, StoreTypeOK, Table
    <3>2. tenants'[id] \in TenantRow
      BY <1>2, <3>1, WorkspacesHaveAName, NewTenantsAreActive DEF TenantRow
    <3>3. id \in Live(tenants') /\ tenants'[id].clerkOrg = tref
      BY <1>4, <3>1, <3>2, TombstonesAreNotRows DEF InsertTenant, CPInv, StoreTypeOK, Table, Live
    <3> QED BY <1>1, <1>2, <2>1, <2>2, <2>3, <3>3, ResolvedStep
  <2>4. CASE Unresolved(p) /\ fault' = [fault EXCEPT ![p] = TRUE]
    <3>1. fault' = [fault EXCEPT ![p] = f] /\ {id} \in SUBSET RowIDs /\ (~f => {id} \subseteq {tenantID[p]})
      BY <1>3, <2>4 DEF RowIDs
    <3> QED BY <1>1, <1>2, <2>1, <2>2, <2>4, <3>1, UnresolvedStep
  <2> QED BY <1>4, <2>1, <2>3, <2>4
<1>5. ASSUME Unresolved(p), UNCHANGED <<storeVars, wrote>>,
             UNCHANGED fault \/ fault' = [fault EXCEPT ![p] = TRUE]
      PROVE  CPInv'
  <2>1. wrote' = [wrote EXCEPT ![p] = {}]
    BY <1>1, <1>5, Still
  <2>2. PICK g \in BOOLEAN : fault' = [fault EXCEPT ![p] = g]
    BY <1>1, <1>3, <1>5, Still
  <2> QED BY <1>1, <1>2, <1>5, <2>1, <2>2, UnresolvedStep
<1> QED BY <1>4, <1>5 DEF CreateWorkspace

-----------------------------------------------------------------------------
(* The statements.                                                           *)

\* What a handler holds when it comes to its INSERT, DELETE or list.
LEMMA AtExec ==
  ASSUME CPInv, NEW p \in Slots, pc[p] = "exec"
  PROVE  /\ job[p] \in Jobs /\ Rejection(job[p]) \in {0, 400, 500}
         /\ job[p].op \in ByTenant => tenantID[p] \in TenantIDs /\ Rejection(job[p]) = 0
         /\ job[p].op \notin ByTenant => tenantID[p] = NoValue
BY RejectionCode DEF CPInv, Progress, Executing

LEMMA RowUnchanged ==
  ASSUME Locals, NEW p \in Slots, UNCHANGED row
  PROVE  RowOnly(p)
BY Still DEF RowOnly

LEMMA CreateTenantStep ==
  ASSUME CPInv, NEW p \in Slots, CreateTenant(p)
  PROVE  CPInv' /\ [StoreNext]_storeVars
<1> DEFINE j == job[p]
<1>1. pc[p] = "exec" /\ j.op = "CreateTenant"
  BY DEF CreateTenant, At
<1>2. /\ j \in Jobs /\ tenantID[p] = NoValue
      /\ j.name \in Names /\ j.subdomain \in Subdomains /\ j.clerkOrg \in ClerkOrgs \cup {NoValue}
  BY <1>1, AtExec, JobFields DEF ByTenant, Creates, Lists
<1>3. ASSUME NEW id \in TenantIDs, InsertTenant(id, j.name, j.subdomain, j.clerkOrg),
             Committed(p, {id}, 201), UNCHANGED row
      PROVE  CPInv' /\ [StoreNext]_storeVars
  <2>1. StoreNext
    BY <1>2, <1>3 DEF StoreNext, TenantStatement
  <2>2. {id} \in SUBSET RowIDs /\ {id} \ {tenantID[p]} # {}
    BY <1>2, ClerkIDsAreNotUUIDs DEF RowIDs
  <2>3. RowOnly(p)
    BY <1>3, RowUnchanged DEF CPInv
  <2>4. CPInv'
    BY <1>1, <1>3, <2>1, <2>2, <2>3, CommittedStep
  <2> QED BY <2>1, <2>4
<1>4. CASE Refused(p)
  BY <1>1, <1>4, RefusedStep
<1> QED BY <1>3, <1>4 DEF CreateTenant

LEMMA CreateAPIKeyStep ==
  ASSUME CPInv, NEW p \in Slots, CreateAPIKey(p)
  PROVE  CPInv' /\ [StoreNext]_storeVars
<1> DEFINE new == [tenant |-> tenantID[p], expiresAt |-> NoValue]
<1>1. pc[p] = "exec" /\ job[p].op = "CreateAPIKey"
  BY DEF CreateAPIKey, At
<1>2. tenantID[p] \in TenantIDs
  BY <1>1, AtExec DEF ByTenant, Creates
<1>3. ASSUME NEW id \in KeyIDs, InsertKey(id, new), Committed(p, {id}, 201),
             row' = [row EXCEPT ![p] = new]
      PROVE  CPInv' /\ [StoreNext]_storeVars
  <2>1. new \in KeyRow
    BY <1>2 DEF KeyRow
  <2>2. StoreNext
    BY <1>3, <2>1 DEF StoreNext, KeyStatement
  <2>3. {id} \in SUBSET RowIDs /\ {id} \ {tenantID[p]} # {}
    BY <1>2, IDsOfTablesDiffer DEF RowIDs
  <2>4. RowOnly(p)
    BY <1>3 DEF RowOnly
  <2>5. CPInv'
    BY <1>1, <1>3, <2>2, <2>3, <2>4, CommittedStep
  <2> QED BY <2>2, <2>5
<1>4. CASE Refused(p)
  BY <1>1, <1>4, RefusedStep
<1> QED BY <1>3, <1>4 DEF CreateAPIKey

LEMMA CreateOriginStep ==
  ASSUME CPInv, NEW p \in Slots, CreateOrigin(p)
  PROVE  CPInv' /\ [StoreNext]_storeVars
<1> DEFINE new == [tenant |-> tenantID[p], name |-> job[p].name, url |-> job[p].url]
<1>1. pc[p] = "exec" /\ job[p].op = "CreateOrigin"
  BY DEF CreateOrigin, At
<1>2. job[p] \in Jobs /\ tenantID[p] \in TenantIDs /\ Rejection(job[p]) = 0
  BY <1>1, AtExec DEF ByTenant, Creates
<1>3. job[p].name \in Names /\ job[p].url \in URLs
  <2>1. ~(job[p].name \in {NoValue, EmptyName} \/ job[p].url = NoValue)
    BY <1>1, <1>2 DEF Rejection
  <2> QED BY <1>1, <1>2, <2>1, JobFields
<1>4. ASSUME NEW id \in OriginIDs, InsertOrigin(id, new), Committed(p, {id}, 201),
             row' = [row EXCEPT ![p] = new]
      PROVE  CPInv' /\ [StoreNext]_storeVars
  <2>1. new \in OriginRow
    BY <1>2, <1>3 DEF OriginRow
  <2>2. StoreNext
    BY <1>4, <2>1 DEF StoreNext, OriginStatement
  <2>3. {id} \in SUBSET RowIDs /\ {id} \ {tenantID[p]} # {}
    BY <1>2, IDsOfTablesDiffer DEF RowIDs
  <2>4. RowOnly(p)
    BY <1>4 DEF RowOnly
  <2>5. CPInv'
    BY <1>1, <1>4, <2>2, <2>3, <2>4, CommittedStep
  <2> QED BY <2>2, <2>5
<1>5. CASE Refused(p)
  BY <1>1, <1>5, RefusedStep
<1> QED BY <1>4, <1>5 DEF CreateOrigin

LEMMA CreateRouteStep ==
  ASSUME CPInv, NEW p \in Slots, CreateRoute(p)
  PROVE  CPInv' /\ [StoreNext]_storeVars
<1> DEFINE new == NewRoute(tenantID[p], job[p])
<1>1. pc[p] = "exec" /\ job[p].op = "CreateRoute"
  BY DEF CreateRoute, At
<1>2. job[p] \in Jobs /\ tenantID[p] \in TenantIDs /\ Rejection(job[p]) = 0
  BY <1>1, AtExec DEF ByTenant, Creates
<1>3. job[p].origin \in OriginIDs /\ job[p].pattern \in Patterns /\ RouteFields(job[p])
  <2>1. ~(job[p].origin = NoValue \/ job[p].pattern = NoValue)
    BY <1>1, <1>2 DEF Rejection
  <2> QED BY <1>1, <1>2, <2>1, JobFields
<1>4. ASSUME NEW id \in RouteIDs, InsertRoute(id, new), Committed(p, {id}, 201),
             row' = [row EXCEPT ![p] = new]
      PROVE  CPInv' /\ [StoreNext]_storeVars
  <2>1. job[p].auth \in AuthModes
    BY <1>4 DEF InsertRoute, RouteInsertable, NewRoute
  <2>2. new \in RouteRow
    BY <1>2, <1>3, <2>1 DEF RouteRow, NewRoute, RouteFields
  <2>3. StoreNext
    BY <1>4, <2>2 DEF StoreNext, RouteStatement
  <2>4. {id} \in SUBSET RowIDs /\ {id} \ {tenantID[p]} # {}
    BY <1>2, IDsOfTablesDiffer DEF RowIDs
  <2>5. RowOnly(p)
    BY <1>4 DEF RowOnly
  <2>6. CPInv'
    BY <1>1, <1>4, <2>3, <2>4, <2>5, CommittedStep
  <2> QED BY <2>3, <2>6
<1>5. CASE Refused(p)
  BY <1>1, <1>5, RefusedStep
<1> QED BY <1>4, <1>5 DEF CreateRoute

LEMMA DeleteStep ==
  ASSUME CPInv, NEW p \in Slots,
         DeleteTenant(p) \/ DeleteOrigin(p) \/ DeleteRoute(p) \/ DeleteAPIKey(p)
  PROVE  CPInv' /\ [StoreNext]_storeVars
<1> DEFINE id == job[p].id
<1>1. pc[p] = "exec" /\ job[p] \in Jobs
  BY AtExec DEF DeleteTenant, DeleteOrigin, DeleteRoute, DeleteAPIKey, At
<1>2. \E ids \in SUBSET {id} : Committed(p, ids, 204) /\ UNCHANGED row
  BY DEF DeleteTenant, DeleteOrigin, DeleteRoute, DeleteAPIKey
<1>3. id \in RowIDs /\ StoreNext
  <2>1. CASE DeleteTenant(p)
    <3>1. id \in TenantIDs
      BY <1>1, <2>1, JobFields DEF DeleteTenant, At
    <3> QED BY <2>1, <3>1 DEF DeleteTenant, StoreNext, TenantStatement, RowIDs
  <2>2. CASE DeleteOrigin(p)
    <3>1. id \in OriginIDs
      BY <1>1, <2>2, JobFields DEF DeleteOrigin, At
    <3> QED BY <2>2, <3>1 DEF DeleteOrigin, StoreNext, OriginStatement, RowIDs
  <2>3. CASE DeleteRoute(p)
    <3>1. id \in RouteIDs
      BY <1>1, <2>3, JobFields DEF DeleteRoute, At
    <3> QED BY <2>3, <3>1 DEF DeleteRoute, StoreNext, RouteStatement, RowIDs
  <2>4. CASE DeleteAPIKey(p)
    <3>1. id \in KeyIDs
      BY <1>1, <2>4, JobFields DEF DeleteAPIKey, At
    <3> QED BY <2>4, <3>1 DEF DeleteAPIKey, StoreNext, KeyStatement, RowIDs
  <2> QED BY <2>1, <2>2, <2>3, <2>4
<1>4. PICK ids \in SUBSET {id} : Committed(p, ids, 204) /\ UNCHANGED row
  BY <1>2
<1>5. ids \in SUBSET RowIDs
  BY <1>3
<1>6. RowOnly(p)
  BY <1>4, RowUnchanged DEF CPInv
<1>7. CPInv'
  BY <1>1, <1>3, <1>4, <1>5, <1>6, CommittedStep
<1> QED BY <1>3, <1>7

-----------------------------------------------------------------------------
(* The updates.                                                              *)

\* The row that GetByID found.
LEMMA ReadRowStep ==
  ASSUME CPInv, NEW p \in Slots, NEW r, pc[p] = "read", row' = [row EXCEPT ![p] = r],
         Goto(p, "write"), UNCHANGED <<storeVars, job, tenantID, status, fault, wrote>>,
         /\ job[p].op = "UpdateTenant" => r \in TenantRow
         /\ job[p].op = "UpdateOrigin" => r \in OriginRow
         /\ job[p].op = "UpdateRoute" => r \in RouteRow
  PROVE  CPInv'
<1>1. Locals /\ Updating(p)
  BY DEF CPInv, Progress
<1>2. /\ status[p] = 0 /\ wrote[p] \in SUBSET RowIDs
      /\ tenantID[p] \in TenantIDs \cup {NoValue} /\ fault[p] \in BOOLEAN
  BY Unanswered
<1>3. Move(p, "write", 0, tenantID[p], r, fault[p], wrote[p])
  BY <1>1, <1>2, Still DEF Goto, Move
<1>4. /\ Locals' /\ OnlySlot(p)
      /\ pc'[p] = "write" /\ status'[p] = 0 /\ job'[p] = job[p]
      /\ tenantID'[p] = tenantID[p] /\ row'[p] = r /\ wrote'[p] = wrote[p]
  BY <1>1, <1>2, <1>3, MoveLocals DEF Labels, Codes
<1>5. Progress(p)'
  BY <1>1, <1>4 DEF Progress, Resolving, Executing, Updating, RowRead, AnswerTells
<1>6. WorksFor(p)'
  BY <1>4, WorkStays
<1> QED BY <1>4, <1>5, <1>6, SlotStep

LEMMA ReadStep ==
  ASSUME CPInv, NEW p \in Slots, Read(p)
  PROVE  CPInv' /\ UNCHANGED storeVars
<1> DEFINE id == job[p].id
<1>1. PICK r : \/ /\ pc[p] = "read" /\ row' = [row EXCEPT ![p] = r] /\ Goto(p, "write")
                  /\ UNCHANGED <<storeVars, job, tenantID, status, fault, wrote>>
                  /\ job[p].op = "UpdateTenant" => r \in TenantRow
                  /\ job[p].op = "UpdateOrigin" => r \in OriginRow
                  /\ job[p].op = "UpdateRoute" => r \in RouteRow
               \/ pc[p] = "read" /\ Refused(p)
  <2>1. StoreTypeOK
    BY DEF CPInv
  <2>2. CASE job[p].op = "UpdateTenant" /\ ReadRow(p, tenants)
    <3>1. id \in Live(tenants) => tenants[id] \in TenantRow
      BY <2>1, LiveRow DEF StoreTypeOK
    <3> QED BY <2>2, <3>1 DEF ReadRow
  <2>3. CASE job[p].op = "UpdateOrigin" /\ ReadRow(p, origins)
    <3>1. id \in Live(origins) => origins[id] \in OriginRow
      BY <2>1, LiveRow DEF StoreTypeOK
    <3> QED BY <2>3, <3>1 DEF ReadRow
  <2>4. CASE job[p].op = "UpdateRoute" /\ ReadRow(p, routes)
    <3>1. id \in Live(routes) => routes[id] \in RouteRow
      BY <2>1, LiveRow DEF StoreTypeOK
    <3> QED BY <2>4, <3>1 DEF ReadRow
  <2> QED BY <2>2, <2>3, <2>4 DEF Read
<1>2. CASE Refused(p) /\ pc[p] = "read"
  BY <1>2, RefusedStep
<1>3. CASE ~(Refused(p) /\ pc[p] = "read")
  <2>1. CPInv'
    BY <1>1, <1>3, ReadRowStep
  <2>2. UNCHANGED storeVars
    BY <1>1, <1>3
  <2> QED BY <2>1, <2>2
<1> QED BY <1>2, <1>3

\* What a handler holds when it comes to its UPDATE.
LEMMA AtWrite ==
  ASSUME CPInv, NEW p \in Slots, pc[p] = "write"
  PROVE  job[p] \in Jobs /\ RowRead(p)
BY DEF CPInv, Progress, Updating

LEMMA UpdateTenantStep ==
  ASSUME CPInv, NEW p \in Slots, UpdateTenant(p)
  PROVE  CPInv' /\ [StoreNext]_storeVars
<1> DEFINE j == job[p]
           new == [row[p] EXCEPT !.name = Given(j.name, @), !.status = Given(j.status, @)]
<1>1. pc[p] = "write" /\ j.op = "UpdateTenant"
  BY DEF UpdateTenant, At
<1>2. j \in Jobs /\ row[p] \in TenantRow /\ j.id \in TenantIDs /\ j.name \in Names \cup {NoValue}
  BY <1>1, AtWrite, JobFields DEF RowRead
<1>3. new.name \in Names
  BY <1>2 DEF TenantRow, Given
<1>4. ASSUME UpdateTenantRow(j.id, new.name, new.status), Committed(p, {j.id} \cap Live(tenants), 200),
             row' = [row EXCEPT ![p] = new]
      PROVE  CPInv' /\ [StoreNext]_storeVars
  <2>1. [StoreNext]_storeVars
    <3>1. CASE j.id \in Live(tenants)
      <4>1. new.status \in Statuses
        BY <1>4, <3>1 DEF UpdateTenantRow, TenantUpdatable
      <4> QED BY <1>2, <1>3, <1>4, <4>1 DEF StoreNext, TenantStatement
    <3>2. CASE j.id \notin Live(tenants)
      BY <1>4, <3>2 DEF UpdateTenantRow, storeVars
    <3> QED BY <3>1, <3>2
  <2>2. {j.id} \cap Live(tenants) \in SUBSET RowIDs
    BY <1>2 DEF RowIDs
  <2>3. RowOnly(p)
    BY <1>4 DEF RowOnly
  <2>4. CPInv'
    BY <1>1, <1>4, <2>1, <2>2, <2>3, CommittedStep
  <2> QED BY <2>1, <2>4
<1>5. CASE Refused(p)
  BY <1>1, <1>5, RefusedStep
<1> QED BY <1>4, <1>5 DEF UpdateTenant

LEMMA UpdateOriginStep ==
  ASSUME CPInv, NEW p \in Slots, UpdateOrigin(p)
  PROVE  CPInv' /\ [StoreNext]_storeVars
<1> DEFINE j == job[p]
           new == [row[p] EXCEPT !.name = j.name, !.url = j.url]
<1>1. pc[p] = "write" /\ j.op = "UpdateOrigin"
  BY DEF UpdateOrigin, At
<1>2. /\ j \in Jobs /\ row[p] \in OriginRow
      /\ j.id \in OriginIDs /\ j.name \in Names /\ j.url \in URLs
  BY <1>1, AtWrite, JobFields DEF RowRead
<1>3. new.name \in Names /\ new.url \in URLs
  BY <1>2 DEF OriginRow
<1>4. ASSUME UpdateOriginRow(j.id, new.name, new.url), Committed(p, {j.id} \cap Live(origins), 200),
             row' = [row EXCEPT ![p] = new]
      PROVE  CPInv' /\ [StoreNext]_storeVars
  <2>1. StoreNext
    BY <1>2, <1>3, <1>4 DEF StoreNext, OriginStatement
  <2>2. {j.id} \cap Live(origins) \in SUBSET RowIDs
    BY <1>2 DEF RowIDs
  <2>3. RowOnly(p)
    BY <1>4 DEF RowOnly
  <2>4. CPInv'
    BY <1>1, <1>4, <2>1, <2>2, <2>3, CommittedStep
  <2> QED BY <2>1, <2>4
<1>5. CASE Refused(p)
  BY <1>1, <1>5, RefusedStep
<1> QED BY <1>4, <1>5 DEF UpdateOrigin

LEMMA UpdateRouteStep ==
  ASSUME CPInv, NEW p \in Slots, UpdateRoute(p)
  PROVE  CPInv' /\ [StoreNext]_storeVars
<1> DEFINE j == job[p]
           new == [row[p] EXCEPT !.pattern = j.pattern, !.methods = j.methods,
                                 !.priority = j.priority, !.auth = j.auth,
                                 !.active = j.active, !.policy = j.policy]
           set == [pattern |-> j.pattern, methods |-> j.methods, priority |-> j.priority,
                   auth |-> j.auth, active |-> j.active]
<1>1. pc[p] = "write" /\ j.op = "UpdateRoute"
  BY DEF UpdateRoute, At
<1>2. /\ j \in Jobs /\ row[p] \in RouteRow
      /\ j.id \in RouteIDs /\ j.pattern \in Patterns /\ RouteFields(j)
  BY <1>1, AtWrite, JobFields DEF RowRead
<1>3. /\ new.pattern = j.pattern /\ new.methods = j.methods /\ new.priority = j.priority
      /\ new.auth = j.auth /\ new.active = j.active
  BY <1>2 DEF RouteRow
<1>4. ASSUME UpdateRouteRow(j.id, new), Committed(p, {j.id} \cap Live(routes), 200),
             row' = [row EXCEPT ![p] = new]
      PROVE  CPInv' /\ [StoreNext]_storeVars
  <2>1. j.auth \in AuthModes
    BY <1>3, <1>4 DEF UpdateRouteRow, RouteUpdatable
  <2>2. set \in RouteSettings
    BY <1>2, <2>1 DEF RouteSettings, RouteFields
  <2>3. UpdateRouteRow(j.id, set)
    <3> HIDE DEF new
    <3> QED BY <1>3, <1>4 DEF UpdateRouteRow, RouteUpdatable
  <2>4. StoreNext
    BY <1>2, <2>2, <2>3 DEF StoreNext, RouteStatement
  <2>5. {j.id} \cap Live(routes) \in SUBSET RowIDs
    BY <1>2 DEF RowIDs
  <2>6. RowOnly(p)
    BY <1>4 DEF RowOnly
  <2>7. CPInv'
    BY <1>1, <1>4, <2>4, <2>5, <2>6, CommittedStep
  <2> QED BY <2>4, <2>7
<1>5. CASE Refused(p)
  BY <1>1, <1>5, RefusedStep
<1> QED BY <1>4, <1>5 DEF UpdateRoute

-----------------------------------------------------------------------------
(* The invariant of all handlers, and what follows from it.                  *)

LEMMA CPInitInv == CPInit => CPInv
<1> SUFFICES ASSUME CPInit PROVE CPInv
  OBVIOUS
<1>1. StoreTypeOK /\ UniqueColumns
  BY StoreInitType DEF CPInit, StoreInit, UniqueColumns, UniqueTenants, UniqueOriginNames,
     UniquePatterns, Live
<1>2. Locals
  BY DEF CPInit, Locals, CPTypeOK
<1>3. ASSUME NEW p \in Slots PROVE Progress(p) /\ WorksFor(p)
  <2>1. /\ pc[p] = "idle" /\ status[p] = 0 /\ tenantID[p] = NoValue /\ wrote[p] = {}
    BY DEF CPInit
  <2> QED BY <2>1, ClerkIDsAreNotUUIDs
        DEF Progress, Resolving, Executing, Updating, AnswerTells, WorksFor
<1> QED BY <1>1, <1>2, <1>3 DEF CPInv

LEMMA CPStep ==
  ASSUME CPInv, [CPNext]_cpVars
  PROVE  CPInv' /\ [StoreNext]_storeVars
<1>1. CASE UNCHANGED cpVars
  <2>1. UNCHANGED storeVars
    BY <1>1 DEF cpVars
  <2>2. StoreTypeOK' /\ UniqueColumns'
    BY <2>1, StoreStepType, StoreStepUniqueColumns DEF CPInv
  <2>3. Locals'
    BY <1>1 DEF cpVars, CPInv, Locals, CPTypeOK
  <2>4. ASSUME NEW p \in Slots PROVE Progress(p)' /\ WorksFor(p)'
    <3>1. Progress(p)'
      BY <1>1 DEF cpVars, CPInv, Progress, Resolving, Executing, Updating, RowRead, AnswerTells,
         Rejection
    <3>2. job'[p] = job[p] /\ tenantID'[p] = tenantID[p]
      BY <1>1 DEF cpVars
    <3> QED BY <2>1, <3>1, <3>2, WorkStays
  <2> QED BY <2>1, <2>2, <2>3, <2>4 DEF CPInv
<1>2. ASSUME NEW p \in Slots, Accept(p) PROVE CPInv' /\ [StoreNext]_storeVars
  BY <1>2, AcceptStep
<1>3. ASSUME NEW p \in Slots, Resolve(p) \/ LookupFails(p) \/ CreateWorkspace(p) \/ StatementFails(p)
      PROVE  CPInv' /\ [StoreNext]_storeVars
  BY <1>3, ResolveStep, LookupFailsStep, CreateWorkspaceStep, FailureStep
<1>4. ASSUME NEW p \in Slots, CreateTenant(p) \/ CreateAPIKey(p) \/ CreateOrigin(p) \/ CreateRoute(p)
      PROVE  CPInv' /\ [StoreNext]_storeVars
  BY <1>4, CreateTenantStep, CreateAPIKeyStep, CreateOriginStep, CreateRouteStep
<1>5. ASSUME NEW p \in Slots, \/ DeleteTenant(p) \/ DeleteOrigin(p)
                              \/ DeleteRoute(p) \/ DeleteAPIKey(p) \/ List(p)
      PROVE  CPInv' /\ [StoreNext]_storeVars
  BY <1>5, DeleteStep, ListStep
<1>6. ASSUME NEW p \in Slots, Read(p) \/ UpdateTenant(p) \/ UpdateOrigin(p) \/ UpdateRoute(p)
      PROVE  CPInv' /\ [StoreNext]_storeVars
  BY <1>6, ReadStep, UpdateTenantStep, UpdateOriginStep, UpdateRouteStep
<1> QED BY <1>1, <1>2, <1>3, <1>4, <1>5, <1>6 DEF CPNext, Serve

LEMMA CPInvariant == CPSpec => []CPInv
BY CPInitInv, CPStep, PTL DEF CPSpec

\* Whatever the handlers do concurrently, the database sees one legal statement
\* after another: the control plane implements the configuration store, and so
\* keeps its foreign keys, its unique columns and its rows' life cycle.
THEOREM CPRunsOnStore == CPSpec => StoreSpec
<1>1. CPInit => StoreInit
  BY DEF CPInit
<1>2. CPInv /\ [CPNext]_cpVars => [StoreNext]_storeVars
  BY CPStep
<1> QED BY <1>1, <1>2, CPInvariant, PTL DEF CPSpec, StoreSpec

\* The locals of every handler have their types, and a request has a status
\* exactly when it has been answered.
THEOREM CPTypeCorrect == CPSpec => []CPTypeOK
<1>1. CPInv => CPTypeOK
  BY DEF CPInv, Locals
<1> QED BY <1>1, CPInvariant, PTL

\* A 201 means that the request inserted its row, and an error that is not the
\* database's leaves nothing behind but the workspace of resolveTenantID.
THEOREM AnswersTellEffects == CPSpec => []AnswerTellsEffect
<1>1. CPInv => AnswerTellsEffect
  BY DEF CPInv, Progress, AnswerTells, AnswerTellsEffect
<1> QED BY <1>1, CPInvariant, PTL

\* Two requests for one Clerk ID work in one workspace, as long as it lives:
\* clerk_org_id is UNIQUE, and an id stands for one row for ever.
THEOREM WorkspacesAreShared == CPSpec => []OneWorkspacePerClerkID
<1>1. ASSUME CPInv, NEW p \in Slots, NEW q \in Slots, {job[p].op, job[q].op} \subseteq ByTenant,
             {tenantID[p], tenantID[q]} \subseteq Live(tenants), job[p].tref = job[q].tref
      PROVE  tenantID[p] = tenantID[q]
  <2>1. Live(tenants) \subseteq TenantIDs
    BY <1>1 DEF CPInv, StoreTypeOK, Table, Live
  <2>2. WorksFor(p) /\ WorksFor(q)
    BY <1>1 DEF CPInv
  <2>3. CASE job[p].tref \in TenantIDs
    BY <1>1, <2>1, <2>2, <2>3, ClerkIDsAreNotUUIDs DEF WorksFor
  <2>4. CASE job[p].tref \notin TenantIDs
    <3>1. /\ job[p].tref \in ClerkOrgs
          /\ tenants[tenantID[p]].clerkOrg = job[p].tref
          /\ tenants[tenantID[q]].clerkOrg = job[p].tref
      BY <1>1, <2>1, <2>2, <2>4 DEF WorksFor
    <3> QED BY <1>1, <3>1, NullIsNoClerkOrg DEF CPInv, UniqueColumns, UniqueTenants
  <2> QED BY <2>3, <2>4
<1>2. CPInv => OneWorkspacePerClerkID
  BY <1>1 DEF OneWorkspacePerClerkID
<1> QED BY <1>2, CPInvariant, PTL

\* A handler answers its own request only.
LEMMA OwnAnswer ==
  ASSUME NEW q \in Slots, Accept(q) \/ Serve(q)
  PROVE  \E c : status' = [status EXCEPT ![q] = c] \/ UNCHANGED status
<1>1. CASE Accept(q)
  BY ONLY <1>1 DEF Accept
<1>2. CASE Resolve(q)
  BY ONLY <1>2 DEF Resolve, Resolved, Unresolved, Answer
<1>3. CASE LookupFails(q)
  BY ONLY <1>3 DEF LookupFails, Unresolved, Answer
<1>4. CASE CreateWorkspace(q)
  BY ONLY <1>4 DEF CreateWorkspace, Resolved, Unresolved, Answer
<1>5. CASE StatementFails(q)
  BY ONLY <1>5 DEF StatementFails, Answer
<1>6. CASE CreateTenant(q)
  BY ONLY <1>6 DEF CreateTenant, Committed, Refused, Answer
<1>7. CASE CreateAPIKey(q)
  BY ONLY <1>7 DEF CreateAPIKey, Committed, Refused, Answer
<1>8. CASE CreateOrigin(q)
  BY ONLY <1>8 DEF CreateOrigin, Committed, Refused, Answer
<1>9. CASE CreateRoute(q)
  BY ONLY <1>9 DEF CreateRoute, Committed, Refused, Answer
<1>10. CASE List(q)
  BY ONLY <1>10 DEF List, Answer
<1>11. CASE DeleteTenant(q)
  BY ONLY <1>11 DEF DeleteTenant, Committed, Answer
<1>12. CASE DeleteOrigin(q)
  BY ONLY <1>12 DEF DeleteOrigin, Committed, Answer
<1>13. CASE DeleteRoute(q)
  BY ONLY <1>13 DEF DeleteRoute, Committed, Answer
<1>14. CASE DeleteAPIKey(q)
  BY ONLY <1>14 DEF DeleteAPIKey, Committed, Answer
<1>15. CASE Read(q)
  BY ONLY <1>15 DEF Read, ReadRow, Refused, Answer
<1>16. CASE UpdateTenant(q)
  BY ONLY <1>16 DEF UpdateTenant, Committed, Refused, Answer
<1>17. CASE UpdateOrigin(q)
  BY ONLY <1>17 DEF UpdateOrigin, Committed, Refused, Answer
<1>18. CASE UpdateRoute(q)
  BY ONLY <1>18 DEF UpdateRoute, Committed, Refused, Answer
<1> QED BY <1>1, <1>2, <1>3, <1>4, <1>5, <1>6, <1>7, <1>8, <1>9, <1>10, <1>11, <1>12,
       <1>13, <1>14, <1>15, <1>16, <1>17, <1>18 DEF Serve

\* So a step in which a request gets its answer is one of its own.
LEMMA OthersStay ==
  ASSUME CPInv, [CPNext]_cpVars, NEW p \in Slots, pc[p] \in {"exec", "write"}, status'[p] # 0
  PROVE  Serve(p)
<1>1. status[p] = 0
  BY Unanswered
<1>2. ASSUME NEW q \in Slots, Accept(q) \/ Serve(q), q # p PROVE status'[p] = status[p]
  BY <1>2, OwnAnswer DEF CPInv, Locals, CPTypeOK
<1>3. ~Accept(p)
  BY DEF Accept
<1> QED BY <1>1, <1>2, <1>3 DEF CPNext, cpVars

\* A row created for a Clerk ID goes to the tenant of that Clerk ID at the
\* insert, however long ago resolveTenantID answered.
THEOREM CreatedForTheRightTenant == CPSpec => CreatedUnderRequestedTenant
<1>1. ASSUME CPInv, [CPNext]_cpVars, NEW p \in Slots, pc[p] = "exec", status'[p] = 201,
             job[p].op \in Creates, job[p].tref \in ClerkOrgs
      PROVE  tenantID[p] \in ByClerkOrg(job[p].tref)'
  <2>1. status[p] = 0 /\ tenantID[p] \in TenantIDs
    BY <1>1, Unanswered, AtExec DEF ByTenant
  <2>2. Serve(p)
    BY <1>1, <2>1, OthersStay
  <2>3. CreateOrigin(p) \/ CreateRoute(p) \/ CreateAPIKey(p)
    <3>1. status'[p] # 500
      BY <1>1
    <3>2. ~StatementFails(p) /\ ~List(p)
      BY <1>1, <3>1 DEF StatementFails, List, Answer, CPInv, Locals, CPTypeOK, Creates, Lists
    <3> QED BY <1>1, <2>2, <3>2 DEF Serve, Creates, At, Resolve, LookupFails, CreateWorkspace,
          CreateTenant, Read, ReadRow, UpdateTenant, UpdateOrigin, UpdateRoute, DeleteTenant,
          DeleteOrigin, DeleteRoute, DeleteAPIKey
  <2>4. ~Refused(p)
    BY <1>1 DEF Refused, Answer, CPInv, Locals, CPTypeOK
  <2>5. tenantID[p] \in Live(tenants) /\ UNCHANGED <<tenants, job>>
    <3>1. CASE CreateOrigin(p)
      BY <2>4, <3>1 DEF CreateOrigin, InsertOrigin, OriginInsertable, Committed
    <3>2. CASE CreateRoute(p)
      BY <2>4, <3>2 DEF CreateRoute, InsertRoute, RouteInsertable, NewRoute, Committed
    <3>3. CASE CreateAPIKey(p)
      BY <2>4, <3>3 DEF CreateAPIKey, InsertKey, KeyInsertable, Committed
    <3> QED BY <2>3, <3>1, <3>2, <3>3
  <2>6. WorksFor(p)
    BY <1>1 DEF CPInv
  <2>7. tenants[tenantID[p]].clerkOrg = job[p].tref
    BY <1>1, <2>1, <2>5, <2>6, ClerkIDsAreNotUUIDs DEF WorksFor, ByTenant
  <2> QED BY <2>5, <2>7 DEF ByClerkOrg, Live
<1>2. CPInv /\ [CPNext]_cpVars =>
        [\A p \in Slots :
            pc[p] = "exec" /\ status'[p] = 201 /\ job[p].op \in Creates /\ job[p].tref \in ClerkOrgs
               => tenantID[p] \in ByClerkOrg(job[p].tref)']_cpVars
  BY <1>1
<1> QED BY <1>2, CPInvariant, PTL DEF CPSpec, CreatedUnderRequestedTenant

\* An update of a tenant that nobody overlaps leaves the fields alone that its
\* request does not name.
THEOREM UpdatesKeepOtherFields == CPSpec => UpdateKeepsOtherFields
<1>1. ASSUME CPInv, [CPNext]_cpVars, NEW p \in Slots, At(p, "write", "UpdateTenant"),
             status'[p] = 200, job[p].id \in Live(tenants), tenants[job[p].id] = row[p]
      PROVE  /\ job[p].name = NoValue => tenants'[job[p].id].name = tenants[job[p].id].name
             /\ job[p].status = NoValue => tenants'[job[p].id].status = tenants[job[p].id].status
  <2> DEFINE j == job[p]
             new == [row[p] EXCEPT !.name = Given(j.name, @), !.status = Given(j.status, @)]
  <2>1. pc[p] = "write" /\ j.op = "UpdateTenant" /\ status[p] = 0
    BY <1>1, Unanswered DEF At
  <2>2. Serve(p)
    BY <1>1, <2>1, OthersStay
  <2>3. status'[p] # 500
    BY <1>1
  <2>4. ~StatementFails(p) /\ ~Refused(p)
    BY <1>1, <2>3 DEF StatementFails, Refused, Answer, CPInv, Locals, CPTypeOK
  <2>5. UpdateTenant(p)
    BY <2>1, <2>2, <2>4 DEF Serve, At, Resolve, LookupFails, CreateWorkspace, CreateTenant, Read,
       ReadRow, UpdateOrigin, UpdateRoute, DeleteTenant, DeleteOrigin, DeleteRoute, DeleteAPIKey,
       CreateOrigin, CreateRoute, CreateAPIKey, List
  <2>6. UpdateTenantRow(j.id, new.name, new.status)
    BY <2>4, <2>5 DEF UpdateTenant
  <2>7. tenants[j.id] \in TenantRow /\ j.id \in TenantIDs
    BY <1>1, LiveRow DEF CPInv, StoreTypeOK
  <2>8. /\ tenants'[j.id].name = Given(j.name, tenants[j.id].name)
        /\ tenants'[j.id].status = Given(j.status, tenants[j.id].status)
    BY <1>1, <2>6, <2>7 DEF UpdateTenantRow, TenantRow, CPInv, StoreTypeOK, Table
  <2> QED BY <2>8 DEF Given
<1>2. CPInv /\ [CPNext]_cpVars =>
        [\A p \in Slots : LET j == job[p] IN
            At(p, "write", "UpdateTenant") /\ status'[p] = 200
            /\ j.id \in Live(tenants) /\ tenants[j.id] = row[p]
               => /\ j.name = NoValue => tenants'[j.id].name = tenants[j.id].name
                  /\ j.status = NoValue => tenants'[j.id].status = tenants[j.id].status]_cpVars
  BY <1>1
<1> QED BY <1>2, CPInvariant, PTL DEF CPSpec, UpdateKeepsOtherFields

-----------------------------------------------------------------------------
(* The two servers on one database.                                        *)

\* What is proved of the gateway, with the names that System gives its variables.
P == INSTANCE Gateway_proofs
     WITH pc <- gatewayPC, tenantID <- foundTenant, status <- gatewayStatus

\* What the gateway's history is between two steps.
Tracked ==
  /\ gatewayPC = [q \in Requests |-> gatewayPC[q]] /\ input = [q \in Requests |-> input[q]]
  /\ always = [q \in Requests |-> IF gatewayPC[q] = "new" THEN {} ELSE always[q] \cap Serving(input[q])]

SystemInv == CPInv /\ Tracked

\* The instances of the store's statements are the statements.
LEMMA SameStoreNext == StoreNext => P!StoreNext
BY DEF StoreNext, P!StoreNext, Live, P!Live, Drop, P!Drop, OriginsOf, P!OriginsOf,
       RoutesOf, P!RoutesOf, KeysOf, P!KeysOf, RoutesTo, P!RoutesTo, TenantStatement,
       P!TenantStatement, InsertTenant, P!InsertTenant, TenantInsertable,
       P!TenantInsertable, UpdateTenantRow, P!UpdateTenantRow, TenantUpdatable,
       P!TenantUpdatable, DeleteTenantRow, P!DeleteTenantRow, OriginStatement,
       P!OriginStatement, OriginRow, P!OriginRow, InsertOrigin, P!InsertOrigin,
       OriginInsertable, P!OriginInsertable, OriginNameFree, P!OriginNameFree,
       UpdateOriginRow, P!UpdateOriginRow, OriginUpdatable, P!OriginUpdatable,
       DeleteOriginRow, P!DeleteOriginRow, RouteStatement, P!RouteStatement, RouteRow,
       P!RouteRow, RouteSettings, P!RouteSettings, InsertRoute, P!InsertRoute,
       RouteInsertable, P!RouteInsertable, PatternFree, P!PatternFree, UpdateRouteRow,
       P!UpdateRouteRow, RouteUpdatable, P!RouteUpdatable, DeleteRouteRow,
       P!DeleteRouteRow, KeyStatement, P!KeyStatement, KeyRow, P!KeyRow, InsertKey,
       P!InsertKey, KeyInsertable, P!KeyInsertable, DeleteKeyRow, P!DeleteKeyRow

LEMMA SameServing == \A in : G!Serving(in) = Serving(in)
BY DEF G!Serving, G!Live, G!BySubdomain, G!Matches, Serving, Live, BySubdomain, Matches

LEMMA SameTrack == G!Track <=> P!Track
BY DEF G!Track, G!Serving, G!Live, G!BySubdomain, G!Matches,
       P!Track, P!Serving, P!Live, P!BySubdomain, P!Matches

LEMMA SameHandlers ==
  ASSUME NEW q \in Requests, G!Handle(q) \/ G!Upstream(q)
  PROVE  P!Handle(q) \/ P!Upstream(q)
<1> USE SameTrack DEF G!Answer, G!Goto, G!storeVars, P!Answer, P!Goto, P!storeVars
<1>1. G!Receive(q) => P!Receive(q)
  BY DEF G!Receive, G!Inputs, G!Serving, G!Live, G!BySubdomain, G!Matches,
         P!Receive, P!Inputs, P!Serving, P!Live, P!BySubdomain, P!Matches
<1>2. G!ExtractTenant(q) => P!ExtractTenant(q)
  BY DEF G!ExtractTenant, G!Live, G!BySubdomain, P!ExtractTenant, P!Live, P!BySubdomain
<1>3. G!FindRoute(q) => P!FindRoute(q)
  BY DEF G!FindRoute, G!TopPriority, G!Matching, G!RoutesOf, G!Live, G!Matches,
         P!FindRoute, P!TopPriority, P!Matching, P!RoutesOf, P!Live, P!Matches
<1>4. G!GetOrigin(q) => P!GetOrigin(q)
  BY DEF G!GetOrigin, G!Live, P!GetOrigin, P!Live
<1>5. G!LookupFails(q) => P!LookupFails(q)
  BY DEF G!LookupFails, G!FaultStatus, P!LookupFails, P!FaultStatus
<1>6. G!ProxyRequest(q) => P!ProxyRequest(q)
  BY DEF G!ProxyRequest, P!ProxyRequest
<1>7. G!Upstream(q) => P!Upstream(q)
  BY DEF G!Upstream, P!Upstream
<1> QED BY <1>1, <1>2, <1>3, <1>4, <1>5, <1>6, <1>7 DEF G!Handle, P!Handle

LEMMA SystemInitInv == SystemInit => SystemInv
<1> SUFFICES ASSUME SystemInit PROVE SystemInv
  OBVIOUS
<1>1. Tracked
  BY DEF SystemInit, G!GatewayInit, Tracked
<1> QED BY <1>1, CPInitInv DEF SystemInit, SystemInv

LEMMA TrackSays ==
  ASSUME G!Track
  PROVE  always' = [q \in Requests |->
                      IF gatewayPC[q] = "new" THEN {} ELSE always[q] \cap Serving(input[q])']
BY DEF G!Track, G!Serving, G!Live, G!BySubdomain, G!Matches, Serving, Live, BySubdomain, Matches

LEMMA ServingStays ==
  ASSUME UNCHANGED <<storeVars, input>>
  PROVE  \A q \in Requests : Serving(input[q])' = Serving(input[q])
BY DEF storeVars, Serving, Live, BySubdomain, Matches

LEMMA TrackKeepsTracked ==
  ASSUME Tracked, G!Track, UNCHANGED <<gatewayPC, input>>
  PROVE  Tracked'
BY TrackSays DEF Tracked

\* The steps of one request leave the history of the others alone.
LEMMA GatewayKeepsTracked ==
  ASSUME Tracked, NEW q \in Requests, G!Handle(q) \/ G!Upstream(q)
  PROVE  Tracked' /\ UNCHANGED storeVars
<1>1. UNCHANGED storeVars /\ \A in : Serving(in)' = Serving(in)
  <2>1. UNCHANGED storeVars
    BY DEF storeVars, G!storeVars, G!Handle, G!Receive, G!ExtractTenant, G!FindRoute, G!GetOrigin,
           G!LookupFails, G!ProxyRequest, G!Upstream
  <2> QED BY <2>1 DEF storeVars, Serving, Live, BySubdomain, Matches
<1>2. ASSUME G!Receive(q) PROVE Tracked'
  <2>1. PICK in \in G!Inputs :
           /\ input' = [input EXCEPT ![q] = in]
           /\ always' = [always EXCEPT ![q] = Serving(in)]
           /\ \E label : label # "new" /\ gatewayPC' = [gatewayPC EXCEPT ![q] = label]
    BY <1>2, SameServing DEF G!Receive, G!Answer, G!Goto
  <2> QED BY <1>1, <2>1 DEF Tracked
<1>3. ASSUME G!Track, gatewayPC[q] # "new", input' = input,
             \E label : label # "new" /\ gatewayPC' = [gatewayPC EXCEPT ![q] = label]
      PROVE  Tracked'
  <2>1. always' = [p \in Requests |-> IF gatewayPC[p] = "new" THEN {} ELSE always[p] \cap Serving(input[p])]
    BY <1>1, <1>3, TrackSays, ServingStays
  <2>2. \A p \in Requests : gatewayPC'[p] = "new" <=> gatewayPC[p] = "new"
    BY <1>3 DEF Tracked
  <2> QED BY <1>1, <1>3, <2>1, <2>2 DEF Tracked
<1>4. CASE \/ G!ExtractTenant(q) \/ G!FindRoute(q) \/ G!GetOrigin(q)
           \/ G!LookupFails(q) \/ G!ProxyRequest(q) \/ G!Upstream(q)
  <2>1. /\ G!Track /\ gatewayPC[q] # "new" /\ input' = input
        /\ \E label : label # "new" /\ gatewayPC' = [gatewayPC EXCEPT ![q] = label]
    BY <1>4 DEF G!ExtractTenant, G!FindRoute, G!GetOrigin, G!LookupFails, G!ProxyRequest, G!Upstream,
                G!Answer, G!Goto
  <2> QED BY <1>1, <1>3, <2>1
<1>5. \/ G!Receive(q) \/ G!ExtractTenant(q) \/ G!FindRoute(q) \/ G!GetOrigin(q)
      \/ G!LookupFails(q) \/ G!ProxyRequest(q) \/ G!Upstream(q)
  BY DEF G!Handle
<1> QED BY <1>1, <1>2, <1>4, <1>5

\* A step of the control plane is a statement for the gateway, and a step of the
\* gateway is none for the control plane.
LEMMA SystemStep ==
  ASSUME SystemInv, [SystemNext]_<<storeVars, slotVars, requestVars, always>>
  PROVE  SystemInv' /\ [CPNext]_cpVars /\ [P!GatewayNext]_(P!gatewayVars)
<1>1. ASSUME [CPNext]_cpVars, Tracked', [P!GatewayNext]_(P!gatewayVars)
      PROVE  SystemInv' /\ [CPNext]_cpVars /\ [P!GatewayNext]_(P!gatewayVars)
  BY <1>1, CPStep DEF SystemInv
<1>2. CASE UNCHANGED <<storeVars, slotVars, requestVars, always>>
  <2>1. UNCHANGED cpVars /\ UNCHANGED P!gatewayVars
    BY <1>2 DEF slotVars, requestVars, cpVars, P!gatewayVars, storeVars, P!storeVars
  <2>2. Tracked'
    <3>1. \A in : Serving(in)' = Serving(in)
      BY <1>2 DEF storeVars, Serving, Live, BySubdomain, Matches
    <3> QED BY <1>2, <3>1 DEF SystemInv, Tracked, requestVars
  <2> QED BY <1>1, <2>1, <2>2
<1>3. CASE ServeControlPlane
  <2>1. CPNext /\ [StoreNext]_storeVars /\ UNCHANGED requestVars /\ G!Track
    BY <1>3, CPStep DEF ServeControlPlane, SystemInv
  <2>2. Tracked'
    BY <2>1, TrackKeepsTracked DEF SystemInv, requestVars
  <2>3. CASE StoreNext
    BY <1>1, <2>1, <2>2, <2>3, SameStoreNext, SameTrack DEF P!GatewayNext, P!Reconfigure, requestVars
  <2>4. CASE UNCHANGED storeVars
    <3>1. always' = [q \in Requests |-> IF gatewayPC[q] = "new" THEN {} ELSE always[q] \cap Serving(input[q])]
      <4>1. UNCHANGED input
        BY <2>1 DEF requestVars
      <4> QED BY <2>1, <2>4, <4>1, TrackSays, ServingStays
    <3>2. UNCHANGED P!gatewayVars
      BY <2>1, <2>4, <3>1 DEF SystemInv, Tracked, P!gatewayVars, requestVars, storeVars, P!storeVars
    <3> QED BY <1>1, <2>1, <2>2, <3>2
  <2> QED BY <2>1, <2>3, <2>4
<1>4. CASE ServeGateway
  <2>1. PICK q \in Requests : G!Handle(q) \/ G!Upstream(q)
    BY <1>4 DEF ServeGateway
  <2>2. Tracked' /\ UNCHANGED storeVars
    BY <2>1, GatewayKeepsTracked DEF SystemInv
  <2>3. UNCHANGED cpVars
    BY <1>4, <2>2 DEF ServeGateway, slotVars, cpVars
  <2>4. P!GatewayNext
    BY <2>1, SameHandlers DEF P!GatewayNext
  <2> QED BY <1>1, <2>2, <2>3, <2>4
<1> QED BY <1>2, <1>3, <1>4 DEF SystemNext

\* The two servers run on one database, and neither keeps the other from its
\* specification: the handlers change the tables by statements that the gateway
\* allows for, and the gateway writes nothing (router.go:35-106).
THEOREM SystemRunsBoth == SystemSpec => CPSpec /\ P!GatewaySpec
<1>1. SystemInit => CPInit /\ P!GatewayInit
  BY DEF SystemInit, G!GatewayInit, P!GatewayInit, G!StoreInit, P!StoreInit
<1>2. SystemSpec => []SystemInv
  BY SystemInitInv, SystemStep, PTL DEF SystemSpec
<1> QED BY <1>1, <1>2, SystemStep, PTL DEF SystemSpec, CPSpec, P!GatewaySpec

\* So what each promises holds of both together, if no column value is NULL: an
\* answer of the control plane tells what it did and its rows go to the tenant
\* asked for (handlers.go:29-69), while a request in the gateway goes where
\* Routing says and gets no "not found" about a route that served it all along
\* (router.go:47-72).
THEOREM SystemKeepsPromises ==
  ASSUME NoValue \notin Subdomains \cup TenantIDs \cup OriginIDs \cup URLs, BadURLs \subseteq URLs
  PROVE  SystemSpec => /\ [](AnswerTellsEffect /\ OneWorkspacePerClerkID)
                       /\ [](P!NoSpuriousNotFound /\ P!UnavailableMeansOriginDeleted)
                       /\ CreatedUnderRequestedTenant
                       /\ P!RoutingSpec
<1>1. CPSpec => /\ [](AnswerTellsEffect /\ OneWorkspacePerClerkID)
                /\ CreatedUnderRequestedTenant
  BY AnswersTellEffects, WorkspacesAreShared, CreatedForTheRightTenant, PTL
<1> USE TombstonesAreNotRows, PrioritiesAreIntegers, NewTenantsAreActive, NullIsNoClerkOrg
        DEF TenantRow, OriginRow, RouteRow, KeyRow, P!TenantRow, P!OriginRow, P!RouteRow, P!KeyRow
<1>2. P!GatewaySpec => []P!NoSpuriousNotFound
  BY P!NotFoundIsNeverSpurious
<1>3. P!GatewaySpec => []P!UnavailableMeansOriginDeleted
  BY P!UnavailableIsDeleted
<1>4. P!GatewaySpec => P!RoutingSpec
  BY P!GatewayImplementsRouting
<1> QED BY ONLY <1>1, <1>2, <1>3, <1>4, SystemRunsBoth, PTL
=============================================================================
