------------------------------ MODULE Routing ------------------------------
(***************************************************************************)
(* What the gateway promises about where a request goes, with no lookup of *)
(* its own: the route is chosen, in one step, among the live configuration *)
(* of the tenant the host names; the address is the one the route's origin *)
(* has when it is looked up.  A request may be refused at any point; when  *)
(* it may be is left to Gateway.                                           *)
(***************************************************************************)
EXTENDS ConfigStore

CONSTANTS Requests,
          Inputs      \* what a request carries: subdomain, path, method

VARIABLES stage,      \* "new", "open", "chosen", "resolved" or "refused"
          input,      \* what the request asks for
          target,     \* the chosen origin
          address     \* the URL of the chosen origin

routingVars == <<storeVars, stage, input, target, address>>

RoutingInit ==
  /\ StoreInit
  /\ stage = [q \in Requests |-> "new"]
  /\ input = [q \in Requests |-> NoValue]
  /\ target = [q \in Requests |-> NoValue]
  /\ address = [q \in Requests |-> NoValue]

\* Some requests are not to be routed at all.
Ask(q) ==
  /\ stage[q] = "new"
  /\ \E in \in Inputs : input' = [input EXCEPT ![q] = in]
  /\ \E s \in {"open", "refused"} : stage' = [stage EXCEPT ![q] = s]
  /\ UNCHANGED <<storeVars, target, address>>

\* The route has the highest priority of all that serve the request now.
Choose(q) ==
  /\ stage[q] = "open"
  /\ \E r \in TopPriority(Serving(input[q])) : target' = [target EXCEPT ![q] = routes[r].origin]
  /\ stage' = [stage EXCEPT ![q] = "chosen"]
  /\ UNCHANGED <<storeVars, input, address>>

Resolve(q) ==
  /\ stage[q] = "chosen"
  /\ target[q] \in Live(origins)
  /\ address' = [address EXCEPT ![q] = origins[target[q]].url]
  /\ stage' = [stage EXCEPT ![q] = "resolved"]
  /\ UNCHANGED <<storeVars, input, target>>

Refuse(q) ==
  /\ stage[q] \in {"open", "chosen"}
  /\ stage' = [stage EXCEPT ![q] = "refused"]
  /\ UNCHANGED <<storeVars, input, target, address>>

Reconfigure == StoreNext /\ UNCHANGED <<stage, input, target, address>>

RoutingNext == Reconfigure \/ \E q \in Requests : Ask(q) \/ Choose(q) \/ Resolve(q) \/ Refuse(q)

RoutingSpec == RoutingInit /\ [][RoutingNext]_routingVars
==============================================================================
