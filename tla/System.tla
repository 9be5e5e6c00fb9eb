------------------------------- MODULE System -------------------------------
(***************************************************************************)
(* The two servers on one database: src/cmd/control-plane/main.go and      *)
(* src/cmd/gateway/main.go open a pool each and share nothing else.  What  *)
(* Gateway leaves to any statement of the store is here what a handler of  *)
(* ControlPlane executes.                                                  *)
(***************************************************************************)
EXTENDS ControlPlane

CONSTANTS Requests, HealthPath, BadURLs

VARIABLES gatewayPC, input, foundTenant, originID, address, gatewayStatus, faulty, always

G == INSTANCE Gateway
     WITH pc <- gatewayPC, tenantID <- foundTenant, status <- gatewayStatus

slotVars == <<pc, job, tenantID, row, status, fault, wrote>>
requestVars == <<gatewayPC, input, foundTenant, originID, address, gatewayStatus, faulty>>

SystemInit == CPInit /\ G!GatewayInit

\* The control plane moves, and the requests in the gateway may lose a route.
ServeControlPlane ==
  /\ CPNext
  /\ UNCHANGED requestVars
  /\ G!Track

ServeGateway ==
  /\ \E q \in Requests : G!Handle(q) \/ G!Upstream(q)
  /\ UNCHANGED slotVars

SystemNext == ServeControlPlane \/ ServeGateway

SystemSpec == SystemInit /\ [][SystemNext]_<<storeVars, slotVars, requestVars, always>>

------------------------------------------------------------------------------
(* Properties *)

\* README.md:237, "Isolated configurations per tenant", of the requests in the
\* gateway while the handlers of the control plane write what it reads.
OriginOfOwnTenant == G!OriginOfOwnTenant
=============================================================================
