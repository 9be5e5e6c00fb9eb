--------------------------- MODULE HealthChecker ---------------------------
(***************************************************************************)
(* src/internal/loadbalancer/healthcheck.go.  Every Start runs a loop of   *)
(* its own over the list it is given; all loops share the statuses and the *)
(* channel that Stop closes.  A check is a request without the lock; its   *)
(* result is written under the lock in a later step.  The logged change of *)
(* a status is left out.                                                   *)
(***************************************************************************)
EXTENDS Integers, Sequences

CONSTANTS Loops,              \* the goroutines that Start can start
          Probed,             \* the origins
          NoPath,             \* those without a HealthCheckPath
          ProbeLists          \* the lists that Start and GetHealthyOrigins are given

ASSUME HealthAssumption == NoPath \subseteq Probed /\ ProbeLists \subseteq Seq(Probed)

VARIABLES healthStatuses,     \* FALSE where the map has no entry
          stopped,            \* stopChan is closed
          loop,               \* where each goroutine is
          list,               \* the origins it was started with
          todo,               \* those the round has yet to check
          result,             \* the result of a check, before it is written
          tick,               \* a tick is in the goroutine's ticker channel
          up                  \* external: the origin answers 2xx within the timeout

healthVars == <<healthStatuses, stopped, loop, list, todo, result, tick, up>>

\* NewHealthChecker
HealthInit ==
  /\ healthStatuses = [o \in Probed |-> FALSE]
  /\ stopped = FALSE
  /\ loop = [l \in Loops |-> "none"]
  /\ list = [l \in Loops |-> <<>>]
  /\ todo = [l \in Loops |-> <<>>]
  /\ result = [l \in Loops |-> FALSE]
  /\ tick = [l \in Loops |-> FALSE]
  /\ up \in [Probed \ NoPath -> BOOLEAN]

\* A round over the origins; an empty one is over at once.
Round(l, origins) ==
  /\ todo' = [todo EXCEPT ![l] = origins]
  /\ loop' = [loop EXCEPT ![l] = IF origins = <<>> THEN "select" ELSE "check"]

\* Start, and the initial checks, also after Stop.
StartChecks(l, origins) ==
  /\ loop[l] = "none"
  /\ list' = [list EXCEPT ![l] = origins]
  /\ Round(l, origins)
  /\ UNCHANGED <<healthStatuses, stopped, result, tick, up>>

\* close(stopChan).  A second Stop panics and changes nothing.
StopChecks ==
  /\ ~stopped
  /\ stopped' = TRUE
  /\ UNCHANGED <<healthStatuses, loop, list, todo, result, tick, up>>

\* CheckHealth: no path is healthy; an error or a timeout is not.
CheckHealth(l) ==
  LET o == Head(todo[l]) IN
  /\ loop[l] = "check"
  /\ result' = [result EXCEPT ![l] = o \in NoPath \/ up[o]]
  /\ loop' = [loop EXCEPT ![l] = "write"]
  /\ UNCHANGED <<healthStatuses, stopped, list, todo, tick, up>>

\* Mutant: only a healthy result is written.
WriteHealthyStatus(l) ==
  LET o == Head(todo[l]) IN
  /\ loop[l] = "write"
  /\ healthStatuses' = [healthStatuses EXCEPT ![o] = @ \/ result[l]]
  /\ Round(l, Tail(todo[l]))
  /\ UNCHANGED <<stopped, list, result, tick, up>>

\* The rest of checkOriginHealth
WriteStatus(l) ==
  LET o == Head(todo[l]) IN
  /\ loop[l] = "write"
  /\ healthStatuses' = [healthStatuses EXCEPT ![o] = result[l]]
  /\ Round(l, Tail(todo[l]))
  /\ UNCHANGED <<stopped, list, result, tick, up>>

\* The ticker of a loop, from Start on; its channel holds one tick.
TickerTicks(l) ==
  /\ loop[l] \in {"check", "write", "select"} /\ ~tick[l]
  /\ tick' = [tick EXCEPT ![l] = TRUE]
  /\ UNCHANGED <<healthStatuses, stopped, loop, list, todo, result, up>>

\* The two branches of the select; when both are ready, either is taken.
SelectTick(l) ==
  /\ loop[l] = "select" /\ tick[l]
  /\ tick' = [tick EXCEPT ![l] = FALSE]
  /\ Round(l, list[l])
  /\ UNCHANGED <<healthStatuses, stopped, list, result, up>>

\* Mutant: Stop sends a value instead of closing; one loop receives it.
SelectStopValue(l) ==
  /\ loop[l] = "select" /\ stopped
  /\ stopped' = FALSE
  /\ loop' = [loop EXCEPT ![l] = "ended"]
  /\ UNCHANGED <<healthStatuses, list, todo, result, tick, up>>

SelectStop(l) ==
  /\ loop[l] = "select" /\ stopped
  /\ loop' = [loop EXCEPT ![l] = "ended"]
  /\ UNCHANGED <<healthStatuses, stopped, list, todo, result, tick, up>>

\* External: an origin comes and goes.
OriginChanges(o) ==
  /\ up' = [up EXCEPT ![o] = ~@]
  /\ UNCHANGED <<healthStatuses, stopped, loop, list, todo, result, tick>>

HealthNext ==
  \/ \E l \in Loops : \/ \E origins \in ProbeLists : StartChecks(l, origins)
                      \/ CheckHealth(l) \/ WriteStatus(l)
                      \/ TickerTicks(l) \/ SelectTick(l) \/ SelectStop(l)
  \/ StopChecks
  \/ \E o \in Probed \ NoPath : OriginChanges(o)

\* Goroutines are scheduled, the client's timeout ends a check, and the runtime
\* sends the ticks.  select chooses at random among the branches that are
\* ready, so the stop branch is taken in the end if it is ready at every round.
HealthFairness ==
  \A l \in Loops : /\ WF_healthVars(CheckHealth(l)) /\ WF_healthVars(WriteStatus(l))
                   /\ WF_healthVars(TickerTicks(l)) /\ WF_healthVars(SelectTick(l))
                   /\ SF_healthVars(SelectStop(l))

HealthSpec == HealthInit /\ [][HealthNext]_healthVars /\ HealthFairness

------------------------------------------------------------------------------
\* What a balancer is given of a list; all of it if none is healthy.
GetHealthyOrigins(origins) ==
  LET healthy == SelectSeq(origins, LAMBDA o : healthStatuses[o] \/ o \in NoPath) IN
  IF healthy = <<>> THEN origins ELSE healthy

(* Properties *)

HealthTypeOK ==
  /\ healthStatuses \in [Probed -> BOOLEAN]
  /\ loop \in [Loops -> {"none", "check", "write", "select", "ended"}]
  /\ \A l \in Loops : loop[l] \in {"check", "write"} => todo[l] # <<>>

\* Stop ends every loop, however many there are, whether they were started
\* before or after it, and also when the ticker is as fast as the rounds
\* (healthcheck.go:43, 88-97).
StopEnds == \A l \in Loops : stopped /\ loop[l] # "none" ~> loop[l] = "ended"

InList(o, origins) == \E i \in DOMAIN origins : origins[i] = o

\* A running loop checks o and the checker is not stopped.
Watched(o) == ~stopped /\ \E l \in Loops : loop[l] # "none" /\ InList(o, list[l])

Up(o) == o \in NoPath \/ (Watched(o) /\ up[o])

\* Traffic follows health, although a result can be written long after the
\* check and two loops write one status: a watched origin that is up for good
\* is among the origins that a balancer chooses from, from some moment on, and
\* one that is down for good no longer is, if another one is up
\* (healthcheck.go:105-111, 129-135).
TrafficFollowsHealth ==
  \A origins \in ProbeLists, o \in Probed \ NoPath :
     InList(o, origins) =>
        /\ <>[]Up(o) => <>[]InList(o, GetHealthyOrigins(origins))
        /\ \A p \in Probed \ {o} : InList(p, origins) =>
              (<>[](Watched(o) /\ ~up[o] /\ Up(p))
                 => <>[]~InList(o, GetHealthyOrigins(origins)))
=============================================================================
