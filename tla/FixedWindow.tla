---------------------------- MODULE FixedWindow ----------------------------
(***************************************************************************)
(* src/internal/gateway/middleware/ratelimit.go: a counter per remote      *)
(* address, and a goroutine that forgets all counters at every tick of a   *)
(* time.Ticker.  The mutex makes the test and the increment one step.  The *)
(* ticker's channel holds one tick; the goroutine may be late.             *)
(***************************************************************************)
EXTENDS Clock, Sequences

CONSTANTS Keys, Limit, Window,
          MaxLag              \* how late the goroutine may take a tick

ASSUME FixedAssumption == Limit \in Nat /\ Window \in Nat \ {0} /\ MaxLag \in Nat

VARIABLES requests,
          ticked,             \* the time of the tick in the channel, -1 if there is none
          passed              \* history: when each key's requests were let through

fixedVars == <<requests, ticked, passed>>

\* NewRateLimiter
FixedInit ==
  /\ now = 0
  /\ requests = [k \in Keys |-> 0]
  /\ ticked = -1
  /\ passed = [k \in Keys |-> <<>>]

\* The clock; the goroutine takes a tick at most MaxLag late.
FixedTick ==
  /\ ticked # -1 => now - ticked < MaxLag
  /\ Tick
  /\ ticked' = TickerChannel(ticked, Window)
  /\ UNCHANGED <<requests, passed>>

\* Mutant: > instead of >=.
MiddlewareOneMore(k) ==
  /\ requests[k] <= Limit
  /\ requests' = [requests EXCEPT ![k] = @ + 1]
  /\ passed' = [passed EXCEPT ![k] = Append(@, now)]
  /\ UNCHANGED <<now, ticked>>

\* Middleware, when it calls the next handler; otherwise it answers 429 and
\* changes nothing.
Middleware(k) ==
  /\ requests[k] < Limit
  /\ requests' = [requests EXCEPT ![k] = @ + 1]
  /\ passed' = [passed EXCEPT ![k] = Append(@, now)]
  /\ UNCHANGED <<now, ticked>>

\* cleanup
Cleanup ==
  /\ ticked # -1
  /\ ticked' = -1
  /\ requests' = [k \in Keys |-> 0]
  /\ UNCHANGED <<now, passed>>

FixedNext == FixedTick \/ (\E k \in Keys : Middleware(k)) \/ Cleanup

FixedSpec == FixedInit /\ [][FixedNext]_<<now, fixedVars>>

------------------------------------------------------------------------------
(* Properties *)

FixedTypeOK ==
  /\ requests \in [Keys -> 0..Limit]
  /\ ticked \in Times \cup {-1}
  /\ passed \in [Keys -> Seq(Times)]

\* Just before a cleanup and just after it a key can spend its limit twice,
\* and no more: 2 * Limit requests of one key take at least a Window, less
\* what a late cleanup makes the next period shorter (ratelimit.go:36-55).
TwiceTheLimit ==
  \A k \in Keys : \A i, j \in DOMAIN passed[k] :
     j = i + 2 * Limit => passed[k][j] - passed[k][i] >= Window - MaxLag
=============================================================================
