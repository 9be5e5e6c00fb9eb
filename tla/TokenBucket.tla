---------------------------- MODULE TokenBucket ----------------------------
(***************************************************************************)
(* src/internal/ratelimit/tokenbucket/limiter.go.  A call holds the mutex  *)
(* throughout: one step.  A token and a second are units of the model; the *)
(* rounding of float64 is abstracted.                                      *)
(***************************************************************************)
EXTENDS Clock

CONSTANTS Capacity, RefillRate,
          Amounts             \* the arguments of Allow, none negative

ASSUME BucketAssumption == Capacity \in Nat /\ RefillRate \in Nat /\ Amounts \subseteq Nat

VARIABLES tokensAvailable, lastRefillTime,
          taken,              \* the latest result of Allow
          since,              \* history: the time of creation or of the last Reset
          spent               \* history: spent[t], the tokens spent at t or later

bucketVars == <<tokensAvailable, lastRefillTime, taken, since, spent>>

Smaller(a, b) == IF a < b THEN a ELSE b

\* NewTokenBucket
BucketInit ==
  /\ now = 0
  /\ tokensAvailable = Capacity
  /\ lastRefillTime = 0
  /\ taken = TRUE
  /\ since = 0
  /\ spent = [t \in Times |-> 0]

\* Mutant: whole refills only, the rest of the elapsed time is lost.
RefilledInPairs == Smaller(Capacity, tokensAvailable + ((now - lastRefillTime) \div 2) * 2 * RefillRate)

\* refill
Refilled == Smaller(Capacity, tokensAvailable + (now - lastRefillTime) * RefillRate)

Spend(n) == spent' = [t \in Times |-> spent[t] + IF t <= now THEN n ELSE 0]

\* Allow; AllowN(n) is Allow of n tokens.
BucketAllow(n) ==
  /\ lastRefillTime' = now
  /\ taken' = (Refilled >= n)
  /\ IF Refilled >= n
     THEN tokensAvailable' = Refilled - n /\ Spend(n)
     ELSE tokensAvailable' = Refilled /\ UNCHANGED spent
  /\ UNCHANGED <<now, since>>

\* The level is read after a refill that is stored.
GetAvailableTokens ==
  /\ lastRefillTime' = now
  /\ tokensAvailable' = Refilled
  /\ UNCHANGED <<now, taken, since, spent>>

BucketReset ==
  /\ tokensAvailable' = Capacity
  /\ lastRefillTime' = now
  /\ since' = now
  /\ spent' = [t \in Times |-> 0]
  /\ UNCHANGED <<now, taken>>

BucketNext ==
  \/ Tick /\ UNCHANGED bucketVars
  \/ \E n \in Amounts : BucketAllow(n)
  \/ GetAvailableTokens \/ BucketReset

BucketSpec == BucketInit /\ [][BucketNext]_<<now, bucketVars>>

------------------------------------------------------------------------------
(* Properties *)

\* The level is between nothing and the capacity.
BucketTypeOK ==
  /\ now \in Times
  /\ tokensAvailable \in 0..Capacity
  /\ lastRefillTime \in since..now
  /\ taken \in BOOLEAN
  /\ since \in Times
  /\ spent \in [Times -> Nat]

\* From any moment on, no more is spent than a full bucket and what has
\* flowed in: pauses and reads in between gain nothing (limiter.go:46-53).
SpendBound == \A t \in since..now : spent[t] <= Capacity + RefillRate * (now - t)

\* The level is the largest one that SpendBound permits: no token is gained
\* and none is lost, however many calls split the time into pieces.
LevelExact ==
  LET most(t) == Capacity + RefillRate * (now - t) - spent[t] IN
  /\ \A t \in since..now : Refilled <= most(t)
  /\ \E t \in since..now : Refilled = most(t)
=============================================================================
