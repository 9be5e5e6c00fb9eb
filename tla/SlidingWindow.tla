--------------------------- MODULE SlidingWindow ---------------------------
(***************************************************************************)
(* src/internal/ratelimit/slidingwindow/limiter.go.  Every method holds    *)
(* the mutex from its first line to its last: a call is one step.          *)
(*                                                                         *)
(* requestTimings is only filtered, counted and appended to; it is held as *)
(* the set of the positions in the log admitted (a history variable) whose *)
(* times it still has.                                                     *)
(***************************************************************************)
EXTENDS Clock, FiniteSets, Sequences

CONSTANTS MaxRequests, WindowSize,
          Batches           \* the arguments of AllowN: ints, their sum with a length does not wrap

ASSUME SlidingAssumption == MaxRequests \in Nat /\ WindowSize \in Nat /\ Batches \subseteq Int

VARIABLES requestTimings,
          admitted,         \* history: the time of each admission since the last Reset
          allowed,          \* the latest result of Allow or AllowN
          remaining         \* the latest result of GetRemainingRequests

slidingVars == <<requestTimings, admitted, allowed, remaining>>

Log == INSTANCE WindowLimit

\* NewSlidingWindow
SlidingInit ==
  /\ now = 0
  /\ requestTimings = {}
  /\ admitted = <<>>
  /\ allowed = TRUE
  /\ remaining = MaxRequests

\* Mutant: !Before instead of After.
ValidClosed == {i \in requestTimings : admitted[i] >= now - WindowSize}

\* validRequests: the timings after windowStart
Valid == {i \in requestTimings : admitted[i] > now - WindowSize}

\* The loop appends n timings; none if n is negative.
Extend(n) ==
  /\ admitted' = admitted \o [i \in 1..n |-> now]
  /\ requestTimings' = Valid \cup (Len(admitted) + 1)..(Len(admitted) + n)

\* Both methods store the filtered list, also when they refuse.
Answered(n, granted) ==
  /\ allowed' = granted
  /\ IF granted THEN Extend(n) ELSE requestTimings' = Valid /\ UNCHANGED admitted
  /\ UNCHANGED <<now, remaining>>

SlidingAllow == Answered(1, Cardinality(Valid) < MaxRequests)

\* Mutant: room for one request is taken for room for n.
SlidingAllowNIfOne(n) == Answered(n, Cardinality(Valid) < MaxRequests)

SlidingAllowN(n) == Answered(n, Cardinality(Valid) + n <= MaxRequests)

\* Counts the valid timings without storing the filtered list.
GetRemainingRequests ==
  /\ remaining' = MaxRequests - Cardinality(Valid)
  /\ UNCHANGED <<now, requestTimings, admitted, allowed>>

SlidingReset ==
  /\ requestTimings' = {} /\ admitted' = <<>>
  /\ UNCHANGED <<now, allowed, remaining>>

SlidingNext ==
  \/ Tick /\ UNCHANGED slidingVars
  \/ SlidingAllow \/ (\E n \in Batches : SlidingAllowN(n))
  \/ GetRemainingRequests \/ SlidingReset

SlidingSpec == SlidingInit /\ [][SlidingNext]_<<now, slidingVars>>

------------------------------------------------------------------------------
(* Properties *)

\* The limiter keeps at most MaxRequests timings, of admissions that happened,
\* and never reports a negative number of remaining requests.
SlidingTypeOK ==
  /\ now \in Times
  /\ admitted \in Seq(Times)
  /\ requestTimings \subseteq DOMAIN admitted
  /\ Cardinality(requestTimings) <= MaxRequests
  /\ allowed \in BOOLEAN
  /\ remaining \in 0..MaxRequests

\* Dropping old timings is never noticed: every answer is the one that the
\* log of all admissions gives (limiter.go:30-46, 57-75).
SlidingLogSpec == Log!LogSpec

\* The limit holds in every window, for any mix of Allow and AllowN.
WindowBound == Log!WindowBound
=============================================================================
