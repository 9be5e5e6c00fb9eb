------------------------- MODULE RateLimits_proofs --------------------------
(***************************************************************************)
(* The limits hold for every capacity, rate, window, interval, lag and     *)
(* sequence of calls.  The arguments are about a history: the sliding      *)
(* window drops nothing that still counts, the bucket's level is bounded   *)
(* from every earlier moment on, and the fixed window begins a period no   *)
(* sooner than its ticks come.                                             *)
(***************************************************************************)
EXTENDS SlidingWindow, TokenBucket, FixedWindow, FiniteSetTheorems, SequenceTheorems, TLAPS

(* The sliding window.                                                     *)

SlidingTypes ==
  /\ now \in Times
  /\ admitted \in Seq(Times)
  /\ requestTimings \subseteq DOMAIN admitted
  /\ allowed \in BOOLEAN
  /\ remaining \in 0..MaxRequests

Kept == IsFiniteSet(requestTimings) /\ Cardinality(requestTimings) <= MaxRequests

\* Admissions are logged in the order of time.
Sorted ==
  /\ \A i \in DOMAIN admitted : admitted[i] <= now
  /\ \A i, j \in DOMAIN admitted : i <= j => admitted[i] <= admitted[j]

\* What is no longer kept is out of every window to come.
DroppedIsOld ==
  \A i \in DOMAIN admitted : i \notin requestTimings => admitted[i] <= now - WindowSize

SlidingInv == SlidingTypes /\ Kept /\ Sorted /\ DroppedIsOld /\ WindowBound

LEMMA LoggedTimes ==
  ASSUME SlidingTypes
  PROVE  \A i \in DOMAIN admitted : admitted[i] \in Int
<1>1. \A i \in DOMAIN admitted : admitted[i] \in Times
  BY ElementOfSeq, LenProperties DEF SlidingTypes
<1>2. Times \subseteq Int
  BY DEF Times
<1> QED BY <1>1, <1>2

LEMMA PositionsAfter ==
  ASSUME NEW a \in Nat, NEW n \in Int
  PROVE  /\ IsFiniteSet((a + 1)..(a + n))
         /\ Cardinality((a + 1)..(a + n)) = IF n >= 0 THEN n ELSE 0
<1>1. a + 1 \in Int /\ a + n \in Int
  OBVIOUS
<1>2. /\ IsFiniteSet((a + 1)..(a + n))
      /\ Cardinality((a + 1)..(a + n)) = IF a + 1 > a + n THEN 0 ELSE (a + n) - (a + 1) + 1
  BY <1>1, FS_Interval
<1> QED BY <1>2

LEMMA DisjointUnion ==
  ASSUME NEW S, NEW T, IsFiniteSet(S), IsFiniteSet(T), S \cap T = {}
  PROVE  /\ IsFiniteSet(S \cup T)
         /\ Cardinality(S \cup T) = Cardinality(S) + Cardinality(T)
<1>1. Cardinality(S) \in Nat /\ Cardinality(T) \in Nat /\ Cardinality(S \cap T) = 0
  BY FS_CardinalityType, FS_EmptySet
<1>2. /\ IsFiniteSet(S \cup T)
      /\ Cardinality(S \cup T) = Cardinality(S) + Cardinality(T) - Cardinality(S \cap T)
  BY FS_Union
<1> QED BY <1>1, <1>2

LEMMA ValidFinite ==
  ASSUME Kept
  PROVE  /\ IsFiniteSet(Valid)
         /\ Cardinality(Valid) \in Nat
         /\ Cardinality(Valid) <= Cardinality(requestTimings)
BY FS_Subset, FS_CardinalityType DEF Kept, Valid

LEMMA SameCardinality == ASSUME NEW S PROVE Log!Cardinality(S) = Cardinality(S)
BY Zenon DEF Log!Cardinality, Cardinality

\* The filter of the list finds what the whole log has in the window.
LEMMA ValidIsInWindow ==
  ASSUME SlidingTypes, DroppedIsOld
  PROVE  Valid = Log!InWindow
<1>1. \A i \in DOMAIN admitted : admitted[i] \in Int /\ now - WindowSize \in Int
  BY ClockAssumption, SlidingAssumption DEF SlidingTypes, Times
<1> QED BY <1>1 DEF Valid, Log!InWindow, SlidingTypes, DroppedIsOld

LEMMA AllowIsAllowOne ==
  ASSUME Kept, SlidingAllow
  PROVE  Answered(1, Cardinality(Valid) + 1 <= MaxRequests)
<1>1. (Cardinality(Valid) < MaxRequests) = (Cardinality(Valid) + 1 <= MaxRequests)
  BY ValidFinite, SlidingAssumption
<1> QED BY <1>1 DEF SlidingAllow

LEMMA ExtendedLog ==
  ASSUME SlidingTypes, NEW n \in Int, Extend(n)
  PROVE  /\ admitted' \in Seq(Times)
         /\ DOMAIN admitted = 1..Len(admitted)
         /\ DOMAIN admitted' = DOMAIN admitted \cup (Len(admitted) + 1)..(Len(admitted) + n)
         /\ \A i \in DOMAIN admitted : admitted'[i] = admitted[i]
         /\ \A i \in (Len(admitted) + 1)..(Len(admitted) + n) : admitted'[i] = now
         /\ Len(admitted) \in Nat
<1> DEFINE m == IF n >= 0 THEN n ELSE 0
<1> DEFINE new == [i \in 1..m |-> now]
<1>1. m \in Nat /\ 1..n = 1..m
      /\ \A k \in Nat : (k + 1)..(k + n) = (k + 1)..(k + m)
  OBVIOUS
<1>2. Len(admitted) \in Nat /\ DOMAIN admitted = 1..Len(admitted)
  BY DEF SlidingTypes
<1>3. admitted' = admitted \o new
  BY <1>1 DEF Extend
<1> HIDE DEF m
<1>4. new \in Seq(Times) /\ Len(new) = m /\ \A i \in 1..m : new[i] = now
  BY <1>1 DEF SlidingTypes
<1> HIDE DEF new
<1>5. /\ admitted' \in Seq(Times)
      /\ Len(admitted') = Len(admitted) + m
      /\ \A i \in 1..(Len(admitted) + m) :
            admitted'[i] = IF i <= Len(admitted) THEN admitted[i] ELSE new[i - Len(admitted)]
  <2>1. admitted \in Seq(Times)
    BY DEF SlidingTypes
  <2> QED BY <1>3, <1>4, <2>1, ConcatProperties, Zenon
<1>6. DOMAIN admitted' = 1..(Len(admitted) + m)
  BY <1>5
<1>7. \A i \in 1..Len(admitted) : admitted'[i] = admitted[i]
  BY <1>1, <1>2, <1>5
<1>8. \A i \in (Len(admitted) + 1)..(Len(admitted) + m) : admitted'[i] = now
  BY <1>1, <1>2, <1>4, <1>5
<1> QED BY <1>1, <1>2, <1>5, <1>6, <1>7, <1>8

LEMMA SlidingInitInv == SlidingInit => SlidingInv
<1> SUFFICES ASSUME SlidingInit PROVE SlidingInv
  OBVIOUS
<1>1. admitted = <<>> /\ DOMAIN admitted = {}
  BY DEF SlidingInit
<1>2. SlidingTypes
  BY <1>1, ClockAssumption, SlidingAssumption DEF SlidingInit, SlidingTypes, Times
<1>3. Kept
  BY FS_EmptySet, SlidingAssumption DEF SlidingInit, Kept
<1> QED BY <1>1, <1>2, <1>3 DEF SlidingInv, Sorted, DroppedIsOld, WindowBound, Log!WindowBound

\* The admissions of the window end the log: whoever is MaxRequests further
\* on would have been one too many.
LEMMA AppendedInTime ==
  ASSUME SlidingInv, NEW n \in Int, Cardinality(Valid) + n <= MaxRequests, Extend(n)
  PROVE  WindowBound'
<1>1. /\ Len(admitted) \in Nat
      /\ DOMAIN admitted = 1..Len(admitted)
      /\ DOMAIN admitted' = 1..Len(admitted) \cup (Len(admitted) + 1)..(Len(admitted) + n)
      /\ \A i \in 1..Len(admitted) : admitted'[i] = admitted[i] /\ admitted[i] \in Int
      /\ \A i \in (Len(admitted) + 1)..(Len(admitted) + n) : admitted'[i] = now
      /\ now \in Int
  <2>1. SlidingTypes
    BY DEF SlidingInv
  <2>2. now \in Int
    BY <2>1 DEF SlidingTypes, Times
  <2> QED BY <2>1, <2>2, ExtendedLog, LoggedTimes
<1>2. Cardinality(Valid) \in Nat
  BY ValidFinite DEF SlidingInv
<1> SUFFICES ASSUME NEW i \in DOMAIN admitted', NEW j \in DOMAIN admitted', j = i + MaxRequests
             PROVE  admitted'[j] - admitted'[i] >= WindowSize
  BY DEF WindowBound, Log!WindowBound
<1>3. CASE j \in 1..Len(admitted)
  <2>1. i \in 1..Len(admitted)
    BY <1>1, <1>3, SlidingAssumption
  <2> QED BY <1>1, <1>3, <2>1 DEF SlidingInv, WindowBound, Log!WindowBound
<1>4. CASE j \in (Len(admitted) + 1)..(Len(admitted) + n)
  <2>1. i \in 1..Len(admitted)
    BY <1>1, <1>2, <1>4, SlidingAssumption
  <2>2. SUFFICES ASSUME admitted[i] > now - WindowSize PROVE FALSE
    BY <1>1, <1>4, <2>1, SlidingAssumption
  <2>3. i..Len(admitted) \in SUBSET Valid
    <3> SUFFICES ASSUME NEW k \in i..Len(admitted) PROVE k \in Valid
      OBVIOUS
    <3>1. k \in 1..Len(admitted) /\ i <= k
      BY <1>1, <2>1
    <3>2. Sorted /\ DroppedIsOld
      BY DEF SlidingInv
    <3>3. admitted[i] <= admitted[k]
      BY ONLY <1>1, <2>1, <3>1, <3>2 DEF Sorted
    <3>4. admitted[k] > now - WindowSize
      BY ONLY <1>1, <2>1, <2>2, <3>1, <3>3, SlidingAssumption
    <3>5. ~(admitted[k] <= now - WindowSize)
      BY ONLY <1>1, <3>1, <3>4, SlidingAssumption
    <3>6. k \in requestTimings
      BY ONLY <1>1, <3>1, <3>2, <3>5 DEF DroppedIsOld
    <3> QED BY ONLY <3>4, <3>6 DEF Valid
  <2>4. Cardinality(i..Len(admitted)) = Len(admitted) - i + 1
    BY <1>1, <2>1, FS_Interval
  <2>5. Len(admitted) - i + 1 <= Cardinality(Valid)
    <3>1. IsFiniteSet(Valid)
      BY ValidFinite DEF SlidingInv
    <3>2. Cardinality(i..Len(admitted)) <= Cardinality(Valid)
      BY <2>3, <3>1, FS_Subset
    <3> QED BY <2>4, <3>2
  <2> QED BY <1>1, <1>2, <1>4, <2>1, <2>5, SlidingAssumption
<1> QED BY <1>1, <1>3, <1>4

LEMMA AnsweredKeepsInv ==
  ASSUME SlidingInv, NEW n \in Int, Answered(n, Cardinality(Valid) + n <= MaxRequests)
  PROVE  SlidingInv'
<1>1. /\ now' = now /\ now \in Int /\ remaining' = remaining
      /\ allowed' = (Cardinality(Valid) + n <= MaxRequests)
      /\ Valid \subseteq requestTimings /\ requestTimings \subseteq DOMAIN admitted
  BY DEF SlidingInv, SlidingTypes, Answered, Valid, Times
<1>2. \A i \in DOMAIN admitted : admitted[i] \in Int
  BY LoggedTimes DEF SlidingInv
<1>3. \A i \in DOMAIN admitted : i \notin Valid => admitted[i] <= now - WindowSize
  BY <1>1, <1>2, SlidingAssumption DEF Valid, SlidingInv, DroppedIsOld
<1>4. IsFiniteSet(Valid) /\ Cardinality(Valid) \in Nat /\ Cardinality(Valid) <= MaxRequests
  BY ValidFinite, FS_CardinalityType, SlidingAssumption DEF SlidingInv, Kept
<1>5. CASE ~(Cardinality(Valid) + n <= MaxRequests)
  <2>1. requestTimings' = Valid /\ admitted' = admitted
    BY <1>5 DEF Answered
  <2>2. SlidingTypes'
    BY <1>1, <2>1 DEF SlidingInv, SlidingTypes
  <2> QED BY <1>1, <1>3, <1>4, <2>1, <2>2
          DEF SlidingInv, Kept, Sorted, DroppedIsOld, WindowBound, Log!WindowBound
<1>6. CASE Cardinality(Valid) + n <= MaxRequests
  <2> DEFINE new == (Len(admitted) + 1)..(Len(admitted) + n)
  <2>1. Extend(n)
    BY <1>6 DEF Answered
  <2>2. /\ admitted' \in Seq(Times)
        /\ Len(admitted) \in Nat
        /\ DOMAIN admitted = 1..Len(admitted)
        /\ DOMAIN admitted' = DOMAIN admitted \cup new
        /\ \A i \in DOMAIN admitted : admitted'[i] = admitted[i]
        /\ \A i \in new : admitted'[i] = now
    BY <2>1, ExtendedLog DEF SlidingInv
  <2>3. requestTimings' = Valid \cup new
    BY <2>1 DEF Extend
  <2>4. SlidingTypes'
    BY <1>1, <2>2, <2>3 DEF SlidingInv, SlidingTypes
  <2>5. Kept'
    <3>1. IsFiniteSet(new) /\ Cardinality(new) = IF n >= 0 THEN n ELSE 0
      BY <2>2, PositionsAfter
    <3>2. Valid \cap new = {}
      BY <1>1, <2>2
    <3> HIDE DEF new
    <3>4. /\ IsFiniteSet(Valid \cup new)
          /\ Cardinality(Valid \cup new) = Cardinality(Valid) + Cardinality(new)
      BY <1>4, <3>1, <3>2, DisjointUnion
    <3>5. Cardinality(new) \in Nat /\ Cardinality(Valid) + Cardinality(new) <= MaxRequests
      BY <1>4, <1>6, <3>1, SlidingAssumption
    <3>6. Cardinality(Valid \cup new) <= MaxRequests
      BY <1>4, <3>4, <3>5
    <3> QED BY <2>3, <3>4, <3>6 DEF Kept
  <2>6. Sorted'
    BY <1>1, <1>2, <2>2 DEF SlidingInv, Sorted
  <2>7. DroppedIsOld'
    BY <1>1, <1>3, <2>2, <2>3 DEF DroppedIsOld
  <2> QED BY <1>6, <2>1, <2>4, <2>5, <2>6, <2>7, AppendedInTime DEF SlidingInv
<1> QED BY <1>5, <1>6

LEMMA SlidingStepInv ==
  ASSUME SlidingInv, [SlidingNext]_<<now, slidingVars>>
  PROVE  SlidingInv'
<1>1. CASE Tick /\ UNCHANGED slidingVars
  <2>1. now' = now + 1 /\ now' \in Times /\ now \in Int
    BY <1>1, ClockAssumption DEF Tick, Times, SlidingInv, SlidingTypes
  <2>2. \A i \in DOMAIN admitted : admitted[i] \in Int
    BY LoggedTimes DEF SlidingInv
  <2> QED BY <1>1, <2>1, <2>2, SlidingAssumption
          DEF slidingVars, SlidingInv, SlidingTypes, Kept, Sorted, DroppedIsOld, WindowBound,
              Log!WindowBound
<1>2. CASE SlidingAllow
  BY <1>2, AllowIsAllowOne, AnsweredKeepsInv DEF SlidingInv
<1>3. ASSUME NEW n \in Batches, SlidingAllowN(n) PROVE SlidingInv'
  BY <1>3, AnsweredKeepsInv, SlidingAssumption DEF SlidingAllowN
<1>4. CASE GetRemainingRequests
  <2>1. MaxRequests - Cardinality(Valid) \in 0..MaxRequests
    BY ValidFinite, FS_CardinalityType, SlidingAssumption DEF SlidingInv, Kept
  <2> QED BY <1>4, <2>1
          DEF GetRemainingRequests, SlidingInv, SlidingTypes, Kept, Sorted, DroppedIsOld,
              WindowBound, Log!WindowBound
<1>5. CASE SlidingReset
  <2>1. DOMAIN admitted' = {} /\ admitted' = <<>> /\ requestTimings' = {}
    BY <1>5 DEF SlidingReset
  <2>2. SlidingTypes'
    BY <1>5, <2>1 DEF SlidingReset, SlidingInv, SlidingTypes
  <2>3. Kept'
    BY <2>1, FS_EmptySet, SlidingAssumption DEF Kept
  <2> QED BY <2>1, <2>2, <2>3 DEF SlidingInv, Sorted, DroppedIsOld, WindowBound, Log!WindowBound
<1>6. CASE UNCHANGED <<now, slidingVars>>
  BY <1>6 DEF slidingVars, SlidingInv, SlidingTypes, Kept, Sorted, DroppedIsOld, WindowBound,
              Log!WindowBound
<1> QED BY <1>1, <1>2, <1>3, <1>4, <1>5, <1>6 DEF SlidingNext

LEMMA SlidingInvariant == SlidingSpec => []SlidingInv
BY SlidingInitInv, SlidingStepInv, PTL DEF SlidingSpec

\* At most MaxRequests timings are kept and the remaining requests are never
\* negative (limiter.go:41-42, 94), for every limit and window.
THEOREM SlidingTypeCorrect == SlidingSpec => []SlidingTypeOK
<1>1. SlidingInv => SlidingTypeOK
  BY DEF SlidingInv, SlidingTypes, Kept, SlidingTypeOK
<1> QED BY <1>1, SlidingInvariant, PTL

\* Every window, wherever it lies, has at most MaxRequests admissions, for any
\* mix of calls (limiter.go:41, 66).
THEOREM SlidingWindowBound == SlidingSpec => []WindowBound
<1>1. SlidingInv => WindowBound
  BY DEF SlidingInv
<1> QED BY <1>1, SlidingInvariant, PTL

\* The limiter answers as if it had never dropped a timing.
THEOREM SlidingImplementsLog == SlidingSpec => SlidingLogSpec
<1>1. SlidingInit => Log!LogInit
  BY DEF SlidingInit, Log!LogInit
<1>2. ASSUME SlidingInv, NEW n \in Batches \cup {1},
             Answered(n, Cardinality(Valid) + n <= MaxRequests)
      PROVE  Log!Ask(n)
  <2>1. Valid = Log!InWindow
    BY <1>2, ValidIsInWindow DEF SlidingInv
  <2> QED BY <1>2, <2>1, SameCardinality DEF Answered, Extend, Log!Ask, Log!Admit
<1>3. ASSUME SlidingInv, [SlidingNext]_<<now, slidingVars>>
      PROVE  [Log!LogNext]_Log!logVars
  <2>1. CASE Tick /\ UNCHANGED slidingVars
    BY <2>1 DEF slidingVars, Log!LogNext, Log!Tick, Tick
  <2>2. CASE SlidingAllow
    BY <1>2, <1>3, <2>2, AllowIsAllowOne DEF Log!LogNext, SlidingInv
  <2>3. ASSUME NEW n \in Batches, SlidingAllowN(n) PROVE Log!LogNext
    BY <1>2, <1>3, <2>3 DEF Log!LogNext, SlidingAllowN
  <2>4. CASE GetRemainingRequests
    BY <1>3, <2>4, ValidIsInWindow, SameCardinality
       DEF GetRemainingRequests, SlidingInv, Log!AskRemaining, Log!LogNext
  <2>5. CASE SlidingReset
    BY <2>5 DEF SlidingReset, Log!Forget, Log!LogNext
  <2>6. CASE UNCHANGED <<now, slidingVars>>
    BY <2>6 DEF slidingVars, Log!logVars
  <2> QED BY <1>3, <2>1, <2>2, <2>3, <2>4, <2>5, <2>6 DEF SlidingNext
<1> QED BY <1>1, <1>3, SlidingInvariant, PTL DEF SlidingSpec, SlidingLogSpec, Log!LogSpec

-----------------------------------------------------------------------------
(* The token bucket.                                                       *)

BucketTypes ==
  /\ now \in Times /\ since \in Times
  /\ lastRefillTime \in since..now
  /\ tokensAvailable \in 0..Capacity
  /\ taken \in BOOLEAN
  /\ spent \in [Times -> Nat]

\* The level that flows in until u and is not spent, if the bucket was full at t.
Most(t, u) == Capacity + RefillRate * (u - t) - spent[t]

LevelSoFar ==
  /\ \A t \in since..lastRefillTime : tokensAvailable <= Most(t, lastRefillTime)
  /\ \E t \in since..lastRefillTime : tokensAvailable = Most(t, lastRefillTime)

NothingSpentYet == \A t \in Times : t > lastRefillTime => spent[t] = 0

BucketInv == BucketTypes /\ LevelSoFar /\ NothingSpentYet

LEMMA InflowAdds ==
  ASSUME NEW r \in Nat, NEW t \in Nat, NEW u \in Nat, NEW v \in Nat, t <= u, u <= v
  PROVE  /\ r * (v - t) = r * (u - t) + (v - u) * r
         /\ r * (v - t) \in Nat /\ r * (u - t) \in Nat /\ (v - u) * r \in Nat
<1>1. (v - t) \in Nat /\ (u - t) \in Nat /\ (v - u) \in Nat /\ v - t = (u - t) + (v - u)
  OBVIOUS
<1>2. \A a, b \in Nat : r * (a + b) = r * a + b * r /\ r * a \in Nat /\ a * r \in Nat
  OBVIOUS
<1> QED BY <1>1, <1>2

LEMMA BucketNumbers ==
  ASSUME BucketTypes
  PROVE  /\ now \in Nat /\ since \in Nat /\ lastRefillTime \in Nat /\ tokensAvailable \in Nat
         /\ since <= lastRefillTime /\ lastRefillTime <= now /\ tokensAvailable <= Capacity
         /\ Capacity \in Nat /\ RefillRate \in Nat
         /\ \A t \in since..now : t \in Times /\ t \in Nat /\ spent[t] \in Nat
BY BucketAssumption, ClockAssumption DEF BucketTypes, Times

LEMMA RefilledIsExact ==
  ASSUME BucketInv
  PROVE  Refilled \in 0..Capacity /\ LevelExact
<1> DEFINE inflow == (now - lastRefillTime) * RefillRate
<1>1. /\ now \in Nat /\ since \in Nat /\ lastRefillTime \in Nat /\ tokensAvailable \in Nat
      /\ since <= lastRefillTime /\ lastRefillTime <= now /\ tokensAvailable <= Capacity
      /\ Capacity \in Nat /\ RefillRate \in Nat
      /\ \A t \in since..now : t \in Times /\ t \in Nat /\ spent[t] \in Nat
  BY BucketNumbers DEF BucketInv
<1>2. inflow \in Nat
  BY <1>1, InflowAdds
<1>3. Refilled = IF Capacity < tokensAvailable + inflow THEN Capacity ELSE tokensAvailable + inflow
  BY DEF Refilled, Smaller
<1> HIDE DEF inflow
<1>4. Refilled \in 0..Capacity
  BY <1>1, <1>2, <1>3
<1>5. ASSUME NEW t \in since..lastRefillTime
      PROVE  Most(t, now) = Most(t, lastRefillTime) + inflow /\ Most(t, now) \in Int
  <2>1. /\ RefillRate * (now - t) = RefillRate * (lastRefillTime - t) + inflow
        /\ RefillRate * (lastRefillTime - t) \in Nat
    BY <1>1, InflowAdds DEF inflow
  <2>2. spent[t] \in Nat
    BY <1>1
  <2> QED BY <1>1, <1>2, <2>1, <2>2 DEF Most
<1>6. ASSUME NEW t \in since..now, t > lastRefillTime PROVE Most(t, now) >= Capacity
  <2>1. spent[t] = 0
    BY <1>1, <1>6 DEF BucketInv, NothingSpentYet
  <2>2. RefillRate * (now - t) \in Nat
    BY <1>1, <1>6, InflowAdds
  <2> QED BY <1>1, <2>1, <2>2 DEF Most
<1>7. ASSUME NEW t \in since..now PROVE Refilled <= Most(t, now)
  <2>1. CASE t <= lastRefillTime
    <3>1. t \in since..lastRefillTime
      BY <1>1, <2>1
    <3>2. tokensAvailable <= Most(t, lastRefillTime) /\ Most(t, lastRefillTime) \in Int
      <4>1. RefillRate * (lastRefillTime - t) \in Nat /\ spent[t] \in Nat
        BY <1>1, <2>1, InflowAdds
      <4> QED BY <1>1, <3>1, <4>1 DEF BucketInv, LevelSoFar, Most
    <3> QED BY <1>1, <1>2, <1>3, <1>5, <3>1, <3>2
  <2>2. CASE t > lastRefillTime
    <3>1. Most(t, now) \in Int
      <4>1. RefillRate * (now - t) \in Nat /\ spent[t] \in Nat
        BY <1>1, <2>2, InflowAdds
      <4> QED BY <1>1, <4>1 DEF Most
    <3> QED BY <1>1, <1>4, <1>6, <2>2, <3>1
  <2> QED BY <1>1, <2>1, <2>2
<1>8. \E t \in since..now : Refilled = Most(t, now)
  <2>1. CASE Capacity < tokensAvailable + inflow
    <3>1. lastRefillTime < now
      <4>1. SUFFICES ASSUME now = lastRefillTime PROVE FALSE
        BY <1>1
      <4>2. inflow = 0
        BY <1>1, <4>1 DEF inflow
      <4> QED BY <1>1, <2>1, <4>2
    <3>2. now \in since..now /\ now \in Times /\ spent[now] = 0
      BY <1>1, <3>1 DEF BucketInv, NothingSpentYet, BucketTypes
    <3>3. Most(now, now) = Capacity
      BY <1>1, <3>2 DEF Most
    <3> QED BY <1>3, <2>1, <3>2, <3>3
  <2>2. CASE ~(Capacity < tokensAvailable + inflow)
    <3>1. PICK t \in since..lastRefillTime : tokensAvailable = Most(t, lastRefillTime)
      BY DEF BucketInv, LevelSoFar
    <3>2. Refilled = Most(t, now)
      BY <1>3, <1>5, <2>2, <3>1
    <3>3. t \in since..now
      BY <1>1
    <3> QED BY <3>2, <3>3
  <2> QED BY <2>1, <2>2
<1> QED BY <1>4, <1>7, <1>8 DEF LevelExact, Most

LEMMA BucketInitInv == BucketInit => BucketInv
<1> SUFFICES ASSUME BucketInit PROVE BucketInv
  OBVIOUS
<1>1. BucketTypes
  BY ClockAssumption, BucketAssumption DEF BucketInit, BucketTypes, Times
<1>2. since..lastRefillTime = {0} /\ 0 \in Times
  BY ClockAssumption DEF BucketInit, Times
<1>3. Most(0, lastRefillTime) = Capacity
  BY <1>2, BucketAssumption DEF BucketInit, Most
<1>4. LevelSoFar
  BY <1>2, <1>3, BucketAssumption DEF BucketInit, LevelSoFar
<1> QED BY <1>1, <1>4 DEF BucketInv, NothingSpentYet, BucketInit

LEMMA BucketAllowInv ==
  ASSUME BucketInv, NEW n \in Amounts, BucketAllow(n)
  PROVE  BucketInv'
<1>1. /\ now \in Nat /\ since \in Nat /\ lastRefillTime \in Nat
      /\ since <= now /\ lastRefillTime <= now
      /\ Capacity \in Nat /\ RefillRate \in Nat
      /\ \A t \in since..now : t \in Times /\ t \in Nat /\ spent[t] \in Nat
  BY BucketNumbers DEF BucketInv
<1>2. Refilled \in 0..Capacity /\ LevelExact /\ n \in Nat
  BY RefilledIsExact, BucketAssumption
<1>3. now' = now /\ since' = since /\ lastRefillTime' = now /\ taken' \in BOOLEAN
  BY DEF BucketAllow
<1>4. \A t \in since..now : RefillRate * (now - t) \in Nat
  BY <1>1, InflowAdds
<1>5. \E m \in Nat : /\ tokensAvailable' = Refilled - m
                     /\ Refilled >= m
                     /\ spent' = [t \in Times |-> spent[t] + IF t <= now THEN m ELSE 0]
  <2>1. CASE Refilled >= n
    BY <1>2, <2>1 DEF BucketAllow, Spend
  <2>2. CASE ~(Refilled >= n)
    <3>1. spent = [t \in Times |-> spent[t] + IF t <= now THEN 0 ELSE 0]
      BY DEF BucketInv, BucketTypes
    <3>2. tokensAvailable' = Refilled - 0 /\ Refilled >= 0 /\ spent' = spent
      BY <1>2, <2>2 DEF BucketAllow
    <3> QED BY <3>1, <3>2
  <2> QED BY <2>1, <2>2
<1>6. PICK m \in Nat : /\ tokensAvailable' = Refilled - m
                      /\ Refilled >= m
                      /\ spent' = [t \in Times |-> spent[t] + IF t <= now THEN m ELSE 0]
  BY <1>5
<1>7. \A t \in since..now : spent'[t] = spent[t] + m
  BY <1>1, <1>6
<1>8. BucketTypes'
  BY <1>1, <1>2, <1>3, <1>6 DEF BucketInv, BucketTypes
<1>9. LevelSoFar'
  <2>1. \A t \in since..now : Most(t, now)' = Most(t, now) - m /\ Most(t, now) \in Int
    BY <1>1, <1>3, <1>4, <1>7 DEF Most
  <2>2. \A t \in since..now : Refilled <= Most(t, now)
    BY <1>2 DEF LevelExact, Most
  <2>3. \E t \in since..now : Refilled = Most(t, now)
    BY <1>2 DEF LevelExact, Most
  <2> QED BY <1>2, <1>3, <1>6, <2>1, <2>2, <2>3 DEF LevelSoFar
<1>10. NothingSpentYet'
  BY <1>1, <1>3, <1>6 DEF BucketInv, NothingSpentYet, Times
<1> QED BY <1>8, <1>9, <1>10 DEF BucketInv

LEMMA BucketResetInv ==
  ASSUME BucketInv, BucketReset
  PROVE  BucketInv'
<1>1. now \in Times /\ now \in Nat /\ Capacity \in Nat /\ RefillRate \in Nat
  BY BucketNumbers DEF BucketInv, BucketTypes
<1>2. /\ now' = now /\ since' = now /\ lastRefillTime' = now /\ tokensAvailable' = Capacity
      /\ spent' = [t \in Times |-> 0] /\ taken' = taken
  BY DEF BucketReset
<1>3. BucketTypes'
  BY <1>1, <1>2 DEF BucketInv, BucketTypes
<1>4. since'..lastRefillTime' = {now}
  BY <1>1, <1>2
<1>5. Most(now, now)' = Capacity
  BY <1>1, <1>2 DEF Most
<1>6. LevelSoFar'
  BY <1>1, <1>2, <1>4, <1>5 DEF LevelSoFar
<1> QED BY <1>2, <1>3, <1>6 DEF BucketInv, NothingSpentYet

LEMMA GetAvailableTokensInv ==
  ASSUME BucketInv, GetAvailableTokens
  PROVE  BucketInv'
<1>1. /\ now' = now /\ since' = since /\ lastRefillTime' = now /\ tokensAvailable' = Refilled
      /\ spent' = spent /\ taken' = taken
  BY DEF GetAvailableTokens
<1>2. Refilled \in 0..Capacity /\ LevelExact
  BY RefilledIsExact
<1>3. BucketTypes'
  BY <1>1, <1>2, BucketNumbers DEF BucketInv, BucketTypes
<1>4. LevelSoFar'
  BY <1>1, <1>2 DEF LevelExact, LevelSoFar, Most
<1>5. NothingSpentYet'
  BY <1>1, BucketNumbers DEF BucketInv, NothingSpentYet, Times
<1> QED BY <1>3, <1>4, <1>5 DEF BucketInv

LEMMA BucketStepInv ==
  ASSUME BucketInv, [BucketNext]_<<now, bucketVars>>
  PROVE  BucketInv'
<1>1. CASE Tick /\ UNCHANGED bucketVars
  <2>1. now' \in Times /\ now' = now + 1
    BY <1>1, BucketNumbers, ClockAssumption DEF Tick, Times, BucketInv
  <2> QED BY <1>1, <2>1, BucketNumbers
          DEF bucketVars, BucketInv, BucketTypes, LevelSoFar, NothingSpentYet, Most
<1>2. ASSUME NEW n \in Amounts, BucketAllow(n) PROVE BucketInv'
  BY <1>2, BucketAllowInv
<1>3. CASE GetAvailableTokens
  BY <1>3, GetAvailableTokensInv
<1>4. CASE BucketReset
  BY <1>4, BucketResetInv
<1>5. CASE UNCHANGED <<now, bucketVars>>
  BY <1>5 DEF bucketVars, BucketInv, BucketTypes, LevelSoFar, NothingSpentYet, Most
<1> QED BY <1>1, <1>2, <1>3, <1>4, <1>5 DEF BucketNext

LEMMA BucketInvariant == BucketSpec => []BucketInv
BY BucketInitInv, BucketStepInv, PTL DEF BucketSpec

\* The level stays between nothing and the capacity (limiter.go:32-33, 52).
THEOREM BucketTypeCorrect == BucketSpec => []BucketTypeOK
<1>1. BucketInv => BucketTypeOK
  BY DEF BucketInv, BucketTypes, BucketTypeOK
<1> QED BY <1>1, BucketInvariant, PTL

\* The level is the closed form over the history, whatever the calls: a
\* refill at every call loses and gains nothing (limiter.go:46-53).
THEOREM BucketLevelExact == BucketSpec => []LevelExact
<1>1. BucketInv => LevelExact
  BY RefilledIsExact
<1> QED BY <1>1, BucketInvariant, PTL

\* From any moment on, no more is spent than a full bucket and the inflow.
THEOREM BucketSpendBound == BucketSpec => []SpendBound
<1>1. ASSUME BucketInv PROVE SpendBound
  <2>1. Refilled \in 0..Capacity /\ LevelExact
    BY <1>1, RefilledIsExact
  <2>2. \A t \in since..now : /\ spent[t] \in Nat /\ Capacity \in Nat
                             /\ RefillRate * (now - t) \in Nat
    BY <1>1, BucketNumbers, InflowAdds DEF BucketInv
  <2> QED BY <2>1, <2>2 DEF LevelExact, SpendBound
<1> QED BY <1>1, BucketInvariant, PTL

-----------------------------------------------------------------------------
(* A tick is due when the clock is a multiple of the period.  LastDue is   *)
(* the latest such moment.                                                 *)

LEMMA ModRange ==
  ASSUME NEW n \in Nat, NEW p \in Nat \ {0}
  PROVE  n % p \in 0..(p - 1) /\ n \div p \in Int
OBVIOUS

LEMMA ModIsRest ==
  ASSUME NEW n \in Nat, NEW p \in Nat \ {0}
  PROVE  n = (p * (n \div p)) + (n % p)
OBVIOUS

LEMMA RestIsUnique ==
  ASSUME NEW p \in Nat \ {0}, NEW q \in Int, NEW s \in Int,
         NEW r \in 0..(p - 1), NEW t \in 0..(p - 1), (p * q) + r = (p * s) + t
  PROVE  r = t
OBVIOUS

LEMMA NextMod ==
  ASSUME NEW n \in Nat, NEW p \in Nat \ {0}
  PROVE  (n + 1) % p = IF n % p = p - 1 THEN 0 ELSE (n % p) + 1
<1> DEFINE q == n \div p
           s == (n + 1) \div p
           r == n % p
           t == (n + 1) % p
<1>1. q \in Int /\ s \in Int /\ r \in 0..(p - 1) /\ t \in 0..(p - 1)
  BY ModRange
<1>2. n = (p * q) + r /\ n + 1 = (p * s) + t
  BY ModIsRest
<1> HIDE DEF q, s, r, t
<1>3. CASE r = p - 1
  <2>1. p * (q + 1) = (p * q) + p
    BY <1>1
  <2>2. (p * (q + 1)) + 0 = (p * s) + t
    BY <1>1, <1>2, <1>3, <2>1
  <2>3. 0 \in 0..(p - 1) /\ q + 1 \in Int
    BY <1>1
  <2>4. t = 0
    BY <1>1, <2>2, <2>3, RestIsUnique
  <2> QED BY <1>3, <2>4 DEF r, t
<1>4. CASE r # p - 1
  <2>1. r + 1 \in 0..(p - 1)
    BY <1>1, <1>4
  <2>2. (p * q) + (r + 1) = (p * s) + t
    BY <1>1, <1>2
  <2>3. t = r + 1
    BY <1>1, <2>1, <2>2, RestIsUnique
  <2> QED BY <1>4, <2>3 DEF r, t
<1> QED BY <1>3, <1>4

LastDue(period) == now - (now % period)

LEMMA LastDueRange ==
  ASSUME now \in Nat, NEW p \in Nat \ {0}
  PROVE  LastDue(p) \in Nat /\ LastDue(p) <= now /\ now < LastDue(p) + p
BY ModRange DEF LastDue

\* A step of the clock into an empty channel puts a tick into it when the next
\* moment is due, one period after the last, and else nothing is due.
LEMMA ClockStep ==
  ASSUME now \in Nat, NEW p \in Nat \ {0}, now' = now + 1
  PROVE  /\ now' % p = 0 => now' = LastDue(p) + p /\ LastDue(p)' = now'
         /\ now' % p # 0 => LastDue(p)' = LastDue(p)
<1>1. now' % p = IF now % p = p - 1 THEN 0 ELSE (now % p) + 1
  BY NextMod
<1>2. now % p \in 0..(p - 1)
  BY ModRange
<1> QED BY <1>1, <1>2 DEF LastDue

-----------------------------------------------------------------------------
(* The fixed window.                                                       *)

\* How many of a key's requests were let through before the last cleanup.
Before(k) == Len(passed[k]) - requests[k]

FixedTypes ==
  /\ now \in Times
  /\ requests \in [Keys -> 0..Limit]
  /\ ticked \in Times \cup {-1}
  /\ passed \in [Keys -> Seq(Times)]

\* The last cleanup was at most MaxLag after its tick.
LatestCleanup == MaxLag + IF ticked = -1 THEN LastDue(Window) ELSE ticked - Window

PeriodsApart ==
  /\ ticked <= LastDue(Window) /\ (ticked # -1 => now - ticked <= MaxLag)
  /\ \A k \in Keys :
        /\ Before(k) >= 0
        /\ \A i \in DOMAIN passed[k] :
              /\ passed[k][i] <= now
              /\ i <= Before(k) => passed[k][i] <= LatestCleanup
              /\ i <= Before(k) - Limit => passed[k][i] <= now - (Window - MaxLag)

FixedInv == FixedTypes /\ PeriodsApart /\ TwiceTheLimit

LEMMA PassedTypes ==
  ASSUME FixedTypes, NEW k \in Keys
  PROVE  /\ Len(passed[k]) \in Nat /\ DOMAIN passed[k] = 1..Len(passed[k])
         /\ requests[k] \in Nat /\ requests[k] <= Limit /\ Before(k) \in Int
         /\ \A i \in DOMAIN passed[k] : passed[k][i] \in Nat
<1>1. passed[k] \in Seq(Times) /\ requests[k] \in 0..Limit /\ Times \subseteq Nat
  BY ClockAssumption DEF FixedTypes, Times
<1>2. Len(passed[k]) \in Nat /\ DOMAIN passed[k] = 1..Len(passed[k])
  BY <1>1, LenProperties
<1>3. \A i \in DOMAIN passed[k] : passed[k][i] \in Times
  BY <1>1, <1>2, ElementOfSeq
<1>4. requests[k] \in Nat /\ requests[k] <= Limit
  BY <1>1, FixedAssumption
<1>5. Before(k) \in Int
  BY <1>2, <1>4 DEF Before
<1>6. \A i \in DOMAIN passed[k] : passed[k][i] \in Nat
  BY <1>1, <1>3
<1> QED BY <1>2, <1>4, <1>5, <1>6

LEMMA FixedInvInit == FixedInit => FixedInv
<1> SUFFICES ASSUME FixedInit PROVE FixedInv
  OBVIOUS
<1> USE FixedAssumption, ClockAssumption
<1>1. \A k \in Keys : passed[k] = <<>> /\ Len(passed[k]) = 0 /\ DOMAIN passed[k] = {} /\ requests[k] = 0
  BY DEF FixedInit
<1>2. FixedTypes
  BY DEF FixedInit, FixedTypes, Times
<1>3. LastDue(Window) \in Nat
  BY LastDueRange DEF FixedInit
<1>4. PeriodsApart
  BY <1>1, <1>3 DEF FixedInit, PeriodsApart, Before
<1>5. TwiceTheLimit
  BY <1>1 DEF TwiceTheLimit
<1> QED BY <1>2, <1>4, <1>5 DEF FixedInv

LEMMA TickKeepsFixed ==
  ASSUME FixedInv, FixedTick
  PROVE  FixedInv'
<1> USE FixedAssumption, ClockAssumption
<1>1. /\ now \in Nat /\ now' = now + 1 /\ now' \in Times /\ ticked \in Nat \cup {-1}
      /\ UNCHANGED <<requests, passed>>
      /\ ticked' = IF ticked = -1 /\ now' % Window = 0 THEN now' ELSE ticked
      /\ ticked # -1 => now - ticked < MaxLag
  BY DEF FixedInv, FixedTypes, FixedTick, Tick, TickerChannel, Times
<1>2. FixedTypes'
  BY <1>1 DEF FixedInv, FixedTypes
<1>3. TwiceTheLimit'
  BY <1>1 DEF FixedInv, TwiceTheLimit
<1>4. /\ LastDue(Window) \in Nat /\ LastDue(Window) <= now
      /\ now' % Window = 0 => now' = LastDue(Window) + Window /\ LastDue(Window)' = now'
      /\ now' % Window # 0 => LastDue(Window)' = LastDue(Window)
  BY <1>1, LastDueRange, ClockStep
<1>5. ticked' <= LastDue(Window)' /\ (ticked' # -1 => now' - ticked' <= MaxLag)
  BY <1>1, <1>4 DEF FixedInv, PeriodsApart
<1>6. LatestCleanup \in Int /\ LatestCleanup' \in Int /\ LatestCleanup <= LatestCleanup'
  BY <1>1, <1>4 DEF LatestCleanup
<1>7. ASSUME NEW k \in Keys, NEW i \in DOMAIN passed[k]
      PROVE  /\ passed[k][i] <= now'
             /\ i <= Before(k) => passed[k][i] <= LatestCleanup'
             /\ i <= Before(k) - Limit => passed[k][i] <= now' - (Window - MaxLag)
  <2>1. passed[k][i] \in Nat
    BY PassedTypes DEF FixedInv
  <2>2. /\ passed[k][i] <= now
        /\ i <= Before(k) => passed[k][i] <= LatestCleanup
        /\ i <= Before(k) - Limit => passed[k][i] <= now - (Window - MaxLag)
    BY DEF FixedInv, PeriodsApart
  <2> QED BY <1>1, <1>6, <2>1, <2>2
<1>8. PeriodsApart'
  BY <1>1, <1>5, <1>7 DEF FixedInv, PeriodsApart, Before
<1> QED BY <1>2, <1>3, <1>8 DEF FixedInv

LEMMA CleanupKeepsFixed ==
  ASSUME FixedInv, Cleanup
  PROVE  FixedInv'
<1> USE FixedAssumption, ClockAssumption
<1>1. /\ now \in Nat /\ UNCHANGED <<now, passed>> /\ ticked # -1 /\ ticked \in Nat /\ ticked' = -1
      /\ requests' = [k \in Keys |-> 0]
  BY DEF FixedInv, FixedTypes, Cleanup, Times
<1>2. FixedTypes'
  BY <1>1 DEF FixedInv, FixedTypes
<1>3. TwiceTheLimit'
  BY <1>1 DEF FixedInv, TwiceTheLimit
<1>4. /\ LastDue(Window)' = LastDue(Window) /\ LastDue(Window) \in Nat /\ LastDue(Window) <= now
      /\ ticked <= LastDue(Window) /\ now - ticked <= MaxLag
  BY <1>1, LastDueRange DEF LastDue, FixedInv, PeriodsApart
<1>5. LatestCleanup' = MaxLag + LastDue(Window) /\ LatestCleanup = MaxLag + (ticked - Window)
  BY <1>1, <1>4 DEF LatestCleanup
<1>6. ASSUME NEW k \in Keys
      PROVE  /\ Before(k)' >= 0
             /\ \A i \in DOMAIN passed[k] :
                   /\ passed[k][i] <= now
                   /\ i <= Before(k)' => passed[k][i] <= LatestCleanup'
                   /\ i <= Before(k)' - Limit => passed[k][i] <= now - (Window - MaxLag)
  <2>1. /\ Len(passed[k]) \in Nat /\ DOMAIN passed[k] = 1..Len(passed[k])
        /\ requests[k] \in Nat /\ requests[k] <= Limit
        /\ \A i \in DOMAIN passed[k] : passed[k][i] \in Nat
    BY PassedTypes DEF FixedInv
  <2>2. Before(k)' = Len(passed[k]) /\ Before(k) = Len(passed[k]) - requests[k]
    BY <1>1, <2>1 DEF Before
  <2>3. ASSUME NEW i \in DOMAIN passed[k]
        PROVE  /\ passed[k][i] <= now
               /\ i <= Before(k)' => passed[k][i] <= LatestCleanup'
               /\ i <= Before(k)' - Limit => passed[k][i] <= now - (Window - MaxLag)
    <3>1. passed[k][i] <= now /\ passed[k][i] \in Nat /\ i \in Nat
      BY <2>1 DEF FixedInv, PeriodsApart
    <3>2. i <= Before(k) => passed[k][i] <= LatestCleanup
      BY DEF FixedInv, PeriodsApart
    <3>3. i <= Before(k)' - Limit => i <= Before(k)
      BY <2>1, <2>2, <3>1
    <3> QED BY <1>1, <1>4, <1>5, <3>1, <3>2, <3>3
  <2> QED BY <2>1, <2>2, <2>3
<1>7. PeriodsApart'
  BY <1>1, <1>4, <1>6 DEF PeriodsApart
<1> QED BY <1>2, <1>3, <1>7 DEF FixedInv

LEMMA RequestKeepsFixed ==
  ASSUME FixedInv, NEW k \in Keys, Middleware(k)
  PROVE  FixedInv'
<1> USE FixedAssumption, ClockAssumption
<1> DEFINE n == Len(passed[k]) + 1
<1>1. /\ now \in Nat /\ now \in Times /\ UNCHANGED <<now, ticked>> /\ requests[k] < Limit
      /\ requests' = [requests EXCEPT ![k] = @ + 1]
      /\ passed' = [passed EXCEPT ![k] = Append(@, now)]
  BY DEF FixedInv, FixedTypes, Middleware, Times
<1>2. /\ Len(passed[k]) \in Nat /\ DOMAIN passed[k] = 1..Len(passed[k])
      /\ requests[k] \in Nat /\ requests[k] <= Limit
      /\ \A i \in DOMAIN passed[k] : passed[k][i] \in Nat
  BY PassedTypes DEF FixedInv
<1>3. /\ passed'[k] = Append(passed[k], now) /\ Append(passed[k], now) \in Seq(Times)
      /\ Len(passed'[k]) = n /\ DOMAIN passed'[k] = 1..n
      /\ passed'[k][n] = now /\ \A i \in DOMAIN passed[k] : passed'[k][i] = passed[k][i]
  BY <1>1, <1>2, AppendProperties DEF FixedInv, FixedTypes
<1>4. \A l \in Keys \ {k} : passed'[l] = passed[l] /\ requests'[l] = requests[l]
  BY <1>1 DEF FixedInv, FixedTypes
<1>5. requests'[k] = requests[k] + 1 /\ Before(k)' = Before(k) /\ Before(k) = Len(passed[k]) - requests[k]
  BY <1>1, <1>2, <1>3 DEF Before, FixedInv, FixedTypes
<1>6. FixedTypes'
  BY <1>1, <1>2, <1>3 DEF FixedInv, FixedTypes
<1>7. LatestCleanup' = LatestCleanup /\ LastDue(Window)' = LastDue(Window)
  BY <1>1 DEF LatestCleanup, LastDue
<1>8. ASSUME NEW l \in Keys
      PROVE  /\ Before(l)' >= 0
             /\ \A i \in DOMAIN passed'[l] :
                   /\ passed'[l][i] <= now
                   /\ i <= Before(l)' => passed'[l][i] <= LatestCleanup
                   /\ i <= Before(l)' - Limit => passed'[l][i] <= now - (Window - MaxLag)
  <2>1. CASE l = k
    <3>1. Before(k) >= 0
      BY DEF FixedInv, PeriodsApart
    <3>2. ASSUME NEW i \in DOMAIN passed'[k]
          PROVE  /\ passed'[k][i] <= now
                 /\ i <= Before(k) => passed'[k][i] <= LatestCleanup
                 /\ i <= Before(k) - Limit => passed'[k][i] <= now - (Window - MaxLag)
      <4>1. CASE i = n
        <5>1. ~(n <= Before(k)) /\ ~(n <= Before(k) - Limit)
          BY <1>2, <1>5
        <5> QED BY <1>1, <1>3, <4>1, <5>1
      <4>2. CASE i # n
        <5>1. i \in DOMAIN passed[k]
          BY <1>2, <1>3, <4>2
        <5> QED BY <1>3, <5>1 DEF FixedInv, PeriodsApart
      <4> QED BY <4>1, <4>2
    <3> QED BY <1>5, <2>1, <3>1, <3>2
  <2>2. CASE l # k
    <3>1. passed'[l] = passed[l] /\ Before(l)' = Before(l)
      BY <1>4, <2>2 DEF Before
    <3> QED BY <3>1 DEF FixedInv, PeriodsApart
  <2> QED BY <2>1, <2>2
<1>9. PeriodsApart'
  BY <1>1, <1>7, <1>8 DEF FixedInv, PeriodsApart
<1>10. ASSUME NEW l \in Keys, NEW i \in DOMAIN passed'[l], NEW j \in DOMAIN passed'[l], j = i + (2 * Limit)
       PROVE  passed'[l][j] - passed'[l][i] >= Window - MaxLag
  <2>1. CASE l = k /\ j = n
    <3>1. i \in Nat /\ i + (2 * Limit) = Len(passed[k]) + 1 /\ Limit > 0
      BY <1>1, <1>2, <1>3, <1>10, <2>1
    <3>2. i \in DOMAIN passed[k] /\ i <= Before(k) - Limit
      BY <1>1, <1>2, <1>3, <1>5, <1>10, <2>1, <3>1
    <3>3. passed[k][i] <= now - (Window - MaxLag) /\ passed[k][i] \in Nat
      BY <1>2, <3>2 DEF FixedInv, PeriodsApart
    <3> QED BY <1>1, <1>3, <2>1, <3>2, <3>3
  <2>2. CASE l = k /\ j # n
    <3>1. i \in 1..n /\ j \in 1..n /\ n = Len(passed[k]) + 1
      BY <1>3, <2>2
    <3>2. Limit \in Nat /\ i <= j /\ j <= Len(passed[k])
      BY <1>2, <1>10, <2>2, <3>1
    <3>3. i \in DOMAIN passed[k] /\ j \in DOMAIN passed[k]
      BY <1>2, <3>1, <3>2
    <3> QED BY <1>3, <1>10, <2>2, <3>3 DEF FixedInv, TwiceTheLimit
  <2>3. CASE l # k
    <3>1. passed'[l] = passed[l]
      BY <1>4, <2>3
    <3> QED BY <1>10, <3>1 DEF FixedInv, TwiceTheLimit
  <2> QED BY <2>1, <2>2, <2>3
<1>11. TwiceTheLimit'
  BY <1>10 DEF TwiceTheLimit
<1> QED BY <1>6, <1>9, <1>11 DEF FixedInv

LEMMA FixedInvStep == FixedInv /\ [FixedNext]_<<now, fixedVars>> => FixedInv'
<1> SUFFICES ASSUME FixedInv, [FixedNext]_<<now, fixedVars>> PROVE FixedInv'
  OBVIOUS
<1>1. CASE UNCHANGED <<now, fixedVars>>
  BY <1>1 DEF FixedInv, FixedTypes, PeriodsApart, TwiceTheLimit, LatestCleanup, LastDue, Before,
              fixedVars
<1> QED BY <1>1, TickKeepsFixed, CleanupKeepsFixed, RequestKeepsFixed DEF FixedNext

LEMMA FixedInvariant == FixedSpec => []FixedInv
BY FixedInvInit, FixedInvStep, PTL DEF FixedSpec

\* Counters stay within the limit, whatever the keys and however late the
\* goroutine is (ratelimit.go:32-43).
THEOREM FixedTypeCorrect == FixedSpec => []FixedTypeOK
<1>1. FixedInv => FixedTypeOK
  BY DEF FixedInv, FixedTypes, FixedTypeOK
<1> QED BY <1>1, FixedInvariant, PTL

\* Twice the limit takes a window, less the lag, for every limit, window and
\* lag (ratelimit.go:36-55).
THEOREM FixedAtMostTwice == FixedSpec => []TwiceTheLimit
BY FixedInvariant, PTL DEF FixedInv
=============================================================================
