------------------------- MODULE Libraries_proofs --------------------------
(***************************************************************************)
(* The response cache never shows its goroutine and keeps nothing for      *)
(* long; the metrics agree however many requests, codes and origins there  *)
(* are; lists of ASCII words come back from their column; and each library *)
(* keeps what is proved of it alone when they share the clock of a         *)
(* process.                                                                *)
(***************************************************************************)
EXTENDS MCLibraries, Balancers_proofs

(* The response cache.                                                     *)

Entry == [data : Bodies, expiresAt : Int]

CacheTypes ==
  /\ now \in Times
  /\ entries \in [CacheKeys -> Entry \cup {NoEntry}]
  /\ stored \in [CacheKeys -> Entry \cup {NoEntry}]
  /\ answer \in Bodies \cup {NoEntry}
  /\ cleanupTick \in Times \cup {-1}

\* What the goroutine has deleted had expired.
OnlyExpiredGone ==
  \A k \in CacheKeys : entries[k] = stored[k] \/ (entries[k] = NoEntry /\ Expired(stored[k]))

\* What has not expired at a tick that was taken is still there; a tick in the
\* channel is the last that was due, or an earlier one that the goroutine has
\* not taken for less than its lag.
SweptInTime ==
  /\ cleanupTick <= now /\ (cleanupTick # -1 => now - cleanupTick <= CleanupLag)
  /\ \A k \in CacheKeys : entries[k] # NoEntry =>
        entries[k].expiresAt >= IF cleanupTick = -1 THEN LastDue(CleanupInterval)
                                ELSE cleanupTick - CleanupInterval

CacheInv == CacheTypes /\ OnlyExpiredGone /\ SweptInTime

LEMMA NowIsNat == now \in Times => now \in Nat
BY ClockAssumption DEF Times

LEMMA CacheInvInit == CacheInit => CacheInv
<1> SUFFICES ASSUME CacheInit PROVE CacheInv
  OBVIOUS
<1>1. now \in Times
  BY ClockAssumption DEF CacheInit, Times
<1> QED BY <1>1, CacheAssumption
        DEF CacheInit, CacheInv, CacheTypes, OnlyExpiredGone, SweptInTime

LEMMA TickKeepsCache ==
  ASSUME CacheInv, CacheTick
  PROVE  CacheInv'
<1> USE CacheAssumption, ClockAssumption
<1>1. /\ now \in Nat /\ now' = now + 1 /\ now' \in Times
      /\ UNCHANGED <<entries, answer, stored>>
      /\ cleanupTick' = IF cleanupTick = -1 /\ now' % CleanupInterval = 0 THEN now' ELSE cleanupTick
      /\ cleanupTick # -1 => now - cleanupTick < CleanupLag
  BY DEF CacheInv, CacheTypes, CacheTick, Tick, TickerChannel, Times
<1>2. CacheTypes'
  BY <1>1 DEF CacheInv, CacheTypes
<1>3. OnlyExpiredGone'
  <2>1. ASSUME NEW k \in CacheKeys, Expired(stored[k]) PROVE Expired(stored[k])'
    <3>1. stored[k] # NoEntry /\ stored[k] \in Entry /\ now > stored[k].expiresAt
      BY <2>1 DEF Expired, CacheInv, CacheTypes
    <3>2. stored[k].expiresAt \in Int
      BY <3>1 DEF Entry
    <3> QED BY <1>1, <3>1, <3>2 DEF Expired
  <2> QED BY <1>1, <2>1 DEF CacheInv, OnlyExpiredGone
<1>4. cleanupTick' <= now' /\ (cleanupTick' # -1 => now' - cleanupTick' <= CleanupLag)
  BY <1>1 DEF CacheInv, CacheTypes, SweptInTime, Times
<1>5. ASSUME NEW k \in CacheKeys, entries[k] # NoEntry
      PROVE  entries[k].expiresAt >= IF cleanupTick' = -1 THEN LastDue(CleanupInterval)'
                                     ELSE cleanupTick' - CleanupInterval
  <2>1. entries[k].expiresAt \in Int
    BY <1>5 DEF CacheInv, CacheTypes, Entry
  <2>2. entries[k].expiresAt >= IF cleanupTick = -1 THEN LastDue(CleanupInterval)
                                ELSE cleanupTick - CleanupInterval
    BY <1>5 DEF CacheInv, SweptInTime
  <2>3. LastDue(CleanupInterval) \in Nat
    BY <1>1, LastDueRange
  <2>4. /\ now' % CleanupInterval = 0 => now' = LastDue(CleanupInterval) + CleanupInterval
        /\ now' % CleanupInterval # 0 => LastDue(CleanupInterval)' = LastDue(CleanupInterval)
    BY <1>1, ClockStep
  <2>5. CASE cleanupTick # -1
    BY <1>1, <2>2, <2>5
  <2>6. CASE cleanupTick = -1 /\ now' % CleanupInterval = 0
    <3>1. cleanupTick' = now' /\ now' # -1
      BY <1>1, <2>6
    <3> QED BY <2>1, <2>2, <2>3, <2>4, <2>6, <3>1
  <2>7. CASE cleanupTick = -1 /\ now' % CleanupInterval # 0
    BY <1>1, <2>2, <2>4, <2>7
  <2> QED BY <2>5, <2>6, <2>7
<1>6. SweptInTime'
  BY <1>1, <1>4, <1>5 DEF SweptInTime
<1> QED BY <1>2, <1>3, <1>6 DEF CacheInv

LEMMA SetKeepsCache ==
  ASSUME CacheInv, NEW k \in CacheKeys, NEW body \in Bodies, NEW ttl \in TTLs, Set(k, body, ttl)
  PROVE  CacheInv'
<1> USE CacheAssumption, ClockAssumption
<1> DEFINE entry == [data |-> body, expiresAt |-> now + ttl]
<1>1. /\ now \in Nat /\ UNCHANGED <<now, answer, cleanupTick>>
      /\ entries' = [entries EXCEPT ![k] = entry]
      /\ stored' = [stored EXCEPT ![k] = entry]
  BY DEF CacheInv, CacheTypes, Set, Times
<1>2. entry \in Entry /\ entry.expiresAt = now + ttl /\ ttl \in Nat
  BY <1>1 DEF Entry
<1> HIDE DEF entry
<1>3. CacheTypes'
  BY <1>1, <1>2 DEF CacheInv, CacheTypes
<1>4. OnlyExpiredGone'
  BY <1>1 DEF CacheInv, CacheTypes, OnlyExpiredGone, Expired
<1>5. ASSUME NEW l \in CacheKeys, entries'[l] # NoEntry
      PROVE  entries'[l].expiresAt >= IF cleanupTick = -1 THEN LastDue(CleanupInterval)
                                      ELSE cleanupTick - CleanupInterval
  <2>1. CASE l = k
    <3>1. entries'[l].expiresAt = now + ttl
      BY <1>1, <1>2, <2>1 DEF CacheInv, CacheTypes
    <3>2. LastDue(CleanupInterval) \in Nat /\ LastDue(CleanupInterval) <= now
      BY <1>1, LastDueRange
    <3>3. cleanupTick # -1 => cleanupTick \in Nat /\ cleanupTick <= now
      BY <1>1 DEF CacheInv, CacheTypes, SweptInTime, Times
    <3> QED BY <1>1, <1>2, <3>1, <3>2, <3>3
  <2>2. CASE l # k
    BY <1>1, <1>5, <2>2 DEF CacheInv, CacheTypes, SweptInTime
  <2> QED BY <2>1, <2>2
<1>6. SweptInTime'
  BY <1>1, <1>5 DEF CacheInv, SweptInTime, LastDue
<1> QED BY <1>3, <1>4, <1>6 DEF CacheInv

LEMMA CleanupKeepsCache ==
  ASSUME CacheInv, CacheCleanup
  PROVE  CacheInv'
<1> USE CacheAssumption, ClockAssumption
<1>1. /\ now \in Nat /\ UNCHANGED <<now, answer, stored>> /\ cleanupTick' = -1
      /\ entries' = [k \in CacheKeys |-> IF Expired(entries[k]) THEN NoEntry ELSE entries[k]]
  BY DEF CacheInv, CacheTypes, CacheCleanup, Times
<1>2. CacheTypes'
  BY <1>1 DEF CacheInv, CacheTypes
<1>3. OnlyExpiredGone'
  <2>1. ASSUME NEW k \in CacheKeys
        PROVE  entries'[k] = stored[k] \/ (entries'[k] = NoEntry /\ Expired(stored[k]))
    <3>1. CASE Expired(entries[k])
      <4>1. entries[k] # NoEntry
        BY <3>1 DEF Expired
      <4>2. entries[k] = stored[k]
        BY <4>1 DEF CacheInv, OnlyExpiredGone
      <4> QED BY <1>1, <3>1, <4>2
    <3>2. CASE ~Expired(entries[k])
      BY <1>1, <3>2 DEF CacheInv, OnlyExpiredGone
    <3> QED BY <3>1, <3>2
  <2> QED BY <1>1, <2>1 DEF OnlyExpiredGone, Expired
<1>4. ASSUME NEW k \in CacheKeys, entries'[k] # NoEntry
      PROVE  entries'[k].expiresAt >= LastDue(CleanupInterval)
  <2>1. entries'[k] = entries[k] /\ ~Expired(entries[k]) /\ entries[k] # NoEntry
    BY <1>1, <1>4
  <2>2. entries[k].expiresAt \in Int /\ ~(now > entries[k].expiresAt)
    BY <2>1 DEF CacheInv, CacheTypes, Entry, Expired
  <2> QED BY <1>1, <2>1, <2>2, LastDueRange
<1>5. SweptInTime'
  <2>1. LastDue(CleanupInterval)' = LastDue(CleanupInterval)
    BY <1>1 DEF LastDue
  <2> QED BY <1>1, <1>4, <2>1 DEF SweptInTime
<1> QED BY <1>2, <1>3, <1>5 DEF CacheInv

LEMMA CacheInvStep == CacheInv /\ [CacheNext]_<<now, cacheVars>> => CacheInv'
<1> SUFFICES ASSUME CacheInv, [CacheNext]_<<now, cacheVars>> PROVE CacheInv'
  OBVIOUS
<1>1. CASE UNCHANGED <<now, cacheVars>>
  BY <1>1 DEF CacheInv, CacheTypes, OnlyExpiredGone, SweptInTime, LastDue, Expired, cacheVars
<1>2. ASSUME NEW k \in CacheKeys, Get(k) PROVE CacheInv'
  <2>1. UNCHANGED <<now, entries, cleanupTick, stored>> /\ answer' \in Bodies \cup {NoEntry}
    <3>1. entries[k] = NoEntry \/ entries[k].data \in Bodies
      BY DEF CacheInv, CacheTypes, Entry
    <3> QED BY <1>2, <3>1 DEF Get
  <2> QED BY <2>1 DEF CacheInv, CacheTypes, OnlyExpiredGone, SweptInTime, LastDue, Expired
<1> QED BY <1>1, <1>2, TickKeepsCache, SetKeepsCache, CleanupKeepsCache DEF CacheNext

LEMMA CacheInvariant == CacheSpec => []CacheInv
BY CacheInvInit, CacheInvStep, PTL DEF CacheSpec

\* What Get answers is what the abstract map answers.
LEMMA GetIsLook ==
  ASSUME CacheInv, NEW k \in CacheKeys, Get(k)
  PROVE  Register!Look(k)
<1>1. /\ now \in Int
      /\ entries[k] = stored[k] \/ (entries[k] = NoEntry /\ Expired(stored[k]))
      /\ stored[k] = NoEntry \/ (stored[k] # NoEntry /\ stored[k].expiresAt \in Int)
  BY ClockAssumption DEF CacheInv, CacheTypes, OnlyExpiredGone, Entry, Times
<1>2. Register!Current(k) <=> stored[k] # NoEntry /\ ~Expired(stored[k])
  BY <1>1 DEF Register!Current, Expired
<1>3. answer' = IF Register!Current(k) THEN stored[k].data ELSE NoEntry
  BY <1>1, <1>2 DEF Get
<1> QED BY <1>3 DEF Get, Register!Look

LEMMA CacheStep == CacheInv /\ [CacheNext]_<<now, cacheVars>> => [Register!MapNext]_<<now, stored, answer>>
<1> SUFFICES ASSUME CacheInv, [CacheNext]_<<now, cacheVars>>
             PROVE  [Register!MapNext]_<<now, stored, answer>>
  OBVIOUS
<1>1. CASE UNCHANGED <<now, cacheVars>>
  BY <1>1 DEF cacheVars
<1>2. CASE CacheTick
  BY <1>2 DEF CacheTick, Register!MapNext, Register!Tick, Tick
<1>3. CASE CacheCleanup
  BY <1>3 DEF CacheCleanup
<1>4. ASSUME NEW k \in CacheKeys, Get(k) PROVE Register!MapNext
  BY <1>4, GetIsLook DEF Register!MapNext
<1>5. ASSUME NEW k \in CacheKeys, NEW body \in Bodies, NEW ttl \in TTLs, Set(k, body, ttl)
      PROVE  Register!MapNext
  <2>1. Register!Put(k, body, ttl)
    BY <1>5 DEF Set, Register!Put
  <2> QED BY <2>1 DEF Register!MapNext
<1> QED BY <1>1, <1>2, <1>3, <1>4, <1>5 DEF CacheNext

\* The goroutine that deletes entries is never noticed: the cache answers as a
\* map that deletes nothing, for any keys, lifetimes, interval and lag
\* (cache.go:30-65).
THEOREM CacheImplementsMap == CacheSpec => CacheIsRegister
<1>1. CacheInit => Register!MapInit
  BY DEF CacheInit, Register!MapInit
<1> QED BY <1>1, CacheStep, CacheInvariant, PTL
        DEF CacheSpec, CacheIsRegister, Register!MapSpec, Register!mapVars

\* No entry outlives its expiry by more than an interval and the lag
\* (cache.go:52-65).
THEOREM CacheIsSwept == CacheSpec => []ExpiredEntriesGo
<1>1. CacheInv => ExpiredEntriesGo
  <2> SUFFICES ASSUME CacheInv, NEW k \in CacheKeys, entries[k] # NoEntry
               PROVE  now - entries[k].expiresAt <= CleanupInterval + CleanupLag
    BY DEF ExpiredEntriesGo
  <2>1. now \in Nat /\ entries[k].expiresAt \in Int /\ cleanupTick \in Int
    BY ClockAssumption DEF CacheInv, CacheTypes, Entry, Times
  <2>2. CASE cleanupTick = -1
    BY <2>1, <2>2, LastDueRange, CacheAssumption DEF CacheInv, SweptInTime
  <2>3. CASE cleanupTick # -1
    BY <2>1, <2>3, CacheAssumption DEF CacheInv, SweptInTime
  <2> QED BY <2>2, <2>3
<1> QED BY <1>1, CacheInvariant, PTL

-----------------------------------------------------------------------------
(* The metrics.                                                            *)

LEMMA NothingCounted ==
  ASSUME NEW S
  PROVE  IsFiniteSet(Counts([x \in S |-> 0])) /\ Total([x \in S |-> 0]) = 0
<1>1. Counts([x \in S |-> 0]) = {}
  BY DEF Counts
<1> QED BY <1>1, FS_EmptySet DEF Total

\* g counts one thing more than f, under c.
OneMore(S, f, g, c) ==
  /\ f \in [S -> Nat] /\ g \in [S -> Nat] /\ c \in S
  /\ g[c] = f[c] + 1 /\ \A x \in S \ {c} : g[x] = f[x]

LEMMA OneMoreCounted ==
  ASSUME NEW S, NEW f, NEW g, NEW c, OneMore(S, f, g, c), IsFiniteSet(Counts(f))
  PROVE  IsFiniteSet(Counts(g)) /\ Total(g) = Total(f) + 1
<1> DEFINE new == <<c, f[c] + 1>>
<1>1. /\ DOMAIN f = S /\ DOMAIN g = S /\ c \in S
      /\ f[c] \in Nat /\ g[c] = f[c] + 1 /\ \A x \in S \ {c} : g[x] = f[x]
  BY DEF OneMore
<1>2. 1..g[c] = 1..f[c] \cup {f[c] + 1}
  BY <1>1
<1>3. {c} \X (1..g[c]) = {c} \X (1..f[c]) \cup {new}
  BY <1>2
<1> HIDE DEF new
<1>4. ASSUME NEW u PROVE u \in Counts(g) <=> u \in Counts(f) \cup {new}
  <2>1. u \in Counts(g) <=> \E x \in S : u \in {x} \X (1..g[x])
    BY <1>1 DEF Counts
  <2>2. u \in Counts(f) <=> \E x \in S : u \in {x} \X (1..f[x])
    BY <1>1 DEF Counts
  <2>3. ASSUME NEW x \in S, x # c PROVE u \in {x} \X (1..g[x]) <=> u \in {x} \X (1..f[x])
    BY <1>1, <2>3
  <2>4. u \in {c} \X (1..g[c]) <=> u \in {c} \X (1..f[c]) \/ u = new
    BY <1>3
  <2> QED BY <1>1, <2>1, <2>2, <2>3, <2>4
<1>5. new \notin Counts(f)
  <2>1. ASSUME NEW x \in S, new \in {x} \X (1..f[x]) PROVE FALSE
    <3>1. x = c /\ f[c] + 1 \in 1..f[x]
      BY <2>1 DEF new
    <3> QED BY <1>1, <3>1
  <2> QED BY <1>1, <2>1 DEF Counts
<1>6. Counts(g) = Counts(f) \cup {new}
  BY <1>4
<1>7. IsFiniteSet(Counts(f) \cup {new}) /\ Cardinality(Counts(f) \cup {new}) = Cardinality(Counts(f)) + 1
  BY <1>5, FS_AddElement
<1> QED BY <1>6, <1>7 DEF Total

\* The counts of a part of the map; one more under c is one of the part if c is
\* in it.
Part(f, T) == [x \in T |-> f[x]]

LEMMA OneMoreInPart ==
  ASSUME NEW S, NEW f, NEW g, NEW c, OneMore(S, f, g, c), NEW T \in SUBSET S,
         IsFiniteSet(Counts(Part(f, T)))
  PROVE  /\ IsFiniteSet(Counts(Part(g, T)))
         /\ Total(Part(g, T)) = Total(Part(f, T)) + (IF c \in T THEN 1 ELSE 0)
<1>1. CASE c \in T
  <2>1. OneMore(T, Part(f, T), Part(g, T), c)
    BY <1>1 DEF Part, OneMore
  <2> QED BY <1>1, <2>1, OneMoreCounted
<1>2. CASE c \notin T
  <2>1. Part(g, T) = Part(f, T)
    BY <1>2 DEF Part, OneMore
  <2>2. Total(Part(f, T)) \in Nat
    BY FS_CardinalityType DEF Total
  <2> QED BY <1>2, <2>1, <2>2
<1> QED BY <1>1, <1>2

Errors == {c \in StatusCodes : c >= 400}

\* The counts are of finitely many things, as each step counts one; the maps
\* of the latest reader are the live ones while it shares them.
Counters ==
  /\ IsFiniteSet(Counts(statusCodes)) /\ IsFiniteSet(Counts(Part(statusCodes, Errors)))
  /\ IsFiniteSet(Counts(originRequests)) /\ IsFiniteSet(Counts(originErrors))
  /\ IsFiniteSet(Counts(snapshot.codes))
  /\ snapshot.shared => snapshot.codes = statusCodes

MetricsInv ==
  /\ MetricsTypeOK /\ Counters /\ TotalsAgree
  /\ latencyCount > 0 => minLatencyMs >= 0

LEMMA TotalIsNat == ASSUME NEW f, IsFiniteSet(Counts(f)) PROVE Total(f) \in Nat
BY FS_CardinalityType DEF Total

LEMMA ErrorPart == \A f : [c \in {s \in StatusCodes : s >= 400} |-> f[c]] = Part(f, Errors)
BY DEF Part, Errors

LEMMA NoErrors == Part([c \in StatusCodes |-> 0], Errors) = [c \in Errors |-> 0]
BY DEF Part, Errors

\* The extremes bound the sum when one more latency comes to it.
LEMMA LessOrEqualTimes ==
  ASSUME NEW a \in Int, NEW b \in Int, NEW n \in Nat, a <= b
  PROVE  a * n <= b * n
OBVIOUS

LEMMA ExtremesBoundSum ==
  ASSUME NEW low \in Nat, NEW high \in Nat, NEW low2 \in Nat, NEW high2 \in Nat,
         NEW n \in Nat, NEW sum \in Nat, NEW l \in Nat,
         low * n <= sum, sum <= high * n,
         low2 <= low, low2 <= l, high <= high2, l <= high2
  PROVE  low2 * (n + 1) <= sum + l /\ sum + l <= high2 * (n + 1)
<1>1. low2 * n <= low * n /\ high * n <= high2 * n
  BY LessOrEqualTimes
<1>2. low2 * (n + 1) = low2 * n + low2 /\ high2 * (n + 1) = high2 * n + high2
  OBVIOUS
<1>3. low2 * n \in Int /\ high2 * n \in Int /\ low * n \in Int /\ high * n \in Int
  OBVIOUS
<1> QED BY <1>1, <1>2, <1>3

LEMMA MetricsInvInit == MetricsInit => MetricsInv
<1> SUFFICES ASSUME MetricsInit PROVE MetricsInv
  OBVIOUS
<1>1. /\ IsFiniteSet(Counts(statusCodes)) /\ Total(statusCodes) = 0
      /\ IsFiniteSet(Counts(originRequests)) /\ Total(originRequests) = 0
      /\ IsFiniteSet(Counts(originErrors)) /\ Total(originErrors) = 0
  BY NothingCounted DEF MetricsInit
<1>2. IsFiniteSet(Counts(Part(statusCodes, Errors))) /\ Total(Part(statusCodes, Errors)) = 0
  BY NothingCounted, NoErrors DEF MetricsInit
<1>3. snapshot.codes = statusCodes /\ snapshot.total = 0 /\ snapshot.shared = FALSE
  BY DEF MetricsInit
<1>4. MetricsTypeOK
  BY DEF MetricsInit, MetricsTypeOK
<1>5. Counters
  BY <1>1, <1>2, <1>3 DEF Counters
<1>6. TotalsAgree
  <2>1. /\ totalRequests = 0 /\ totalErrors = 0 /\ totalCacheHits = 0 /\ totalCacheMisses = 0
        /\ latencyCount = 0 /\ latencySum = 0 /\ minLatencyMs = -1 /\ maxLatencyMs = 0
    BY DEF MetricsInit
  <2>2. totalErrors = Total([c \in {s \in StatusCodes : s >= 400} |-> statusCodes[c]])
    BY ONLY <1>2, <2>1, ErrorPart
  <2>3. Total(snapshot.codes) >= snapshot.total
    BY ONLY <1>1, <1>3
  <2> QED BY ONLY <1>1, <2>1, <2>2, <2>3 DEF TotalsAgree
<1> QED BY <1>4, <1>5, <1>6 DEF MetricsInit, MetricsInv

LEMMA RecordKeepsMetrics ==
  ASSUME MetricsInv, NEW code \in StatusCodes, NEW latency \in Latencies, NEW cacheHit \in BOOLEAN,
         NEW o \in MeteredOrigins, RecordRequest(code, latency, cacheHit, o)
  PROVE  MetricsInv'
<1> USE DEF MetricsInv
<1>1. code \in Nat /\ latency \in Nat
  BY MetricsAssumption
<1>2. Counted(code, latency, cacheHit, o)
  BY DEF RecordRequest
<1>a. OneMore(StatusCodes, statusCodes, statusCodes', code)
  BY <1>2 DEF Counted, MetricsTypeOK, OneMore
<1>b. OneMore(MeteredOrigins, originRequests, originRequests', o)
  BY <1>2 DEF Counted, MetricsTypeOK, OneMore
<1>3. /\ statusCodes' \in [StatusCodes -> Nat] /\ IsFiniteSet(Counts(statusCodes'))
      /\ Total(statusCodes') = Total(statusCodes) + 1
  BY <1>a, OneMoreCounted DEF Counters, OneMore
<1>4. /\ IsFiniteSet(Counts(Part(statusCodes', Errors)))
      /\ Total(Part(statusCodes', Errors)) = Total(Part(statusCodes, Errors)) + (IF code >= 400 THEN 1 ELSE 0)
  <2>1. Errors \in SUBSET StatusCodes /\ (code \in Errors <=> code >= 400)
    BY DEF Errors
  <2>2. IsFiniteSet(Counts(Part(statusCodes, Errors)))
    BY DEF Counters
  <2> QED BY <1>a, <2>1, <2>2, OneMoreInPart
<1>5. /\ originRequests' \in [MeteredOrigins -> Nat] /\ IsFiniteSet(Counts(originRequests'))
      /\ Total(originRequests') = Total(originRequests) + 1
  BY <1>b, OneMoreCounted DEF Counters, OneMore
<1>6. /\ originErrors' \in [MeteredOrigins -> Nat] /\ IsFiniteSet(Counts(originErrors'))
      /\ Total(originErrors') = Total(originErrors) + (IF code >= 400 THEN 1 ELSE 0)
      /\ totalErrors' = totalErrors + (IF code >= 400 THEN 1 ELSE 0)
  <2>1. originErrors \in [MeteredOrigins -> Nat] /\ IsFiniteSet(Counts(originErrors))
        /\ Total(originErrors) \in Nat /\ totalErrors \in Nat
    BY TotalIsNat DEF MetricsTypeOK, Counters
  <2>2. CASE code >= 400
    <3>1. OneMore(MeteredOrigins, originErrors, originErrors', o)
      BY <2>1, <2>2 DEF RecordRequest, OneMore
    <3> QED BY <2>1, <2>2, <3>1, OneMoreCounted DEF RecordRequest, OneMore
  <2>3. CASE ~(code >= 400)
    BY <2>1, <2>3 DEF RecordRequest
  <2> QED BY <2>2, <2>3
<1>7. /\ totalRequests' = totalRequests + 1 /\ latencyCount' = latencyCount + 1
      /\ latencySum' = latencySum + latency /\ avgLatencyMs' = <<latencySum', latencyCount'>>
      /\ totalCacheHits' + totalCacheMisses' = totalCacheHits + totalCacheMisses + 1
      /\ {totalRequests', totalErrors', totalCacheHits', totalCacheMisses', latencySum', latencyCount'} \subseteq Nat
      /\ avgLatencyMs' \in Nat \X Nat
  BY <1>1, <1>2, <1>6 DEF Counted, MetricsTypeOK
<1>8. /\ minLatencyMs' \in Nat /\ maxLatencyMs' \in Nat
      /\ minLatencyMs' <= latency /\ latency <= maxLatencyMs'
      /\ maxLatencyMs <= maxLatencyMs'
      /\ latencyCount > 0 => minLatencyMs' <= minLatencyMs
  BY <1>1, <1>2 DEF Counted, MetricsTypeOK
<1>9. minLatencyMs' * latencyCount' <= latencySum' /\ latencySum' <= maxLatencyMs' * latencyCount'
  <2>1. CASE latencyCount > 0
    <3>1. /\ minLatencyMs \in Nat /\ maxLatencyMs \in Nat /\ latencyCount \in Nat /\ latencySum \in Nat
          /\ minLatencyMs * latencyCount <= latencySum /\ latencySum <= maxLatencyMs * latencyCount
      BY <2>1 DEF TotalsAgree, MetricsTypeOK
    <3>2. minLatencyMs' <= minLatencyMs /\ latencyCount' = latencyCount + 1 /\ latencySum' = latencySum + latency
      BY <1>7, <1>8, <2>1
    <3>3. /\ minLatencyMs' * (latencyCount + 1) <= latencySum + latency
          /\ latencySum + latency <= maxLatencyMs' * (latencyCount + 1)
      BY ONLY <1>1, <1>8, <3>1, <3>2, ExtremesBoundSum
    <3> QED BY ONLY <3>2, <3>3
  <2>2. CASE latencyCount = 0
    <3>1. latencySum = 0 /\ latencyCount' = 1 /\ latencySum' = latency
      <4>1. latencySum = 0
        BY ONLY MetricsInv, <2>2 DEF MetricsInv, TotalsAgree
      <4> QED BY <1>1, <1>7, <2>2, <4>1
    <3>2. \A n \in Nat : n * 1 = n
      OBVIOUS
    <3>3. minLatencyMs' * 1 = minLatencyMs' /\ maxLatencyMs' * 1 = maxLatencyMs'
      BY ONLY <1>8, <3>2, Zenon
    <3> QED BY ONLY <1>8, <3>1, <3>3
  <2> QED BY <2>1, <2>2 DEF MetricsTypeOK
<1>10. /\ snapshot' \in [shared : BOOLEAN, total : Nat, codes : [StatusCodes -> Nat], avg : Nat \X Nat]
       /\ snapshot'.total = snapshot.total /\ snapshot'.shared = snapshot.shared
       /\ snapshot'.codes = IF snapshot.shared THEN statusCodes' ELSE snapshot.codes
  BY <1>2, <1>3 DEF Counted, MetricsTypeOK
<1>11. MetricsTypeOK'
  BY <1>3, <1>5, <1>6, <1>7, <1>8, <1>10 DEF MetricsTypeOK
<1>12. Counters'
  BY <1>3, <1>4, <1>5, <1>6, <1>10 DEF Counters
<1>13. TotalsAgree'
  <2>1. /\ totalRequests' = latencyCount' /\ totalRequests' = totalCacheHits' + totalCacheMisses'
        /\ totalRequests' = Total(statusCodes') /\ totalRequests' = Total(originRequests')
    BY <1>3, <1>5, <1>7 DEF TotalsAgree
  <2>2. totalErrors' = Total(originErrors') /\ totalErrors' = Total(Part(statusCodes', Errors))
    BY <1>4, <1>6, ErrorPart DEF TotalsAgree
  <2>3. Total(snapshot'.codes) >= snapshot'.total
    <3>1. Total(statusCodes) \in Nat /\ snapshot.total \in Nat /\ Total(snapshot.codes) >= snapshot.total
      BY TotalIsNat DEF Counters, TotalsAgree, MetricsTypeOK
    <3>2. CASE snapshot.shared
      BY <1>3, <1>10, <3>1, <3>2 DEF Counters
    <3>3. CASE ~snapshot.shared
      BY <1>10, <3>1, <3>3
    <3> QED BY <3>2, <3>3
  <2>4. latencyCount' > 0 /\ latencyCount' # 0
    BY <1>7 DEF MetricsTypeOK
  <2> QED BY <1>7, <1>9, <2>1, <2>2, <2>3, <2>4, ErrorPart DEF TotalsAgree
<1>14. latencyCount' > 0
  BY <1>7 DEF MetricsTypeOK
<1> QED BY <1>8, <1>11, <1>12, <1>13, <1>14

LEMMA GetKeepsMetrics ==
  ASSUME MetricsInv, GetMetrics
  PROVE  MetricsInv'
<1> USE DEF MetricsInv
<1>1. /\ snapshot' = [shared |-> TRUE, total |-> totalRequests, codes |-> statusCodes, avg |-> avgLatencyMs]
      /\ UNCHANGED <<totalRequests, totalErrors, totalCacheHits, totalCacheMisses, minLatencyMs,
                     maxLatencyMs, latencySum, latencyCount, avgLatencyMs, statusCodes,
                     originRequests, originErrors>>
  BY DEF GetMetrics
<1>2. MetricsTypeOK'
  BY <1>1 DEF MetricsTypeOK
<1>3. Counters'
  BY <1>1 DEF Counters
<1>4. Total(snapshot'.codes) >= snapshot'.total
  <2>1. snapshot'.codes = statusCodes /\ snapshot'.total = totalRequests
    BY <1>1
  <2>2. totalRequests = Total(statusCodes) /\ totalRequests \in Nat
    BY DEF TotalsAgree, MetricsTypeOK
  <2> QED BY <2>1, <2>2
<1>5. TotalsAgree'
  BY <1>1, <1>4 DEF TotalsAgree
<1> QED BY <1>1, <1>2, <1>3, <1>5

LEMMA ResetKeepsMetrics ==
  ASSUME MetricsInv, MetricsReset
  PROVE  MetricsInv'
<1> USE DEF MetricsInv
<1>1. /\ IsFiniteSet(Counts(statusCodes')) /\ Total(statusCodes') = 0
      /\ IsFiniteSet(Counts(originRequests')) /\ Total(originRequests') = 0
      /\ IsFiniteSet(Counts(originErrors')) /\ Total(originErrors') = 0
  BY NothingCounted DEF MetricsReset, Cleared
<1>2. IsFiniteSet(Counts(Part(statusCodes', Errors))) /\ Total(Part(statusCodes', Errors)) = 0
  BY NothingCounted, NoErrors DEF MetricsReset, Cleared
<1>3. /\ snapshot' \in [shared : BOOLEAN, total : Nat, codes : [StatusCodes -> Nat], avg : Nat \X Nat]
      /\ snapshot'.codes = snapshot.codes /\ snapshot'.total = snapshot.total /\ snapshot'.shared = FALSE
  BY DEF MetricsReset, MetricsTypeOK
<1>4. MetricsTypeOK'
  BY <1>3 DEF MetricsReset, Cleared, MetricsTypeOK
<1>5. Counters'
  BY <1>1, <1>2, <1>3 DEF Counters
<1>6. TotalsAgree'
  <2>1. Total(snapshot'.codes) >= snapshot'.total
    BY <1>3 DEF TotalsAgree
  <2>2. /\ totalRequests' = 0 /\ totalErrors' = 0 /\ totalCacheHits' = 0 /\ totalCacheMisses' = 0
        /\ latencyCount' = 0 /\ latencySum' = 0 /\ minLatencyMs' = -1 /\ maxLatencyMs' = 0
    BY DEF MetricsReset, Cleared
  <2>3. totalErrors' = Total(Part(statusCodes', Errors))
    BY <1>2, <2>2
  <2>4. totalErrors' = Total([c \in {s \in StatusCodes : s >= 400} |-> statusCodes'[c]])
    BY ONLY <2>3, ErrorPart
  <2> QED BY ONLY <1>1, <2>1, <2>2, <2>4 DEF TotalsAgree
<1> QED BY <1>4, <1>5, <1>6 DEF MetricsReset, Cleared

LEMMA MetricsInvStep == MetricsInv /\ [MetricsNext]_metricsVars => MetricsInv'
<1> SUFFICES ASSUME MetricsInv, [MetricsNext]_metricsVars PROVE MetricsInv'
  OBVIOUS
<1>1. CASE UNCHANGED metricsVars
  BY <1>1 DEF metricsVars, MetricsInv, MetricsTypeOK, Counters, TotalsAgree
<1> QED BY <1>1, RecordKeepsMetrics, GetKeepsMetrics, ResetKeepsMetrics DEF MetricsNext

\* The counters and the maps tell one story, across Reset and for a reader who
\* still holds the maps, and the latencies from the first request after a Reset
\* on (metrics.go:46-118), however many requests, codes and origins there are.
THEOREM MetricsAgree == MetricsSpec => []TotalsAgree
<1>1. MetricsInv => TotalsAgree
  BY DEF MetricsInv
<1> QED BY <1>1, MetricsInvInit, MetricsInvStep, PTL DEF MetricsSpec

-----------------------------------------------------------------------------
(* The arrays.                                                             *)

\* Induction, for a set of numbers.
LEMMA SetInduction ==
  ASSUME NEW S, 0 \in S, \A n \in Nat : n \in S => n + 1 \in S
  PROVE  \A n \in Nat : n \in S
<1> SUFFICES ASSUME NEW k \in Nat, k \notin S PROVE FALSE
  OBVIOUS
<1> DEFINE Missing == {n \in Nat : n \notin S}
<1>1. Missing \subseteq Nat /\ Missing # {}
  OBVIOUS
<1>2. PICK m \in Missing : \A n \in Missing : m <= n
  <2> HIDE DEF Missing
  <2> QED BY <1>1, LeastNumber
<1>3. m \in Nat /\ m # 0 /\ m \notin S
  OBVIOUS
<1>4. m - 1 \in Nat /\ ~(m <= m - 1) /\ (m - 1) + 1 = m
  BY <1>3
<1>5. m - 1 \notin Missing
  BY <1>2, <1>4
<1>6. m - 1 \in S
  BY <1>4, <1>5
<1> QED BY <1>3, <1>4, <1>6

\* What the texts are made of.
Chars == Alphabet \cup {Comma, Quote, Open, Close}

LEMMA SignsDiffer ==
  /\ Comma # Quote /\ Comma # Open /\ Comma # Close /\ Quote # Open /\ Quote # Close /\ Open # Close
BY Zenon DEF Comma, Quote, Open, Close

LEMMA SplitSequence ==
  ASSUME NEW T, NEW n \in Nat, NEW q \in Seq(T), Len(q) = n + 1
  PROVE  /\ SubSeq(q, 1, n) \in Seq(T) /\ Len(SubSeq(q, 1, n)) = n /\ q[n + 1] \in T
         /\ q = Append(SubSeq(q, 1, n), q[n + 1])
<1>1. /\ SubSeq(q, 1, n) \in Seq(T) /\ Len(SubSeq(q, 1, n)) = n /\ q[n + 1] \in T
      /\ \A i \in 1..n : SubSeq(q, 1, n)[i] = q[i]
  BY SubSeqProperties
<1>2. Append(SubSeq(q, 1, n), q[n + 1]) \in Seq(T) /\ Len(Append(SubSeq(q, 1, n), q[n + 1])) = n + 1
  BY <1>1, AppendProperties
<1>3. \A i \in 1..(n + 1) : Append(SubSeq(q, 1, n), q[n + 1])[i] = q[i]
  BY <1>1, AppendProperties
<1> QED BY <1>2, <1>3, SeqEqual

\* Induction, for a set of sequences.
LEMMA SequencesInduction ==
  ASSUME NEW T, NEW S, <<>> \in S, \A q \in Seq(T), c \in T : q \in S => Append(q, c) \in S
  PROVE  \A q \in Seq(T) : q \in S
<1> DEFINE N == {n \in Nat : \A q \in Seq(T) : Len(q) = n => q \in S}
<1>1. 0 \in N
  BY EmptySeq
<1>2. ASSUME NEW n \in Nat, n \in N PROVE n + 1 \in N
  <2> SUFFICES ASSUME NEW q \in Seq(T), Len(q) = n + 1 PROVE q \in S
    OBVIOUS
  <2>1. /\ SubSeq(q, 1, n) \in Seq(T) /\ Len(SubSeq(q, 1, n)) = n /\ q[n + 1] \in T
        /\ q = Append(SubSeq(q, 1, n), q[n + 1])
    BY SplitSequence
  <2>2. SubSeq(q, 1, n) \in S
    BY <1>2, <2>1
  <2> QED BY <2>1, <2>2, Zenon
<1> HIDE DEF N
<1>3. \A n \in Nat : n \in N
  BY <1>1, <1>2, SetInduction
<1> QED BY <1>3, LenProperties DEF N

LEMMA AppendAfter ==
  ASSUME NEW T, NEW p \in Seq(T), NEW q \in Seq(T), NEW c \in T
  PROVE  p \o Append(q, c) = Append(p \o q, c)
OBVIOUS

(* Each of the four recursions goes along a sequence: it has a value, and *)
(* one element more is one step more.                                      *)

LEMMA ListedStates ==
  ASSUME NEW texts
  PROVE  \A n \in Nat : \E s : s = [i \in 0..n |-> IF i = 0 THEN <<>> ELSE Write(s[i - 1], i, texts[i])]
<1> DEFINE Is(s, n) == s = [i \in 0..n |-> IF i = 0 THEN <<>> ELSE Write(s[i - 1], i, texts[i])]
           S == {n \in Nat : \E s : Is(s, n)}
<1>1. 0 \in S
  <2>1. Is([i \in 0..0 |-> <<>>], 0)
    OBVIOUS
  <2> HIDE DEF Is
  <2> QED BY <2>1
<1>2. ASSUME NEW n \in Nat, n \in S PROVE n + 1 \in S
  <2>1. PICK s : Is(s, n)
    BY <1>2
  <2> DEFINE u == [i \in 0..(n + 1) |-> IF i <= n THEN s[i] ELSE Write(s[n], n + 1, texts[n + 1])]
  <2>2. Is(u, n + 1)
    <3> SUFFICES ASSUME NEW i \in 0..(n + 1)
                 PROVE  u[i] = IF i = 0 THEN <<>> ELSE Write(u[i - 1], i, texts[i])
      OBVIOUS
    <3>1. CASE i = n + 1
      BY <3>1
    <3>2. CASE i # n + 1
      BY <2>1, <3>2
    <3> QED BY <3>1, <3>2
  <2> HIDE DEF Is, u
  <2> QED BY <2>2
<1> HIDE DEF S
<1>3. \A n \in Nat : n \in S
  BY <1>1, <1>2, SetInduction
<1> QED BY <1>3 DEF S

LEMMA ListedRun ==
  ASSUME NEW texts, Len(texts) \in Nat
  PROVE  \E s : /\ s[0] = <<>> /\ Listed(texts) = s[Len(texts)]
                /\ \A i \in 1..Len(texts) : s[i] = Write(s[i - 1], i, texts[i])
<1> DEFINE Is(s) == s = [i \in 0..Len(texts) |-> IF i = 0 THEN <<>> ELSE Write(s[i - 1], i, texts[i])]
           run == CHOOSE s : Is(s)
<1>1. Is(run)
  <2>1. \E s : Is(s)
    BY ListedStates
  <2> HIDE DEF Is
  <2> QED BY <2>1
<1>2. Listed(texts) = run[Len(texts)]
  BY DEF Listed
<1> HIDE DEF run
<1> QED BY <1>1, <1>2

LEMMA ListedOneMore ==
  ASSUME NEW T, NEW texts \in Seq(T), NEW text \in T
  PROVE  Listed(Append(texts, text)) = Write(Listed(texts), Len(texts) + 1, Append(texts, text)[Len(texts) + 1])
<1> DEFINE n == Len(texts)
           longer == Append(texts, text)
<1>1. n \in Nat /\ Len(longer) = n + 1 /\ \A i \in 1..n : longer[i] = texts[i]
  BY LenProperties, AppendProperties
<1>2. PICK s : /\ s[0] = <<>> /\ Listed(texts) = s[n]
               /\ \A i \in 1..n : s[i] = Write(s[i - 1], i, texts[i])
  BY <1>1, ListedRun
<1>3. PICK u : /\ u[0] = <<>> /\ Listed(longer) = u[n + 1]
               /\ \A i \in 1..(n + 1) : u[i] = Write(u[i - 1], i, longer[i])
  <2>1. Len(longer) \in Nat
    BY <1>1
  <2> HIDE DEF n, longer
  <2>2. \E u : /\ u[0] = <<>> /\ Listed(longer) = u[Len(longer)]
               /\ \A i \in 1..Len(longer) : u[i] = Write(u[i - 1], i, longer[i])
    BY ONLY <2>1, ListedRun
  <2> QED BY ONLY <1>1, <2>2
<1> HIDE DEF n, longer
<1> DEFINE S == {i \in Nat : i <= n => u[i] = s[i]}
<1>4. 0 \in S
  BY <1>2, <1>3
<1>5. ASSUME NEW i \in Nat, i \in S PROVE i + 1 \in S
  <2> SUFFICES ASSUME i + 1 <= n PROVE u[i + 1] = s[i + 1]
    OBVIOUS
  <2>1. i + 1 \in 1..n /\ i + 1 \in 1..(n + 1) /\ (i + 1) - 1 = i /\ u[i] = s[i]
    BY <1>1, <1>5
  <2> QED BY <1>1, <1>2, <1>3, <2>1
<1> HIDE DEF S
<1>6. n \in S
  BY <1>1, <1>4, <1>5, SetInduction
<1>7. u[n] = s[n] /\ n + 1 \in 1..(n + 1) /\ (n + 1) - 1 = n
  BY <1>1, <1>6 DEF S
<1> QED BY <1>2, <1>3, <1>7 DEF n, longer

LEMMA InStates ==
  ASSUME NEW text
  PROVE  \A n \in Nat : \E s : s = [i \in 0..n |-> IF i = 0 THEN NothingIn ELSE InChar(s[i - 1], text[i])]
<1> DEFINE Is(s, n) == s = [i \in 0..n |-> IF i = 0 THEN NothingIn ELSE InChar(s[i - 1], text[i])]
           S == {n \in Nat : \E s : Is(s, n)}
<1>1. 0 \in S
  <2>1. Is([i \in 0..0 |-> NothingIn], 0)
    OBVIOUS
  <2> HIDE DEF Is
  <2> QED BY <2>1
<1>2. ASSUME NEW n \in Nat, n \in S PROVE n + 1 \in S
  <2>1. PICK s : Is(s, n)
    BY <1>2
  <2> DEFINE u == [i \in 0..(n + 1) |-> IF i <= n THEN s[i] ELSE InChar(s[n], text[n + 1])]
  <2>2. Is(u, n + 1)
    <3> SUFFICES ASSUME NEW i \in 0..(n + 1)
                 PROVE  u[i] = IF i = 0 THEN NothingIn ELSE InChar(u[i - 1], text[i])
      OBVIOUS
    <3>1. CASE i = n + 1
      BY <3>1
    <3>2. CASE i # n + 1
      BY <2>1, <3>2
    <3> QED BY <3>1, <3>2
  <2> HIDE DEF Is, u
  <2> QED BY <2>2
<1> HIDE DEF S
<1>3. \A n \in Nat : n \in S
  BY <1>1, <1>2, SetInduction
<1> QED BY <1>3 DEF S

LEMMA InRun ==
  ASSUME NEW text, Len(text) \in Nat
  PROVE  \E s : /\ s[0] = NothingIn /\ InAfter(text) = s[Len(text)]
                /\ \A i \in 1..Len(text) : s[i] = InChar(s[i - 1], text[i])
<1> DEFINE Is(s) == s = [i \in 0..Len(text) |-> IF i = 0 THEN NothingIn ELSE InChar(s[i - 1], text[i])]
           run == CHOOSE s : Is(s)
<1>1. Is(run)
  <2>1. \E s : Is(s)
    BY InStates
  <2> HIDE DEF Is
  <2> QED BY <2>1
<1>2. InAfter(text) = run[Len(text)]
  BY DEF InAfter
<1> HIDE DEF run
<1> QED BY <1>1, <1>2

LEMMA InOneMore ==
  ASSUME NEW T, NEW text \in Seq(T), NEW char \in T
  PROVE  InAfter(Append(text, char)) = InChar(InAfter(text), Append(text, char)[Len(text) + 1])
<1> DEFINE n == Len(text)
           longer == Append(text, char)
<1>1. n \in Nat /\ Len(longer) = n + 1 /\ \A i \in 1..n : longer[i] = text[i]
  BY LenProperties, AppendProperties
<1>2. PICK s : /\ s[0] = NothingIn /\ InAfter(text) = s[n]
               /\ \A i \in 1..n : s[i] = InChar(s[i - 1], text[i])
  BY <1>1, InRun
<1>3. PICK u : /\ u[0] = NothingIn /\ InAfter(longer) = u[n + 1]
               /\ \A i \in 1..(n + 1) : u[i] = InChar(u[i - 1], longer[i])
  <2>1. Len(longer) \in Nat
    BY <1>1
  <2> HIDE DEF n, longer
  <2>2. \E u : /\ u[0] = NothingIn /\ InAfter(longer) = u[Len(longer)]
               /\ \A i \in 1..Len(longer) : u[i] = InChar(u[i - 1], longer[i])
    BY ONLY <2>1, InRun, Zenon
  <2>3. Len(longer) = n + 1
    BY <1>1
  <2> QED BY ONLY <2>2, <2>3
<1> HIDE DEF n, longer
<1> DEFINE S == {i \in Nat : i <= n => u[i] = s[i]}
<1>4. 0 \in S
  BY <1>2, <1>3
<1>5. ASSUME NEW i \in Nat, i \in S PROVE i + 1 \in S
  <2> SUFFICES ASSUME i + 1 <= n PROVE u[i + 1] = s[i + 1]
    OBVIOUS
  <2>1. i + 1 \in 1..n /\ i + 1 \in 1..(n + 1) /\ (i + 1) - 1 = i /\ u[i] = s[i]
    BY <1>1, <1>5
  <2> QED BY <1>1, <1>2, <1>3, <2>1
<1> HIDE DEF S
<1>6. n \in S
  BY <1>1, <1>4, <1>5, SetInduction
<1>7. u[n] = s[n] /\ n + 1 \in 1..(n + 1) /\ (n + 1) - 1 = n
  BY <1>1, <1>6 DEF S
<1> QED BY <1>2, <1>3, <1>7 DEF n, longer

LEMMA SplitStates ==
  ASSUME NEW text
  PROVE  \A n \in Nat : \E s : s = [i \in 0..n |-> IF i = 0 THEN NothingSplit ELSE SplitChar(s[i - 1], text[i])]
<1> DEFINE Is(s, n) == s = [i \in 0..n |-> IF i = 0 THEN NothingSplit ELSE SplitChar(s[i - 1], text[i])]
           S == {n \in Nat : \E s : Is(s, n)}
<1>1. 0 \in S
  <2>1. Is([i \in 0..0 |-> NothingSplit], 0)
    OBVIOUS
  <2> HIDE DEF Is
  <2> QED BY <2>1
<1>2. ASSUME NEW n \in Nat, n \in S PROVE n + 1 \in S
  <2>1. PICK s : Is(s, n)
    BY <1>2
  <2> DEFINE u == [i \in 0..(n + 1) |-> IF i <= n THEN s[i] ELSE SplitChar(s[n], text[n + 1])]
  <2>2. Is(u, n + 1)
    <3> SUFFICES ASSUME NEW i \in 0..(n + 1)
                 PROVE  u[i] = IF i = 0 THEN NothingSplit ELSE SplitChar(u[i - 1], text[i])
      OBVIOUS
    <3>1. CASE i = n + 1
      BY <3>1
    <3>2. CASE i # n + 1
      BY <2>1, <3>2
    <3> QED BY <3>1, <3>2
  <2> HIDE DEF Is, u
  <2> QED BY <2>2
<1> HIDE DEF S
<1>3. \A n \in Nat : n \in S
  BY <1>1, <1>2, SetInduction
<1> QED BY <1>3 DEF S

LEMMA SplitRun ==
  ASSUME NEW text, Len(text) \in Nat
  PROVE  \E s : /\ s[0] = NothingSplit /\ SplitAfter(text) = s[Len(text)]
                /\ \A i \in 1..Len(text) : s[i] = SplitChar(s[i - 1], text[i])
<1> DEFINE Is(s) == s = [i \in 0..Len(text) |-> IF i = 0 THEN NothingSplit ELSE SplitChar(s[i - 1], text[i])]
           run == CHOOSE s : Is(s)
<1>1. Is(run)
  <2>1. \E s : Is(s)
    BY SplitStates
  <2> HIDE DEF Is
  <2> QED BY <2>1
<1>2. SplitAfter(text) = run[Len(text)]
  BY DEF SplitAfter
<1> HIDE DEF run
<1> QED BY <1>1, <1>2

LEMMA SplitOneMore ==
  ASSUME NEW T, NEW text \in Seq(T), NEW char \in T
  PROVE  SplitAfter(Append(text, char)) = SplitChar(SplitAfter(text), Append(text, char)[Len(text) + 1])
<1> DEFINE n == Len(text)
           longer == Append(text, char)
<1>1. n \in Nat /\ Len(longer) = n + 1 /\ \A i \in 1..n : longer[i] = text[i]
  BY LenProperties, AppendProperties
<1>2. PICK s : /\ s[0] = NothingSplit /\ SplitAfter(text) = s[n]
               /\ \A i \in 1..n : s[i] = SplitChar(s[i - 1], text[i])
  BY <1>1, SplitRun
<1>3. PICK u : /\ u[0] = NothingSplit /\ SplitAfter(longer) = u[n + 1]
               /\ \A i \in 1..(n + 1) : u[i] = SplitChar(u[i - 1], longer[i])
  <2>1. Len(longer) \in Nat
    BY <1>1
  <2> HIDE DEF n, longer
  <2>2. \E u : /\ u[0] = NothingSplit /\ SplitAfter(longer) = u[Len(longer)]
               /\ \A i \in 1..Len(longer) : u[i] = SplitChar(u[i - 1], longer[i])
    BY ONLY <2>1, SplitRun, Zenon
  <2>3. Len(longer) = n + 1
    BY <1>1
  <2> QED BY ONLY <2>2, <2>3
<1> HIDE DEF n, longer
<1> DEFINE S == {i \in Nat : i <= n => u[i] = s[i]}
<1>4. 0 \in S
  BY <1>2, <1>3
<1>5. ASSUME NEW i \in Nat, i \in S PROVE i + 1 \in S
  <2> SUFFICES ASSUME i + 1 <= n PROVE u[i + 1] = s[i + 1]
    OBVIOUS
  <2>1. i + 1 \in 1..n /\ i + 1 \in 1..(n + 1) /\ (i + 1) - 1 = i /\ u[i] = s[i]
    BY <1>1, <1>5
  <2> QED BY <1>1, <1>2, <1>3, <2>1
<1> HIDE DEF S
<1>6. n \in S
  BY <1>1, <1>4, <1>5, SetInduction
<1>7. u[n] = s[n] /\ n + 1 \in 1..(n + 1) /\ (n + 1) - 1 = n
  BY <1>1, <1>6 DEF S
<1> QED BY <1>2, <1>3, <1>7 DEF n, longer

LEMMA RecodedStates ==
  ASSUME NEW text
  PROVE  \A n \in Nat : \E s : s = [i \in 0..n |-> IF i = 0 THEN <<>> ELSE s[i - 1] \o AsRunes(text[i])]
<1> DEFINE Is(s, n) == s = [i \in 0..n |-> IF i = 0 THEN <<>> ELSE s[i - 1] \o AsRunes(text[i])]
           S == {n \in Nat : \E s : Is(s, n)}
<1>1. 0 \in S
  <2>1. Is([i \in 0..0 |-> <<>>], 0)
    OBVIOUS
  <2> HIDE DEF Is
  <2> QED BY <2>1
<1>2. ASSUME NEW n \in Nat, n \in S PROVE n + 1 \in S
  <2>1. PICK s : Is(s, n)
    BY <1>2
  <2> DEFINE u == [i \in 0..(n + 1) |-> IF i <= n THEN s[i] ELSE s[n] \o AsRunes(text[n + 1])]
  <2>2. Is(u, n + 1)
    <3> SUFFICES ASSUME NEW i \in 0..(n + 1)
                 PROVE  u[i] = IF i = 0 THEN <<>> ELSE u[i - 1] \o AsRunes(text[i])
      OBVIOUS
    <3>1. CASE i = n + 1
      BY <3>1
    <3>2. CASE i # n + 1
      BY <2>1, <3>2
    <3> QED BY <3>1, <3>2
  <2> HIDE DEF Is, u
  <2> QED BY <2>2
<1> HIDE DEF S
<1>3. \A n \in Nat : n \in S
  BY <1>1, <1>2, SetInduction
<1> QED BY <1>3 DEF S

LEMMA RecodedRun ==
  ASSUME NEW text, Len(text) \in Nat
  PROVE  \E s : /\ s[0] = <<>> /\ Recoded(text) = s[Len(text)]
                /\ \A i \in 1..Len(text) : s[i] = s[i - 1] \o AsRunes(text[i])
<1> DEFINE Is(s) == s = [i \in 0..Len(text) |-> IF i = 0 THEN <<>> ELSE s[i - 1] \o AsRunes(text[i])]
           run == CHOOSE s : Is(s)
<1>1. Is(run)
  <2>1. \E s : Is(s)
    BY RecodedStates
  <2> HIDE DEF Is
  <2> QED BY <2>1
<1>2. Recoded(text) = run[Len(text)]
  BY DEF Recoded
<1> HIDE DEF run
<1> QED BY <1>1, <1>2

LEMMA RecodedOneMore ==
  ASSUME NEW T, NEW text \in Seq(T), NEW char \in T
  PROVE  Recoded(Append(text, char)) = Recoded(text) \o AsRunes(Append(text, char)[Len(text) + 1])
<1> DEFINE n == Len(text)
           longer == Append(text, char)
<1>1. n \in Nat /\ Len(longer) = n + 1 /\ \A i \in 1..n : longer[i] = text[i]
  BY LenProperties, AppendProperties
<1>2. PICK s : /\ s[0] = <<>> /\ Recoded(text) = s[n]
               /\ \A i \in 1..n : s[i] = s[i - 1] \o AsRunes(text[i])
  BY <1>1, RecodedRun
<1>3. PICK u : /\ u[0] = <<>> /\ Recoded(longer) = u[n + 1]
               /\ \A i \in 1..(n + 1) : u[i] = u[i - 1] \o AsRunes(longer[i])
  <2>1. Len(longer) \in Nat
    BY <1>1
  <2> HIDE DEF n, longer
  <2>2. \E u : /\ u[0] = <<>> /\ Recoded(longer) = u[Len(longer)]
               /\ \A i \in 1..Len(longer) : u[i] = u[i - 1] \o AsRunes(longer[i])
    BY ONLY <2>1, RecodedRun, Zenon
  <2>3. Len(longer) = n + 1
    BY <1>1
  <2> QED BY ONLY <2>2, <2>3
<1> HIDE DEF n, longer
<1> DEFINE S == {i \in Nat : i <= n => u[i] = s[i]}
<1>4. 0 \in S
  BY <1>2, <1>3
<1>5. ASSUME NEW i \in Nat, i \in S PROVE i + 1 \in S
  <2> SUFFICES ASSUME i + 1 <= n PROVE u[i + 1] = s[i + 1]
    OBVIOUS
  <2>1. i + 1 \in 1..n /\ i + 1 \in 1..(n + 1) /\ (i + 1) - 1 = i /\ u[i] = s[i]
    BY <1>1, <1>5
  <2> QED BY <1>1, <1>2, <1>3, <2>1
<1> HIDE DEF S
<1>6. n \in S
  BY <1>1, <1>4, <1>5, SetInduction
<1>7. u[n] = s[n] /\ n + 1 \in 1..(n + 1) /\ (n + 1) - 1 = n
  BY <1>1, <1>6 DEF S
<1> QED BY <1>2, <1>3, <1>7 DEF n, longer

LEMMA NothingListed == Listed(<<>>) = <<>>
<1>1. Len(<<>>) = 0
  OBVIOUS
<1> QED BY <1>1, ListedRun

LEMMA NothingWasIn == InAfter(<<>>) = NothingIn
<1>1. Len(<<>>) = 0
  OBVIOUS
<1> QED BY <1>1, InRun

LEMMA NothingRecoded == Recoded(<<>>) = <<>>
<1>1. Len(<<>>) = 0
  OBVIOUS
<1> QED BY <1>1, RecodedRun

LEMMA NothingWasSplit == SplitAfter(<<>>) = NothingSplit
<1>1. Len(<<>>) = 0
  OBVIOUS
<1> QED BY <1>1, SplitRun

LEMMA ListedIsText ==
  ASSUME NEW T, Comma \in T
  PROVE  \A texts \in Seq(Seq(T)) : Listed(texts) \in Seq(T)
<1> DEFINE S == {q \in Seq(Seq(T)) : Listed(q) \in Seq(T)}
<1>1. <<>> \in S
  BY NothingListed, EmptySeq
<1>2. ASSUME NEW q \in Seq(Seq(T)), NEW e \in Seq(T), q \in S PROVE Append(q, e) \in S
  <2>1. Listed(Append(q, e)) = Write(Listed(q), Len(q) + 1, Append(q, e)[Len(q) + 1])
    BY ListedOneMore
  <2>2. Append(q, e) \in Seq(Seq(T)) /\ Append(q, e)[Len(q) + 1] = e
    BY AppendProperties
  <2>3. <<Comma>> \in Seq(T) /\ <<>> \in Seq(T) /\ Listed(q) \in Seq(T)
    BY <1>2, EmptySeq
  <2>4. Write(Listed(q), Len(q) + 1, e) \in Seq(T)
    BY <2>3, ConcatProperties DEF Write
  <2> QED BY <2>1, <2>2, <2>4
<1> HIDE DEF S
<1>3. \A q \in Seq(Seq(T)) : q \in S
  BY <1>1, <1>2, SequencesInduction
<1> QED BY <1>3 DEF S

\* The text without its opening brace, and without either.
LEMMA JoinedEnds ==
  ASSUME NEW T, NEW texts, Listed(texts) \in Seq(T), {Open, Close} \subseteq T
  PROVE  /\ Tail(Joined(texts)) = Append(Listed(texts), Close)
         /\ SubSeq(Joined(texts), 2, Len(Joined(texts)) - 1) = Listed(texts)
<1> DEFINE l == Listed(texts)
           j == Joined(texts)
<1>1. l \in Seq(T) /\ Len(l) \in Nat /\ <<Open>> \in Seq(T) /\ <<Close>> \in Seq(T)
  BY LenProperties
<1>2. j = (<<Open>> \o l) \o <<Close>>
  BY DEF Joined
<1> HIDE DEF l, j
<1>3. <<Open>> \o l \in Seq(T) /\ Len(<<Open>> \o l) = Len(l) + 1
      /\ \A i \in 1..Len(l) : (<<Open>> \o l)[i + 1] = l[i]
  BY <1>1, ConcatProperties
<1>4. j \in Seq(T) /\ Len(j) = Len(l) + 2 /\ j[Len(l) + 2] = Close /\ \A i \in 1..Len(l) : j[i + 1] = l[i]
  BY <1>1, <1>2, <1>3, ConcatProperties
<1>5. /\ Append(l, Close) \in Seq(T) /\ Len(Append(l, Close)) = Len(l) + 1
      /\ Append(l, Close)[Len(l) + 1] = Close /\ \A i \in 1..Len(l) : Append(l, Close)[i] = l[i]
  BY <1>1, AppendProperties
<1>6. Tail(j) = Append(l, Close)
  <2>1. j # <<>>
    BY <1>1, <1>4
  <2>2. Tail(j) \in Seq(T) /\ Len(Tail(j)) = Len(l) + 1 /\ \A i \in 1..(Len(l) + 1) : Tail(j)[i] = j[i + 1]
    BY <1>1, <1>4, <2>1, HeadTailProperties
  <2>3. \A i \in 1..(Len(l) + 1) : Tail(j)[i] = Append(l, Close)[i]
    BY <1>1, <1>4, <1>5, <2>2
  <2> QED BY <1>5, <2>2, <2>3, SeqEqual
<1>7. SubSeq(j, 2, Len(j) - 1) = l
  <2>1. \A i \in 2..(Len(l) + 1) : j[i] \in T
    BY <1>1, <1>4, ElementOfSeq
  <2>2. /\ SubSeq(j, 2, Len(l) + 1) \in Seq(T) /\ Len(SubSeq(j, 2, Len(l) + 1)) = Len(l)
        /\ \A i \in 1..Len(l) : SubSeq(j, 2, Len(l) + 1)[i] = j[i + 1]
    BY <1>1, <2>1, SubSeqProperties
  <2>3. Len(j) - 1 = Len(l) + 1
    BY <1>1, <1>4
  <2>4. \A i \in 1..Len(l) : SubSeq(j, 2, Len(l) + 1)[i] = l[i]
    BY <1>4, <2>2
  <2> QED BY <1>1, <2>2, <2>3, <2>4, SeqEqual
<1> QED BY <1>6, <1>7 DEF l, j

(* array_in                                                                *)

In(r, word, state) == [result |-> r, current |-> word, in |-> state]

LEMMA InChars ==
  ASSUME NEW r, NEW word, NEW c \in Alphabet
  PROVE  /\ InChar(In(r, word, "start"), c) = In(r, Append(word, c), "plain")
         /\ InChar(In(r, word, "plain"), c) = In(r, Append(word, c), "plain")
BY ArrayAssumption, SignsDiffer DEF InChar, In

LEMMA InCommas ==
  ASSUME NEW r, NEW word
  PROVE  /\ InChar(In(r, word, "plain"), Comma) = In(Append(r, word), <<>>, "start")
         /\ InChar(In(r, word, "plain"), Close) = In(Append(r, word), <<>>, "end")
BY ArrayAssumption, SignsDiffer, Zenon DEF InChar, In

\* A word that begins at the start of an element is that element.
LEMMA InWord ==
  ASSUME NEW text \in Seq(Chars), NEW r, InAfter(text) = In(r, <<>>, "start")
  PROVE  \A word \in Seq(Alphabet) : word # <<>> => InAfter(text \o word) = In(r, word, "plain")
<1> DEFINE S == {w \in Seq(Alphabet) : w # <<>> => InAfter(text \o w) = In(r, w, "plain")}
<1>1. <<>> \in S
  BY EmptySeq
<1>2. ASSUME NEW w \in Seq(Alphabet), NEW c \in Alphabet, w \in S PROVE Append(w, c) \in S
  <2>1. w \in Seq(Chars) /\ c \in Chars /\ text \o w \in Seq(Chars)
    <3>1. w \in Seq(Chars) /\ c \in Chars
      BY DEF Chars
    <3> QED BY <3>1, ConcatProperties
  <2>2. InAfter(text \o Append(w, c)) = InChar(InAfter(text \o w), c)
    <3>1. text \o Append(w, c) = Append(text \o w, c)
      BY <2>1, AppendAfter
    <3>2. InAfter(Append(text \o w, c)) = InChar(InAfter(text \o w), Append(text \o w, c)[Len(text \o w) + 1])
      BY ONLY <2>1, InOneMore
    <3>3. Append(text \o w, c)[Len(text \o w) + 1] = c
      BY ONLY <2>1, AppendProperties
    <3> QED BY ONLY <3>1, <3>2, <3>3
  <2>3. CASE w = <<>>
    <3>1. text \o w = text
      BY <2>3, ConcatEmptySeq
    <3>2. InAfter(text \o Append(w, c)) = In(r, Append(w, c), "plain")
      BY <2>2, <2>3, <3>1, InChars
    <3> QED BY <3>2, AppendProperties
  <2>4. CASE w # <<>>
    <3>1. InAfter(text \o w) = In(r, w, "plain")
      BY <1>2, <2>4
    <3>2. InAfter(text \o Append(w, c)) = In(r, Append(w, c), "plain")
      BY <2>2, <3>1, InChars
    <3> QED BY <3>2, AppendProperties
  <2> QED BY <2>3, <2>4
<1> HIDE DEF S
<1>3. \A w \in Seq(Alphabet) : w \in S
  BY <1>1, <1>2, SequencesInduction
<1> QED BY <1>3 DEF S

Words == Seq(Alphabet) \ {<<>>}

LEMMA WordsAreTexts == Seq(Words) \subseteq Seq(Seq(Chars)) /\ Words \subseteq Seq(Alphabet) /\ Comma \in Chars
<1>1. Alphabet \subseteq Chars /\ Comma \in Chars
  BY DEF Chars
<1>2. Words \subseteq Seq(Chars)
  BY <1>1 DEF Words
<1> QED BY <1>1, <1>2 DEF Words

\* After a list of words, all but the last have been read, and the last is the
\* element that is being read.
LEMMA WordsAreIn ==
  \A v \in Seq(Words), e \in Words : InAfter(Listed(Append(v, e))) = In(v, e, "plain")
<1> DEFINE S == {v \in Seq(Words) : \A e \in Words : InAfter(Listed(Append(v, e))) = In(v, e, "plain")}
<1>1. ASSUME NEW v \in Seq(Words), NEW e \in Words
      PROVE  Listed(Append(v, e)) = Write(Listed(v), Len(v) + 1, e)
  BY ListedOneMore, AppendProperties
<1>2. <<>> \in S
  <2> SUFFICES ASSUME NEW e \in Words PROVE InAfter(Listed(Append(<<>>, e))) = In(<<>>, e, "plain")
    BY EmptySeq
  <2>1. <<>> \in Seq(Words) /\ Len(<<>>) = 0 /\ <<>> \in Seq(Chars)
    BY EmptySeq
  <2>2. Listed(Append(<<>>, e)) = Write(<<>>, 1, e)
    <3>1. Listed(Append(<<>>, e)) = Write(Listed(<<>>), Len(<<>>) + 1, e)
      BY <1>1, <2>1, Zenon
    <3>2. Len(<<>>) + 1 = 1
      BY <2>1
    <3> QED BY <3>1, <3>2, NothingListed, Zenon
  <2>3. Write(<<>>, 1, e) = <<>> \o e
    BY DEF Write
  <2>4. InAfter(<<>>) = In(<<>>, <<>>, "start")
    BY NothingWasIn DEF NothingIn, In
  <2>5. e \in Seq(Alphabet) /\ e # <<>>
    BY DEF Words
  <2>6. InAfter(<<>> \o e) = In(<<>>, e, "plain")
    BY <2>1, <2>4, <2>5, InWord
  <2> QED BY <2>2, <2>3, <2>6
<1>3. ASSUME NEW v \in Seq(Words), NEW d \in Words, v \in S PROVE Append(v, d) \in S
  <2> DEFINE w == Append(v, d)
  <2>1. w \in Seq(Words) /\ Len(w) # 0 /\ Len(w) \in Nat
    BY AppendProperties, LenProperties
  <2> SUFFICES ASSUME NEW e \in Words PROVE InAfter(Listed(Append(w, e))) = In(w, e, "plain")
    BY <2>1
  <2>2. InAfter(Listed(w)) = In(v, d, "plain")
    BY <1>3
  <2> HIDE DEF w
  <2>3. Listed(w) \in Seq(Chars) /\ e \in Seq(Alphabet) /\ e # <<>> /\ e \in Seq(Chars)
    <3>1. w \in Seq(Seq(Chars)) /\ Comma \in Chars
      BY <2>1, WordsAreTexts
    <3>2. Listed(w) \in Seq(Chars)
      BY <3>1, ListedIsText
    <3>3. e \in Seq(Alphabet) /\ e # <<>>
      BY DEF Words
    <3>4. e \in Seq(Chars)
      BY <3>3 DEF Chars
    <3> QED BY <3>2, <3>3, <3>4
  <2>4. Listed(Append(w, e)) = Append(Listed(w), Comma) \o e
    <3>1. Listed(Append(w, e)) = Write(Listed(w), Len(w) + 1, e)
      BY <1>1, <2>1
    <3>2. Write(Listed(w), Len(w) + 1, e) = Listed(w) \o <<Comma>> \o e
      <4>1. Len(w) + 1 # 1
        BY <2>1
      <4> QED BY <4>1, Zenon DEF Write
    <3>3. Append(Listed(w), Comma) = Listed(w) \o <<Comma>>
      BY <2>3, WordsAreTexts, AppendIsConcat
    <3> QED BY <3>1, <3>2, <3>3
  <2>5. InAfter(Append(Listed(w), Comma)) = In(w, <<>>, "start")
    <3>1. InAfter(Append(Listed(w), Comma)) = InChar(InAfter(Listed(w)), Comma)
      BY <2>3, WordsAreTexts, InOneMore, AppendProperties
    <3>2. InChar(In(v, d, "plain"), Comma) = In(w, <<>>, "start")
      BY InCommas DEF w
    <3> QED BY <2>2, <3>1, <3>2
  <2>6. Append(Listed(w), Comma) \in Seq(Chars)
    BY <2>3, WordsAreTexts, AppendProperties
  <2> QED BY <2>3, <2>4, <2>5, <2>6, InWord
<1> HIDE DEF S
<1>4. \A v \in Seq(Words) : v \in S
  BY <1>2, <1>3, SequencesInduction
<1> QED BY <1>4 DEF S

LEMMA WrittenWordsAreRead == \A w \in Seq(Words) : ArrayIn(Value(w)) = w
<1> SUFFICES ASSUME NEW w \in Seq(Words) PROVE ArrayIn(Joined(w)) = w
  BY DEF Value
<1>1. CASE w = <<>>
  BY <1>1 DEF ArrayIn
<1>2. CASE w # <<>>
  <2>1. PICK n \in Nat : Len(w) = n + 1
    BY <1>2, EmptySeq
  <2> DEFINE v == SubSeq(w, 1, n)
             e == w[n + 1]
  <2>2. v \in Seq(Words) /\ e \in Words /\ w = Append(v, e)
    BY <2>1, SplitSequence
  <2> HIDE DEF v, e
  <2>3. InAfter(Listed(w)) = In(v, e, "plain")
    <3>1. InAfter(Listed(Append(v, e))) = In(v, e, "plain")
      BY <2>2, WordsAreIn, Zenon
    <3> QED BY <2>2, <3>1, Zenon
  <2>4. Listed(w) \in Seq(Chars) /\ {Open, Close} \subseteq Chars
    BY WordsAreTexts, ListedIsText DEF Chars
  <2>5. InAfter(Append(Listed(w), Close)) = In(w, <<>>, "end")
    <3>1. /\ InAfter(Append(Listed(w), Close))
               = InChar(InAfter(Listed(w)), Append(Listed(w), Close)[Len(Listed(w)) + 1])
          /\ Append(Listed(w), Close)[Len(Listed(w)) + 1] = Close
      BY <2>4, InOneMore, AppendProperties
    <3>2. InChar(In(v, e, "plain"), Close) = In(Append(v, e), <<>>, "end")
      BY InCommas
    <3> QED BY <2>2, <2>3, <3>1, <3>2
  <2>6. Tail(Joined(w)) = Append(Listed(w), Close)
    BY <2>4, JoinedEnds
  <2>7. Joined(w) # Joined(<<>>)
    <3> SUFFICES ASSUME Joined(w) = Joined(<<>>) PROVE FALSE
      OBVIOUS
    <3>1. Tail(Joined(<<>>)) = Append(<<>>, Close)
      BY <2>4, JoinedEnds, NothingListed, EmptySeq
    <3>2. Append(Listed(w), Close) = Append(<<>>, Close)
      BY <2>6, <3>1
    <3>3. Listed(w) = <<>>
      BY <2>4, <3>2, AppendInjective, EmptySeq
    <3>4. In(v, e, "plain") = In(<<>>, <<>>, "start")
      BY <2>3, <3>3, NothingWasIn DEF NothingIn, In
    <3>5. In(v, e, "plain").in = "plain" /\ In(<<>>, <<>>, "start").in = "start"
      BY DEF In
    <3> QED BY <3>4, <3>5
  <2>8. ArrayIn(Joined(w)) = In(w, <<>>, "end").result /\ In(w, <<>>, "end").in = "end"
    <3>1. In(w, <<>>, "end").in = "end"
      BY DEF In
    <3> QED BY <2>5, <2>6, <2>7, <3>1 DEF ArrayIn
  <2> QED BY <2>8 DEF In
<1> QED BY <1>1, <1>2

(* What a column holds has no quotes in its elements.                      *)

Plain == Chars \ {Quote}

States == [result : Seq(Seq(Plain)), current : Seq(Plain), in : {"start", "plain", "quotes", "closed", "end", "error"}]

LEMMA InCharTypes ==
  ASSUME NEW s \in States, NEW c \in Chars
  PROVE  InChar(s, c) \in States
<1>1. s.current \in Seq(Plain) /\ s.result \in Seq(Seq(Plain)) /\ <<>> \in Seq(Plain)
  BY EmptySeq DEF States
<1>2. Alphabet \subseteq Plain
  BY ArrayAssumption DEF Plain, Chars
<1>3. CASE c # Quote
  <2>1. c \in Plain
    BY <1>3 DEF Plain
  <2>2. Append(s.current, c) \in Seq(Plain) /\ Append(s.result, s.current) \in Seq(Seq(Plain))
    BY <1>1, <2>1, AppendProperties
  <2> QED BY <1>1, <1>3, <2>2 DEF InChar, States
<1>4. CASE c = Quote
  <2>1. c \notin Alphabet /\ c \notin {Comma, Close}
    BY <1>4, ArrayAssumption, SignsDiffer
  <2> QED BY <1>1, <1>4, <2>1 DEF InChar, States
<1> QED BY <1>3, <1>4

LEMMA InTypes == \A text \in Seq(Chars) : InAfter(text) \in States
<1> DEFINE S == {t \in Seq(Chars) : InAfter(t) \in States}
<1>1. <<>> \in S
  <2>1. <<>> \in Seq(Chars) /\ <<>> \in Seq(Seq(Plain)) /\ <<>> \in Seq(Plain)
    BY EmptySeq
  <2>2. NothingIn \in States
    BY <2>1 DEF NothingIn, States
  <2> QED BY <2>1, <2>2, NothingWasIn
<1>2. ASSUME NEW t \in Seq(Chars), NEW c \in Chars, t \in S PROVE Append(t, c) \in S
  <2>1. /\ InAfter(Append(t, c)) = InChar(InAfter(t), Append(t, c)[Len(t) + 1])
        /\ Append(t, c)[Len(t) + 1] = c /\ Append(t, c) \in Seq(Chars)
    BY InOneMore, AppendProperties
  <2>2. InChar(InAfter(t), c) \in States
    BY <1>2, InCharTypes
  <2> QED BY <2>1, <2>2
<1> HIDE DEF S
<1>3. \A t \in Seq(Chars) : t \in S
  BY <1>1, <1>2, SequencesInduction
<1> QED BY <1>3 DEF S

LEMMA ColumnsHaveNoQuotes ==
  ASSUME NEW array \in Arrays, ArrayIn(Value(array)) # NoArray
  PROVE  ArrayIn(Value(array)) \in Seq(Seq(Plain))
<1>1. array \in Seq(Seq(Chars)) /\ Comma \in Chars /\ {Open, Close} \subseteq Chars
  <2>1. PICK n \in Nat : array \in [1..n -> Elements]
    BY ArrayAssumption DEF Arrays, SeqOf
  <2>2. ASSUME NEW e \in Elements PROVE e \in Seq(Chars)
    <3>1. PICK m \in Nat : e \in [1..m -> Alphabet \cup {Comma, Quote}]
      BY ArrayAssumption DEF Elements, SeqOf
    <3>2. e \in [1..m -> Chars]
      BY <3>1 DEF Chars
    <3> QED BY <3>2
  <2>3. array \in [1..n -> Seq(Chars)]
    BY <2>1, <2>2
  <2> QED BY <2>3 DEF Chars
<1>2. Listed(array) \in Seq(Chars)
  BY <1>1, ListedIsText
<1>3. Tail(Joined(array)) = Append(Listed(array), Close) /\ Append(Listed(array), Close) \in Seq(Chars)
  BY <1>1, <1>2, JoinedEnds, AppendProperties
<1>4. InAfter(Tail(Joined(array))).result \in Seq(Seq(Plain))
  BY <1>3, InTypes DEF States
<1> QED BY <1>4, EmptySeq DEF ArrayIn, Value

(* splitArray                                                              *)

Split(r, element, quotes) == [result |-> r, current |-> element, inQuotes |-> quotes]

LEMMA SplitOther ==
  ASSUME NEW r, NEW element, NEW c, NEW quotes \in BOOLEAN, c # Quote /\ (c # Comma \/ quotes)
  PROVE  SplitChar(Split(r, element, quotes), c) = Split(r, element \o AsRunes(c), quotes)
BY Zenon DEF SplitChar, Split

LEMMA SplitChars ==
  ASSUME NEW r, NEW element, NEW quotes \in BOOLEAN
  PROVE  /\ SplitChar(Split(r, element, quotes), Quote) = Split(r, element, ~quotes)
         /\ SplitChar(Split(r, element, FALSE), Comma) = Split(Append(r, element), <<>>, FALSE)
BY SignsDiffer, Zenon DEF SplitChar, Split

LEMMA RecodedAppend ==
  ASSUME NEW text \in Seq(Chars), NEW c \in Chars
  PROVE  Recoded(Append(text, c)) = Recoded(text) \o AsRunes(c)
<1>1. Recoded(Append(text, c)) = Recoded(text) \o AsRunes(Append(text, c)[Len(text) + 1])
  BY ONLY RecodedOneMore, text \in Seq(Chars), c \in Chars
<1>2. Append(text, c)[Len(text) + 1] = c
  BY AppendProperties
<1> QED BY ONLY <1>1, <1>2

LEMMA SplitAppend ==
  ASSUME NEW text \in Seq(Chars), NEW c \in Chars
  PROVE  /\ SplitAfter(Append(text, c)) = SplitChar(SplitAfter(text), c)
         /\ Append(text, c) \in Seq(Chars)
BY SplitOneMore, AppendProperties

\* Characters that do not separate come to the element, recoded.
LEMMA SplitPlain ==
  ASSUME NEW text \in Seq(Chars), NEW r, NEW quotes \in BOOLEAN, NEW D \in SUBSET Chars,
         SplitAfter(text) = Split(r, <<>>, quotes),
         \A c \in D : c # Quote /\ (c # Comma \/ quotes)
  PROVE  \A v \in Seq(D) : SplitAfter(text \o v) = Split(r, Recoded(v), quotes)
<1> DEFINE S == {v \in Seq(D) : SplitAfter(text \o v) = Split(r, Recoded(v), quotes)}
<1>1. <<>> \in S
  BY EmptySeq, ConcatEmptySeq, NothingRecoded
<1>2. ASSUME NEW v \in Seq(D), NEW c \in D, v \in S PROVE Append(v, c) \in S
  <2>1. v \in Seq(Chars) /\ c \in Chars /\ Append(v, c) \in Seq(D)
    BY AppendProperties
  <2>2. text \o v \in Seq(Chars) /\ text \o Append(v, c) = Append(text \o v, c)
    BY <2>1, ConcatProperties, AppendAfter
  <2>3. SplitAfter(Append(text \o v, c)) = SplitChar(SplitAfter(text \o v), c)
    BY <2>1, <2>2, SplitAppend
  <2>4. SplitAfter(text \o v) = Split(r, Recoded(v), quotes)
    BY <1>2
  <2>5. SplitChar(Split(r, Recoded(v), quotes), c) = Split(r, Recoded(v) \o AsRunes(c), quotes)
    <3>1. c # Quote /\ (c # Comma \/ quotes)
      OBVIOUS
    <3> QED BY <3>1, SplitOther
  <2>6. Recoded(Append(v, c)) = Recoded(v) \o AsRunes(c)
    BY <2>1, RecodedAppend
  <2> QED BY ONLY <2>1, <2>2, <2>3, <2>4, <2>5, <2>6
<1> HIDE DEF S
<1>3. \A v \in Seq(D) : v \in S
  BY <1>1, <1>2, SequencesInduction
<1> QED BY <1>3 DEF S

\* An element that array_out has quoted, or has not, comes back recoded.
LEMMA SplitElement ==
  ASSUME NEW text \in Seq(Chars), NEW r, NEW e \in Seq(Plain), SplitAfter(text) = Split(r, <<>>, FALSE)
  PROVE  Quoted(e) \in Seq(Chars) /\ SplitAfter(text \o Quoted(e)) = Split(r, Recoded(e), FALSE)
<1>1. Plain \in SUBSET Chars /\ e \in Seq(Chars) /\ Quote \in Chars
  BY DEF Plain, Chars
<1>2. CASE e # <<>> /\ Range(e) \subseteq Alphabet
  <2>1. e \in Seq(Alphabet)
    <3>1. \A i \in 1..Len(e) : e[i] \in Alphabet
      BY <1>2, LenProperties DEF Range
    <3> QED BY <3>1, LenProperties
  <2>2. Alphabet \in SUBSET Chars /\ \A c \in Alphabet : c # Quote /\ (c # Comma \/ FALSE)
    BY ArrayAssumption DEF Chars
  <2>3. SplitAfter(text \o e) = Split(r, Recoded(e), FALSE)
    BY <2>1, <2>2, SplitPlain
  <2> QED BY <1>1, <1>2, <2>3 DEF Quoted
<1>3. CASE ~(e # <<>> /\ Range(e) \subseteq Alphabet)
  <2>1. Quoted(e) = <<Quote>> \o e \o <<Quote>>
    BY <1>3 DEF Quoted
  <2>2. <<Quote>> \in Seq(Chars) /\ <<Quote>> \o e \in Seq(Chars) /\ <<Quote>> \o e \o <<Quote>> \in Seq(Chars)
    BY <1>1, ConcatProperties
  <2> DEFINE opened == Append(text, Quote)
  <2>3. opened \in Seq(Chars) /\ SplitAfter(opened) = Split(r, <<>>, TRUE)
    <3>1. opened \in Seq(Chars) /\ SplitAfter(opened) = SplitChar(Split(r, <<>>, FALSE), Quote)
      BY <1>1, SplitAppend
    <3>2. SplitChar(Split(r, <<>>, FALSE), Quote) = Split(r, <<>>, ~FALSE)
      BY SplitChars
    <3>3. ~FALSE = TRUE
      OBVIOUS
    <3> QED BY <3>1, <3>2, <3>3, Zenon
  <2>4. opened \o e \in Seq(Chars) /\ SplitAfter(opened \o e) = Split(r, Recoded(e), TRUE)
    <3>1. \A c \in Plain : c # Quote /\ (c # Comma \/ TRUE)
      BY DEF Plain
    <3> QED BY <1>1, <2>3, <3>1, SplitPlain, ConcatProperties
  <2>5. SplitAfter(Append(opened \o e, Quote)) = Split(r, Recoded(e), FALSE)
    <3>1. SplitAfter(Append(opened \o e, Quote)) = SplitChar(Split(r, Recoded(e), TRUE), Quote)
      BY <1>1, <2>4, SplitAppend
    <3>2. SplitChar(Split(r, Recoded(e), TRUE), Quote) = Split(r, Recoded(e), ~TRUE)
      BY SplitChars
    <3>3. ~TRUE = FALSE
      OBVIOUS
    <3> QED BY <3>1, <3>2, <3>3, Zenon
  <2>6. text \o Quoted(e) = Append(opened \o e, Quote)
    <3>1. opened = text \o <<Quote>> /\ Append(opened \o e, Quote) = (opened \o e) \o <<Quote>>
      BY <1>1, <2>4, AppendIsConcat
    <3>2. (opened \o e) \o <<Quote>> = opened \o (e \o <<Quote>>)
      BY <1>1, <2>2, <2>3, ConcatAssociative
    <3>3. e \o <<Quote>> \in Seq(Chars)
      BY <1>1, <2>2, ConcatProperties
    <3>4. (text \o <<Quote>>) \o (e \o <<Quote>>) = text \o (<<Quote>> \o (e \o <<Quote>>))
      BY <2>2, <3>3, ConcatAssociative
    <3>5. <<Quote>> \o (e \o <<Quote>>) = (<<Quote>> \o e) \o <<Quote>>
      BY <1>1, <2>2, ConcatAssociative
    <3> QED BY <2>1, <3>1, <3>2, <3>4, <3>5
  <2> QED BY <2>1, <2>2, <2>5, <2>6
<1> QED BY <1>2, <1>3

(* The bytes that come back as characters.                                 *)

LEMMA RunesType ==
  ASSUME NEW c \in Plain
  PROVE  /\ AsRunes(c) \in Seq(Plain)
         /\ c \in NonASCII => Len(AsRunes(c)) >= 2
         /\ c \notin NonASCII => AsRunes(c) = <<c>>
<1>1. NonASCII \subseteq Plain
  BY ArrayAssumption DEF Plain, Chars, Alphabet
<1>2. CASE c \in NonASCII
  BY <1>1, <1>2, BytesAssumption DEF AsRunes
<1>3. CASE c \notin NonASCII
  BY <1>3 DEF AsRunes
<1> QED BY <1>2, <1>3

ASCII == Plain \ NonASCII

\* What a text comes back as is as long as the text if it is in ASCII, and then
\* it is that text; otherwise it is longer.
LEMMA RecodedText ==
  \A e \in Seq(Plain) : /\ Recoded(e) \in Seq(Plain) /\ Len(Recoded(e)) >= Len(e)
                        /\ e \in Seq(ASCII) => Recoded(e) = e
                        /\ e \notin Seq(ASCII) => Len(Recoded(e)) > Len(e)
<1> DEFINE Fine(e) == /\ Recoded(e) \in Seq(Plain) /\ Len(Recoded(e)) >= Len(e)
                      /\ e \in Seq(ASCII) => Recoded(e) = e
                      /\ e \notin Seq(ASCII) => Len(Recoded(e)) > Len(e)
           S == {e \in Seq(Plain) : Fine(e)}
<1>1. <<>> \in S
  <2>1. <<>> \in Seq(Plain) /\ <<>> \in Seq(ASCII) /\ Recoded(<<>>) = <<>> /\ Len(<<>>) = 0
    BY EmptySeq, NothingRecoded
  <2>2. Len(Recoded(<<>>)) >= Len(<<>>)
    BY <2>1
  <2> QED BY ONLY <2>1, <2>2, Zenon
<1>2. ASSUME NEW e \in Seq(Plain), NEW c \in Plain, e \in S PROVE Append(e, c) \in S
  <2>1. Recoded(Append(e, c)) = Recoded(e) \o AsRunes(c)
    <3>1. e \in Seq(Chars) /\ c \in Chars
      BY DEF Plain
    <3> QED BY <3>1, RecodedAppend
  <2>2. Fine(e)
    BY <1>2
  <2>3. AsRunes(c) \in Seq(Plain) /\ Recoded(e) \in Seq(Plain)
    BY <2>2, RunesType
  <2>4. /\ Append(e, c) \in Seq(Plain) /\ Len(Append(e, c)) = Len(e) + 1 /\ Len(e) \in Nat
        /\ Recoded(e) \o AsRunes(c) \in Seq(Plain)
        /\ Len(Recoded(e) \o AsRunes(c)) = Len(Recoded(e)) + Len(AsRunes(c))
        /\ Len(Recoded(e)) \in Nat /\ Len(AsRunes(c)) \in Nat
    BY <2>3, AppendProperties, ConcatProperties, LenProperties
  <2>5. /\ Append(e, c) \in Seq(Plain) /\ Recoded(Append(e, c)) \in Seq(Plain)
        /\ Len(Append(e, c)) \in Nat /\ Len(Recoded(Append(e, c))) \in Nat
    BY <2>1, <2>4
  <2>6. CASE c \in NonASCII
    <3>1. Append(e, c) \notin Seq(ASCII)
      <4>1. Append(e, c)[Len(e) + 1] = c /\ c \notin ASCII
        BY <2>6, AppendProperties DEF ASCII
      <4>2. Len(e) + 1 \in 1..Len(Append(e, c))
        BY <2>4
      <4> QED BY <4>1, <4>2, ElementOfSeq
    <3>2. Len(AsRunes(c)) >= 2 /\ Len(Recoded(e)) >= Len(e)
      BY <2>2, <2>6, RunesType
    <3>3. Len(Recoded(Append(e, c))) > Len(Append(e, c))
      BY ONLY <2>1, <2>4, <3>2
    <3> QED BY ONLY <2>5, <3>1, <3>3
  <2>7. CASE c \notin NonASCII
    <3>1. AsRunes(c) = <<c>> /\ Len(<<c>>) = 1 /\ c \in ASCII
      BY <2>7, RunesType DEF ASCII
    <3>2. Len(Recoded(Append(e, c))) = Len(Recoded(e)) + 1
      BY ONLY <2>1, <2>4, <3>1
    <3>3. CASE e \in Seq(ASCII)
      <4>1. Append(e, c) \in Seq(ASCII) /\ Append(e, c) = e \o <<c>>
        BY <3>1, <3>3, AppendProperties, AppendIsConcat
      <4>2. Recoded(Append(e, c)) = Append(e, c)
        BY <2>1, <2>2, <3>1, <3>3, <4>1
      <4> QED BY ONLY <2>5, <4>1, <4>2
    <3>4. CASE e \notin Seq(ASCII)
      <4>1. Append(e, c) \notin Seq(ASCII)
        <5> SUFFICES ASSUME Append(e, c) \in Seq(ASCII) PROVE e \in Seq(ASCII)
          BY <3>4
        <5>1. \A i \in 1..Len(e) : Append(e, c)[i] = e[i]
          BY AppendProperties
        <5>2. \A i \in 1..Len(e) : e[i] \in ASCII
          BY <2>4, <5>1, ElementOfSeq
        <5> QED BY <5>2, LenProperties
      <4>2. Len(Recoded(e)) > Len(e)
        BY <2>2, <3>4
      <4>3. Len(Recoded(Append(e, c))) > Len(Append(e, c))
        BY ONLY <2>4, <3>2, <4>2
      <4> QED BY ONLY <2>5, <4>1, <4>3
    <3> QED BY <3>3, <3>4
  <2> QED BY <2>6, <2>7
<1> HIDE DEF S
<1>3. \A e \in Seq(Plain) : e \in S
  BY <1>1, <1>2, SequencesInduction
<1> QED BY <1>3 DEF S

RecodedList(array) == [i \in DOMAIN array |-> Recoded(array[i])]

LEMMA RecodedListAppend ==
  ASSUME NEW v \in Seq(Seq(Plain)), NEW e \in Seq(Plain)
  PROVE  /\ RecodedList(v) \in Seq(Seq(Plain)) /\ Len(RecodedList(v)) = Len(v)
         /\ RecodedList(Append(v, e)) = Append(RecodedList(v), Recoded(e))
<1>1. \A w \in Seq(Seq(Plain)) : RecodedList(w) \in Seq(Seq(Plain)) /\ Len(RecodedList(w)) = Len(w)
                                 /\ \A i \in 1..Len(w) : RecodedList(w)[i] = Recoded(w[i])
  <2> SUFFICES ASSUME NEW w \in Seq(Seq(Plain))
               PROVE  RecodedList(w) \in Seq(Seq(Plain)) /\ Len(RecodedList(w)) = Len(w)
                      /\ \A i \in 1..Len(w) : RecodedList(w)[i] = Recoded(w[i])
    OBVIOUS
  <2>1. DOMAIN w = 1..Len(w) /\ Len(w) \in Nat /\ \A i \in 1..Len(w) : Recoded(w[i]) \in Seq(Plain)
    BY LenProperties, ElementOfSeq, RecodedText
  <2>2. RecodedList(w) \in [1..Len(w) -> Seq(Plain)]
    BY <2>1 DEF RecodedList
  <2> QED BY <2>1, <2>2 DEF RecodedList
<1>2. Append(v, e) \in Seq(Seq(Plain)) /\ Len(Append(v, e)) = Len(v) + 1 /\ Len(v) \in Nat
      /\ Append(v, e)[Len(v) + 1] = e /\ \A i \in 1..Len(v) : Append(v, e)[i] = v[i]
  BY AppendProperties, LenProperties
<1>3. /\ RecodedList(v) \in Seq(Seq(Plain)) /\ Len(RecodedList(v)) = Len(v) /\ Recoded(e) \in Seq(Plain)
      /\ \A i \in 1..Len(v) : RecodedList(v)[i] = Recoded(v[i])
  BY <1>1, RecodedText
<1>4. /\ Append(RecodedList(v), Recoded(e)) \in Seq(Seq(Plain))
      /\ Len(Append(RecodedList(v), Recoded(e))) = Len(v) + 1
      /\ Append(RecodedList(v), Recoded(e))[Len(v) + 1] = Recoded(e)
      /\ \A i \in 1..Len(v) : Append(RecodedList(v), Recoded(e))[i] = RecodedList(v)[i]
  BY <1>3, AppendProperties
<1>5. RecodedList(Append(v, e)) \in Seq(Seq(Plain)) /\ Len(RecodedList(Append(v, e))) = Len(v) + 1
      /\ \A i \in 1..(Len(v) + 1) : RecodedList(Append(v, e))[i] = Recoded(Append(v, e)[i])
  BY <1>1, <1>2
<1>6. \A i \in 1..(Len(v) + 1) : RecodedList(Append(v, e))[i] = Append(RecodedList(v), Recoded(e))[i]
  <2> SUFFICES ASSUME NEW i \in 1..(Len(v) + 1)
               PROVE  RecodedList(Append(v, e))[i] = Append(RecodedList(v), Recoded(e))[i]
    OBVIOUS
  <2>1. RecodedList(Append(v, e))[i] = Recoded(Append(v, e)[i])
    BY <1>5
  <2>2. CASE i = Len(v) + 1
    BY <1>2, <1>4, <2>1, <2>2, Zenon
  <2>3. CASE i \in 1..Len(v)
    BY <1>2, <1>3, <1>4, <2>1, <2>3, Zenon
  <2>4. i = Len(v) + 1 \/ i \in 1..Len(v)
    BY <1>2
  <2> QED BY <2>2, <2>3, <2>4
<1>7. RecodedList(Append(v, e)) = Append(RecodedList(v), Recoded(e))
  BY <1>4, <1>5, <1>6, SeqEqual
<1> QED BY <1>3, <1>7

(* What array_out writes.                                                  *)

QuotedList(array) == [i \in DOMAIN array |-> Quoted(array[i])]

LEMMA QuotedIsText == \A e \in Seq(Plain) : Quoted(e) \in Seq(Chars)
<1> SUFFICES ASSUME NEW e \in Seq(Plain) PROVE Quoted(e) \in Seq(Chars)
  OBVIOUS
<1>1. e \in Seq(Chars) /\ <<Quote>> \in Seq(Chars)
  BY DEF Plain, Chars
<1> QED BY <1>1, ConcatProperties DEF Quoted

LEMMA QuotedListAppend ==
  ASSUME NEW v \in Seq(Seq(Plain)), NEW e \in Seq(Plain)
  PROVE  /\ QuotedList(v) \in Seq(Seq(Chars)) /\ Len(QuotedList(v)) = Len(v)
         /\ QuotedList(Append(v, e)) = Append(QuotedList(v), Quoted(e))
<1>1. \A w \in Seq(Seq(Plain)) : QuotedList(w) \in Seq(Seq(Chars)) /\ Len(QuotedList(w)) = Len(w)
                                 /\ \A i \in 1..Len(w) : QuotedList(w)[i] = Quoted(w[i])
  <2> SUFFICES ASSUME NEW w \in Seq(Seq(Plain))
               PROVE  QuotedList(w) \in Seq(Seq(Chars)) /\ Len(QuotedList(w)) = Len(w)
                      /\ \A i \in 1..Len(w) : QuotedList(w)[i] = Quoted(w[i])
    OBVIOUS
  <2>1. DOMAIN w = 1..Len(w) /\ Len(w) \in Nat /\ \A i \in 1..Len(w) : Quoted(w[i]) \in Seq(Chars)
    BY LenProperties, ElementOfSeq, QuotedIsText
  <2>2. QuotedList(w) \in [1..Len(w) -> Seq(Chars)]
    BY <2>1 DEF QuotedList
  <2> QED BY <2>1, <2>2 DEF QuotedList
<1>2. Append(v, e) \in Seq(Seq(Plain)) /\ Len(Append(v, e)) = Len(v) + 1 /\ Len(v) \in Nat
      /\ Append(v, e)[Len(v) + 1] = e /\ \A i \in 1..Len(v) : Append(v, e)[i] = v[i]
  BY AppendProperties, LenProperties
<1>3. /\ QuotedList(v) \in Seq(Seq(Chars)) /\ Len(QuotedList(v)) = Len(v) /\ Quoted(e) \in Seq(Chars)
      /\ \A i \in 1..Len(v) : QuotedList(v)[i] = Quoted(v[i])
  BY <1>1, QuotedIsText
<1>4. /\ Append(QuotedList(v), Quoted(e)) \in Seq(Seq(Chars))
      /\ Len(Append(QuotedList(v), Quoted(e))) = Len(v) + 1
      /\ Append(QuotedList(v), Quoted(e))[Len(v) + 1] = Quoted(e)
      /\ \A i \in 1..Len(v) : Append(QuotedList(v), Quoted(e))[i] = QuotedList(v)[i]
  BY <1>3, AppendProperties
<1>5. QuotedList(Append(v, e)) \in Seq(Seq(Chars)) /\ Len(QuotedList(Append(v, e))) = Len(v) + 1
      /\ \A i \in 1..(Len(v) + 1) : QuotedList(Append(v, e))[i] = Quoted(Append(v, e)[i])
  BY <1>1, <1>2
<1>6. \A i \in 1..(Len(v) + 1) : QuotedList(Append(v, e))[i] = Append(QuotedList(v), Quoted(e))[i]
  <2> SUFFICES ASSUME NEW i \in 1..(Len(v) + 1)
               PROVE  QuotedList(Append(v, e))[i] = Append(QuotedList(v), Quoted(e))[i]
    OBVIOUS
  <2>1. QuotedList(Append(v, e))[i] = Quoted(Append(v, e)[i])
    BY <1>5
  <2>2. CASE i = Len(v) + 1
    BY <1>2, <1>4, <2>1, <2>2, Zenon
  <2>3. CASE i \in 1..Len(v)
    BY <1>2, <1>3, <1>4, <2>1, <2>3, Zenon
  <2>4. i = Len(v) + 1 \/ i \in 1..Len(v)
    BY <1>2
  <2> QED BY <2>2, <2>3, <2>4
<1>7. QuotedList(Append(v, e)) = Append(QuotedList(v), Quoted(e))
  BY <1>4, <1>5, <1>6, SeqEqual
<1> QED BY <1>3, <1>7

LEMMA QuotedListTypes == \A v \in Seq(Seq(Plain)) : QuotedList(v) \in Seq(Seq(Chars))
<1> SUFFICES ASSUME NEW v \in Seq(Seq(Plain)) PROVE QuotedList(v) \in Seq(Seq(Chars))
  OBVIOUS
<1>1. <<>> \in Seq(Plain)
  BY EmptySeq
<1> QED BY <1>1, QuotedListAppend

\* After what array_out has written, all elements but the last have been split
\* off and recoded, and the last is the one that is being read.
LEMMA SplitList ==
  \A v \in Seq(Seq(Plain)), e \in Seq(Plain) :
     SplitAfter(Listed(QuotedList(Append(v, e)))) = Split(RecodedList(v), Recoded(e), FALSE)
<1> DEFINE S == {v \in Seq(Seq(Plain)) : \A e \in Seq(Plain) :
                    SplitAfter(Listed(QuotedList(Append(v, e)))) = Split(RecodedList(v), Recoded(e), FALSE)}
<1>1. ASSUME NEW v \in Seq(Seq(Plain)), NEW e \in Seq(Plain)
      PROVE  Listed(QuotedList(Append(v, e))) = Write(Listed(QuotedList(v)), Len(v) + 1, Quoted(e))
  <2>1. /\ QuotedList(v) \in Seq(Seq(Chars)) /\ Len(QuotedList(v)) = Len(v) /\ Quoted(e) \in Seq(Chars)
        /\ QuotedList(Append(v, e)) = Append(QuotedList(v), Quoted(e))
    BY QuotedListAppend, QuotedIsText
  <2> QED BY <2>1, ListedOneMore, AppendProperties
<1>2. <<>> \in S
  <2> SUFFICES ASSUME NEW e \in Seq(Plain)
               PROVE  SplitAfter(Listed(QuotedList(Append(<<>>, e)))) = Split(<<>>, Recoded(e), FALSE)
    <3>1. RecodedList(<<>>) = <<>>
      BY DEF RecodedList
    <3> QED BY <3>1, EmptySeq
  <2>1. <<>> \in Seq(Seq(Plain)) /\ Len(<<>>) = 0 /\ <<>> \in Seq(Chars) /\ Len(<<>>) + 1 = 1
    BY EmptySeq
  <2>2. Listed(QuotedList(<<>>)) = <<>>
    <3>1. QuotedList(<<>>) = <<>>
      BY DEF QuotedList
    <3> QED BY <3>1, NothingListed
  <2>3. Listed(QuotedList(Append(<<>>, e))) = Write(<<>>, 1, Quoted(e))
    BY <1>1, <2>1, <2>2, Zenon
  <2>4. Write(<<>>, 1, Quoted(e)) = <<>> \o Quoted(e)
    BY DEF Write
  <2>5. SplitAfter(<<>>) = Split(<<>>, <<>>, FALSE)
    BY NothingWasSplit DEF NothingSplit, Split
  <2> QED BY <2>1, <2>3, <2>4, <2>5, SplitElement
<1>3. ASSUME NEW v \in Seq(Seq(Plain)), NEW d \in Seq(Plain), v \in S PROVE Append(v, d) \in S
  <2> DEFINE w == Append(v, d)
             text == Listed(QuotedList(w))
  <2>1. w \in Seq(Seq(Plain)) /\ Len(w) + 1 # 1
    BY AppendProperties, LenProperties
  <2> SUFFICES ASSUME NEW e \in Seq(Plain)
               PROVE  SplitAfter(Listed(QuotedList(Append(w, e)))) = Split(RecodedList(w), Recoded(e), FALSE)
    BY <2>1
  <2>2. SplitAfter(text) = Split(RecodedList(v), Recoded(d), FALSE)
    BY <1>3
  <2>3. text \in Seq(Chars) /\ Comma \in Chars
    <3>1. Comma \in Chars
      BY DEF Chars
    <3>2. QuotedList(w) \in Seq(Seq(Chars))
      BY <2>1, QuotedListTypes
    <3> QED BY <3>1, <3>2, ListedIsText
  <2>4. Split(Append(RecodedList(v), Recoded(d)), <<>>, FALSE) = Split(RecodedList(w), <<>>, FALSE)
    <3>1. RecodedList(w) = Append(RecodedList(v), Recoded(d))
      BY RecodedListAppend
    <3> QED BY ONLY <3>1
  <2>5. Listed(QuotedList(Append(w, e))) = Write(text, Len(w) + 1, Quoted(e))
    BY <1>1, <2>1
  <2> HIDE DEF w, text
  <2>6. Listed(QuotedList(Append(w, e))) = Append(text, Comma) \o Quoted(e)
    <3>1. Write(text, Len(w) + 1, Quoted(e)) = text \o <<Comma>> \o Quoted(e)
      BY <2>1, Zenon DEF Write
    <3>2. Append(text, Comma) = text \o <<Comma>>
      BY <2>3, AppendIsConcat
    <3> QED BY <2>5, <3>1, <3>2
  <2>7. Append(text, Comma) \in Seq(Chars) /\ SplitAfter(Append(text, Comma)) = Split(RecodedList(w), <<>>, FALSE)
    <3>1. /\ Append(text, Comma) \in Seq(Chars)
          /\ SplitAfter(Append(text, Comma)) = SplitChar(SplitAfter(text), Comma)
      BY <2>3, SplitAppend
    <3>2. SplitChar(Split(RecodedList(v), Recoded(d), FALSE), Comma) = Split(Append(RecodedList(v), Recoded(d)), <<>>, FALSE)
      BY SplitChars
    <3> QED BY <2>2, <2>4, <3>1, <3>2
  <2> QED BY <2>6, <2>7, SplitElement
<1> HIDE DEF S
<1>4. \A v \in Seq(Seq(Plain)) : v \in S
  BY <1>2, <1>3, SequencesInduction
<1> QED BY <1>4 DEF S

LEMMA ColumnsComeBack ==
  ASSUME NEW w \in Seq(Seq(Plain)), w # <<>> => Last(w) # <<>>
  PROVE  Scan(ArrayOut(w)) = RecodedList(w)
<1>1. ArrayOut(w) = Joined(QuotedList(w))
  BY DEF ArrayOut, QuotedList
<1>2. Comma \in Chars /\ {Open, Close} \subseteq Chars
  BY DEF Chars
<1>3. Scan(ArrayOut(w)) = SplitArray(Listed(QuotedList(w)))
  <2>1. Listed(QuotedList(w)) \in Seq(Chars)
    BY <1>2, QuotedListTypes, ListedIsText
  <2>2. SubSeq(Joined(QuotedList(w)), 2, Len(Joined(QuotedList(w))) - 1) = Listed(QuotedList(w))
    BY <1>2, <2>1, JoinedEnds
  <2> QED BY <1>1, <2>2 DEF Scan
<1>4. CASE w = <<>>
  <2>1. QuotedList(w) = <<>>
    BY <1>4 DEF QuotedList
  <2>2. SplitAfter(<<>>) = Split(<<>>, <<>>, FALSE)
    BY NothingWasSplit DEF NothingSplit, Split
  <2>3. Split(<<>>, <<>>, FALSE).current = <<>> /\ Split(<<>>, <<>>, FALSE).result = <<>>
    BY DEF Split
  <2>4. SplitArray(<<>>) = <<>>
    BY <2>2, <2>3 DEF SplitArray
  <2>5. RecodedList(w) = <<>>
    BY <1>4 DEF RecodedList
  <2> QED BY <1>3, <2>1, <2>4, <2>5, NothingListed
<1>5. CASE w # <<>>
  <2>1. PICK n \in Nat : Len(w) = n + 1
    <3>1. Len(w) \in Nat \ {0}
      BY <1>5, EmptySeq
    <3>2. Len(w) - 1 \in Nat /\ Len(w) = (Len(w) - 1) + 1
      BY <3>1
    <3> QED BY <3>2
  <2> DEFINE v == SubSeq(w, 1, n)
             e == w[n + 1]
  <2>2. v \in Seq(Seq(Plain)) /\ e \in Seq(Plain) /\ w = Append(v, e)
    BY <2>1, SplitSequence
  <2>3. e # <<>>
    BY <1>5, <2>1 DEF Last
  <2> HIDE DEF v, e
  <2>4. SplitAfter(Listed(QuotedList(w))) = Split(RecodedList(v), Recoded(e), FALSE)
    BY <2>2, SplitList
  <2>5. Split(RecodedList(v), Recoded(e), FALSE).current = Recoded(e) /\ Split(RecodedList(v), Recoded(e), FALSE).result = RecodedList(v)
    BY DEF Split
  <2>6. SplitArray(Listed(QuotedList(w))) = Append(RecodedList(v), Recoded(e))
    <3>1. Recoded(e) # <<>>
      <4>1. Len(e) \in Nat /\ Len(e) # 0
        BY <2>2, <2>3, EmptySeq, LenProperties
      <4>2. Recoded(e) \in Seq(Plain) /\ Len(Recoded(e)) >= Len(e)
        BY <2>2, RecodedText
      <4> QED BY <4>1, <4>2, EmptySeq
    <3> QED BY <2>4, <2>5, <3>1 DEF SplitArray
  <2>7. RecodedList(w) = Append(RecodedList(v), Recoded(e))
    BY <2>2, RecodedListAppend
  <2> QED BY <1>3, <2>6, <2>7
<1> QED BY <1>4, <1>5

\* A list of words in the alphabet comes back as it was exactly if it is in ASCII.
LEMMA WordsInASCII ==
  ASSUME NEW w \in Seq(Seq(Plain)), AreWords(w, Alphabet)
  PROVE  RecodedList(w) = w <=> AreWords(w, Letters)
<1>1. Len(w) \in Nat /\ DOMAIN w = 1..Len(w) /\ \A i \in 1..Len(w) : w[i] \in Seq(Plain)
  BY LenProperties, ElementOfSeq
<1>2. Alphabet = Letters \cup NonASCII /\ Letters \cap NonASCII = {}
  BY ArrayAssumption DEF Alphabet
<1>3. ASSUME NEW i \in 1..Len(w)
      PROVE  Recoded(w[i]) = w[i] <=> w[i] # <<>> /\ Range(w[i]) \subseteq Letters
  <2>1. w[i] \in Seq(Plain) /\ w[i] # <<>> /\ Range(w[i]) \subseteq Alphabet
    BY <1>1 DEF AreWords
  <2> DEFINE e == w[i]
  <2>2. Len(e) \in Nat /\ DOMAIN e = 1..Len(e) /\ \A j \in 1..Len(e) : e[j] \in Plain
    BY <2>1, LenProperties, ElementOfSeq
  <2> HIDE DEF e
  <2>3. Range(e) \subseteq Alphabet /\ e \in Seq(Plain) /\ e # <<>>
    BY <2>1 DEF e
  <2>4. CASE Range(e) \subseteq Letters
    <3>1. \A j \in 1..Len(e) : e[j] \in ASCII
      BY <1>2, <2>2, <2>4 DEF Range, ASCII
    <3>2. e \in Seq(ASCII)
      BY <2>3, <3>1, LenProperties
    <3>3. Recoded(e) = e
      BY <2>3, <3>2, RecodedText
    <3> QED BY <2>3, <2>4, <3>3 DEF e
  <2>5. CASE ~(Range(e) \subseteq Letters)
    <3>1. PICK j \in 1..Len(e) : e[j] \notin Letters /\ e[j] \in Alphabet
      BY <2>2, <2>3, <2>5 DEF Range
    <3>2. e[j] \notin ASCII
      BY <1>2, <3>1 DEF ASCII
    <3>3. e \notin Seq(ASCII)
      BY <3>2, ElementOfSeq
    <3>4. Len(Recoded(e)) > Len(e) /\ Len(e) \in Nat
      BY <2>2, <2>3, <3>3, RecodedText
    <3>5. Recoded(e) # e
      BY ONLY <3>4
    <3> QED BY <2>5, <3>5 DEF e
  <2> QED BY <2>4, <2>5
<1>4. RecodedList(w) = w <=> \A i \in 1..Len(w) : Recoded(w[i]) = w[i]
  <2>1. RecodedList(w) = [i \in 1..Len(w) |-> Recoded(w[i])] /\ w = [i \in 1..Len(w) |-> w[i]]
    BY <1>1 DEF RecodedList
  <2> QED BY ONLY <2>1
<1> QED BY <1>1, <1>3, <1>4 DEF AreWords

ArrayInv ==
  /\ column = NoArray \/ column \in Seq(Seq(Plain))
  /\ written = NoArray => column = NoArray
  /\ column = NoArray => read = NoArray
  /\ WordsComeBack

LEMMA ArrayInvInit == ArrayInit => ArrayInv
BY DEF ArrayInit, ArrayInv, WordsComeBack

LEMMA SaveKeepsArrays ==
  ASSUME ArrayInv, NEW array \in Arrays, Save(array)
  PROVE  ArrayInv'
<1>1. /\ written' = array /\ column' = ArrayIn(Value(array)) /\ read' = NoArray
      /\ array # NoArray
  BY NoArrayIsNoArray DEF Save, ArrayInv
<1>2. column' = NoArray \/ column' \in Seq(Seq(Plain))
  BY <1>1, ColumnsHaveNoQuotes
<1>3. ASSUME AreWords(array, Alphabet)
      PROVE  column' = array
  <2>1. array \in Seq(Words)
    <3>1. PICK n \in Nat : array \in [1..n -> Elements]
      BY ArrayAssumption DEF Arrays, SeqOf
    <3>2. ASSUME NEW i \in 1..n PROVE array[i] \in Words
      <4>1. array[i] # <<>> /\ Range(array[i]) \subseteq Alphabet /\ array[i] \in Elements
        BY <1>3, <3>1 DEF AreWords
      <4>2. PICK m \in Nat : array[i] \in [1..m -> Alphabet \cup {Comma, Quote}]
        BY <4>1, ArrayAssumption DEF Elements, SeqOf
      <4>3. \A j \in 1..m : array[i][j] \in Alphabet
        BY <4>1, <4>2 DEF Range
      <4>4. array[i] \in [1..m -> Alphabet]
        BY <4>2, <4>3
      <4> QED BY <4>1, <4>4 DEF Words
    <3>3. array \in [1..n -> Words]
      BY <3>1, <3>2
    <3> QED BY <3>3
  <2> QED BY <1>1, <2>1, WrittenWordsAreRead
<1>4. WordsComeBack'
  <2>1. AreWords(written, Alphabet)' => column' = written'
    BY <1>1, <1>3 DEF AreWords
  <2> QED BY <1>1, <2>1 DEF WordsComeBack
<1> QED BY <1>1, <1>2, <1>4 DEF ArrayInv

LEMMA LoadKeepsArrays ==
  ASSUME ArrayInv, Load
  PROVE  ArrayInv'
<1>1. /\ column # NoArray /\ column \in Seq(Seq(Plain)) /\ written # NoArray
      /\ read' = Scan(ArrayOut(column)) /\ written' = written /\ column' = column
  BY DEF Load, ArrayInv
<1>2. AreWords(written, Alphabet) => column = written
  BY <1>1 DEF ArrayInv, WordsComeBack
<1>3. ASSUME column # <<>> => Last(column) # <<>> PROVE read' = RecodedList(column)
  BY <1>1, <1>3, ColumnsComeBack
<1>4. ASSUME AreWords(written, Alphabet) PROVE read' = written <=> AreWords(written, Letters)
  <2>1. column = written /\ written \in Seq(Seq(Plain)) /\ AreWords(column, Alphabet)
    BY <1>1, <1>2, <1>4
  <2>2. column # <<>> => Last(column) # <<>>
    <3> SUFFICES ASSUME column # <<>> PROVE Last(column) # <<>>
      OBVIOUS
    <3>1. Len(column) \in DOMAIN column
      BY <1>1, EmptySeq, LenProperties
    <3> QED BY <2>1, <3>1 DEF AreWords, Last
  <2>3. read' = RecodedList(written)
    BY <1>3, <2>1, <2>2
  <2> QED BY <1>4, <2>1, <2>3, WordsInASCII
<1>5. WordsComeBack'
  <2>1. AreWords(written, Alphabet)' <=> AreWords(written, Alphabet)
    BY <1>1 DEF AreWords
  <2>2. AreWords(written, Letters)' <=> AreWords(written, Letters)
    BY <1>1 DEF AreWords
  <2>3. (column # <<>> => Last(column) # <<>>)' => read' = [i \in DOMAIN column' |-> Recoded(column'[i])]
    BY <1>1, <1>3 DEF RecodedList
  <2> QED BY <1>1, <1>2, <1>4, <2>1, <2>2, <2>3 DEF WordsComeBack
<1> QED BY <1>1, <1>5 DEF ArrayInv

LEMMA ArrayInvStep == ArrayInv /\ [ArrayNext]_arrayVars => ArrayInv'
<1> SUFFICES ASSUME ArrayInv, [ArrayNext]_arrayVars PROVE ArrayInv'
  OBVIOUS
<1>1. CASE UNCHANGED arrayVars
  BY <1>1 DEF arrayVars, ArrayInv, WordsComeBack, AreWords
<1> QED BY <1>1, SaveKeepsArrays, LoadKeepsArrays DEF ArrayNext

\* Lists of words reach the column as they were sent; a column comes back with
\* its bytes taken for characters, but for an empty last element; so the lists of
\* words that come back as they were sent are those in ASCII: for words of any
\* letters and lists of any length (models.go:180-189, 216-247).
THEOREM ArraysComeBack == ArraySpec => []WordsComeBack
<1>1. ArrayInv => WordsComeBack
  BY DEF ArrayInv
<1> QED BY <1>1, ArrayInvInit, ArrayInvStep, PTL DEF ArraySpec

-----------------------------------------------------------------------------
(* The libraries side by side.                                             *)

\* A limiter's invariant speaks of the clock, and the limiters and the cache
\* share one.  The logs and levels of the sliding window and the bucket bear
\* the steps that others make it take; the fixed window and the cache must
\* see every tick, so theirs holds while they are the library in use.
LibraryInv ==
  /\ SlidingInv /\ BucketInv
  /\ FixedTypeOK /\ (library = "fixed" => FixedInv)
  /\ CacheTypeOK /\ (library = "cache" => CacheInv)
  /\ LeastInv /\ RotationInv /\ RingInv
  /\ MetricsInv /\ ArrayInv /\ HealthTypes

ClockMoves == (Tick \/ UNCHANGED now)

LEMMA FixedInvTypes == FixedInv => FixedTypeOK
BY DEF FixedInv, FixedTypes, FixedTypeOK

LEMMA CacheInvTypes == CacheInv => CacheTypeOK
BY DEF CacheInv, CacheTypes, CacheTypeOK, Entry

LEMMA LibraryInvInit == Init => LibraryInv
BY SlidingInitInv, BucketInitInv, FixedInvInit, FixedInvTypes, CacheInvInit, CacheInvTypes,
   LeastInvInit, RotationInvInit, RingInvInit, MetricsInvInit, ArrayInvInit, HealthTypesInit, Zenon
   DEF Init, LibraryInv

\* The clock takes a step at most, whichever library is in use.
LEMMA LibrariesMoveClock ==
  ASSUME Next
  PROVE  ClockMoves
<1>1. ASSUME SlidingNext PROVE ClockMoves
  BY <1>1 DEF SlidingNext, SlidingAllow, SlidingAllowN, Answered, GetRemainingRequests, SlidingReset,
              ClockMoves
<1>2. ASSUME BucketNext PROVE ClockMoves
  BY <1>2 DEF BucketNext, BucketAllow, GetAvailableTokens, BucketReset, ClockMoves
<1>3. ASSUME FixedNext PROVE ClockMoves
  BY <1>3 DEF FixedNext, FixedTick, Middleware, Cleanup, ClockMoves
<1>4. ASSUME CacheNext PROVE ClockMoves
  BY <1>4 DEF CacheNext, CacheTick, CacheCleanup, Get, Set, ClockMoves
<1> QED BY <1>1, <1>2, <1>3, <1>4 DEF Next, LimiterNext, RequestNext, ClockMoves

LEMMA LibraryInvStep ==
  LibraryInv /\ [Next]_<<now, limiterVars, balancerVars, requestVars, healthVars, library>> => LibraryInv'
<1> SUFFICES ASSUME LibraryInv,
                    [Next]_<<now, limiterVars, balancerVars, requestVars, healthVars, library>>
             PROVE  LibraryInv'
  OBVIOUS
<1>1. Next \/ UNCHANGED <<now, limiterVars, balancerVars, requestVars, healthVars, library>>
  OBVIOUS
<1>2. ClockMoves /\ library' = library
  BY <1>1, LibrariesMoveClock DEF ClockMoves, Next
<1>3. /\ SlidingNext \/ UNCHANGED slidingVars
      /\ BucketNext \/ UNCHANGED bucketVars
      /\ (library = "fixed" /\ (FixedNext \/ UNCHANGED <<now, fixedVars>>)) \/ UNCHANGED fixedVars
      /\ (library = "cache" /\ (CacheNext \/ UNCHANGED <<now, cacheVars>>)) \/ UNCHANGED cacheVars
      /\ LeastNext \/ UNCHANGED leastVars
      /\ RotationNext \/ UNCHANGED rotationVars
      /\ RingNext \/ UNCHANGED ringVars
      /\ MetricsNext \/ UNCHANGED metricsVars
      /\ ArrayNext \/ UNCHANGED arrayVars
      /\ HealthNext \/ UNCHANGED healthVars
  BY <1>1 DEF Next, LimiterNext, BalancerNext, RequestNext, limiterVars, balancerVars, requestVars
<1>4. /\ library = "fixed" => FixedNext \/ UNCHANGED <<now, fixedVars>>
      /\ library = "cache" => CacheNext \/ UNCHANGED <<now, cacheVars>>
  BY <1>1 DEF Next, LimiterNext, BalancerNext, RequestNext, limiterVars, balancerVars, requestVars
<1>5. SlidingInv' /\ BucketInv'
  <2>1. [SlidingNext]_<<now, slidingVars>> /\ [BucketNext]_<<now, bucketVars>>
    BY <1>2, <1>3 DEF ClockMoves, SlidingNext, BucketNext
  <2> QED BY <2>1, SlidingStepInv, BucketStepInv DEF LibraryInv
<1>6. FixedTypeOK' /\ (library = "fixed" => FixedInv)'
  <2>1. CASE library = "fixed"
    <3>1. [FixedNext]_<<now, fixedVars>> /\ FixedInv
      BY <1>4, <2>1 DEF LibraryInv
    <3>2. FixedInv'
      BY <3>1, FixedInvStep
    <3> QED BY <3>2, FixedInvTypes, PTL
  <2>2. CASE library # "fixed"
    <3>1. UNCHANGED fixedVars /\ FixedTypeOK
      BY <1>3, <2>2 DEF LibraryInv
    <3>2. FixedTypeOK'
      BY <3>1 DEF fixedVars, FixedTypeOK
    <3> QED BY <1>2, <2>2, <3>2
  <2> QED BY <2>1, <2>2
<1>7. CacheTypeOK' /\ (library = "cache" => CacheInv)'
  <2>1. CASE library = "cache"
    <3>1. [CacheNext]_<<now, cacheVars>> /\ CacheInv
      BY <1>4, <2>1 DEF LibraryInv
    <3>2. CacheInv'
      BY <3>1, CacheInvStep
    <3> QED BY <3>2, CacheInvTypes, PTL
  <2>2. CASE library # "cache"
    <3>1. UNCHANGED cacheVars /\ CacheTypeOK
      BY <1>3, <2>2 DEF LibraryInv
    <3>2. CacheTypeOK'
      BY <3>1 DEF cacheVars, CacheTypeOK
    <3> QED BY <1>2, <2>2, <3>2
  <2> QED BY <2>1, <2>2
<1>8. LeastInv' /\ RotationInv' /\ RingInv'
  BY <1>3, LeastInvStep, RotationInvStep, RingInvStep DEF LibraryInv
<1>9. MetricsInv' /\ ArrayInv' /\ HealthTypes'
  BY <1>3, MetricsInvStep, ArrayInvStep, HealthTypesStep DEF LibraryInv
<1> QED BY <1>5, <1>6, <1>7, <1>8, <1>9 DEF LibraryInv

LEMMA LibraryInvariant == Spec => []LibraryInv
BY LibraryInvInit, LibraryInvStep, PTL DEF Spec

\* The variables of every library keep their types: no timings beyond the
\* limit, no level beyond the capacity, no counter beyond its width, and no
\* loop that checks an origin without one.
THEOREM LibrariesKeepTypes == Spec => []LibraryTypeOK
<1>1. LibraryInv => LibraryTypeOK
  <2> SUFFICES ASSUME LibraryInv PROVE LibraryTypeOK
    OBVIOUS
  <2>1. SlidingTypeOK
    BY DEF LibraryInv, SlidingInv, SlidingTypes, Kept, SlidingTypeOK
  <2>2. BucketTypeOK
    BY DEF LibraryInv, BucketInv, BucketTypes, BucketTypeOK
  <2>3. LeastTypeOK /\ RotationTypeOK /\ RingTypeOK /\ MetricsTypeOK /\ HealthTypeOK
    BY DEF LibraryInv, LeastInv, RotationInv, RotationTypes, RingInv, MetricsInv, HealthTypes
  <2> QED BY <2>1, <2>2, <2>3 DEF LibraryInv, LibraryTypeOK
<1> QED BY <1>1, LibraryInvariant, PTL

\* Together, and with one clock for all, the libraries keep what each promises
\* alone, with the restrictions that each property states: of the average after
\* a Reset, of turns across a Reset, of hashes that collide, of letters that
\* are not in ASCII (the methods cited at the properties).
THEOREM LibrariesAreIndependent == Spec => [](WindowBound /\ TotalsAgree /\ RotationIsEven
                                              /\ CountsTrackOpen /\ RingFollowsNodes /\ WordsComeBack)
<1>1. LibraryInv => /\ WindowBound /\ TotalsAgree /\ RotationIsEven
                    /\ CountsTrackOpen /\ RingFollowsNodes /\ WordsComeBack
  BY RotationInvIsEven DEF LibraryInv, SlidingInv, MetricsInv, LeastInv, RingInv, ArrayInv
<1> QED BY <1>1, LibraryInvariant, PTL
=============================================================================
