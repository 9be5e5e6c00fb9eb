------------------------------ MODULE Metrics ------------------------------
(***************************************************************************)
(* src/internal/observability/metrics.go.  Every method holds the mutex:   *)
(* one step.  GetMetrics hands out the maps themselves, not copies: what a *)
(* reader holds changes with them until Reset replaces them by new ones.   *)
(***************************************************************************)
EXTENDS Integers, FiniteSets

CONSTANTS StatusCodes, Latencies,
          MeteredOrigins,
          MaxRecorded         \* bound on the requests recorded between two Resets

ASSUME MetricsAssumption ==
  StatusCodes \subseteq Nat /\ Latencies \subseteq Nat /\ MaxRecorded \in Nat

VARIABLES totalRequests, totalErrors, totalCacheHits, totalCacheMisses,
          minLatencyMs, maxLatencyMs, latencySum, latencyCount,
          avgLatencyMs,       \* a fraction, <<sum, count>>
          statusCodes, originRequests, originErrors,
          snapshot            \* what the latest reader holds; its maps are the live
                              \* ones as long as shared is TRUE

metricsVars == <<totalRequests, totalErrors, totalCacheHits, totalCacheMisses, minLatencyMs,
                 maxLatencyMs, latencySum, latencyCount, avgLatencyMs, statusCodes,
                 originRequests, originErrors, snapshot>>

Cleared ==
  /\ totalRequests' = 0 /\ totalErrors' = 0 /\ totalCacheHits' = 0 /\ totalCacheMisses' = 0
  /\ minLatencyMs' = -1 /\ maxLatencyMs' = 0 /\ latencySum' = 0 /\ latencyCount' = 0
  /\ statusCodes' = [c \in StatusCodes |-> 0]
  /\ originRequests' = [o \in MeteredOrigins |-> 0]
  /\ originErrors' = [o \in MeteredOrigins |-> 0]

\* NewMetrics; nobody has read yet.
MetricsInit ==
  /\ totalRequests = 0 /\ totalErrors = 0 /\ totalCacheHits = 0 /\ totalCacheMisses = 0
  /\ minLatencyMs = -1 /\ maxLatencyMs = 0 /\ latencySum = 0 /\ latencyCount = 0
  /\ avgLatencyMs = <<0, 1>>
  /\ statusCodes = [c \in StatusCodes |-> 0]
  /\ originRequests = [o \in MeteredOrigins |-> 0]
  /\ originErrors = [o \in MeteredOrigins |-> 0]
  /\ snapshot = [shared |-> FALSE, total |-> 0, codes |-> statusCodes, avg |-> avgLatencyMs]

Counted(code, latency, cacheHit, o) ==
  /\ totalRequests' = totalRequests + 1
  /\ statusCodes' = [statusCodes EXCEPT ![code] = @ + 1]
  /\ originRequests' = [originRequests EXCEPT ![o] = @ + 1]
  /\ latencySum' = latencySum + latency
  /\ latencyCount' = latencyCount + 1
  /\ minLatencyMs' = IF minLatencyMs < 0 \/ latency < minLatencyMs THEN latency ELSE minLatencyMs
  /\ maxLatencyMs' = IF latency > maxLatencyMs THEN latency ELSE maxLatencyMs
  /\ avgLatencyMs' = <<latencySum', latencyCount'>>
  /\ IF cacheHit
     THEN totalCacheHits' = totalCacheHits + 1 /\ UNCHANGED totalCacheMisses
     ELSE totalCacheMisses' = totalCacheMisses + 1 /\ UNCHANGED totalCacheHits
  /\ snapshot' = IF snapshot.shared THEN [snapshot EXCEPT !.codes = statusCodes'] ELSE snapshot

\* Mutant: the two error counters are counted under different conditions.
RecordErrorsApart(code, latency, cacheHit, o) ==
  /\ totalRequests < MaxRecorded
  /\ Counted(code, latency, cacheHit, o)
  /\ totalErrors' = IF code > 400 THEN totalErrors + 1 ELSE totalErrors
  /\ originErrors' = IF code >= 400 THEN [originErrors EXCEPT ![o] = @ + 1] ELSE originErrors

RecordRequest(code, latency, cacheHit, o) ==
  /\ totalRequests < MaxRecorded
  /\ Counted(code, latency, cacheHit, o)
  /\ IF code >= 400
     THEN totalErrors' = totalErrors + 1 /\ originErrors' = [originErrors EXCEPT ![o] = @ + 1]
     ELSE UNCHANGED <<totalErrors, originErrors>>

\* The numbers are copied, the maps are not.
GetMetrics ==
  /\ snapshot' = [shared |-> TRUE, total |-> totalRequests, codes |-> statusCodes, avg |-> avgLatencyMs]
  /\ UNCHANGED <<totalRequests, totalErrors, totalCacheHits, totalCacheMisses, minLatencyMs,
                 maxLatencyMs, latencySum, latencyCount, avgLatencyMs, statusCodes,
                 originRequests, originErrors>>

\* avgLatencyMs is not cleared; the maps are new ones.
MetricsReset ==
  /\ Cleared
  /\ snapshot' = [snapshot EXCEPT !.shared = FALSE]
  /\ UNCHANGED avgLatencyMs

MetricsNext ==
  \/ \E code \in StatusCodes, latency \in Latencies, cacheHit \in BOOLEAN, o \in MeteredOrigins :
        RecordRequest(code, latency, cacheHit, o)
  \/ GetMetrics \/ MetricsReset

MetricsSpec == MetricsInit /\ [][MetricsNext]_metricsVars

------------------------------------------------------------------------------
(* Properties *)

\* The sum of the counts in a map: how many things it has counted.
Counts(f) == UNION {{x} \X (1..f[x]) : x \in DOMAIN f}
Total(f) == Cardinality(Counts(f))

MetricsTypeOK ==
  /\ {totalRequests, totalErrors, totalCacheHits, totalCacheMisses, latencySum, latencyCount} \subseteq Nat
  /\ minLatencyMs \in Int /\ maxLatencyMs \in Nat
  /\ statusCodes \in [StatusCodes -> Nat]
  /\ originRequests \in [MeteredOrigins -> Nat] /\ originErrors \in [MeteredOrigins -> Nat]
  /\ avgLatencyMs \in Nat \X Nat
  /\ snapshot \in [shared : BOOLEAN, total : Nat, codes : [StatusCodes -> Nat], avg : Nat \X Nat]

\* The counters and the maps tell one story, also across a Reset: every request
\* is in one status code, one origin, and a hit or a miss; every error in one
\* origin; and the maps that a reader holds are never behind the numbers it was
\* given.  The latencies tell it from the first request after a Reset on: the
\* average is theirs and lies between their extremes.  Until then their sum and
\* extremes are cleared, but avgLatencyMs is not: it is the average of the
\* requests before the Reset, and nothing is promised of it, although the
\* comment of Reset is "clears all metrics" (metrics.go:46-72, 87-99, 103-118).
TotalsAgree ==
  /\ totalRequests = latencyCount
  /\ totalRequests = totalCacheHits + totalCacheMisses
  /\ totalRequests = Total(statusCodes)
  /\ totalRequests = Total(originRequests)
  /\ totalErrors = Total(originErrors)
  /\ totalErrors = Total([c \in {s \in StatusCodes : s >= 400} |-> statusCodes[c]])
  /\ latencyCount > 0 => /\ avgLatencyMs = <<latencySum, latencyCount>>
                         /\ minLatencyMs * latencyCount <= latencySum
                         /\ latencySum <= maxLatencyMs * latencyCount
  /\ latencyCount = 0 => latencySum = 0 /\ minLatencyMs = -1 /\ maxLatencyMs = 0
  /\ Total(snapshot.codes) >= snapshot.total

\* metrics.go:75, "GetMetrics returns a snapshot of current metrics": what was
\* returned adds up, its status codes to its total.
SnapshotAddsUp == Total(snapshot.codes) = snapshot.total
=============================================================================
