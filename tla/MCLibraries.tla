---------------------------- MODULE MCLibraries ----------------------------
(* Small instances of the libraries that a process keeps in memory: the      *)
(* limiters, the cache, the balancers, the health checker and the metrics,   *)
(* and of the arrays in its rows.  They share nothing, so a behaviour uses   *)
(* one of them.                                                              *)
EXTENDS SlidingWindow, TokenBucket, FixedWindow, ResponseCache,
        LeastConn, RoundRobin, ConsistentHash, HealthChecker, Metrics,
        StringArray

CONSTANTS o1, o2, o3

VARIABLE library

MCBatches == {-1, 0, 2, 3}
MCBackendLists == {<<o1, o2>>, <<o2, o1>>, <<o2>>}
MCNodeLists == {<<o1, o2, o3>>, <<o1, o2>>, <<o2>>}
\* o2 and o3 share a hash.
MCHashesOf == [o \in Nodes |-> CASE o = o1 -> {0, 4} [] o = o2 -> {2, 3} [] o = o3 -> {3, 5}]
\* A letter of two bytes.
MCOfBytes == [c \in NonASCII |-> <<c, c>>]
MCProbeLists == {<<o1, o2>>, <<o3, o1>>}

limiterVars == <<slidingVars, bucketVars, fixedVars>>
balancerVars == <<leastVars, rotationVars, ringVars>>
requestVars == <<cacheVars, metricsVars, arrayVars>>

Init == /\ SlidingInit /\ BucketInit /\ FixedInit /\ CacheInit
        /\ LeastInit /\ RotationInit /\ RingInit /\ MetricsInit /\ HealthInit /\ ArrayInit
        /\ library \in {"sliding", "bucket", "fixed", "cache", "least", "rotation", "ring",
                        "metrics", "health", "array"}
        /\ library # "health" => up = [o \in Probed \ NoPath |-> TRUE]

LimiterNext ==
  \/ library = "sliding" /\ SlidingNext /\ UNCHANGED <<bucketVars, fixedVars>>
  \/ library = "bucket" /\ BucketNext /\ UNCHANGED <<slidingVars, fixedVars>>
  \/ library = "fixed" /\ FixedNext /\ UNCHANGED <<slidingVars, bucketVars>>

BalancerNext ==
  \/ library = "least" /\ LeastNext /\ UNCHANGED <<rotationVars, ringVars>>
  \/ library = "rotation" /\ RotationNext /\ UNCHANGED <<leastVars, ringVars>>
  \/ library = "ring" /\ RingNext /\ UNCHANGED <<leastVars, rotationVars>>

RequestNext ==
  \/ library = "cache" /\ CacheNext /\ UNCHANGED <<metricsVars, arrayVars>>
  \/ library = "metrics" /\ MetricsNext /\ UNCHANGED <<now, cacheVars, arrayVars>>
  \/ library = "array" /\ ArrayNext /\ UNCHANGED <<now, cacheVars, metricsVars>>

Next ==
  /\ \/ LimiterNext /\ UNCHANGED <<balancerVars, requestVars, healthVars>>
     \/ BalancerNext /\ UNCHANGED <<now, limiterVars, requestVars, healthVars>>
     \/ RequestNext /\ UNCHANGED <<limiterVars, balancerVars, healthVars>>
     \/ library = "health" /\ HealthNext /\ UNCHANGED <<now, limiterVars, balancerVars, requestVars>>
  /\ UNCHANGED library

Spec ==
  /\ Init
  /\ [][Next]_<<now, limiterVars, balancerVars, requestVars, healthVars, library>>
  /\ HealthFairness

\* The variables of every library keep their types.
LibraryTypeOK ==
  /\ SlidingTypeOK /\ BucketTypeOK /\ FixedTypeOK /\ CacheTypeOK
  /\ LeastTypeOK /\ RotationTypeOK /\ RingTypeOK /\ MetricsTypeOK /\ HealthTypeOK
=============================================================================
