----------------------------- MODULE LeastConn -----------------------------
(***************************************************************************)
(* src/internal/loadbalancer/leastconn/balancer.go, with its callers: a    *)
(* caller asks for an origin, counts its connection in, and counts it out  *)
(* when it ends.  Each method holds the mutex; between two of a caller's   *)
(* calls any other caller may run, and anyone may call Reset.              *)
(***************************************************************************)
EXTENDS Integers, FiniteSets, Sequences

CONSTANTS Callers,
          Backends,          \* the origins
          BackendLists,      \* the lists that callers choose from, none empty
          NoBackend

ASSUME LeastConnAssumption ==
  /\ BackendLists \subseteq Seq(Backends) \ {<<>>}
  /\ NoBackend \notin Backends
  /\ IsFiniteSet(Callers)

VARIABLES connections,       \* the counts; 0 where the map has no entry
          chosen,            \* the origin a caller has been given
          open,              \* the origin a caller's counted connection is open to
          forgotten,         \* history: connections that were open at the last Reset
          among,             \* history: the origins that a caller's choice was made among
          races              \* history: changes of counts by others since that choice,
                             \* counted up to the number of callers; both until it is used

leastVars == <<connections, chosen, open, forgotten, among, races>>

OpenTo(o) == {c \in Callers : open[c] = o}

\* NewLeastConnBalancer
LeastInit ==
  /\ connections = [o \in Backends |-> 0]
  /\ chosen = [c \in Callers |-> NoBackend]
  /\ open = [c \in Callers |-> NoBackend]
  /\ forgotten = [o \in Backends |-> 0]
  /\ among = [c \in Callers |-> {}]
  /\ races = [c \in Callers |-> 0]

\* A change of a count is a race for every other caller that has chosen.
Raced(me) ==
  /\ among' = [among EXCEPT ![me] = {}]
  /\ races' = [c \in Callers |->
                 IF c = me THEN 0
                 ELSE IF chosen[c] # NoBackend /\ races[c] < Cardinality(Callers) THEN races[c] + 1
                 ELSE races[c]]

\* Mutant: minConns is not updated in the loop.
LeastOfFirst(list) ==
  {list[i] : i \in {j \in DOMAIN list : \A k \in (j + 1)..Len(list) : connections[list[k]] >= connections[list[1]]}}

\* The first of the least counts; the loop of SelectOrigin.
Least(list) ==
  {list[i] : i \in {j \in DOMAIN list :
                      /\ \A k \in DOMAIN list : connections[list[j]] <= connections[list[k]]
                      /\ \A k \in 1..(j - 1) : connections[list[j]] < connections[list[k]]}}

LeastSelectOrigin(c, list) ==
  /\ chosen[c] = NoBackend /\ open[c] = NoBackend
  /\ \E o \in Least(list) : chosen' = [chosen EXCEPT ![c] = o]
  /\ among' = [among EXCEPT ![c] = {list[i] : i \in DOMAIN list}]
  /\ races' = [races EXCEPT ![c] = 0]
  /\ UNCHANGED <<connections, open, forgotten>>

IncrementConnections(c) ==
  /\ chosen[c] # NoBackend
  /\ connections' = [connections EXCEPT ![chosen[c]] = @ + 1]
  /\ open' = [open EXCEPT ![c] = chosen[c]]
  /\ chosen' = [chosen EXCEPT ![c] = NoBackend]
  /\ Raced(c)
  /\ UNCHANGED forgotten

\* Mutant: no test of the count.
DecrementUntested(c) ==
  /\ open[c] # NoBackend
  /\ connections' = [connections EXCEPT ![open[c]] = @ - 1]
  /\ open' = [open EXCEPT ![c] = NoBackend]
  /\ Raced(c)
  /\ UNCHANGED <<chosen, forgotten>>

DecrementConnections(c) ==
  /\ open[c] # NoBackend
  /\ connections' = [connections EXCEPT ![open[c]] = IF @ > 0 THEN @ - 1 ELSE @]
  /\ open' = [open EXCEPT ![c] = NoBackend]
  /\ Raced(c)
  /\ UNCHANGED <<chosen, forgotten>>

\* A new map: the connections that are open are forgotten.
LeastReset ==
  /\ connections' = [o \in Backends |-> 0]
  /\ forgotten' = [o \in Backends |-> Cardinality(OpenTo(o))]
  /\ UNCHANGED <<chosen, open, among, races>>

LeastNext ==
  \/ \E c \in Callers : \/ \E list \in BackendLists : LeastSelectOrigin(c, list)
                        \/ IncrementConnections(c) \/ DecrementConnections(c)
  \/ LeastReset

LeastSpec == LeastInit /\ [][LeastNext]_leastVars

------------------------------------------------------------------------------
(* Properties *)

LeastTypeOK ==
  /\ connections \in [Backends -> Int]
  /\ chosen \in [Callers -> Backends \cup {NoBackend}]
  /\ open \in [Callers -> Backends \cup {NoBackend}]
  /\ forgotten \in [Backends -> Nat]
  /\ among \in [Callers -> SUBSET Backends]
  /\ races \in [Callers -> 0..Cardinality(Callers)]

\* A count is never more than the connections that are open, never negative,
\* and short of them by at most those that the last Reset forgot, although
\* their decrements come later and hit the connections opened since
\* (balancer.go:61, 77).
CountsTrackOpen ==
  \A o \in Backends :
     /\ connections[o] \in 0..Cardinality(OpenTo(o))
     /\ Cardinality(OpenTo(o)) - connections[o] <= forgotten[o]

\* The lock is released between the choice and the count, so several callers
\* may choose one origin; but the origin that a caller opens its connection to
\* has no more connections than any other of its list, apart from the changes
\* of counts in between (balancer.go:41, 51).
ChoiceIsLeastButForRaces ==
  \A c \in Callers : chosen[c] # NoBackend =>
     /\ chosen[c] \in among[c]
     /\ \A o \in among[c] : connections[chosen[c]] <= connections[o] + races[c]
=============================================================================
