-------------------------- MODULE Balancers_proofs --------------------------
(***************************************************************************)
(* The hash ring is consistent for every ring, every number of origins and *)
(* every collision of hashes; the counts of the least connections balancer *)
(* are right for every number of callers, but for what Reset forgets;      *)
(* round robin is even for every width of its counter; and the loops of    *)
(* the health checker have what they check.  The lemmas on % are those of  *)
(* the limiters.                                                           *)
(***************************************************************************)
EXTENDS ConsistentHash, LeastConn, RoundRobin, HealthChecker, RateLimits_proofs, WellFoundedInduction

(* The hash ring.                                                          *)

\* A set of naturals has a least element: the intervals below its elements
\* are finite, and proper inclusion of finite sets is well founded.
LEMMA LeastNumber ==
  ASSUME NEW S, S \subseteq Nat, S # {}
  PROVE  \E m \in S : \A n \in S : m <= n
<1> DEFINE Below == {0..n : n \in S}
           R == StrictSubsetOrdering(Nat)
<1>1. \A n \in S : 0..n \in FiniteSubsetsOf(Nat)
  BY FS_Interval DEF FiniteSubsetsOf
<1>2. Below \subseteq FiniteSubsetsOf(Nat) /\ Below # {}
  BY <1>1
<1>3. PICK B \in Below : \A C \in Below : ~(<<C, B>> \in R)
  <2> HIDE DEF Below, R
  <2> QED BY <1>2, FS_StrictSubsetOrderingWellFounded, WFMin DEF R
<1>4. PICK m \in S : B = 0..m
  OBVIOUS
<1>5. ASSUME NEW n \in S, n < m PROVE FALSE
  <2>1. 0..n \subseteq 0..m /\ 0..n # 0..m /\ 0..m \in SUBSET Nat /\ 0..n \in SUBSET Nat
    BY <1>5
  <2>2. <<0..n, 0..m>> \in R
    BY <2>1 DEF StrictSubsetOrdering
  <2> QED BY <1>3, <1>4, <2>2
<1> QED BY <1>4, <1>5

\* The search finds one key, if there is one.
LEMMA FirstIsOne ==
  ASSUME NEW ks \in SUBSET Nat, NEW hash \in Nat
  PROVE  /\ FirstFrom(ks, hash) \subseteq ks
         /\ ks # {} => FirstFrom(ks, hash) # {}
         /\ \A g, h \in FirstFrom(ks, hash) : g = h
<1> DEFINE later == {h \in ks : h >= hash}
           candidates == IF later = {} THEN ks ELSE later
<1>1. FirstFrom(ks, hash) = {h \in candidates : \A g \in candidates : h <= g}
  BY DEF FirstFrom
<1>2. candidates \subseteq ks /\ (ks # {} => candidates # {})
  OBVIOUS
<1>3. candidates \subseteq Nat
  BY <1>2
<1> HIDE DEF candidates
<1>4. ASSUME ks # {} PROVE \E m \in candidates : \A n \in candidates : m <= n
  BY <1>2, <1>3, <1>4, LeastNumber
<1>5. ASSUME NEW g \in FirstFrom(ks, hash), NEW h \in FirstFrom(ks, hash) PROVE g = h
  <2>1. g \in candidates /\ h \in candidates /\ g <= h /\ h <= g
    BY <1>1, <1>5
  <2> QED BY <1>3, <2>1
<1> QED BY <1>1, <1>2, <1>4, <1>5

\* Keys that come or go beside the one that is found change nothing.
LEMMA FirstStays ==
  ASSUME NEW more \in SUBSET Nat, NEW less \in SUBSET more, NEW hash \in Nat,
         FirstFrom(more, hash) \subseteq less
  PROVE  FirstFrom(less, hash) = FirstFrom(more, hash)
<1>1. CASE more = {}
  BY <1>1
<1>2. CASE more # {}
  <2>1. PICK m \in FirstFrom(more, hash) : TRUE
    BY <1>2, FirstIsOne
  <2>2. m \in less /\ m \in Nat
    BY <2>1
  <2>3. CASE \E h \in more : h >= hash
    <3>1. m >= hash /\ \A h \in more : h >= hash => m <= h
      BY <2>1, <2>3 DEF FirstFrom
    <3>2. m \in FirstFrom(less, hash)
      BY <2>2, <3>1 DEF FirstFrom
    <3> QED BY <2>1, <3>2, FirstIsOne
  <2>4. CASE ~ \E h \in more : h >= hash
    <3>1. \A h \in more : m <= h
      BY <2>1, <2>4 DEF FirstFrom
    <3>2. m \in FirstFrom(less, hash)
      BY <2>2, <2>4, <3>1 DEF FirstFrom
    <3> QED BY <2>1, <3>2, FirstIsOne
  <2> QED BY <2>3, <2>4
<1> QED BY <1>1, <1>2

-----------------------------------------------------------------------------
RingInv == RingTypeOK /\ RingFollowsNodes

LEMMA RingInvInit == RingInit => RingInv
BY RingAssumption DEF RingInit, RingInv, RingTypeOK, RingFollowsNodes

LEMMA AddKeepsRing ==
  ASSUME RingInv, NEW o \in Nodes, AddOrigin(o)
  PROVE  RingInv'
<1> USE RingAssumption DEF RingInv, RingTypeOK
<1>1. RingTypeOK'
  BY DEF AddOrigin
<1>2. ASSUME NEW h \in Hashes
      PROVE  /\ keys'[h] > 0 <=> ring'[h] # NoNode
             /\ ring'[h] # NoNode => ring'[h] \in Claimants(h) \cap nodes'
             /\ \A p \in nodes' : Claimants(h) = {p} => ring'[h] = p
  <2>1. CASE h \in HashesOf[o]
    <3>1. ring'[h] = o /\ keys'[h] = keys[h] + 1 /\ o \in nodes'
      BY <2>1 DEF AddOrigin
    <3>2. o \in Claimants(h) /\ o # NoNode
      BY <2>1 DEF Claimants
    <3>3. keys[h] \in Nat
      OBVIOUS
    <3>4. keys'[h] > 0
      BY ONLY <3>1, <3>3
    <3> QED BY <3>1, <3>2, <3>4
  <2>2. CASE h \notin HashesOf[o]
    <3>1. ring'[h] = ring[h] /\ keys'[h] = keys[h] /\ nodes' = nodes \cup {o} /\ o \notin Claimants(h)
      BY <2>2 DEF AddOrigin, Claimants
    <3> QED BY <3>1 DEF RingFollowsNodes
  <2> QED BY <2>1, <2>2
<1> QED BY <1>1, <1>2 DEF RingFollowsNodes, Claimants

LEMMA RemoveKeepsRing ==
  ASSUME RingInv, NEW o \in Nodes, RemoveOrigin(o)
  PROVE  RingInv'
<1> USE RingAssumption DEF RingInv, RingTypeOK
<1>1. RingTypeOK'
  BY DEF RemoveOrigin
<1>2. ASSUME NEW h \in Hashes
      PROVE  /\ keys'[h] > 0 <=> ring'[h] # NoNode
             /\ ring'[h] # NoNode => ring'[h] \in Claimants(h) \cap nodes'
             /\ \A p \in nodes' : Claimants(h) = {p} => ring'[h] = p
  <2>1. keys'[h] > 0 <=> ring'[h] # NoNode
    BY DEF RemoveOrigin
  <2>2. nodes' = nodes \ {o}
    BY DEF RemoveOrigin
  <2>3. CASE o \in nodes /\ h \in HashesOf[o]
    <3>1. ring'[h] = NoNode /\ o \in Claimants(h)
      BY <2>3 DEF RemoveOrigin, Claimants
    <3> QED BY <2>1, <2>2, <3>1
  <2>4. CASE o \notin nodes \/ h \notin HashesOf[o]
    <3>1. ring'[h] = ring[h]
      BY <2>4 DEF RemoveOrigin
    <3>2. ring[h] # NoNode => ring[h] \in Claimants(h) \cap nodes
      BY DEF RingFollowsNodes
    <3>3. ring[h] # o
      BY <2>4, <3>2, RingAssumption DEF Claimants
    <3> QED BY <2>1, <2>2, <3>1, <3>2, <3>3 DEF RingFollowsNodes
  <2> QED BY <2>3, <2>4
<1> QED BY <1>1, <1>2 DEF RingFollowsNodes, Claimants

LEMMA RingInvStep == RingInv /\ [RingNext]_ringVars => RingInv'
<1> SUFFICES ASSUME RingInv, [RingNext]_ringVars PROVE RingInv'
  OBVIOUS
<1>1. CASE UNCHANGED ringVars
  BY <1>1 DEF RingInv, RingTypeOK, RingFollowsNodes, Claimants, ringVars
<1>2. CASE RingNext
  BY <1>2, AddKeepsRing, RemoveKeepsRing DEF RingNext
<1> QED BY <1>1, <1>2

LEMMA RingInvariant == RingSpec => []RingInv
BY RingInvInit, RingInvStep, PTL DEF RingSpec

\* The ring of a set of origins no two of which share a hash.
NoCollisions == \A o, p \in Nodes : o # p => HashesOf[o] \cap HashesOf[p] = {}

RingOf(there) ==
  [h \in Hashes |-> IF \E o \in there : h \in HashesOf[o]
                   THEN CHOOSE o \in there : h \in HashesOf[o] ELSE NoNode]

LEMMA RingIsFunction ==
  ASSUME RingInv, NoCollisions
  PROVE  ring = RingOf(nodes)
<1> USE DEF RingInv, RingTypeOK
<1>1. ASSUME NEW h \in Hashes PROVE ring[h] = RingOf(nodes)[h]
  <2>1. CASE \E o \in nodes : h \in HashesOf[o]
    <3>1. PICK o \in nodes : h \in HashesOf[o]
      BY <2>1
    <3>2. Claimants(h) = {o}
      BY <3>1 DEF NoCollisions, Claimants
    <3>3. ring[h] = o
      BY <3>2 DEF RingFollowsNodes
    <3>4. \A p \in nodes : h \in HashesOf[p] => p = o
      BY <3>2 DEF Claimants
    <3>5. (CHOOSE p \in nodes : h \in HashesOf[p]) = o
      BY <3>1, <3>4
    <3> QED BY <2>1, <3>3, <3>5 DEF RingOf
  <2>2. CASE ~ \E o \in nodes : h \in HashesOf[o]
    <3>1. ring[h] = NoNode
      BY <2>2 DEF RingFollowsNodes, Claimants
    <3> QED BY <2>2, <3>1 DEF RingOf
  <2> QED BY <2>1, <2>2
<1>2. ring \in [Hashes -> Nodes \cup {NoNode}] /\ RingOf(nodes) = [h \in Hashes |-> RingOf(nodes)[h]]
  BY DEF RingOf
<1> HIDE DEF RingInv, RingTypeOK
<1> QED BY <1>1, <1>2

\* Whatever was added, added again and removed, an origin has the hashes that
\* nobody shares with it while it is there, and an entry is always of one that is
\* there.  If no two origins collide, the ring is therefore a function of the
\* origins that are there; if two do, whose the hash is, if anybody's, depends
\* on the order of the calls (balancer.go:38-41, 58-70).
THEOREM RingIsOfItsNodes ==
  RingSpec => [](RingTypeOK /\ RingFollowsNodes /\ (NoCollisions => ring = RingOf(nodes)))
<1>1. RingInv => RingTypeOK /\ RingFollowsNodes /\ (NoCollisions => ring = RingOf(nodes))
  BY RingIsFunction DEF RingInv
<1> QED BY <1>1, RingInvariant, PTL

-----------------------------------------------------------------------------
\* Whom a request goes to depends on the ring only through the owner.
LEMMA SameOwnersSameChoice ==
  ASSUME NEW hash \in Hashes, NEW origins \in NodeLists, Owners(hash)' = Owners(hash)
  PROVE  SelectOrigin(hash, origins)' = SelectOrigin(hash, origins)
BY DEF SelectOrigin

\* The owner is chosen if it is in the list, and the first of the list if not.
LEMMA OwnerIsChosen ==
  ASSUME NEW o, NEW hash \in Hashes, NEW origins \in NodeLists, Owners(hash)' = {o}
  PROVE  SelectOrigin(hash, origins)' = IF \E i \in DOMAIN origins : origins[i] = o THEN o ELSE origins[1]
<1> DEFINE owned == {i \in DOMAIN origins : origins[i] \in {o}}
<1>1. SelectOrigin(hash, origins)'
      = IF owned = {} THEN origins[1] ELSE origins[CHOOSE n \in owned : \A j \in owned : n <= j]
  BY DEF SelectOrigin
<1>2. CASE owned # {}
  <2>1. owned \subseteq Nat
    BY RingAssumption
  <2>2. PICK i \in owned : \A j \in owned : i <= j
    BY <1>2, <2>1, LeastNumber
  <2>3. (CHOOSE n \in owned : \A j \in owned : n <= j) \in owned
    BY <2>2
  <2> QED BY <1>1, <1>2, <2>3
<1>3. CASE owned = {}
  BY <1>1, <1>3
<1> QED BY <1>2, <1>3

LEMMA OccurringKeys ==
  /\ Occurring \subseteq Hashes /\ Occurring' \subseteq Hashes
  /\ \A h \in Hashes : /\ h \in Occurring <=> keys[h] > 0
                       /\ h \in Occurring' <=> keys'[h] > 0
BY DEF Occurring

LEMMA OthersStayOnAdd ==
  ASSUME RingInv, NEW o \in Nodes, AddOrigin(o),
         NEW hash \in Hashes, NEW origins \in NodeLists,
         SelectOrigin(hash, origins)' # SelectOrigin(hash, origins)
  PROVE  /\ Found(hash)' \cap HashesOf[o] # {}
         /\ SelectOrigin(hash, origins)' =
              IF \E i \in DOMAIN origins : origins[i] = o THEN o ELSE origins[1]
<1> USE RingAssumption DEF RingInv, RingTypeOK
<1>1. Occurring \subseteq Occurring' /\ Occurring' \subseteq Occurring \cup HashesOf[o]
  <2>1. \A h \in Hashes : keys'[h] = IF h \in HashesOf[o] THEN keys[h] + 1 ELSE keys[h]
    BY DEF AddOrigin
  <2>2. \A h \in Hashes : keys[h] \in Nat
    OBVIOUS
  <2>3. \A h \in Hashes : keys[h] > 0 => keys'[h] > 0
    BY <2>1, <2>2
  <2>4. \A h \in Hashes : keys'[h] > 0 => keys[h] > 0 \/ h \in HashesOf[o]
    BY <2>1, <2>2
  <2> QED BY <2>3, <2>4, OccurringKeys
<1>2. Occurring' \in SUBSET Nat /\ hash \in Nat
  BY DEF Occurring
<1>3. Found(hash)' = FirstFrom(Occurring', hash)
  BY DEF Found, FirstFrom
<1>4. CASE Found(hash)' \cap HashesOf[o] = {}
  <2>1. Found(hash)' \subseteq Occurring
    <3>1. FirstFrom(Occurring', hash) \subseteq Occurring'
      BY <1>2, FirstIsOne
    <3> QED BY <1>1, <1>3, <1>4, <3>1
  <2>2. Found(hash)' = Found(hash)
    BY <1>1, <1>2, <1>3, <2>1, FirstStays DEF Found
  <2>3. Found(hash) \subseteq Hashes
    BY <2>1, <2>2 DEF Occurring
  <2>4. \A h \in Found(hash) : ring'[h] = ring[h]
    BY <1>4, <2>2, <2>3 DEF AddOrigin
  <2>5. Owners(hash)' = Owners(hash)
    BY <2>2, <2>4 DEF Owners
  <2> QED BY <2>5, SameOwnersSameChoice
<1>5. CASE Found(hash)' \cap HashesOf[o] # {}
  <2>1. PICK h \in Found(hash)' : h \in HashesOf[o]
    BY <1>5
  <2>2. Found(hash)' = {h}
    BY <1>2, <1>3, <2>1, FirstIsOne
  <2>3. ring'[h] = o
    BY <2>1 DEF AddOrigin
  <2>4. Owners(hash)' = {o}
    BY <2>2, <2>3 DEF Owners
  <2>5. SelectOrigin(hash, origins)' = IF \E i \in DOMAIN origins : origins[i] = o THEN o ELSE origins[1]
    BY ONLY <2>4, OwnerIsChosen
  <2> QED BY ONLY <1>5, <2>5
<1> QED BY <1>4, <1>5

LEMMA RemovedKeys ==
  ASSUME RingInv, NEW o \in Nodes, RemoveOrigin(o)
  PROVE  Occurring' \subseteq Occurring /\ Occurring \subseteq Occurring' \cup HashesOf[o]
<1>1. \A h \in Hashes : h \in Occurring <=> ring[h] # NoNode
  BY OccurringKeys DEF RingInv, RingFollowsNodes
<1>2. \A h \in Hashes : h \in Occurring' <=> ring'[h] # NoNode
  BY OccurringKeys, RemoveKeepsRing DEF RingInv, RingFollowsNodes
<1>3. \A h \in Hashes : ring'[h] # NoNode => ring[h] # NoNode
  BY DEF RemoveOrigin
<1>4. \A h \in Hashes : ring[h] # NoNode => ring'[h] # NoNode \/ h \in HashesOf[o]
  BY DEF RemoveOrigin
<1> QED BY <1>1, <1>2, <1>3, <1>4, OccurringKeys

LEMMA OthersStayOnRemove ==
  ASSUME RingInv, NEW o \in Nodes, RemoveOrigin(o),
         NEW hash \in Hashes, NEW origins \in NodeLists, Found(hash) \cap HashesOf[o] = {}
  PROVE  SelectOrigin(hash, origins)' = SelectOrigin(hash, origins)
<1> USE RingAssumption DEF RingInv, RingTypeOK
<1>1. Occurring' \subseteq Occurring /\ Occurring \subseteq Occurring' \cup HashesOf[o]
  BY RemovedKeys
<1>2. Occurring \in SUBSET Nat /\ hash \in Nat
  BY DEF Occurring
<1>3. Found(hash)' = FirstFrom(Occurring', hash)
  BY DEF Found, FirstFrom
<1>4. Found(hash) \subseteq Occurring'
  BY <1>1, <1>2, FirstIsOne DEF Found
<1>5. Found(hash)' = Found(hash)
  BY <1>1, <1>2, <1>3, <1>4, FirstStays DEF Found
<1>6. Found(hash) \subseteq Hashes
  BY <1>1, <1>4 DEF Occurring
<1>7. \A h \in Found(hash) : ring'[h] = ring[h]
  BY <1>6 DEF RemoveOrigin
<1>8. Owners(hash)' = Owners(hash)
  <2>1. Owners(hash)' = {ring'[h] : h \in Found(hash)'} /\ Owners(hash) = {ring[h] : h \in Found(hash)}
    BY ONLY DEF Owners
  <2>2. {ring'[h] : h \in Found(hash)} = {ring[h] : h \in Found(hash)}
    BY ONLY <1>7, SMT
  <2> QED BY ONLY <1>5, <2>1, <2>2
<1> QED BY <1>8, SameOwnersSameChoice

\* Consistency: adding an origin moves only requests for keys at its hashes, to
\* it if it is in the list that is passed and to the first of the list if not;
\* removing one moves only those at its hashes; for every ring and every list
\* of origins (balancer.go:82-104).
THEOREM RingIsConsistent == RingSpec => OnlyItsKeysMove
<1> DEFINE Moves(o) ==
      /\ AddOrigin(o) =>
           \A hash \in Hashes, origins \in NodeLists :
              SelectOrigin(hash, origins)' # SelectOrigin(hash, origins)
              => /\ Found(hash)' \cap HashesOf[o] # {}
                 /\ SelectOrigin(hash, origins)' =
                      IF \E i \in DOMAIN origins : origins[i] = o THEN o ELSE origins[1]
      /\ RemoveOrigin(o) /\ ringVars' # ringVars =>
           \A hash \in Hashes, origins \in NodeLists : Found(hash) \cap HashesOf[o] = {}
              => SelectOrigin(hash, origins)' = SelectOrigin(hash, origins)
<1>1. RingInv => \A o \in Nodes : Moves(o)
  BY OthersStayOnAdd, OthersStayOnRemove
<1>2. RingSpec => [][\A o \in Nodes : Moves(o)]_ringVars
  <2> HIDE DEF Moves
  <2> QED BY <1>1, RingInvariant, PTL
<1> QED BY <1>2 DEF OnlyItsKeysMove

-----------------------------------------------------------------------------
(* Least connections.                                                      *)

\* A caller that has been given an origin has no connection open.
OneAtATime == \A c \in Callers : chosen[c] = NoBackend \/ open[c] = NoBackend

LeastInv == LeastTypeOK /\ OneAtATime /\ CountsTrackOpen /\ ChoiceIsLeastButForRaces

LEMMA OpenIsFinite ==
  ASSUME NEW o
  PROVE  /\ IsFiniteSet(OpenTo(o)) /\ Cardinality(OpenTo(o)) \in Nat
         /\ Cardinality(OpenTo(o)) <= Cardinality(Callers) /\ Cardinality(Callers) \in Nat
<1>1. OpenTo(o) \in SUBSET Callers
  BY DEF OpenTo
<1> QED BY <1>1, LeastConnAssumption, FS_Subset, FS_CardinalityType

LEMMA LeastInvInit == LeastInit => LeastInv
<1> SUFFICES ASSUME LeastInit PROVE LeastInv
  OBVIOUS
<1> USE LeastConnAssumption DEF LeastInit
<1>1. \A o \in Backends : OpenTo(o) = {}
  BY DEF OpenTo
<1>2. CountsTrackOpen
  <2>1. \A o \in Backends : Cardinality(OpenTo(o)) = 0 /\ connections[o] = 0 /\ forgotten[o] = 0
    BY <1>1, FS_EmptySet
  <2> QED BY <2>1 DEF CountsTrackOpen
<1>3. LeastTypeOK
  BY OpenIsFinite DEF LeastTypeOK
<1> QED BY <1>2, <1>3 DEF LeastInv, OneAtATime, ChoiceIsLeastButForRaces

LEMMA SelectKeepsLeast ==
  ASSUME LeastInv, NEW c \in Callers, NEW origins \in BackendLists, LeastSelectOrigin(c, origins)
  PROVE  LeastInv'
<1> USE LeastConnAssumption DEF LeastInv, LeastTypeOK
<1>1. PICK o \in Least(origins) : chosen' = [chosen EXCEPT ![c] = o]
  BY DEF LeastSelectOrigin
<1>2. PICK j \in DOMAIN origins : /\ o = origins[j]
                               /\ \A k \in DOMAIN origins : connections[origins[j]] <= connections[origins[k]]
  BY DEF Least
<1>3. DOMAIN origins = 1..Len(origins) /\ \A k \in DOMAIN origins : origins[k] \in Backends
  OBVIOUS
<1>4. /\ among' = [among EXCEPT ![c] = {origins[i] : i \in DOMAIN origins}]
      /\ races' = [races EXCEPT ![c] = 0]
      /\ UNCHANGED <<connections, open, forgotten>> /\ open[c] = NoBackend
  BY DEF LeastSelectOrigin
<1>5. o \in Backends
  BY <1>2, <1>3
<1>6. LeastTypeOK'
  <2>1. 0 \in 0..Cardinality(Callers)
    BY OpenIsFinite
  <2> QED BY <1>1, <1>3, <1>4, <1>5, <2>1
<1>7. OneAtATime'
  BY <1>1, <1>4 DEF OneAtATime
<1>8. CountsTrackOpen'
  BY <1>4 DEF CountsTrackOpen, OpenTo
<1>9. ASSUME NEW d \in Callers, chosen'[d] # NoBackend
      PROVE  /\ chosen'[d] \in among'[d]
             /\ \A p \in among'[d] : connections'[chosen'[d]] <= connections'[p] + races'[d]
  <2>1. CASE d = c
    <3>1. chosen'[d] = o /\ among'[d] = {origins[i] : i \in DOMAIN origins} /\ races'[d] = 0
      BY <1>1, <1>4, <2>1
    <3>2. \A p \in among'[d] : connections[o] <= connections[p] /\ connections[p] \in Int
      BY <1>2, <1>3, <3>1
    <3> QED BY <1>2, <1>4, <1>5, <3>1, <3>2
  <2>2. CASE d # c
    BY <1>1, <1>4, <1>9, <2>2 DEF ChoiceIsLeastButForRaces
  <2> QED BY <2>1, <2>2
<1> QED BY <1>6, <1>7, <1>8, <1>9 DEF ChoiceIsLeastButForRaces

\* What a change of the count of one origin by one, up or down, does to the
\* choices of others: their race is counted, or they can have seen as many as
\* there are callers.
LEMMA RaceCoversChange ==
  ASSUME LeastInv, NEW c \in Callers, Raced(c), CountsTrackOpen', LeastTypeOK',
         chosen'[c] = NoBackend, \A d \in Callers \ {c} : chosen'[d] = chosen[d],
         \A o, p \in Backends : connections'[o] - connections'[p] <= connections[o] - connections[p] + 1
  PROVE  ChoiceIsLeastButForRaces'
<1> SUFFICES ASSUME NEW d \in Callers, chosen'[d] # NoBackend
             PROVE  /\ chosen'[d] \in among'[d]
                    /\ \A o \in among'[d] : connections'[chosen'[d]] <= connections'[o] + races'[d]
  BY DEF ChoiceIsLeastButForRaces
<1>1. d # c /\ chosen'[d] = chosen[d] /\ chosen[d] \in Backends
  BY DEF LeastInv, LeastTypeOK
<1>2. among'[d] = among[d] /\ among[d] \subseteq Backends
  BY <1>1 DEF Raced, LeastInv, LeastTypeOK
<1>3. races'[d] = IF races[d] < Cardinality(Callers) THEN races[d] + 1 ELSE races[d]
  BY <1>1 DEF Raced
<1>4. races[d] \in 0..Cardinality(Callers)
  BY DEF LeastInv, LeastTypeOK
<1>5. ASSUME NEW o \in among[d]
      PROVE  connections'[chosen[d]] <= connections'[o] + races'[d]
  <2>1. connections[chosen[d]] <= connections[o] + races[d]
    BY <1>1, <1>5 DEF LeastInv, ChoiceIsLeastButForRaces
  <2>2. {connections[chosen[d]], connections[o], connections'[chosen[d]], connections'[o]} \subseteq Int
    BY <1>1, <1>2 DEF LeastInv, LeastTypeOK
  <2>3. CASE races[d] < Cardinality(Callers)
    <3>1. connections'[chosen[d]] - connections'[o] <= connections[chosen[d]] - connections[o] + 1
      BY <1>1, <1>2
    <3> QED BY <1>3, <1>4, <2>1, <2>2, <2>3, <3>1, OpenIsFinite
  <2>4. CASE ~(races[d] < Cardinality(Callers))
    <3>1. /\ connections'[chosen[d]] \in 0..Cardinality(OpenTo(chosen[d])')
          /\ connections'[o] \in 0..Cardinality(OpenTo(o)')
      BY <1>1, <1>2 DEF CountsTrackOpen
    <3>2. Cardinality(OpenTo(chosen[d])') <= Cardinality(Callers) /\ Cardinality(OpenTo(chosen[d])') \in Nat
      <4>1. OpenTo(chosen[d])' \in SUBSET Callers
        BY DEF OpenTo
      <4> QED BY <4>1, LeastConnAssumption, FS_Subset, FS_CardinalityType
    <3> QED BY <1>3, <1>4, <2>2, <2>4, <3>1, <3>2, OpenIsFinite
  <2> QED BY <2>3, <2>4
<1>6. chosen[d] \in among[d]
  BY <1>1 DEF LeastInv, ChoiceIsLeastButForRaces
<1> QED BY <1>1, <1>2, <1>5, <1>6

LEMMA RacedTypes ==
  ASSUME LeastTypeOK, NEW c \in Callers, Raced(c)
  PROVE  /\ among' \in [Callers -> SUBSET Backends]
         /\ races' \in [Callers -> 0..Cardinality(Callers)]
<1>1. Cardinality(Callers) \in Nat
  BY OpenIsFinite
<1> QED BY <1>1 DEF LeastTypeOK, Raced

LEMMA IncrementKeepsLeast ==
  ASSUME LeastInv, NEW c \in Callers, IncrementConnections(c)
  PROVE  LeastInv'
<1> USE LeastConnAssumption
<1> DEFINE me == chosen[c]
<1>1. /\ me \in Backends /\ open[c] = NoBackend
      /\ connections' = [connections EXCEPT ![me] = @ + 1]
      /\ open' = [open EXCEPT ![c] = me]
      /\ chosen' = [chosen EXCEPT ![c] = NoBackend]
      /\ Raced(c) /\ UNCHANGED forgotten
  BY DEF LeastInv, LeastTypeOK, OneAtATime, IncrementConnections
<1>2. LeastTypeOK'
  BY <1>1, RacedTypes DEF LeastInv, LeastTypeOK
<1>3. OneAtATime'
  BY <1>1 DEF LeastInv, LeastTypeOK, OneAtATime
<1>4. ASSUME NEW o \in Backends
      PROVE  /\ connections'[o] \in 0..Cardinality(OpenTo(o)')
             /\ Cardinality(OpenTo(o)') - connections'[o] <= forgotten'[o]
  <2>1. /\ connections[o] \in 0..Cardinality(OpenTo(o)) /\ connections[o] \in Int
        /\ Cardinality(OpenTo(o)) - connections[o] <= forgotten[o] /\ forgotten[o] \in Nat
    BY DEF LeastInv, CountsTrackOpen, LeastTypeOK
  <2>2. CASE o = me
    <3>1. OpenTo(o)' = OpenTo(o) \cup {c} /\ c \notin OpenTo(o)
      BY <1>1, <2>2 DEF OpenTo, LeastInv, LeastTypeOK
    <3>2. Cardinality(OpenTo(o)') = Cardinality(OpenTo(o)) + 1
      BY <3>1, OpenIsFinite, FS_AddElement
    <3>3. connections'[o] = connections[o] + 1
      BY <1>1, <2>2 DEF LeastInv, LeastTypeOK
    <3> QED BY <1>1, <2>1, <3>2, <3>3, OpenIsFinite
  <2>3. CASE o # me
    <3>1. OpenTo(o)' = OpenTo(o)
      BY <1>1, <2>3 DEF OpenTo, LeastInv, LeastTypeOK
    <3>2. connections'[o] = connections[o]
      BY <1>1, <2>3 DEF LeastInv, LeastTypeOK
    <3> QED BY <1>1, <2>1, <3>1, <3>2
  <2> QED BY <2>2, <2>3
<1>5. CountsTrackOpen'
  BY <1>4 DEF CountsTrackOpen
<1>6. \A o, p \in Backends : connections'[o] - connections'[p] <= connections[o] - connections[p] + 1
  BY <1>1 DEF LeastInv, LeastTypeOK
<1>7. chosen'[c] = NoBackend /\ \A d \in Callers \ {c} : chosen'[d] = chosen[d]
  BY <1>1 DEF LeastInv, LeastTypeOK
<1>8. ChoiceIsLeastButForRaces'
  BY <1>1, <1>2, <1>5, <1>6, <1>7, RaceCoversChange
<1> QED BY <1>2, <1>3, <1>5, <1>8 DEF LeastInv

LEMMA DecrementKeepsLeast ==
  ASSUME LeastInv, NEW c \in Callers, DecrementConnections(c)
  PROVE  LeastInv'
<1> USE LeastConnAssumption
<1> DEFINE me == open[c]
<1>1. /\ me \in Backends /\ chosen[c] = NoBackend
      /\ connections' = [connections EXCEPT ![me] = IF @ > 0 THEN @ - 1 ELSE @]
      /\ open' = [open EXCEPT ![c] = NoBackend]
      /\ UNCHANGED chosen
      /\ Raced(c) /\ UNCHANGED forgotten
  BY DEF LeastInv, LeastTypeOK, OneAtATime, DecrementConnections
<1>2. LeastTypeOK'
  BY <1>1, RacedTypes DEF LeastInv, LeastTypeOK
<1>3. OneAtATime'
  BY <1>1 DEF LeastInv, LeastTypeOK, OneAtATime
<1>4. ASSUME NEW o \in Backends
      PROVE  /\ connections'[o] \in 0..Cardinality(OpenTo(o)')
             /\ Cardinality(OpenTo(o)') - connections'[o] <= forgotten'[o]
  <2>1. /\ connections[o] \in 0..Cardinality(OpenTo(o)) /\ connections[o] \in Int
        /\ Cardinality(OpenTo(o)) - connections[o] <= forgotten[o] /\ forgotten[o] \in Nat
    BY DEF LeastInv, CountsTrackOpen, LeastTypeOK
  <2>2. CASE o = me
    <3>1. OpenTo(o)' = OpenTo(o) \ {c} /\ c \in OpenTo(o)
      BY <1>1, <2>2 DEF OpenTo, LeastInv, LeastTypeOK
    <3>2. Cardinality(OpenTo(o)') = Cardinality(OpenTo(o)) - 1 /\ Cardinality(OpenTo(o)') \in Nat
      BY <3>1, OpenIsFinite, FS_RemoveElement, FS_CardinalityType
    <3>3. connections'[o] = IF connections[o] > 0 THEN connections[o] - 1 ELSE connections[o]
      BY <1>1, <2>2 DEF LeastInv, LeastTypeOK
    <3> QED BY <1>1, <2>1, <3>2, <3>3, OpenIsFinite
  <2>3. CASE o # me
    <3>1. OpenTo(o)' = OpenTo(o)
      BY <1>1, <2>3 DEF OpenTo, LeastInv, LeastTypeOK
    <3>2. connections'[o] = connections[o]
      BY <1>1, <2>3 DEF LeastInv, LeastTypeOK
    <3> QED BY <1>1, <2>1, <3>1, <3>2
  <2> QED BY <2>2, <2>3
<1>5. CountsTrackOpen'
  BY <1>4 DEF CountsTrackOpen
<1>6. \A o, p \in Backends : connections'[o] - connections'[p] <= connections[o] - connections[p] + 1
  BY <1>1 DEF LeastInv, LeastTypeOK
<1>7. chosen'[c] = NoBackend /\ \A d \in Callers \ {c} : chosen'[d] = chosen[d]
  BY <1>1
<1>8. ChoiceIsLeastButForRaces'
  BY <1>1, <1>2, <1>5, <1>6, <1>7, RaceCoversChange
<1> QED BY <1>2, <1>3, <1>5, <1>8 DEF LeastInv

LEMMA ResetKeepsLeast ==
  ASSUME LeastInv, LeastReset
  PROVE  LeastInv'
<1>1. /\ connections' = [o \in Backends |-> 0]
      /\ forgotten' = [o \in Backends |-> Cardinality(OpenTo(o))]
      /\ UNCHANGED <<chosen, open, among, races>>
  BY DEF LeastReset
<1>2. LeastTypeOK'
  BY <1>1, OpenIsFinite DEF LeastInv, LeastTypeOK
<1>3. OneAtATime'
  BY <1>1 DEF LeastInv, OneAtATime
<1>4. CountsTrackOpen'
  <2>1. \A o \in Backends : OpenTo(o)' = OpenTo(o)
    BY <1>1 DEF OpenTo
  <2> QED BY <1>1, <2>1, OpenIsFinite DEF CountsTrackOpen
<1>5. ASSUME NEW c \in Callers, chosen[c] # NoBackend
      PROVE  /\ chosen[c] \in among[c]
             /\ \A o \in among[c] : connections'[chosen[c]] <= connections'[o] + races[c]
  <2>1. chosen[c] \in among[c] /\ chosen[c] \in Backends /\ among[c] \subseteq Backends
    BY <1>5 DEF LeastInv, LeastTypeOK, ChoiceIsLeastButForRaces
  <2>2. races[c] \in Nat
    BY DEF LeastInv, LeastTypeOK
  <2> QED BY <1>1, <2>1, <2>2
<1> QED BY <1>1, <1>2, <1>3, <1>4, <1>5 DEF LeastInv, ChoiceIsLeastButForRaces

LEMMA LeastInvStep == LeastInv /\ [LeastNext]_leastVars => LeastInv'
<1> SUFFICES ASSUME LeastInv, [LeastNext]_leastVars PROVE LeastInv'
  OBVIOUS
<1>1. CASE UNCHANGED leastVars
  BY <1>1 DEF LeastInv, LeastTypeOK, OneAtATime, CountsTrackOpen, ChoiceIsLeastButForRaces,
              OpenTo, leastVars
<1>2. CASE LeastNext
  BY <1>2, SelectKeepsLeast, IncrementKeepsLeast, DecrementKeepsLeast, ResetKeepsLeast
     DEF LeastNext
<1> QED BY <1>1, <1>2

LEMMA LeastInvariant == LeastSpec => []LeastInv
BY LeastInvInit, LeastInvStep, PTL DEF LeastSpec

\* The counts are what the callers hold, less at most what the last Reset
\* forgot, and never negative, for any number of callers (balancer.go:51-78).
THEOREM CountsAreOpen == LeastSpec => []CountsTrackOpen
BY LeastInvariant, PTL DEF LeastInv

\* The choice is the least of its list but for the changes since it was made,
\* for any number of callers and origins (balancer.go:23-55).
THEOREM ChoiceIsLeast == LeastSpec => []ChoiceIsLeastButForRaces
BY LeastInvariant, PTL DEF LeastInv

-----------------------------------------------------------------------------
(* Round robin.                                                            *)

\* The positions from start up to, and not including, end, around the list.
InArc(start, end, i) ==
  IF start <= end THEN start <= i /\ i < end ELSE start <= i \/ i < end

\* Every position had m turns, and those of the arc one more.
EvenBut(t, n, start, end, m) ==
  \A i \in 0..(n - 1) : t[i] = m + (IF InArc(start, end, i) THEN 1 ELSE 0)

\* The next selection is at end, if there is one: a negative counter either
\* is a multiple of the length or makes the selection panic.
NextAt(c, n, end) ==
  /\ c >= 0 => end = c % n
  /\ c < 0 /\ (-c) % n = 0 => end = 0

EvenSoFar ==
  length > 0 => \E start, end \in 0..(length - 1), m \in Nat :
                   EvenBut(turns, length, start, end, m) /\ NextAt(counter, length, end)

RotationTypes ==
  /\ RotationTypeOK
  /\ length \in ListLengths \cup {0}
  /\ turns \in [Positions -> Nat]
  /\ selections \in Nat

\* Until MaxInt selections the counter has not wrapped.
CounterIsSelections == selections <= MaxInt => counter = selections

RotationInv ==
  RotationTypes /\ EvenSoFar /\ CounterIsSelections /\ (panicked => selections > MaxInt)

Following(n, i) == IF i = n - 1 THEN 0 ELSE i + 1

\* One more turn at the end of the arc: the arc grows, or it has gone round
\* the list and every position has had one more turn.
LEMMA ArcGrows ==
  ASSUME NEW n \in Nat \ {0}, NEW start \in 0..(n - 1), NEW end \in 0..(n - 1), NEW i \in 0..(n - 1),
         Following(n, end) # start
  PROVE  InArc(start, Following(n, end), i) <=> InArc(start, end, i) \/ i = end
BY DEF InArc, Following

LEMMA ArcCloses ==
  ASSUME NEW n \in Nat \ {0}, NEW start \in 0..(n - 1), NEW end \in 0..(n - 1), NEW i \in 0..(n - 1),
         Following(n, end) = start
  PROVE  /\ ~InArc(start, start, i) /\ ~InArc(start, end, end)
         /\ InArc(start, end, i) \/ i = end
BY DEF InArc, Following

LEMMA EvenAdvances ==
  ASSUME NEW n \in Nat \ {0}, NEW start \in 0..(n - 1), NEW end \in 0..(n - 1), NEW m \in Nat,
         NEW t, NEW u, EvenBut(t, n, start, end, m),
         \A i \in 0..(n - 1) : u[i] = IF i = end THEN t[i] + 1 ELSE t[i]
  PROVE  \E k \in Nat : EvenBut(u, n, start, Following(n, end), k)
<1>1. ~InArc(start, end, end)
  BY DEF InArc
<1>2. CASE Following(n, end) # start
  <2>1. EvenBut(u, n, start, Following(n, end), m)
    <3> SUFFICES ASSUME NEW i \in 0..(n - 1)
                 PROVE  u[i] = m + (IF InArc(start, Following(n, end), i) THEN 1 ELSE 0)
      BY DEF EvenBut
    <3>1. t[i] = m + (IF InArc(start, end, i) THEN 1 ELSE 0)
      BY DEF EvenBut
    <3>2. InArc(start, Following(n, end), i) <=> InArc(start, end, i) \/ i = end
      BY <1>2, ArcGrows
    <3> QED BY <1>1, <3>1, <3>2
  <2> QED BY <2>1
<1>3. CASE Following(n, end) = start
  <2>1. EvenBut(u, n, start, start, m + 1)
    <3> SUFFICES ASSUME NEW i \in 0..(n - 1)
                 PROVE  u[i] = (m + 1) + (IF InArc(start, start, i) THEN 1 ELSE 0)
      BY DEF EvenBut
    <3>1. t[i] = m + (IF InArc(start, end, i) THEN 1 ELSE 0)
      BY DEF EvenBut
    <3>2. ~InArc(start, start, i) /\ (InArc(start, end, i) \/ i = end)
      BY <1>3, ArcCloses
    <3> QED BY <1>1, <3>1, <3>2
  <2> QED BY <1>3, <2>1
<1> QED BY <1>2, <1>3

LEMMA NoTurnsIsEven ==
  ASSUME NEW n \in ListLengths, NEW i \in 0..(n - 1)
  PROVE  EvenBut(NoTurns, n, i, i, 0)
<1>1. 0..(n - 1) \subseteq Positions
  BY DEF Positions
<1> QED BY <1>1, RoundRobinAssumption DEF EvenBut, NoTurns, InArc

LEMMA RotationInvInit == RotationInit => RotationInv
<1> SUFFICES ASSUME RotationInit PROVE RotationInv
  OBVIOUS
<1> USE RoundRobinAssumption DEF RotationInit
<1>1. RotationTypes
  <2>1. turns \in [Positions -> Nat]
    BY DEF NoTurns
  <2>2. 0 \in (-MaxInt - 1)..MaxInt
    OBVIOUS
  <2>3. RotationTypeOK
    BY <2>2, Zenon DEF RotationTypeOK
  <2> QED BY <2>1, <2>3 DEF RotationTypes
<1>2. EvenSoFar
  BY DEF EvenSoFar
<1> QED BY <1>1, <1>2 DEF RotationInv, CounterIsSelections

\* A selection that does not panic is at the position that is next, and the
\* following one is next after it, also where the counter wraps.
LEMMA SelectionIsNext ==
  ASSUME NEW c \in (-MaxInt - 1)..MaxInt, NEW n \in Nat \ {0}, Remainder(c, n) >= 0
  PROVE  /\ Remainder(c, n) \in 0..(n - 1)
         /\ \A end : NextAt(c, n, end) => end = Remainder(c, n)
         /\ NextAt(Successor(c), n, Following(n, Remainder(c, n)))
<1> USE RoundRobinAssumption
<1> DEFINE i == Remainder(c, n)
<1>1. CASE c >= 0
  <2>1. i = c % n /\ c \in Nat /\ i \in 0..(n - 1)
    BY <1>1, ModRange DEF Remainder
  <2> HIDE DEF i
  <2>2. (c + 1) % n = Following(n, i)
    BY <2>1, NextMod DEF Following
  <2>3. \A end : NextAt(c, n, end) => end = i
    BY <1>1, <2>1 DEF NextAt
  <2>4. CASE c = MaxInt
    <3>1. Successor(c) \in Int /\ Successor(c) < 0 /\ -Successor(c) = c + 1
      BY <2>1, <2>4 DEF Successor
    <3>2. NextAt(Successor(c), n, Following(n, i))
      <4>1. (-Successor(c)) % n = Following(n, i)
        BY <2>2, <3>1
      <4> QED BY <3>1, <4>1 DEF NextAt
    <3>3. i \in 0..(n - 1)
      BY <2>1
    <3> QED BY <2>3, <3>2, <3>3, Zenon DEF i
  <2>5. CASE c # MaxInt
    <3>1. Successor(c) >= 0 /\ Successor(c) = c + 1
      BY <2>1, <2>5 DEF Successor
    <3>2. NextAt(Successor(c), n, Following(n, i))
      BY <2>1, <2>2, <3>1 DEF NextAt
    <3>3. i \in 0..(n - 1)
      BY <2>1
    <3> QED BY <2>3, <3>2, <3>3, Zenon DEF i
  <2> QED BY <2>4, <2>5
<1>2. CASE c < 0
  <2>1. -c \in Nat /\ (-c) % n \in 0..(n - 1)
    BY <1>2, ModRange
  <2>2. (-c) % n = 0 /\ i = 0
    BY <1>2, <2>1 DEF Remainder
  <2> HIDE DEF i
  <2>3. \A end : NextAt(c, n, end) => end = i
    BY <1>2, <2>2 DEF NextAt
  <2> DEFINE d == -(c + 1)
  <2>4. Successor(c) = -d /\ d \in Nat /\ d + 1 = -c /\ -(-d) = d
    BY <1>2 DEF Successor
  <2> HIDE DEF d
  <2>5. d % n \in 0..(n - 1) /\ (d + 1) % n = IF d % n = n - 1 THEN 0 ELSE (d % n) + 1
    BY <2>4, ModRange, NextMod
  <2>6. d % n = n - 1
    BY <2>2, <2>4, <2>5
  <2>7. NextAt(-d, n, Following(n, i))
    <3>1. CASE d = 0
      <4>1. -d = d
        BY <2>4, <3>1
      <4>2. d % n = 0
        BY <3>1
      <4> QED BY <2>2, <2>6, <3>1, <4>1, <4>2 DEF NextAt, Following
    <3>2. CASE d > 0
      <4>1. -d < 0
        BY <2>4, <3>2
      <4>2. (-(-d)) % n = n - 1
        BY <2>4, <2>6
      <4> QED BY <2>2, <2>4, <4>1, <4>2 DEF NextAt, Following
    <3>3. d = 0 \/ d > 0
      BY <2>4
    <3> QED BY <3>1, <3>2, <3>3, Zenon
  <2> QED BY <2>2, <2>3, <2>4, <2>7 DEF i
<1> QED BY <1>1, <1>2

LEMMA SelectKeepsRotation ==
  ASSUME RotationInv, NEW n \in ListLengths, RotateSelectOrigin(n)
  PROVE  RotationInv'
<1> USE RoundRobinAssumption DEF RotationInv, RotationTypes
<1> DEFINE i == Remainder(counter, n)
           before == IF n = length THEN turns ELSE NoTurns
<1>1. CASE i < 0
  <2>1. UNCHANGED <<counter, length, turns, selections>> /\ panicked' = TRUE
    BY <1>1 DEF RotateSelectOrigin
  <2>2. counter < 0
    <3> SUFFICES ASSUME counter >= 0 PROVE FALSE
      BY DEF RotationTypeOK
    <3>1. counter \in Nat /\ counter % n \in 0..(n - 1)
      BY ModRange DEF RotationTypeOK
    <3> QED BY <1>1, <3>1 DEF Remainder
  <2>3. selections > MaxInt
    BY <2>2 DEF CounterIsSelections
  <2> QED BY <2>1, <2>3 DEF RotationTypeOK, EvenSoFar, EvenBut, NextAt, CounterIsSelections
<1>3. i \in Int
  <2>1. CASE counter >= 0
    BY <2>1, ModRange DEF RotationTypeOK, Remainder
  <2>2. CASE counter < 0
    BY <2>2, ModRange DEF RotationTypeOK, Remainder
  <2> QED BY <2>1, <2>2 DEF RotationTypeOK
<1>2. CASE i >= 0
  <2>1. /\ panicked' = FALSE /\ counter' = Successor(counter) /\ length' = n
        /\ turns' = [before EXCEPT ![i] = @ + 1] /\ selections' = selections + 1
    <3>1. (i < 0) = FALSE
      BY <1>2, <1>3
    <3> QED BY <3>1, Zenon DEF RotateSelectOrigin
  <2>2. counter \in (-MaxInt - 1)..MaxInt /\ n \in Nat \ {0}
    BY DEF RotationTypeOK
  <2>3. /\ i \in 0..(n - 1) /\ NextAt(Successor(counter), n, Following(n, i))
        /\ \A end : NextAt(counter, n, end) => end = i
    BY <1>2, <2>1, <2>2, SelectionIsNext
  <2>4. counter' \in (-MaxInt - 1)..MaxInt
    BY <2>1, <2>2 DEF Successor
  <2>5. before \in [Positions -> Nat] /\ 0..(n - 1) \subseteq Positions
    BY DEF NoTurns, Positions
  <2> HIDE DEF i, before
  <2>6. turns' \in [Positions -> Nat]
    BY <2>1, <2>3, <2>5
  <2>7. \A j \in 0..(n - 1) : turns'[j] = IF j = i THEN before[j] + 1 ELSE before[j]
    BY <2>1, <2>3, <2>5
  <2>8. \E start \in 0..(n - 1), m \in Nat : EvenBut(before, n, start, i, m)
    <3>1. CASE n = length
      BY <2>2, <2>3, <3>1 DEF EvenSoFar, before
    <3>2. CASE n # length
      <4>1. before = NoTurns
        BY <3>2 DEF before
      <4> QED BY <2>3, <4>1, NoTurnsIsEven
    <3> QED BY <3>1, <3>2
  <2>9. PICK start \in 0..(n - 1), m \in Nat : EvenBut(before, n, start, i, m)
    BY <2>8
  <2>10. \E k \in Nat : EvenBut(turns', n, start, Following(n, i), k)
    BY <2>2, <2>3, <2>7, <2>9, EvenAdvances
  <2>11. Following(n, i) \in 0..(n - 1)
    BY <2>2, <2>3 DEF Following
  <2>12. EvenSoFar'
    BY <2>1, <2>3, <2>10, <2>11 DEF EvenSoFar
  <2>13. CounterIsSelections'
    BY <2>1, <2>2 DEF CounterIsSelections, Successor
  <2>14. RotationTypeOK'
    BY <2>1, <2>4, Zenon DEF RotationTypeOK
  <2>15. RotationTypes'
    BY <2>1, <2>6, <2>14
  <2> QED BY <2>1, <2>12, <2>13, <2>15, Zenon
<1> QED BY <1>1, <1>2, <1>3

LEMMA ResetKeepsRotation ==
  ASSUME RotationInv, RotationReset
  PROVE  RotationInv'
<1> USE RoundRobinAssumption DEF RotationInv, RotationTypes
<1>1. counter' = 0 /\ turns' = NoTurns /\ selections' = 0 /\ panicked' = FALSE /\ length' = length
  BY DEF RotationReset
<1>2. ASSUME length > 0 PROVE EvenSoFar'
  <2>1. length \in ListLengths /\ 0 \in 0..(length - 1) /\ 0 % length = 0
    BY <1>2
  <2>2. EvenBut(turns', length, 0, 0, 0)
    BY <1>1, <2>1, NoTurnsIsEven
  <2>3. NextAt(0, length, 0)
    BY <2>1 DEF NextAt
  <2> QED BY <1>1, <2>1, <2>2, <2>3 DEF EvenSoFar
<1>3. EvenSoFar'
  BY <1>1, <1>2 DEF EvenSoFar
<1>4. RotationTypes'
  <2>1. turns' \in [Positions -> Nat]
    BY <1>1 DEF NoTurns
  <2>2. 0 \in (-MaxInt - 1)..MaxInt
    OBVIOUS
  <2>3. RotationTypeOK'
    BY <1>1, <2>2, Zenon DEF RotationTypeOK
  <2> QED BY <1>1, <2>1, <2>3
<1>5. CounterIsSelections'
  BY <1>1 DEF CounterIsSelections
<1> QED BY <1>1, <1>3, <1>4, <1>5, Zenon

LEMMA RotationInvStep == RotationInv /\ [RotationNext]_rotationVars => RotationInv'
<1> SUFFICES ASSUME RotationInv, [RotationNext]_rotationVars PROVE RotationInv'
  OBVIOUS
<1>1. CASE UNCHANGED rotationVars
  BY <1>1 DEF rotationVars, RotationInv, RotationTypes, RotationTypeOK, EvenSoFar, EvenBut, NextAt,
              CounterIsSelections
<1> QED BY <1>1, SelectKeepsRotation, ResetKeepsRotation DEF RotationNext

LEMMA RotationInvIsEven == RotationInv => RotationIsEven
<1> SUFFICES ASSUME RotationInv, NEW i \in 0..(length - 1), NEW j \in 0..(length - 1)
             PROVE  turns[i] - turns[j] <= 1
  BY DEF RotationInv, RotationIsEven
<1>1. length \in Nat \ {0}
  BY RoundRobinAssumption DEF RotationInv, RotationTypes
<1>2. PICK start \in 0..(length - 1), end \in 0..(length - 1), m \in Nat :
        EvenBut(turns, length, start, end, m)
  BY <1>1 DEF RotationInv, EvenSoFar
<1> QED BY <1>2 DEF EvenBut

LEMMA RotationInvariant == RotationSpec => []RotationInv
BY RotationInvInit, RotationInvStep, PTL DEF RotationSpec

\* Between two Resets, and while the list keeps its length, no origin is two
\* selections ahead of another, also where the counter wraps; and only a counter
\* that has wrapped makes SelectOrigin panic (balancer.go:30-31): for every
\* width of the counter and all lists.
THEOREM RotationGivesTurns == RotationSpec => []RotationIsEven
BY RotationInvariant, RotationInvIsEven, PTL

-----------------------------------------------------------------------------
(* The health checker.                                                     *)

HealthTypes ==
  /\ HealthTypeOK
  /\ list \in [Loops -> Seq(Probed)]
  /\ todo \in [Loops -> Seq(Probed)]
  /\ result \in [Loops -> BOOLEAN]

LEMMA HealthTypesInit == HealthInit => HealthTypes
<1> SUFFICES ASSUME HealthInit PROVE HealthTypes
  OBVIOUS
<1>1. <<>> \in Seq(Probed)
  BY EmptySeq
<1>2. healthStatuses \in [Probed -> BOOLEAN] /\ result \in [Loops -> BOOLEAN]
  BY Zenon DEF HealthInit
<1> QED BY <1>1, <1>2 DEF HealthInit, HealthTypes, HealthTypeOK

\* A round leaves its goroutine at a check of an origin, or at the select.
LEMMA RoundTypes ==
  ASSUME HealthTypes, NEW l \in Loops, NEW origins \in Seq(Probed), Round(l, origins)
  PROVE  /\ todo' \in [Loops -> Seq(Probed)]
         /\ loop' \in [Loops -> {"none", "check", "write", "select", "ended"}]
         /\ \A k \in Loops : loop'[k] \in {"check", "write"} => todo'[k] # <<>>
BY DEF HealthTypes, HealthTypeOK, Round

LEMMA HealthTypesStep == HealthTypes /\ [HealthNext]_healthVars => HealthTypes'
<1> SUFFICES ASSUME HealthTypes, [HealthNext]_healthVars PROVE HealthTypes'
  OBVIOUS
<1> USE DEF HealthTypes
<1>1. CASE UNCHANGED healthVars
  BY <1>1 DEF healthVars, HealthTypeOK
<1>2. CASE StopChecks
  BY <1>2 DEF StopChecks, HealthTypeOK
<1>3. ASSUME NEW o \in Probed \ NoPath, OriginChanges(o) PROVE HealthTypes'
  BY <1>3 DEF OriginChanges, HealthTypeOK
<1>4. ASSUME NEW l \in Loops, NEW origins \in ProbeLists, StartChecks(l, origins) PROVE HealthTypes'
  <2>1. origins \in Seq(Probed)
    BY HealthAssumption
  <2>2. list' \in [Loops -> Seq(Probed)] /\ UNCHANGED <<healthStatuses, result>>
    BY <1>4, <2>1 DEF StartChecks
  <2> QED BY <1>4, <2>1, <2>2, RoundTypes DEF StartChecks, HealthTypeOK
<1>5. ASSUME NEW l \in Loops, CheckHealth(l) PROVE HealthTypes'
  <2>1. result' \in [Loops -> BOOLEAN]
    BY <1>5, Zenon DEF CheckHealth
  <2> QED BY <1>5, <2>1 DEF CheckHealth, HealthTypeOK
<1>6. ASSUME NEW l \in Loops, WriteStatus(l) PROVE HealthTypes'
  <2>1. Head(todo[l]) \in Probed /\ Tail(todo[l]) \in Seq(Probed)
    BY <1>6, HeadTailProperties DEF WriteStatus, HealthTypeOK
  <2>2. healthStatuses' \in [Probed -> BOOLEAN]
    BY <1>6, <2>1, Zenon DEF WriteStatus, HealthTypeOK
  <2>3. Round(l, Tail(todo[l])) /\ UNCHANGED <<list, result>>
    BY <1>6 DEF WriteStatus
  <2> QED BY <2>1, <2>2, <2>3, RoundTypes DEF HealthTypeOK
<1>7. ASSUME NEW l \in Loops, TickerTicks(l) PROVE HealthTypes'
  BY <1>7 DEF TickerTicks, HealthTypeOK
<1>8. ASSUME NEW l \in Loops, SelectTick(l) PROVE HealthTypes'
  <2>1. list[l] \in Seq(Probed)
    OBVIOUS
  <2> QED BY <1>8, <2>1, RoundTypes DEF SelectTick, HealthTypeOK
<1>9. ASSUME NEW l \in Loops, SelectStop(l) PROVE HealthTypes'
  BY <1>9 DEF SelectStop, HealthTypeOK
<1> QED BY <1>1, <1>2, <1>3, <1>4, <1>5, <1>6, <1>7, <1>8, <1>9 DEF HealthNext

\* A goroutine that checks an origin has one left to check, however many
\* loops there are and however they are started and stopped
\* (healthcheck.go:71-111).
THEOREM HealthTypeCorrect == HealthSpec => []HealthTypeOK
<1>1. HealthTypes => HealthTypeOK
  BY DEF HealthTypes
<1> QED BY <1>1, HealthTypesInit, HealthTypesStep, PTL DEF HealthSpec
=============================================================================
