--------------------------- MODULE ConsistentHash ---------------------------
(***************************************************************************)
(* src/internal/loadbalancer/consistenthash/balancer.go.  Every method     *)
(* holds the mutex: one step.  A hash is a position of a small ring; the   *)
(* positions of an origin's replicas are given by HashesOf, which two      *)
(* origins may share (CRC32 collides).                                     *)
(*                                                                         *)
(* The sorted slice keys is only searched and rebuilt; it is held as the   *)
(* number of times each hash occurs in it.                                 *)
(***************************************************************************)
EXTENDS Integers, FiniteSets, Sequences

CONSTANTS Nodes,              \* the ids of the origins
          Hashes,             \* the values of hash
          HashesOf,           \* the hashes of "<id>-0", "<id>-1", "<id>-2"
          MaxOccurrences,     \* bound on the repetitions of a hash in keys
          NodeLists,          \* the lists that callers choose from, none empty
          NoNode

ASSUME RingAssumption ==
  /\ Hashes \subseteq Nat
  /\ HashesOf \in [Nodes -> SUBSET Hashes]
  /\ MaxOccurrences \in Nat
  /\ NodeLists \subseteq Seq(Nodes) \ {<<>>}
  /\ NoNode \notin Nodes

VARIABLES ring,               \* hash -> origin id, NoNode where the map has no entry
          keys,
          nodes               \* the origins with an entry (defaultReplicas) in nodes

ringVars == <<ring, keys, nodes>>

\* NewConsistentHashBalancer
RingInit ==
  /\ ring = [h \in Hashes |-> NoNode]
  /\ keys = [h \in Hashes |-> 0]
  /\ nodes = {}

\* Adding an origin again appends its hashes again.
AddOrigin(o) ==
  /\ \A h \in HashesOf[o] : keys[h] < MaxOccurrences
  /\ nodes' = nodes \cup {o}
  /\ ring' = [h \in Hashes |-> IF h \in HashesOf[o] THEN o ELSE ring[h]]
  /\ keys' = [h \in Hashes |-> IF h \in HashesOf[o] THEN keys[h] + 1 ELSE keys[h]]

\* Mutant: the hashes are taken out of keys instead of rebuilding it.
RemoveOneOfEach(o) ==
  LET gone == IF o \in nodes THEN HashesOf[o] ELSE {} IN
  /\ nodes' = nodes \ {o}
  /\ ring' = [h \in Hashes |-> IF h \in gone THEN NoNode ELSE ring[h]]
  /\ keys' = [h \in Hashes |-> IF h \in gone THEN keys[h] - 1 ELSE keys[h]]

\* The hashes of an origin that was added are deleted, whoever owns them now;
\* keys is rebuilt from the ring.
RemoveOrigin(o) ==
  LET gone == IF o \in nodes THEN HashesOf[o] ELSE {} IN
  /\ nodes' = nodes \ {o}
  /\ ring' = [h \in Hashes |-> IF h \in gone THEN NoNode ELSE ring[h]]
  /\ keys' = [h \in Hashes |-> IF ring'[h] # NoNode THEN 1 ELSE 0]

RingNext == \E o \in Nodes : AddOrigin(o) \/ RemoveOrigin(o)

RingSpec == RingInit /\ [][RingNext]_ringVars

------------------------------------------------------------------------------
(* SelectOrigin, which changes nothing.                                       *)

Occurring == {h \in Hashes : keys[h] > 0}

\* The first of these at or after hash, the first of all behind the last.
FirstFrom(ks, hash) ==
  LET later == {h \in ks : h >= hash}
      candidates == IF later = {} THEN ks ELSE later IN
  {h \in candidates : \A g \in candidates : h <= g}

\* Mutant: keys is indexed by the hash modulo its length.
FoundByModulus(hash) ==
  {h \in Occurring : Cardinality({g \in Occurring : g < h}) = hash % Cardinality(Occurring)}

\* The key that the binary search finds.
Found(hash) == FirstFrom(Occurring, hash)

\* Whom a key with this hash belongs to; no one if keys is empty, and then, or
\* if the owner is not among them, SelectOrigin takes the first origin passed.
Owners(hash) == {ring[h] : h \in Found(hash)}

SelectOrigin(hash, origins) ==
  LET owned == {i \in DOMAIN origins : origins[i] \in Owners(hash)} IN
  IF owned = {} THEN origins[1] ELSE origins[CHOOSE i \in owned : \A j \in owned : i <= j]

------------------------------------------------------------------------------
(* Properties *)

RingTypeOK ==
  /\ ring \in [Hashes -> Nodes \cup {NoNode}]
  /\ keys \in [Hashes -> Nat]
  /\ nodes \subseteq Nodes

Claimants(h) == {o \in Nodes : h \in HashesOf[o]}

\* However origins are added, added again and removed, an origin has the hashes
\* that are its own while it is there, and none afterwards: but for collisions
\* the ring depends on the origins only, and gateways with the same origins
\* route alike.  Where two origins collide it depends on the order of the calls:
\* the hash belongs to one of them that is there, or is missing although one of
\* them is there, when the other was removed (balancer.go:38-41, 58-70).
RingFollowsNodes ==
  \A h \in Hashes :
     /\ keys[h] > 0 <=> ring[h] # NoNode
     /\ ring[h] # NoNode => ring[h] \in Claimants(h) \cap nodes
     /\ \A o \in nodes : Claimants(h) = {o} => ring[h] = o

\* Consistency: adding an origin moves only requests for keys at its own hashes,
\* and they go to it; removing one moves only requests for keys at its own
\* hashes; all others go where they went, also when the ring is empty or the
\* owner is not in the list that the caller passes.  If the added origin is not
\* in that list (it is not healthy), the keys that are now its own leave their
\* origin nevertheless, for the first of the list (balancer.go:82-104).
OnlyItsKeysMove ==
  [][\A o \in Nodes :
        /\ AddOrigin(o) =>
             \A hash \in Hashes, origins \in NodeLists :
                SelectOrigin(hash, origins)' # SelectOrigin(hash, origins)
                => /\ Found(hash)' \cap HashesOf[o] # {}
                   /\ SelectOrigin(hash, origins)' =
                        IF \E i \in DOMAIN origins : origins[i] = o THEN o ELSE origins[1]
        /\ RemoveOrigin(o) /\ ringVars' # ringVars =>
             \A hash \in Hashes, origins \in NodeLists : Found(hash) \cap HashesOf[o] = {}
                => SelectOrigin(hash, origins)' = SelectOrigin(hash, origins)]_ringVars
=============================================================================
