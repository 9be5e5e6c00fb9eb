---------------------------- MODULE ExpiringMap ----------------------------
(***************************************************************************)
(* What a response cache promises: a map whose last value for a key is     *)
(* answered up to and including the moment it expires, and not later.      *)
(* Nothing is ever deleted.                                                *)
(***************************************************************************)
EXTENDS Clock

CONSTANTS CacheKeys, Bodies, TTLs,
          NoEntry

VARIABLES stored,      \* each key's last value and its expiry
          answer       \* the latest result of Get

mapVars == <<now, stored, answer>>

MapInit == now = 0 /\ stored = [k \in CacheKeys |-> NoEntry] /\ answer = NoEntry

Put(k, body, ttl) ==
  /\ stored' = [stored EXCEPT ![k] = [data |-> body, expiresAt |-> now + ttl]]
  /\ UNCHANGED <<now, answer>>

Current(k) == stored[k] # NoEntry /\ now <= stored[k].expiresAt

Look(k) ==
  /\ answer' = IF Current(k) THEN stored[k].data ELSE NoEntry
  /\ UNCHANGED <<now, stored>>

MapNext == \/ Tick /\ UNCHANGED <<stored, answer>>
           \/ \E k \in CacheKeys, body \in Bodies, ttl \in TTLs : Put(k, body, ttl)
           \/ \E k \in CacheKeys : Look(k)

MapSpec == MapInit /\ [][MapNext]_mapVars
=============================================================================
