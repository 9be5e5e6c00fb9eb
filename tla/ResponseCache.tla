--------------------------- MODULE ResponseCache ---------------------------
(***************************************************************************)
(* src/internal/gateway/middleware/cache.go: entries with an expiry, and a *)
(* goroutine that deletes the expired ones at every tick of a time.Ticker. *)
(* Each method, and each round of the goroutine, holds the mutex and reads *)
(* the clock under it: one step.  Durations are in units of the model.    *)
(***************************************************************************)
EXTENDS Clock

CONSTANTS CacheKeys, Bodies, TTLs,
          CleanupInterval,    \* one minute
          CleanupLag,         \* how late the goroutine may take a tick
          NoEntry             \* nil

ASSUME CacheAssumption ==
  /\ TTLs \subseteq Nat /\ CleanupInterval \in Nat \ {0} /\ CleanupLag \in Nat
  /\ NoEntry \notin [data : Bodies, expiresAt : Int]

VARIABLES entries,
          answer,             \* the latest result of Get
          cleanupTick,        \* the time of the tick in the channel, -1 if there is none
          stored              \* history: what Set last stored under each key

cacheVars == <<entries, answer, cleanupTick, stored>>

Register == INSTANCE ExpiringMap

\* NewCache, which starts the goroutine
CacheInit ==
  /\ now = 0
  /\ entries = [k \in CacheKeys |-> NoEntry]
  /\ answer = NoEntry
  /\ cleanupTick = -1
  /\ stored = [k \in CacheKeys |-> NoEntry]

CacheTick ==
  /\ cleanupTick # -1 => now - cleanupTick < CleanupLag
  /\ Tick
  /\ cleanupTick' = TickerChannel(cleanupTick, CleanupInterval)
  /\ UNCHANGED <<entries, answer, stored>>

\* time.Now().After(expiresAt)
Expired(entry) == entry # NoEntry /\ now > entry.expiresAt

\* An expired entry is a miss, and stays.
Get(k) ==
  /\ answer' = IF entries[k] = NoEntry \/ Expired(entries[k]) THEN NoEntry ELSE entries[k].data
  /\ UNCHANGED <<now, entries, cleanupTick, stored>>

Set(k, body, ttl) ==
  LET entry == [data |-> body, expiresAt |-> now + ttl] IN
  /\ entries' = [entries EXCEPT ![k] = entry]
  /\ stored' = [stored EXCEPT ![k] = entry]
  /\ UNCHANGED <<now, answer, cleanupTick>>

\* Mutants: !Before instead of After; one entry a round.
CleanupClosed ==
  /\ cleanupTick # -1
  /\ cleanupTick' = -1
  /\ entries' = [k \in CacheKeys |->
                   IF entries[k] # NoEntry /\ now >= entries[k].expiresAt THEN NoEntry ELSE entries[k]]
  /\ UNCHANGED <<now, answer, stored>>
CleanupOne ==
  /\ cleanupTick # -1
  /\ cleanupTick' = -1
  /\ \/ \E k \in CacheKeys : Expired(entries[k]) /\ entries' = [entries EXCEPT ![k] = NoEntry]
     \/ (\A k \in CacheKeys : ~Expired(entries[k])) /\ UNCHANGED entries
  /\ UNCHANGED <<now, answer, stored>>

CacheCleanup ==
  /\ cleanupTick # -1
  /\ cleanupTick' = -1
  /\ entries' = [k \in CacheKeys |-> IF Expired(entries[k]) THEN NoEntry ELSE entries[k]]
  /\ UNCHANGED <<now, answer, stored>>

CacheNext ==
  \/ CacheTick \/ CacheCleanup
  \/ \E k \in CacheKeys : Get(k) \/ \E body \in Bodies, ttl \in TTLs : Set(k, body, ttl)

CacheSpec == CacheInit /\ [][CacheNext]_<<now, cacheVars>>

------------------------------------------------------------------------------
(* Properties *)

CacheTypeOK ==
  /\ entries \in [CacheKeys -> [data : Bodies, expiresAt : Int] \cup {NoEntry}]
  /\ answer \in Bodies \cup {NoEntry}
  /\ cleanupTick \in Times \cup {-1}

\* The goroutine is never noticed: every Get answers as if nothing were ever
\* deleted, with the last value set, up to and including its expiry and not
\* later, also when the entry is renewed or expires as the goroutine runs
\* (cache.go:35, 60).
CacheIsRegister == Register!MapSpec

\* An entry that nobody asks for is not kept: it is gone one interval after
\* its expiry, and the lag of the goroutine (cache.go:52-65).
ExpiredEntriesGo ==
  \A k \in CacheKeys : entries[k] # NoEntry => now - entries[k].expiresAt <= CleanupInterval + CleanupLag
=============================================================================
