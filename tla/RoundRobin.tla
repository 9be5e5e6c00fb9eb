----------------------------- MODULE RoundRobin -----------------------------
(***************************************************************************)
(* src/internal/loadbalancer/roundrobin/balancer.go.  The counter is an    *)
(* int, of -MaxInt-1..MaxInt; Go's % takes the sign of the dividend, and   *)
(* an index below zero panics before the counter is advanced.              *)
(***************************************************************************)
EXTENDS Integers

CONSTANTS MaxInt,             \* math.MaxInt
          ListLengths,        \* how many origins a caller may pass, none 0
          MaxSelections       \* bound on the selections between two Resets

ASSUME RoundRobinAssumption ==
  MaxInt \in Nat /\ ListLengths \subseteq Nat \ {0} /\ MaxSelections \in Nat

VARIABLES counter,
          panicked,           \* the latest SelectOrigin since Reset panicked
          length,             \* history: the length of the last list, 0 before the first
          turns,              \* history: how often each position was selected since
                              \* the length changed or Reset was called
          selections          \* history: selections since Reset

rotationVars == <<counter, panicked, length, turns, selections>>

\* Mutant: the counter is kept below a fixed modulus.
SuccessorModulo(i) == (i + 1) % (MaxInt + 1)

\* counter++ of a signed integer
Successor(i) == IF i = MaxInt THEN -MaxInt - 1 ELSE i + 1

\* Go's %
Remainder(a, n) == IF a >= 0 THEN a % n ELSE -((-a) % n)

Positions == UNION {0..(n - 1) : n \in ListLengths}

NoTurns == [i \in Positions |-> 0]

\* NewRoundRobinBalancer
RotationInit ==
  /\ counter = 0
  /\ panicked = FALSE
  /\ length = 0
  /\ turns = NoTurns
  /\ selections = 0

RotateSelectOrigin(n) ==
  LET i == Remainder(counter, n)
      before == IF n = length THEN turns ELSE NoTurns IN
  /\ selections < MaxSelections
  /\ panicked' = (i < 0)
  /\ IF i < 0
     THEN UNCHANGED <<counter, length, turns, selections>>
     ELSE /\ counter' = Successor(counter)
          /\ length' = n
          /\ turns' = [before EXCEPT ![i] = @ + 1]
          /\ selections' = selections + 1

RotationReset ==
  /\ counter' = 0
  /\ turns' = NoTurns
  /\ selections' = 0
  /\ panicked' = FALSE
  /\ UNCHANGED length

RotationNext == (\E n \in ListLengths : RotateSelectOrigin(n)) \/ RotationReset

RotationSpec == RotationInit /\ [][RotationNext]_rotationVars

------------------------------------------------------------------------------
(* Properties *)

RotationTypeOK == counter \in (-MaxInt - 1)..MaxInt /\ panicked \in BOOLEAN

\* Between two Resets, and while the list keeps its length, every origin has its
\* turn: no position is two selections ahead of another, also where the counter
\* wraps; and SelectOrigin panics only after the counter has wrapped.  Nothing
\* is promised across a Reset, which starts at the first position again: called
\* after every selection it leaves all of them there (balancer.go:30-31, 37-41).
RotationIsEven ==
  /\ \A i, j \in 0..(length - 1) : turns[i] - turns[j] <= 1
  /\ panicked => selections > MaxInt
=============================================================================
