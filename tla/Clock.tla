------------------------------- MODULE Clock -------------------------------
(* time.Now: a monotonic clock, read by the libraries while they hold their *)
(* mutex, so their readings never go back; and time.Ticker.                 *)
EXTENDS Integers

CONSTANT MaxTime      \* bound: the clock stops here

ASSUME ClockAssumption == MaxTime \in Nat

VARIABLE now

Times == 0..MaxTime

Tick == now < MaxTime /\ now' = now + 1

\* The channel of a time.Ticker after a step of the clock: the time of the tick
\* in it, or -1.  It holds one tick; a tick that finds it full is dropped.
TickerChannel(ticked, period) ==
  IF ticked = -1 /\ now' % period = 0 THEN now' ELSE ticked
=============================================================================
