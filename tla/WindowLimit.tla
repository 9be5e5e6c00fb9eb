---------------------------- MODULE WindowLimit ----------------------------
(***************************************************************************)
(* What a sliding window limiter promises, said of the log of everything   *)
(* it ever admitted: n more requests are let through exactly when they and *)
(* the admissions of the last WindowSize are at most MaxRequests.          *)
(***************************************************************************)
EXTENDS Clock, FiniteSets, Sequences

CONSTANTS MaxRequests, WindowSize,
          Batches        \* the numbers of requests asked for at once

VARIABLES admitted,      \* the time of each admission since the last reset
          allowed,       \* the latest answer to a request
         remaining      \* the latest answer to the question how many may follow

logVars == <<now, admitted, allowed, remaining>>

LogInit == now = 0 /\ admitted = <<>> /\ allowed = TRUE /\ remaining = MaxRequests

InWindow == {i \in DOMAIN admitted : admitted[i] > now - WindowSize}

\* n further admissions at this moment; none if n is negative.
Admit(n) == admitted' = admitted \o [i \in 1..n |-> now]

Ask(n) ==
  /\ allowed' = (Cardinality(InWindow) + n <= MaxRequests)
  /\ IF allowed' THEN Admit(n) ELSE UNCHANGED admitted
  /\ UNCHANGED <<now, remaining>>

AskRemaining ==
  /\ remaining' = MaxRequests - Cardinality(InWindow)
  /\ UNCHANGED <<now, admitted, allowed>>

Forget == admitted' = <<>> /\ UNCHANGED <<now, allowed, remaining>>

LogNext == \/ Tick /\ UNCHANGED <<admitted, allowed, remaining>>
           \/ \E n \in Batches \cup {1} : Ask(n)
           \/ AskRemaining
           \/ Forget

LogSpec == LogInit /\ [][LogNext]_logVars

------------------------------------------------------------------------------
\* No interval shorter than WindowSize, wherever it lies, has more than
\* MaxRequests admissions: an admission is at least WindowSize later than the
\* one MaxRequests before it.
WindowBound ==
  \A i, j \in DOMAIN admitted : j = i + MaxRequests => admitted[j] - admitted[i] >= WindowSize
=============================================================================
