-------------------------- MODULE MCCircuitBreaker --------------------------
(***************************************************************************)
(* Instances of CircuitBreaker and EventTimes for TLC: amounts in units of *)
(* 10,000 KRW.  The two share no state: CircuitBreaker takes the day of a  *)
(* fill as given, EventTimes says how it is found.  A behaviour is one of  *)
(* CircuitBreaker or one of EventTimes.                                    *)
(***************************************************************************)
EXTENDS CircuitBreaker, EventTimes, TLC

CONSTANTS f1, f2, f3, f4, today, yesterday

MCInit == Init /\ TimesInit

BreakerNext == stored = {} /\ Next /\ UNCHANGED timeVars
FillNext    == Init /\ TimesNext /\ UNCHANGED vars

MCSpec     == MCInit /\ [][BreakerNext \/ FillNext]_<<vars, timeVars>>
MCFairSpec == MCSpec /\ Fairness

-----------------------------------------------------------------------------

MCRealized == {-5, 3}

\* Two losses that only together reach the limit exactly, a gain that undoes
\* the breach, and a loss of another day.
MCFills == {f1, f2, f3, f4}
MCKey   == (f1 :> today) @@ (f2 :> today) @@ (f3 :> today) @@ (f4 :> yesterday)
MCPnl   == (f1 :> -3) @@ (f2 :> -2) @@ (f3 :> 2) @@ (f4 :> -5)
=============================================================================
