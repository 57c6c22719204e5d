----------------------------- MODULE MCTradingDay -----------------------------
(***************************************************************************)
(* Instances of TradingDay for TLC: amounts in units of 10,000 KRW.        *)
(***************************************************************************)
EXTENDS TradingDay, TLC

CONSTANTS other, f1, f2

\* The fill sync records a loss of the scanned symbol that reaches the limit; a
\* loss of another symbol is recorded by hand.
MCKeys == {Symbol, other} \X Days
MCKey  == (f1 :> <<Symbol, 0>>) @@ (f2 :> <<other, 0>>)
MCPnl  == (f1 :> -5) @@ (f2 :> -5)

MCConfigs == {[force |-> f, enforce |-> TRUE, breaker |-> b, chat |-> TRUE] :
                <<f, b>> \in {<<FALSE, TRUE>>, <<FALSE, FALSE>>, <<TRUE, TRUE>>}}
MCAmount  == [t \in Tickets |-> 1]
=============================================================================
