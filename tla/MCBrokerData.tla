----------------------------- MODULE MCBrokerData -----------------------------
(***************************************************************************)
(* Instances of RiskReview and BrokerData for TLC.  Amounts are in units   *)
(* of 10,000 KRW, in which the order limit is 10; prices run past it.      *)
(***************************************************************************)
EXTENDS BrokerData

\* Every ticket of up to five shares; a quote may come to some of them.
MCCandidates == [symbol : {"498270", "005930"}, side : {"buy", "sell"},
                 quantity : 1 .. 5, limit_price : 0 .. 12]
MCAccounts   == [balance : {0, 3, 4, 10, 14, 20, 27, 34, 37, 60},
                 withdrew_more : BOOLEAN]

\* A fall, nothing, and more than the order limit.
MCPrices  == {-4, 0, 12}
MCSums == {-10, 0, 27, 60}

\* Of each kind, with an amount in the first column, in the second, or in none.
MCTransfers == [amount : {27}, exact : {NoNumber}, kind : {"in", "both", "other"}]
            \cup [amount : {Missing}, exact : {60}, kind : {"in", "out"}]
            \cup [amount : {Missing}, exact : {NoNumber}, kind : {"out"}]

\* Around a leap day, and at the turn of a year.
MCTodays == {[year |-> y, month |-> m, day |-> d] : <<y, m, d>> \in
               {<<2024, 2, 28>>, <<2024, 2, 29>>, <<2025, 2, 28>>, <<2026, 1, 1>>}}
=============================================================================
