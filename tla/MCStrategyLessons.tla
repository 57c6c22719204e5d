-------------------------- MODULE MCStrategyLessons --------------------------
(***************************************************************************)
(* Instances of StrategyLessons (and, within it, PostTrade) and            *)
(* DigestLessons for TLC.  DigestLessons looks closer at the rows of one   *)
(* digest and shares no state with the others: a behaviour is one of       *)
(* StrategyLessons or one of DigestLessons.                                *)
(***************************************************************************)
EXTENDS StrategyLessons, DigestLessons

CONSTANTS t1, t2, a, b, c

MCPnls == {-1, 2}

MCInit == LessonsInit /\ DigestInit

FileNext == DigestInit /\ LessonsNext /\ UNCHANGED digestVars
DayNext  == LessonsInit /\ DigestNext /\ UNCHANGED <<analysis, export>>

MCSpec == MCInit /\ [][FileNext \/ DayNext]_<<analysis, export, digestVars>>

-----------------------------------------------------------------------------

\* All tickets are of one symbol, so that they meet in one group.
MCSymbol == [t \in Tickets |-> "498270"]

\* A ticket with a loss and then a gain that makes up for it, and one that never
\* has a fill.
MCFills == [t \in Tickets |-> IF t = t1 THEN <<-1, 1>> ELSE <<>>]
=============================================================================
