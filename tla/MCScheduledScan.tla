--------------------------- MODULE MCScheduledScan ---------------------------
(***************************************************************************)
(* Instances of ScheduledScan for TLC.                                     *)
(***************************************************************************)
EXTENDS ScheduledScan, TLC

Config(force, enforce, brk, chat) ==
  [force |-> force, enforce |-> enforce, breaker |-> brk, chat |-> chat]

Guard   == Config(FALSE, TRUE, TRUE, TRUE)
Forced  == Config(TRUE, TRUE, TRUE, TRUE)
Lax     == Config(FALSE, FALSE, TRUE, FALSE)
NoBreak == Config(FALSE, TRUE, FALSE, FALSE)

AllConfigs   == {Guard, Forced, Lax, NoBreak}
ForceConfigs == {Guard, Forced}
GuardConfigs == {Guard}

MCAmount == [t \in Tickets |-> 2]

\* One ticket that reaches a daily limit of 2, and one that does not.
Cheap == CHOOSE t \in Tickets : TRUE
MixedAmount == [t \in Tickets |-> IF t = Cheap THEN 1 ELSE 2]

\* With MCAmount the tickets may be exchanged.
Symmetry == Permutations(Scanners) \cup Permutations(Tickets)
=============================================================================
