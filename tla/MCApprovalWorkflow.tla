------------------------- MODULE MCApprovalWorkflow -------------------------
(***************************************************************************)
(* Instances of ApprovalWorkflow for TLC.                                  *)
(***************************************************************************)
EXTENDS ApprovalWorkflow, TLC

Role(mode, live, client) == [mode |-> mode, live |-> live, client |-> client]

\* The entry points: the Telegram bridge in paper and in live_manual mode, the
\* command-line script with another mode, the final approval script with
\* ENABLE_LIVE_TRADING on, and the class used without a client.
PaperBridge  == Role("paper", FALSE, FALSE)
ManualBridge == Role("live_manual", FALSE, FALSE)
OtherCli     == Role("other", FALSE, FALSE)
FinalOn      == Role("live_manual", TRUE, TRUE)
NoClient     == Role("live_manual", TRUE, FALSE)

LiveRoles   == {PaperBridge, ManualBridge, FinalOn}
FinalRoles  == {ManualBridge, FinalOn}
SerialRoles == {OtherCli, FinalOn, NoClient}

Symmetry == Permutations(Messages) \cup Permutations(Processes)
=============================================================================
