----------------------------- MODULE FillLedger -----------------------------
(***************************************************************************)
(* What the fill sync promises of the database: the evidence of a fill is  *)
(* stored before its realized P&L event, and each event is recorded once,  *)
(* however often the same rows are synchronised.                           *)
(***************************************************************************)
EXTENDS Naturals

CONSTANT Keys    \* the dedupe keys of broker rows

VARIABLES
  snapshots,     \* the keys that have a row in broker_fill_sync_snapshots
  events         \* how many realized_pnl_events rows each key has

Init ==
  /\ snapshots = {}
  /\ events = [k \in Keys |-> 0]

Capture(k) ==
  /\ snapshots' = snapshots \cup {k}
  /\ UNCHANGED events

Record(k) ==
  /\ k \in snapshots
  /\ events[k] = 0
  /\ events' = [events EXCEPT ![k] = 1]
  /\ UNCHANGED snapshots

Next == \E k \in Keys : Capture(k) \/ Record(k)

Spec == Init /\ [][Next]_<<snapshots, events>>
=============================================================================
