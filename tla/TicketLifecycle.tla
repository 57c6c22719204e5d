-------------------------- MODULE TicketLifecycle ---------------------------
(***************************************************************************)
(* What the approval workflow promises about a trade ticket: every check   *)
(* of the status and the change it allows are one atomic step.  The chain  *)
(* of refusals at the head of handle_text and of _handle_final_approval    *)
(* (app/approval/workflow.py) reads as this state machine.                 *)
(***************************************************************************)
CONSTANTS
  Tickets,       \* ticket ids
  RiskApproved   \* the tickets the risk review approved

VARIABLES
  tickets,       \* the status of each ticket
  ordered        \* the tickets for which an order is at the broker

Undecided == {"draft", "risk_approved", "user_approved"}

Init ==
  /\ tickets = [t \in Tickets |-> "absent"]
  /\ ordered = {}

Move(t, from, to) ==
  /\ tickets[t] \in from
  /\ tickets' = [tickets EXCEPT ![t] = to]

\* A scan proposes a ticket.
Propose(t) ==
  /\ \E s \in {"draft", "risk_approved"} : Move(t, {"absent"}, s)
  /\ UNCHANGED ordered

\* The user rejects a ticket that is still undecided.
Reject(t) == Move(t, Undecided, "user_rejected") /\ UNCHANGED ordered

\* The user approves an undecided, risk-approved ticket; the mode decides what
\* that means.
Approve(t) ==
  /\ t \in RiskApproved
  /\ \E s \in {"paper_executed", "live_manual_ready", "user_approved"} :
       Move(t, Undecided, s)
  /\ UNCHANGED ordered

\* The order of a ready ticket goes to the broker.
PlaceOrder(t) ==
  /\ tickets[t] = "live_manual_ready"
  /\ ordered' = ordered \cup {t}
  /\ UNCHANGED tickets

\* A ready ticket whose order was taken is submitted.
Submit(t) ==
  /\ t \in ordered
  /\ Move(t, {"live_manual_ready"}, "live_order_submitted")
  /\ UNCHANGED ordered

Next == \E t \in Tickets :
          Propose(t) \/ Reject(t) \/ Approve(t) \/ PlaceOrder(t) \/ Submit(t)

Spec == Init /\ [][Next]_<<tickets, ordered>>
=============================================================================
