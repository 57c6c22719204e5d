-------------------------- MODULE ApprovalWorkflow --------------------------
(***************************************************************************)
(* The two-step human approval of trade tickets (app/approval/workflow.py) *)
(* over the SQLite store (app/storage/repository.py) and the Kiwoom broker *)
(* (app/kiwoom/orders.py).                                                 *)
(*                                                                         *)
(* Each approval command is handled by an operating-system process of its  *)
(* own: the Telegram bridge, the webhook script and the two command-line   *)
(* scripts share nothing but the database file.  A handler makes one       *)
(* SELECT, decides on the row it read, and then performs its UPDATE, its   *)
(* broker call and its INSERT, each a separate transaction.  One step of   *)
(* this module is one such access, and a process may die between any two.  *)
(***************************************************************************)
EXTENDS Naturals, FiniteSets

CONSTANTS
  Tickets,       \* ticket ids the strategy may propose
  RiskApproved,  \* the tickets whose row has risk_approved = 1
  Orderable,     \* the tickets build_order_request accepts (quantity, price)
  Messages,      \* the user's commands; a repeated delivery is another message
  Processes,     \* the processes that handle commands
  Roles,         \* how a handler may be configured: mode, live, client
  MaxCrashes,    \* bound: how many handlers die before they have finished
  NoMessage      \* no command in hand

Modes == {"paper", "live_manual", "other"}

ASSUME ApprovalAssumption ==
  /\ RiskApproved \subseteq Tickets
  /\ Orderable \subseteq Tickets
  /\ Roles \subseteq [mode : Modes, live : BOOLEAN, client : BOOLEAN]
  /\ MaxCrashes \in Nat
  /\ NoMessage \notin Messages

VARIABLES
  tickets,       \* trade_tickets.status of each ticket, "absent" if no row
  order_events,  \* rows of the order_events table, by the message they log
  orders,        \* external: the messages for which the broker took an order
  sent,          \* the command each message carries, Unsent before delivery
  pc,            \* where each process is in its handler
  job,           \* the message each process is handling
  event,         \* the event status each process is about to record
  written,       \* history: the messages whose UPDATE has been committed
  lost           \* history: the messages whose handler died half way

vars == <<tickets, order_events, orders, sent, pc, job, event, written, lost>>

-----------------------------------------------------------------------------
(* The values of the rows. *)

Open   == {"draft", "risk_approved", "user_approved"}
Closed == {"paper_executed", "live_manual_ready", "live_order_submitted",
           "user_rejected"}
Status == Open \cup Closed

Blocked     == {"blocked_live_disabled", "blocked_missing_order_client"}
EventStatus == Blocked \cup {"broker_rejected", "submitted"}

Actions == {"approve", "reject", "final_approve"}
Command == [action : Actions, ticket : Tickets, role : Roles]
Unsent  == [action |-> "none"]

PC == {"idle", "read", "order", "write", "record"}

TypeOK ==
  /\ tickets \in [Tickets -> Status \cup {"absent"}]
  /\ order_events \subseteq [message : Messages, status : EventStatus]
  /\ orders \subseteq Messages
  /\ sent \in [Messages -> Command \cup {Unsent}]
  /\ pc \in [Processes -> PC]
  /\ job \in [Processes -> Messages \cup {NoMessage}]
  /\ event \in [Processes -> EventStatus \cup {"none"}]
  /\ written \subseteq Messages
  /\ lost \subseteq Messages

Init ==
  /\ tickets = [t \in Tickets |-> "absent"]
  /\ order_events = {}
  /\ orders = {}
  /\ sent = [m \in Messages |-> Unsent]
  /\ pc = [p \in Processes |-> "idle"]
  /\ job = [p \in Processes |-> NoMessage]
  /\ event = [p \in Processes |-> "none"]
  /\ written = {}
  /\ lost = {}

-----------------------------------------------------------------------------
(* The decisions of handle_text, on a command and the status it read. *)

\* Mutant: a final approval is refused only once the ticket is submitted.
RefusedIfSubmitted(c, status) ==
  \/ status = "absent"
  \/ /\ c.action = "final_approve"
     /\ c.role.mode # "live_manual" \/ status = "live_order_submitted"
  \/ c.action # "final_approve" /\ status \in Closed
  \/ c.action = "approve" /\ c.ticket \notin RiskApproved

\* Mutant: a rejected ticket may still be approved.
RefusedUnlessRejected(c, status) ==
  \/ status = "absent"
  \/ /\ c.action = "final_approve"
     /\ c.role.mode # "live_manual" \/ status # "live_manual_ready"
  \/ c.action # "final_approve" /\ status \in Closed \ {"user_rejected"}
  \/ c.action = "approve" /\ c.ticket \notin RiskApproved

\* The reply is a refusal and nothing is stored, not even an order event.
Refused(c, status) ==
  \/ status = "absent"
  \/ /\ c.action = "final_approve"
     /\ c.role.mode # "live_manual" \/ status # "live_manual_ready"
  \/ c.action # "final_approve" /\ status \in Closed
  \/ c.action = "approve" /\ c.ticket \notin RiskApproved

\* build_order_request raises PermissionError or ValueError.
Invalid(c) ==
  c.role.client /\ c.ticket \notin RiskApproved \cap Orderable

\* Mutant: an approval stores the status that only status.py knows.
NewStatusPending(c) ==
  CASE c.action = "reject"        -> "user_rejected"
    [] c.action = "final_approve" -> "live_order_submitted"
    [] OTHER                      -> "pending_user_approval"

\* The status the handler's UPDATE stores.
NewStatus(c) ==
  CASE c.action = "reject"        -> "user_rejected"
    [] c.action = "final_approve" -> "live_order_submitted"
    [] OTHER -> CASE c.role.mode = "paper"       -> "paper_executed"
                  [] c.role.mode = "live_manual" -> "live_manual_ready"
                  [] OTHER                       -> "user_approved"

-----------------------------------------------------------------------------
(* The steps of one handler. *)

Command_(p) == sent[job[p]]
Row(p)      == tickets[Command_(p).ticket]

At(p, label) == pc[p] = label
Goto(p, label) ==
  /\ pc' = [pc EXCEPT ![p] = label]
  /\ UNCHANGED job

\* handle_text has returned or raised: the process waits for a new command.
Return(p) ==
  /\ pc' = [pc EXCEPT ![p] = "idle"]
  /\ job' = [job EXCEPT ![p] = NoMessage]
  /\ event' = [event EXCEPT ![p] = "none"]

\* A scan stores the ticket it proposes (record_trade_ticket).
RecordTicket(t) ==
  /\ tickets[t] = "absent"
  /\ tickets' = [tickets EXCEPT ![t] =
                   IF t \in RiskApproved THEN "risk_approved" ELSE "draft"]
  /\ UNCHANGED <<order_events, orders, sent, pc, job, event, written, lost>>

\* handle_text is called with the parsed command m.
Deliver(p, m) ==
  /\ At(p, "idle")
  /\ sent[m] = Unsent
  /\ \E c \in Command : sent' = [sent EXCEPT ![m] = c]
  /\ pc' = [pc EXCEPT ![p] = "read"]
  /\ job' = [job EXCEPT ![p] = m]
  /\ UNCHANGED <<tickets, order_events, orders, event, written, lost>>

\* The row read forbids the command.
Refuse(p) ==
  /\ At(p, "read")
  /\ Refused(Command_(p), Row(p))
  /\ Return(p)
  /\ UNCHANGED <<tickets, order_events, orders, sent, written, lost>>

\* A first approval or a rejection of an open ticket goes on to its UPDATE.
Decide(p) ==
  /\ At(p, "read")
  /\ ~ Refused(Command_(p), Row(p))
  /\ Command_(p).action # "final_approve"
  /\ Goto(p, "write")
  /\ UNCHANGED <<tickets, order_events, orders, sent, event, written, lost>>

\* A final approval whose order request cannot be built ends in an exception.
RaiseInvalid(p) ==
  /\ At(p, "read")
  /\ ~ Refused(Command_(p), Row(p))
  /\ Command_(p).action = "final_approve"
  /\ Invalid(Command_(p))
  /\ Return(p)
  /\ UNCHANGED <<tickets, order_events, orders, sent, written, lost>>

\* A final approval without the live flag, or without a client, is blocked.
BlockFinal(p) ==
  /\ At(p, "read")
  /\ ~ Refused(Command_(p), Row(p))
  /\ Command_(p).action = "final_approve"
  /\ ~ Invalid(Command_(p))
  /\ LET role == Command_(p).role IN
     \/ /\ ~ role.live
        /\ event' = [event EXCEPT ![p] = "blocked_live_disabled"]
     \/ /\ role.live /\ ~ role.client
        /\ event' = [event EXCEPT ![p] = "blocked_missing_order_client"]
  /\ Goto(p, "record")
  /\ UNCHANGED <<tickets, order_events, orders, sent, written, lost>>

\* A final approval that passes every check calls place_order.
StartOrder(p) ==
  /\ At(p, "read")
  /\ ~ Refused(Command_(p), Row(p))
  /\ Command_(p).action = "final_approve"
  /\ ~ Invalid(Command_(p))
  /\ Command_(p).role.live /\ Command_(p).role.client
  /\ Goto(p, "order")
  /\ UNCHANGED <<tickets, order_events, orders, sent, event, written, lost>>

\* Mutant: the sense of result.accepted is inverted.
BrokerAcceptsInverted(p) ==
  /\ At(p, "order")
  /\ orders' = orders \cup {job[p]}
  /\ event' = [event EXCEPT ![p] = "broker_rejected"]
  /\ Goto(p, "record")
  /\ UNCHANGED <<tickets, order_events, sent, written, lost>>

\* return_code 0: the order is at the broker; the status is stored next.
BrokerAccepts(p) ==
  /\ At(p, "order")
  /\ orders' = orders \cup {job[p]}
  /\ event' = [event EXCEPT ![p] = "submitted"]
  /\ Goto(p, "write")
  /\ UNCHANGED <<tickets, order_events, sent, written, lost>>

\* Mutant: the handler goes on after a refusal.
BrokerRejectsGoesOn(p) ==
  /\ At(p, "order")
  /\ event' = [event EXCEPT ![p] = "broker_rejected"]
  /\ Goto(p, "write")
  /\ UNCHANGED <<tickets, order_events, orders, sent, written, lost>>

\* Any other return_code: the refusal is logged, the status left alone.
BrokerRejects(p) ==
  /\ At(p, "order")
  /\ event' = [event EXCEPT ![p] = "broker_rejected"]
  /\ Goto(p, "record")
  /\ UNCHANGED <<tickets, order_events, orders, sent, written, lost>>

\* Mutant: a final approval does not store the status.
WriteStatusOfFirstOnly(p) ==
  /\ At(p, "write")
  /\ IF Command_(p).action = "final_approve"
       THEN Goto(p, "record") /\ UNCHANGED <<tickets, written, event>>
       ELSE /\ tickets' = [tickets EXCEPT
                             ![Command_(p).ticket] = NewStatus(Command_(p))]
            /\ written' = written \cup {job[p]}
            /\ Return(p)
  /\ UNCHANGED <<order_events, orders, sent, lost>>

\* Mutant: a final approval ends with its UPDATE.
WriteStatusAndReturn(p) ==
  /\ At(p, "write")
  /\ tickets' = [tickets EXCEPT ![Command_(p).ticket] = NewStatus(Command_(p))]
  /\ written' = written \cup {job[p]}
  /\ Return(p)
  /\ UNCHANGED <<order_events, orders, sent, lost>>

\* update_trade_ticket_approval: by id, whatever the status now is.
WriteStatus(p) ==
  /\ At(p, "write")
  /\ tickets' = [tickets EXCEPT ![Command_(p).ticket] = NewStatus(Command_(p))]
  /\ written' = written \cup {job[p]}
  /\ IF Command_(p).action = "final_approve"
       THEN Goto(p, "record") /\ UNCHANGED event
       ELSE Return(p)
  /\ UNCHANGED <<order_events, orders, sent, lost>>

\* record_order_event, the last thing a final approval does.
RecordEvent(p) ==
  /\ At(p, "record")
  /\ order_events' = order_events
                       \cup {[message |-> job[p], status |-> event[p]]}
  /\ Return(p)
  /\ UNCHANGED <<tickets, orders, sent, written, lost>>

\* The process dies: it is killed, the database is locked, or the broker call
\* times out -- in which case the order may have been taken all the same.
Crash(p) ==
  /\ ~ At(p, "idle")
  /\ Cardinality(lost) < MaxCrashes
  /\ lost' = lost \cup {job[p]}
  /\ \/ UNCHANGED orders
     \/ At(p, "order") /\ orders' = orders \cup {job[p]}
  /\ Return(p)
  /\ UNCHANGED <<tickets, order_events, sent, written>>

HandlerStep(p) ==
  \/ Refuse(p) \/ Decide(p) \/ RaiseInvalid(p) \/ BlockFinal(p)
  \/ StartOrder(p) \/ BrokerAccepts(p) \/ BrokerRejects(p)
  \/ WriteStatus(p) \/ RecordEvent(p)

Next ==
  \/ \E t \in Tickets : RecordTicket(t)
  \/ \E p \in Processes, m \in Messages : Deliver(p, m)
  \/ \E p \in Processes : HandlerStep(p) \/ Crash(p)

\* A running handler takes its next step; nothing makes users send commands.
Fairness == \A p \in Processes : WF_vars(HandlerStep(p))

Spec == Init /\ [][Next]_vars
FairSpec == Spec /\ Fairness

-----------------------------------------------------------------------------
(* What every run may rely on, however many handlers run at once. *)

TicketOf(m) == sent[m].ticket

\* A ticket is shown as submitted only if the broker took an order for it: no
\* rejection, block, stale write or crash stores the status by mistake.
SubmittedWasOrdered ==
  \A t \in Tickets : tickets[t] = "live_order_submitted" =>
    \E m \in orders : TicketOf(m) = t

\* An order reaches the broker only for a risk-approved ticket that a first
\* approval in live_manual mode made ready, through a second message, and from
\* a live_manual process with live trading enabled.
TwoStepApproval ==
  \A m \in orders :
    /\ sent[m].action = "final_approve"
    /\ sent[m].role.live /\ sent[m].role.mode = "live_manual"
    /\ TicketOf(m) \in RiskApproved
    /\ \E a \in written : /\ sent[a].action = "approve"
                          /\ sent[a].role.mode = "live_manual"
                          /\ TicketOf(a) = TicketOf(m)

Logged(m, status) == [message |-> m, status |-> status] \in order_events
InFlight(m) == \E p \in Processes : job[p] = m

\* The order_events table and the broker agree, message by message: every order
\* is logged as submitted unless its handler is still running or has died, and
\* nothing else is ever logged for it; only an order is logged as submitted.
AuditTrail ==
  /\ \A m \in orders : Logged(m, "submitted") \/ InFlight(m) \/ m \in lost
  /\ \A e \in order_events : e.status = "submitted" <=> e.message \in orders

\* Every order is eventually logged, unless its handler dies.
AuditedEventually ==
  \A m \in Messages :
    m \in orders ~> Logged(m, "submitted") \/ m \in lost

-----------------------------------------------------------------------------
(* What holds while one command is handled at a time. *)

\* Two orders for one ticket are placed only if the handler of one of them died
\* before it could store the status.
OneOrderUnlessLost ==
  \A m, n \in orders :
    m # n /\ TicketOf(m) = TicketOf(n) => m \in lost \/ n \in lost

\* The handlers, taken one at a time, step each ticket through its life cycle.
Lifecycle == INSTANCE TicketLifecycle
               WITH ordered <- {TicketOf(m) : m \in orders}
ImplementsLifecycle == Lifecycle!Spec

-----------------------------------------------------------------------------
(* What the documents promise and overlapping or dying handlers break. *)

\* Duplicate orders are detected and blocked (docs/safety-design.md).
NoDuplicateOrder ==
  \A m, n \in orders : TicketOf(m) = TicketOf(n) => m = n

\* A ticket that was rejected is not approved or rejected again
\* (docs/telegram-thread-502-full-log.md).
RejectionStands ==
  \A m \in written : sent[m].action = "reject" => tickets[TicketOf(m)] = "user_rejected"

\* The results of final approvals are all stored in order_events (README.md).
EveryOrderLogged ==
  \A m \in orders : Logged(m, "submitted") \/ InFlight(m)
=============================================================================
