----------------------- MODULE ApprovalWorkflowProofs -----------------------
(***************************************************************************)
(* What the approval workflow keeps true however many handlers run, crash  *)
(* and overlap, for every set of tickets, messages, processes and roles.   *)
(***************************************************************************)
EXTENDS ApprovalWorkflow, TLAPS

\* Somebody approved t in live_manual mode and the row was updated.
MadeReady(t) ==
  \E a \in written : /\ sent[a].action = "approve"
                     /\ sent[a].role.mode = "live_manual"
                     /\ TicketOf(a) = t

\* What is known of a final approval once its row has been read.
Cleared(m) ==
  /\ sent[m].action = "final_approve"
  /\ sent[m].role.live /\ sent[m].role.mode = "live_manual"
  /\ TicketOf(m) \in RiskApproved
  /\ MadeReady(TicketOf(m))

\* A process is idle exactly when it has no message; its message was sent, has
\* no event yet, and is in nobody else's hands.
JobInv ==
  \A p \in Processes :
    /\ pc[p] = "idle" <=> job[p] = NoMessage
    /\ job[p] # NoMessage =>
         /\ sent[job[p]] # Unsent
         /\ \A e \in order_events : e.message # job[p]
         /\ \A q \in Processes : job[q] = job[p] => q = p

\* What each program point knows of the message in hand.
StepInv ==
  \A p \in Processes :
    /\ pc[p] = "read" => job[p] \notin orders
    /\ pc[p] = "order" => Cleared(job[p]) /\ job[p] \notin orders
    /\ pc[p] = "write" =>
         /\ sent[job[p]].action = "final_approve" =>
              job[p] \in orders /\ event[p] = "submitted"
         /\ sent[job[p]].action # "final_approve" => job[p] \notin orders
    /\ pc[p] = "record" => /\ event[p] \in EventStatus
                           /\ event[p] = "submitted" <=> job[p] \in orders

\* Only messages that were sent leave traces.
SentInv ==
  \A m \in Messages : sent[m] = Unsent =>
    /\ m \notin orders /\ m \notin written
    /\ \A e \in order_events : e.message # m

\* A ready ticket was made ready by a first approval.
ReadyInv ==
  \A t \in Tickets : tickets[t] = "live_manual_ready" => MadeReady(t)

\* An order was cleared.
OrderInv == \A m \in orders : Cleared(m)

IInv ==
  /\ TypeOK /\ JobInv /\ StepInv /\ SentInv /\ ReadyInv /\ OrderInv
  /\ SubmittedWasOrdered /\ AuditTrail

-----------------------------------------------------------------------------
(* The values of the model, and the facts of the type invariant in the form *)
(* the steps below use them.                                                *)

LEMMA UnsentIsNoCommand == Unsent \notin Command
  BY DEF Unsent, Command, Actions

\* A busy process has a message in hand, and the message carries a command.
LEMMA BusyHasCommand ==
  ASSUME TypeOK, JobInv, NEW p \in Processes, pc[p] # "idle"
  PROVE  /\ job[p] \in Messages
         /\ sent[job[p]] \in Command
         /\ \A q \in Processes : job[q] = job[p] => q = p
         /\ \A e \in order_events : e.message # job[p]
  BY DEF TypeOK, JobInv

LEMMA NewStatusType == \A c \in Command : NewStatus(c) \in Closed \cup Open
  BY DEF NewStatus, Command, Actions, Closed, Open

-----------------------------------------------------------------------------
(* Type correctness. *)

LEMMA InitType == Init => TypeOK
  BY DEF Init, TypeOK, PC

LEMMA TypeStep ==
  ASSUME TypeOK, JobInv, StepInv, [Next]_vars
  PROVE  TypeOK'
<1> USE DEF TypeOK, Return, Goto, At, PC, EventStatus, Blocked
<1>1. ASSUME NEW t \in Tickets, RecordTicket(t)
      PROVE  TypeOK'
  BY <1>1 DEF RecordTicket, Status, Open
<1>2. ASSUME NEW p \in Processes, NEW m \in Messages, Deliver(p, m)
      PROVE  TypeOK'
  BY <1>2 DEF Deliver
<1>3. ASSUME NEW p \in Processes, HandlerStep(p)
      PROVE  TypeOK'
  <2>1. CASE Refuse(p)
    BY <2>1 DEF Refuse
  <2>2. CASE Decide(p)
    BY <2>2 DEF Decide
  <2>3. CASE RaiseInvalid(p)
    BY <2>3 DEF RaiseInvalid
  <2>4. CASE BlockFinal(p)
    BY <2>4 DEF BlockFinal
  <2>5. CASE StartOrder(p)
    BY <2>5 DEF StartOrder
  <2>6. CASE BrokerAccepts(p)
    BY <2>6, BusyHasCommand DEF BrokerAccepts
  <2>7. CASE BrokerRejects(p)
    BY <2>7 DEF BrokerRejects
  <2>8. CASE WriteStatus(p)
    <3>1. job[p] \in Messages /\ Command_(p) \in Command
      BY <2>8, BusyHasCommand DEF WriteStatus, Command_
    <3>2. NewStatus(Command_(p)) \in Status
      BY <3>1, NewStatusType DEF Status
    <3>3. tickets' \in [Tickets -> Status \cup {"absent"}]
      BY <2>8, <3>2 DEF WriteStatus
    <3> QED
      BY <2>8, <3>1, <3>3 DEF WriteStatus
  <2>9. CASE RecordEvent(p)
    <3>1. job[p] \in Messages /\ event[p] \in EventStatus
      BY <2>9, BusyHasCommand DEF RecordEvent, StepInv
    <3> QED
      BY <2>9, <3>1 DEF RecordEvent
  <2> QED
    BY <1>3, <2>1, <2>2, <2>3, <2>4, <2>5, <2>6, <2>7, <2>8, <2>9
    DEF HandlerStep
<1>4. ASSUME NEW p \in Processes, Crash(p)
      PROVE  TypeOK'
  BY <1>4, BusyHasCommand DEF Crash
<1>5. CASE UNCHANGED vars
  BY <1>5 DEF vars
<1> QED
  BY <1>1, <1>2, <1>3, <1>4, <1>5 DEF Next

-----------------------------------------------------------------------------
(* The inductive invariant, one lemma per kind of step. *)

Rest == /\ JobInv /\ StepInv /\ SentInv /\ ReadyInv /\ OrderInv
        /\ SubmittedWasOrdered /\ AuditTrail

\* A step that touches neither the database nor the broker.
Quiet == UNCHANGED <<tickets, order_events, orders, sent, written, lost>>

LEMMA QuietKeeps ==
  ASSUME IInv, Quiet
  PROVE  SentInv' /\ ReadyInv' /\ OrderInv' /\ SubmittedWasOrdered'
  BY DEF IInv, Quiet, SentInv, ReadyInv, OrderInv, SubmittedWasOrdered,
         MadeReady, Cleared, TicketOf

\* The handler gives up on a row it has only read.
LEMMA ReturnStep ==
  ASSUME IInv, NEW p \in Processes, At(p, "read"), Return(p), Quiet
  PROVE  Rest'
<1>1. SentInv' /\ ReadyInv' /\ OrderInv' /\ SubmittedWasOrdered'
  BY QuietKeeps
<1>2. JobInv'
  BY DEF IInv, TypeOK, JobInv, Return, Quiet
<1>3. StepInv'
  BY DEF IInv, TypeOK, StepInv, Return, Quiet, Cleared, MadeReady, TicketOf
<1>4. job[p] \notin orders
  BY DEF IInv, StepInv, At
<1>5. AuditTrail'
  BY <1>4 DEF IInv, TypeOK, AuditTrail, Return, Quiet, InFlight, Logged
<1> QED
  BY <1>1, <1>2, <1>3, <1>5 DEF Rest

LEMMA DecideStep ==
  ASSUME IInv, NEW p \in Processes, Decide(p)
  PROVE  Rest'
<1> USE DEF Decide, Goto, At
<1>1. Quiet
  BY DEF Quiet
<1>2. SentInv' /\ ReadyInv' /\ OrderInv' /\ SubmittedWasOrdered'
  BY <1>1, QuietKeeps
<1>3. JobInv'
  BY DEF IInv, TypeOK, JobInv
<1>4. StepInv'
  BY DEF IInv, TypeOK, StepInv, Cleared, MadeReady, TicketOf, Command_
<1>5. AuditTrail'
  BY DEF IInv, AuditTrail, InFlight, Logged
<1> QED
  BY <1>2, <1>3, <1>4, <1>5 DEF Rest

LEMMA BlockFinalStep ==
  ASSUME IInv, NEW p \in Processes, BlockFinal(p)
  PROVE  Rest'
<1> USE DEF BlockFinal, Goto, At
<1>1. Quiet
  BY DEF Quiet
<1>2. SentInv' /\ ReadyInv' /\ OrderInv' /\ SubmittedWasOrdered'
  BY <1>1, QuietKeeps
<1>3. JobInv'
  BY DEF IInv, TypeOK, JobInv
<1>4. StepInv'
  BY DEF IInv, TypeOK, StepInv, Cleared, MadeReady, TicketOf, EventStatus,
         Blocked
<1>5. AuditTrail'
  BY DEF IInv, AuditTrail, InFlight, Logged
<1> QED
  BY <1>2, <1>3, <1>4, <1>5 DEF Rest

\* The row read says ready, so the ticket was made ready, and the role and the
\* order request have been checked: the message is cleared.
LEMMA StartOrderStep ==
  ASSUME IInv, NEW p \in Processes, StartOrder(p)
  PROVE  Rest'
<1> USE DEF StartOrder, Goto, At
<1>1. Quiet
  BY DEF Quiet
<1>2. SentInv' /\ ReadyInv' /\ OrderInv' /\ SubmittedWasOrdered'
  BY <1>1, QuietKeeps
<1>3. JobInv'
  BY DEF IInv, TypeOK, JobInv
<1>4. job[p] \in Messages /\ sent[job[p]] \in Command
  BY BusyHasCommand DEF IInv
<1>5. tickets[TicketOf(job[p])] = "live_manual_ready"
  BY DEF Refused, Command_, Row, TicketOf
<1>6. MadeReady(TicketOf(job[p]))
  BY <1>4, <1>5 DEF IInv, ReadyInv, TicketOf, Command
<1>7. Cleared(job[p])
  BY <1>6 DEF Cleared, Refused, Invalid, Command_, TicketOf
<1>8. StepInv'
  BY <1>7 DEF IInv, TypeOK, StepInv, Cleared, MadeReady, TicketOf
<1>9. AuditTrail'
  BY DEF IInv, AuditTrail, InFlight, Logged
<1> QED
  BY <1>2, <1>3, <1>8, <1>9 DEF Rest

LEMMA BrokerRejectsStep ==
  ASSUME IInv, NEW p \in Processes, BrokerRejects(p)
  PROVE  Rest'
<1> USE DEF BrokerRejects, Goto, At
<1>1. Quiet
  BY DEF Quiet
<1>2. SentInv' /\ ReadyInv' /\ OrderInv' /\ SubmittedWasOrdered'
  BY <1>1, QuietKeeps
<1>3. JobInv'
  BY DEF IInv, TypeOK, JobInv
<1>4. StepInv'
  BY DEF IInv, TypeOK, StepInv, Cleared, MadeReady, TicketOf, EventStatus
<1>5. AuditTrail'
  BY DEF IInv, AuditTrail, InFlight, Logged
<1> QED
  BY <1>2, <1>3, <1>4, <1>5 DEF Rest

LEMMA BrokerAcceptsStep ==
  ASSUME IInv, NEW p \in Processes, BrokerAccepts(p)
  PROVE  Rest'
<1> USE DEF BrokerAccepts, Goto, At
<1>1. /\ job[p] \in Messages
      /\ sent[job[p]] \in Command
      /\ \A q \in Processes : job[q] = job[p] => q = p
      /\ \A e \in order_events : e.message # job[p]
  BY BusyHasCommand DEF IInv
<1>2. Cleared(job[p])
  BY DEF IInv, StepInv
<1>3. JobInv'
  BY DEF IInv, TypeOK, JobInv
<1>4. StepInv'
  <2>1. ASSUME NEW q \in Processes, q # p, pc[q] # "idle"
        PROVE  job[q] \in orders' <=> job[q] \in orders
    BY <1>1, <2>1
  <2> QED
    BY <1>1, <2>1 DEF IInv, TypeOK, StepInv, Cleared, MadeReady, TicketOf
<1>5. SentInv'
  BY <1>1, UnsentIsNoCommand DEF IInv, SentInv
<1>6. ReadyInv' /\ SubmittedWasOrdered'
  BY DEF IInv, ReadyInv, SubmittedWasOrdered, MadeReady, TicketOf
<1>7. OrderInv'
  BY <1>2 DEF IInv, OrderInv, Cleared, MadeReady, TicketOf
<1>8. AuditTrail'
  BY <1>1 DEF IInv, AuditTrail, InFlight, Logged
<1> QED
  BY <1>3, <1>4, <1>5, <1>6, <1>7, <1>8 DEF Rest

\* The row is ready only through a live_manual approval and submitted only
\* through a final approval whose order the broker took.
LEMMA WriteStatusStep ==
  ASSUME IInv, NEW p \in Processes, WriteStatus(p)
  PROVE  Rest'
<1> USE DEF WriteStatus, Goto, Return, At, Command_
<1>1. PICK m \in Messages :
        /\ m = job[p] /\ sent[m] \in Command
        /\ \A q \in Processes : job[q] = m => q = p
        /\ \A e \in order_events : e.message # m
  BY BusyHasCommand DEF IInv
<1>2. PICK t \in Tickets :
        /\ t = TicketOf(m) /\ sent[m].action \in Actions
        /\ sent[m].role.mode \in Modes
  BY <1>1, ApprovalAssumption DEF Command, TicketOf
<1>3. tickets' = [tickets EXCEPT ![t] = NewStatus(sent[m])]
  BY <1>1, <1>2 DEF TicketOf
<1>4. /\ sent[m].action = "final_approve" => m \in orders /\ event[p] = "submitted"
      /\ sent[m].action # "final_approve" => m \notin orders
  BY <1>1 DEF IInv, StepInv
<1>5. JobInv'
  BY <1>1 DEF IInv, TypeOK, JobInv
<1>6. StepInv'
  <2>1. \A u : MadeReady(u) => MadeReady(u)'
    BY DEF MadeReady, TicketOf
  <2>2. \A n : Cleared(n) => Cleared(n)'
    BY <2>1 DEF Cleared, TicketOf
  <2> QED
    BY <1>1, <1>4, <2>2 DEF IInv, TypeOK, StepInv, EventStatus
<1>7. SentInv'
  BY <1>1, UnsentIsNoCommand DEF IInv, SentInv
<1>8. ReadyInv'
  <2>1. ASSUME NewStatus(sent[m]) = "live_manual_ready"
        PROVE  sent[m].action = "approve" /\ sent[m].role.mode = "live_manual"
    BY <1>2, <2>1 DEF NewStatus, Actions, Modes
  <2>2. m \in written' /\ TicketOf(m)' = t /\ sent' = sent
    BY <1>1, <1>2 DEF TicketOf
  <2>3. NewStatus(sent[m]) = "live_manual_ready" => MadeReady(t)'
    BY <2>1, <2>2 DEF MadeReady
  <2>4. /\ tickets'[t] = NewStatus(sent[m])
        /\ \A u \in Tickets : u # t => tickets'[u] = tickets[u]
    BY <1>2, <1>3 DEF IInv, TypeOK
  <2>5. \A u : MadeReady(u) => MadeReady(u)'
    BY DEF MadeReady, TicketOf
  <2> QED
    BY <2>3, <2>4, <2>5 DEF IInv, ReadyInv
<1>9. OrderInv'
  BY DEF IInv, OrderInv, Cleared, MadeReady, TicketOf
<1>10. SubmittedWasOrdered'
  <2>1. NewStatus(sent[m]) = "live_order_submitted" => m \in orders
    BY <1>2, <1>4 DEF NewStatus, Actions, Modes
  <2>2. \A u \in Tickets : u # t => tickets'[u] = tickets[u]
    BY <1>3 DEF IInv, TypeOK
  <2>3. tickets'[t] = NewStatus(sent[m])
    BY <1>2, <1>3 DEF IInv, TypeOK
  <2> QED
    BY <1>2, <2>1, <2>2, <2>3 DEF IInv, SubmittedWasOrdered, TicketOf
<1>11. AuditTrail'
  BY <1>1, <1>4 DEF IInv, TypeOK, AuditTrail, InFlight, Logged
<1> QED
  BY <1>5, <1>6, <1>7, <1>8, <1>9, <1>10, <1>11 DEF Rest

LEMMA RecordEventStep ==
  ASSUME IInv, NEW p \in Processes, RecordEvent(p)
  PROVE  Rest'
<1> USE DEF RecordEvent, Return, At
<1>1. /\ job[p] \in Messages
      /\ sent[job[p]] \in Command
      /\ \A q \in Processes : job[q] = job[p] => q = p
  BY BusyHasCommand DEF IInv
<1>2. event[p] = "submitted" <=> job[p] \in orders
  BY DEF IInv, StepInv
<1>3. JobInv'
  BY <1>1 DEF IInv, TypeOK, JobInv
<1>4. StepInv'
  BY DEF IInv, TypeOK, StepInv, Cleared, MadeReady, TicketOf
<1>5. SentInv'
  BY <1>1, UnsentIsNoCommand DEF IInv, SentInv
<1>6. ReadyInv' /\ OrderInv' /\ SubmittedWasOrdered'
  BY DEF IInv, ReadyInv, OrderInv, SubmittedWasOrdered, MadeReady, Cleared,
         TicketOf
<1>7. AuditTrail'
  BY <1>1, <1>2 DEF IInv, TypeOK, AuditTrail, InFlight, Logged
<1> QED
  BY <1>3, <1>4, <1>5, <1>6, <1>7 DEF Rest

LEMMA CrashStep ==
  ASSUME IInv, NEW p \in Processes, Crash(p)
  PROVE  Rest'
<1> USE DEF Crash, Return, At
<1>1. /\ job[p] \in Messages
      /\ sent[job[p]] \in Command
      /\ \A q \in Processes : job[q] = job[p] => q = p
      /\ \A e \in order_events : e.message # job[p]
  BY BusyHasCommand DEF IInv
<1>2. orders \subseteq orders' /\ orders' \subseteq orders \cup {job[p]}
  OBVIOUS
<1>3. job[p] \in orders' => Cleared(job[p])
  BY <1>2 DEF IInv, StepInv, OrderInv
<1>4. JobInv'
  BY <1>1 DEF IInv, TypeOK, JobInv
<1>5. StepInv'
  <2>1. ASSUME NEW q \in Processes, q # p
        PROVE  job[q] \in orders' <=> job[q] \in orders
    BY <1>1, <1>2, <2>1
  <2> QED
    BY <2>1 DEF IInv, TypeOK, StepInv, Cleared, MadeReady, TicketOf
<1>6. SentInv'
  BY <1>1, <1>2, UnsentIsNoCommand DEF IInv, SentInv
<1>7. ReadyInv' /\ SubmittedWasOrdered'
  BY <1>2 DEF IInv, ReadyInv, SubmittedWasOrdered, MadeReady, TicketOf
<1>8. OrderInv'
  BY <1>2, <1>3 DEF IInv, OrderInv, Cleared, MadeReady, TicketOf
<1>9. AuditTrail'
  BY <1>1, <1>2 DEF IInv, TypeOK, AuditTrail, InFlight, Logged
<1> QED
  BY <1>4, <1>5, <1>6, <1>7, <1>8, <1>9 DEF Rest

LEMMA RecordTicketStep ==
  ASSUME IInv, NEW t \in Tickets, RecordTicket(t)
  PROVE  Rest'
<1> USE DEF RecordTicket
<1>1. JobInv' /\ SentInv' /\ OrderInv' /\ AuditTrail'
  BY DEF IInv, JobInv, SentInv, OrderInv, AuditTrail, InFlight, Logged,
         Cleared, MadeReady, TicketOf
<1>2. StepInv'
  BY DEF IInv, StepInv, Cleared, MadeReady, TicketOf
<1>3. ReadyInv' /\ SubmittedWasOrdered'
  BY DEF IInv, TypeOK, ReadyInv, SubmittedWasOrdered, MadeReady, TicketOf
<1> QED
  BY <1>1, <1>2, <1>3 DEF Rest

\* A message that is new has left no trace, so nothing known of the others
\* changes.
LEMMA DeliverStep ==
  ASSUME IInv, NEW p \in Processes, NEW m \in Messages, Deliver(p, m)
  PROVE  Rest'
<1> USE DEF Deliver, At
<1>1. PICK c \in Command : sent' = [sent EXCEPT ![m] = c]
  OBVIOUS
<1>2. /\ m \notin orders /\ m \notin written
      /\ \A e \in order_events : e.message # m
  BY DEF IInv, SentInv
<1>3. \A q \in Processes : job[q] # m
  BY ApprovalAssumption DEF IInv, JobInv
<1>4. \A n \in Messages : n # m => sent'[n] = sent[n]
  BY <1>1 DEF IInv, TypeOK
<1>5. \A u : MadeReady(u) <=> MadeReady(u)'
  BY <1>2, <1>4 DEF IInv, TypeOK, MadeReady, TicketOf
<1>6. \A n \in Messages : n # m => (Cleared(n) <=> Cleared(n)')
  BY <1>4, <1>5 DEF Cleared, TicketOf
<1>7. JobInv'
  BY <1>1, <1>2, <1>3, <1>4, UnsentIsNoCommand, ApprovalAssumption
  DEF IInv, TypeOK, JobInv
<1>8. StepInv'
  BY <1>2, <1>3, <1>4, <1>6 DEF IInv, TypeOK, JobInv, StepInv
<1>9. SentInv'
  BY <1>1, <1>4, UnsentIsNoCommand DEF IInv, TypeOK, SentInv
<1>10. ReadyInv'
  BY <1>5 DEF IInv, ReadyInv
<1>11. OrderInv'
  BY <1>2, <1>6 DEF IInv, TypeOK, OrderInv
<1>12. SubmittedWasOrdered'
  BY <1>2, <1>4 DEF IInv, TypeOK, SubmittedWasOrdered, TicketOf
<1>13. AuditTrail'
  <2>1. job[p] \notin Messages
    BY ApprovalAssumption DEF IInv, JobInv
  <2>2. \A n \in Messages : InFlight(n) => InFlight(n)'
    BY <2>1 DEF IInv, TypeOK, InFlight
  <2> QED
    BY <2>2 DEF IInv, TypeOK, AuditTrail, Logged
<1> QED
  BY <1>7, <1>8, <1>9, <1>10, <1>11, <1>12, <1>13 DEF Rest

-----------------------------------------------------------------------------
(* The theorems. *)

LEMMA InitInv == Init => IInv
<1> SUFFICES ASSUME Init PROVE IInv
  OBVIOUS
<1>1. TypeOK
  BY InitType
<1>2. JobInv /\ StepInv /\ SentInv /\ ReadyInv /\ OrderInv
  BY DEF Init, JobInv, StepInv, SentInv, ReadyInv, OrderInv
<1>3. SubmittedWasOrdered /\ AuditTrail
  BY DEF Init, SubmittedWasOrdered, AuditTrail
<1> QED
  BY <1>1, <1>2, <1>3 DEF IInv

LEMMA NextInv == IInv /\ [Next]_vars => IInv'
<1> SUFFICES ASSUME IInv, [Next]_vars PROVE IInv'
  OBVIOUS
<1>1. TypeOK'
  BY TypeStep DEF IInv
<1>2. ASSUME NEW t \in Tickets, RecordTicket(t) PROVE Rest'
  BY <1>2, RecordTicketStep
<1>3. ASSUME NEW p \in Processes, NEW m \in Messages, Deliver(p, m) PROVE Rest'
  BY <1>3, DeliverStep
<1>4. ASSUME NEW p \in Processes, HandlerStep(p) PROVE Rest'
  <2>1. CASE Refuse(p)
    BY <2>1, ReturnStep DEF Refuse, Quiet
  <2>2. CASE RaiseInvalid(p)
    BY <2>2, ReturnStep DEF RaiseInvalid, Quiet
  <2> QED
    BY <1>4, <2>1, <2>2, DecideStep, BlockFinalStep, StartOrderStep,
       BrokerAcceptsStep, BrokerRejectsStep, WriteStatusStep, RecordEventStep
    DEF HandlerStep
<1>5. ASSUME NEW p \in Processes, Crash(p) PROVE Rest'
  BY <1>5, CrashStep
<1>6. ASSUME UNCHANGED vars PROVE Rest'
  <2>1. Quiet /\ UNCHANGED <<pc, job, event>>
    BY <1>6 DEF vars, Quiet
  <2>2. SentInv' /\ ReadyInv' /\ OrderInv' /\ SubmittedWasOrdered'
    BY <2>1, QuietKeeps
  <2>3. JobInv' /\ AuditTrail'
    BY <2>1 DEF IInv, Quiet, JobInv, AuditTrail, InFlight, Logged
  <2>4. StepInv'
    BY <2>1 DEF IInv, Quiet, StepInv, Cleared, MadeReady, TicketOf
  <2> QED
    BY <2>2, <2>3, <2>4 DEF Rest
<1> QED
  BY <1>1, <1>2, <1>3, <1>4, <1>5, <1>6 DEF Next, Rest, IInv

LEMMA Invariance == Spec => []IInv
  BY InitInv, NextInv, PTL DEF Spec

\* The variables keep their types in every run of the approval workflow.
THEOREM TypeCorrect == Spec => []TypeOK
<1>1. IInv => TypeOK
  BY DEF IInv
<1> QED
  BY <1>1, Invariance, PTL

\* No ticket is ever shown as submitted without an order at the broker.
THEOREM SubmittedIsOrdered == Spec => []SubmittedWasOrdered
<1>1. IInv => SubmittedWasOrdered
  BY DEF IInv
<1> QED
  BY <1>1, Invariance, PTL

\* Every order was preceded by the risk approval and by two messages of the
\* user, and left from a process with live trading enabled.
THEOREM OrdersAreApprovedTwice == Spec => []TwoStepApproval
<1>1. IInv => TwoStepApproval
  BY DEF IInv, OrderInv, Cleared, MadeReady, TwoStepApproval
<1> QED
  BY <1>1, Invariance, PTL

\* No order is missing from order_events but those of running or dead
\* handlers, and no event speaks of an order that was not placed.
THEOREM AuditIsComplete == Spec => []AuditTrail
<1>1. IInv => AuditTrail
  BY DEF IInv
<1> QED
  BY <1>1, Invariance, PTL

-----------------------------------------------------------------------------
(* Commands handled one at a time: the row a handler read is still the row *)
(* it updates, so the reads and writes of one command act as one atomic    *)
(* step of TicketLifecycle.                                                *)

\* There is at most one process that handles commands.
Serial == \A p, q \in Processes : p = q

\* The decision of a handler is still right for the row in the table.
FreshInv ==
  \A p \in Processes :
    LET c == sent[job[p]] IN
    /\ pc[p] = "order" => tickets[c.ticket] = "live_manual_ready"
    /\ pc[p] = "write" /\ c.action = "final_approve" =>
         tickets[c.ticket] = "live_manual_ready"
    /\ pc[p] = "write" /\ c.action # "final_approve" =>
         /\ tickets[c.ticket] \in Open
         /\ c.action = "approve" => c.ticket \in RiskApproved

\* An order whose handler has not died is stored in the row, or about to be.
PlacedInv ==
  \A m \in orders : m \notin lost =>
    \/ tickets[TicketOf(m)] = "live_order_submitted"
    \/ \E p \in Processes : job[p] = m /\ pc[p] = "write"

SerialInv == IInv /\ FreshInv /\ PlacedInv /\ OneOrderUnlessLost

-----------------------------------------------------------------------------

LEMMA SerialInit == Init => SerialInv
  BY InitInv DEF Init, SerialInv, FreshInv, PlacedInv, OneOrderUnlessLost

\* A step of the only process, which leaves the rows and the orders alone.
LEMMA ReadOnlyStep ==
  ASSUME Serial, SerialInv, NEW p \in Processes,
         Quiet, pc[p] # "write",
         \A q \in Processes : q # p => pc'[q] = pc[q] /\ job'[q] = job[q],
         FreshInv'
  PROVE  PlacedInv' /\ OneOrderUnlessLost'
<1>1. PlacedInv'
  BY DEF Serial, SerialInv, PlacedInv, Quiet, TicketOf
<1>2. OneOrderUnlessLost'
  BY DEF SerialInv, OneOrderUnlessLost, Quiet, TicketOf
<1> QED
  BY <1>1, <1>2

LEMMA SerialNext ==
  ASSUME Serial, SerialInv, [Next]_vars
  PROVE  FreshInv' /\ PlacedInv' /\ OneOrderUnlessLost'
<1> USE DEF At, Goto, Return
<1>0. TypeOK /\ JobInv /\ StepInv /\ SentInv
  BY DEF SerialInv, IInv
<1>1. ASSUME NEW t \in Tickets, RecordTicket(t)
      PROVE  FreshInv' /\ PlacedInv' /\ OneOrderUnlessLost'
  BY <1>0, <1>1 DEF RecordTicket, SerialInv, TypeOK, FreshInv, PlacedInv,
                    OneOrderUnlessLost, TicketOf, Open
<1>2. ASSUME NEW p \in Processes, NEW m \in Messages, Deliver(p, m)
      PROVE  FreshInv' /\ PlacedInv' /\ OneOrderUnlessLost'
  <2>1. \A n \in orders : n # m /\ sent'[n] = sent[n]
    BY <1>0, <1>2 DEF Deliver, TypeOK, SentInv
  <2>2. \A q \in Processes : q = p /\ pc'[q] = "read" /\ pc[q] = "idle"
    BY <1>0, <1>2 DEF Deliver, TypeOK, Serial
  <2> QED
    BY <1>2, <2>1, <2>2 DEF Deliver, SerialInv, FreshInv, PlacedInv,
                            OneOrderUnlessLost, TicketOf
<1>3. ASSUME NEW p \in Processes, Refuse(p) \/ RaiseInvalid(p) \/ BlockFinal(p)
                                  \/ BrokerRejects(p)
      PROVE  FreshInv' /\ PlacedInv' /\ OneOrderUnlessLost'
  <2>1. FreshInv'
    BY <1>0, <1>3 DEF Refuse, RaiseInvalid, BlockFinal, BrokerRejects, TypeOK,
                      Serial, FreshInv
  <2> QED
    BY <1>0, <1>3, <2>1, ReadOnlyStep
    DEF Refuse, RaiseInvalid, BlockFinal, BrokerRejects, TypeOK, Quiet
<1>4. ASSUME NEW p \in Processes, Decide(p) \/ StartOrder(p)
      PROVE  FreshInv' /\ PlacedInv' /\ OneOrderUnlessLost'
  <2>1. PICK m \in Messages : m = job[p] /\ sent[m] \in Command
    BY <1>0, <1>4, BusyHasCommand DEF Decide, StartOrder
  <2>2. CASE Decide(p)
    <3>1. /\ tickets[sent[m].ticket] \in Open
          /\ sent[m].action = "approve" => sent[m].ticket \in RiskApproved
      BY <1>0, <2>1, <2>2 DEF Decide, Refused, Command_, Row, TypeOK, Command,
                              Status
    <3>2. FreshInv'
      BY <1>0, <2>1, <2>2, <3>1 DEF Decide, Command_, TypeOK, Serial, FreshInv
    <3> QED
      BY <1>0, <2>2, <3>2, ReadOnlyStep DEF Decide, TypeOK, Quiet
  <2>3. CASE StartOrder(p)
    <3>1. tickets[sent[m].ticket] = "live_manual_ready"
      BY <2>1, <2>3 DEF StartOrder, Refused, Command_, Row
    <3>2. FreshInv'
      BY <1>0, <2>1, <2>3, <3>1 DEF StartOrder, TypeOK, Serial, FreshInv
    <3> QED
      BY <1>0, <2>3, <3>2, ReadOnlyStep DEF StartOrder, TypeOK, Quiet
  <2> QED
    BY <1>4, <2>2, <2>3
<1>5. ASSUME NEW p \in Processes, BrokerAccepts(p)
      PROVE  FreshInv' /\ PlacedInv' /\ OneOrderUnlessLost'
  <2>1. PICK m \in Messages : m = job[p] /\ sent[m] \in Command
    BY <1>0, <1>5, BusyHasCommand DEF BrokerAccepts
  <2>2. tickets[TicketOf(m)] = "live_manual_ready"
    BY <1>5, <2>1 DEF BrokerAccepts, SerialInv, FreshInv, TicketOf
  <2>3. \A n \in orders : TicketOf(n) = TicketOf(m) => n \in lost
    BY <1>5, <2>2 DEF BrokerAccepts, SerialInv, PlacedInv, Serial
  <2>4. FreshInv'
    BY <1>0, <1>5, <2>1, <2>2
    DEF BrokerAccepts, SerialInv, IInv, OrderInv, StepInv, Cleared, TypeOK,
        Serial, FreshInv, TicketOf
  <2>5. PlacedInv'
    BY <1>0, <1>5, <2>1 DEF BrokerAccepts, SerialInv, PlacedInv, TypeOK, Serial,
                            TicketOf
  <2>6. OneOrderUnlessLost'
    BY <1>5, <2>1, <2>3 DEF BrokerAccepts, SerialInv, OneOrderUnlessLost,
                            TicketOf
  <2> QED
    BY <2>4, <2>5, <2>6
<1>6. ASSUME NEW p \in Processes, WriteStatus(p)
      PROVE  FreshInv' /\ PlacedInv' /\ OneOrderUnlessLost'
  <2>1. PICK m \in Messages : m = job[p] /\ sent[m] \in Command
    BY <1>0, <1>6, BusyHasCommand DEF WriteStatus
  <2>2. PICK t \in Tickets : t = sent[m].ticket
    BY <2>1 DEF Command
  <2>3. /\ tickets'[t] = NewStatus(sent[m])
        /\ \A u \in Tickets : u # t => tickets'[u] = tickets[u]
        /\ sent' = sent /\ orders' = orders /\ lost' = lost
    BY <1>0, <1>6, <2>1, <2>2 DEF WriteStatus, TypeOK, Command_
  <2>4. tickets[t] # "live_order_submitted"
    BY <1>6, <2>1, <2>2 DEF WriteStatus, SerialInv, FreshInv, Open
  <2>5. FreshInv'
    BY <1>0, <1>6 DEF WriteStatus, TypeOK, Serial, FreshInv
  <2>6. sent[m].action = "final_approve" =>
          NewStatus(sent[m]) = "live_order_submitted"
    BY DEF NewStatus
  <2>7. m \in orders => sent[m].action = "final_approve"
    BY DEF SerialInv, IInv, OrderInv, Cleared
  <2>8. PlacedInv'
    BY <1>0, <1>6, <2>1, <2>2, <2>3, <2>4, <2>6, <2>7
    DEF WriteStatus, SerialInv, PlacedInv, TypeOK, Serial, TicketOf, SentInv,
        Command, IInv, OrderInv, Cleared
  <2>9. OneOrderUnlessLost'
    BY <2>3 DEF SerialInv, OneOrderUnlessLost, TicketOf
  <2> QED
    BY <2>5, <2>8, <2>9
<1>7. ASSUME NEW p \in Processes, RecordEvent(p)
      PROVE  FreshInv' /\ PlacedInv' /\ OneOrderUnlessLost'
  BY <1>0, <1>7 DEF RecordEvent, SerialInv, TypeOK, Serial, FreshInv,
                    PlacedInv, OneOrderUnlessLost, TicketOf
<1>8. ASSUME NEW p \in Processes, Crash(p)
      PROVE  FreshInv' /\ PlacedInv' /\ OneOrderUnlessLost'
  BY <1>0, <1>8 DEF Crash, SerialInv, TypeOK, Serial, FreshInv, PlacedInv,
                    OneOrderUnlessLost, TicketOf
<1>9. CASE UNCHANGED vars
  BY <1>9 DEF vars, SerialInv, FreshInv, PlacedInv, OneOrderUnlessLost,
              TicketOf
<1> QED
  BY <1>1, <1>2, <1>3, <1>4, <1>5, <1>6, <1>7, <1>8, <1>9
  DEF Next, HandlerStep

LEMMA SerialInvariance ==
  ASSUME Serial
  PROVE  Spec => []SerialInv
<1>1. SerialInv /\ [Next]_vars => SerialInv'
  BY SerialNext, NextInv DEF SerialInv
<1> QED
  BY <1>1, SerialInit, PTL DEF Spec

\* One handler at a time never places a second order for a ticket, unless the
\* handler of the first order died before it stored the status.
THEOREM NoSecondOrder ==
  ASSUME Serial
  PROVE  Spec => []OneOrderUnlessLost
<1>1. SerialInv => OneOrderUnlessLost
  BY DEF SerialInv
<1> QED
  BY <1>1, SerialInvariance, PTL

-----------------------------------------------------------------------------
(* Refinement. *)

LEMMA LifecycleStep ==
  ASSUME Serial, SerialInv, [Next]_vars
  PROVE  [Lifecycle!Next]_<<tickets, {TicketOf(m) : m \in orders}>>
<1> DEFINE ord == {TicketOf(m) : m \in orders}
<1> USE DEF At, Goto, Return, Lifecycle!Next, Lifecycle!Move
<1>0. TypeOK /\ JobInv /\ SentInv
  BY DEF SerialInv, IInv
<1>1. ASSUME NEW t \in Tickets, RecordTicket(t)
      PROVE  Lifecycle!Next
  <2>1. ord' = ord
    BY <1>1 DEF RecordTicket, TicketOf
  <2>2. Lifecycle!Propose(t)
    BY <1>1, <2>1 DEF RecordTicket, Lifecycle!Propose
  <2> QED
    BY <2>2
<1>2. ASSUME NEW p \in Processes, NEW m \in Messages, Deliver(p, m)
      PROVE  tickets' = tickets /\ ord' = ord
  <2>1. \A n \in orders : TicketOf(n)' = TicketOf(n)
    BY <1>0, <1>2 DEF Deliver, TypeOK, SentInv, TicketOf
  <2>2. orders' = orders /\ tickets' = tickets
    BY <1>2 DEF Deliver
  <2> QED
    BY <2>1, <2>2
<1>3. ASSUME NEW p \in Processes,
             \/ Refuse(p) \/ Decide(p) \/ RaiseInvalid(p) \/ BlockFinal(p)
             \/ StartOrder(p) \/ BrokerRejects(p) \/ RecordEvent(p)
      PROVE  tickets' = tickets /\ ord' = ord
  BY <1>3 DEF Refuse, Decide, RaiseInvalid, BlockFinal, StartOrder,
              BrokerRejects, RecordEvent, TicketOf
\* An order is placed for a ticket that is ready.
<1>4. ASSUME NEW p \in Processes, At(p, "order"),
             orders' = orders \cup {job[p]}, tickets' = tickets, sent' = sent
      PROVE  Lifecycle!Next
  <2>1. PICK m \in Messages : m = job[p] /\ sent[m] \in Command
    BY <1>0, <1>4, BusyHasCommand
  <2>2. PICK t \in Tickets : t = TicketOf(m)
    BY <2>1 DEF Command, TicketOf
  <2>3. tickets[t] = "live_manual_ready"
    BY <1>4, <2>1, <2>2 DEF SerialInv, FreshInv, TicketOf
  <2>4. ord' = ord \cup {t}
    BY <1>4, <2>1, <2>2 DEF TicketOf
  <2>5. Lifecycle!PlaceOrder(t)
    BY <1>4, <2>3, <2>4 DEF Lifecycle!PlaceOrder
  <2> QED
    BY <2>5
<1>5. ASSUME NEW p \in Processes, WriteStatus(p)
      PROVE  Lifecycle!Next
  <2>1. PICK m \in Messages : m = job[p] /\ sent[m] \in Command
    BY <1>0, <1>5, BusyHasCommand DEF WriteStatus
  <2>2. PICK t \in Tickets : /\ t = TicketOf(m) /\ sent[m].action \in Actions
                             /\ sent[m].role.mode \in Modes
    BY <2>1, ApprovalAssumption DEF Command, TicketOf
  <2>3. /\ tickets' = [tickets EXCEPT ![t] = NewStatus(sent[m])]
        /\ ord' = ord
    BY <1>5, <2>1, <2>2 DEF WriteStatus, Command_, TicketOf
  <2>4. CASE sent[m].action = "final_approve"
    <3>1. NewStatus(sent[m]) = "live_order_submitted"
      BY <2>4 DEF NewStatus
    <3>2. tickets[t] = "live_manual_ready" /\ t \in ord
      BY <1>5, <2>1, <2>2, <2>4
      DEF WriteStatus, SerialInv, FreshInv, IInv, StepInv, TicketOf
    <3>3. Lifecycle!Submit(t)
      BY <2>3, <3>1, <3>2 DEF Lifecycle!Submit
    <3> QED
      BY <3>3
  <2>5. CASE sent[m].action # "final_approve"
    <3>1. /\ tickets[t] \in Open
          /\ sent[m].action = "approve" => t \in RiskApproved
      BY <1>5, <2>1, <2>2, <2>5 DEF WriteStatus, SerialInv, FreshInv, TicketOf
    <3>2. CASE sent[m].action = "reject"
      <4>1. Lifecycle!Reject(t)
        BY <2>3, <3>1, <3>2 DEF NewStatus, Open, Lifecycle!Reject,
                                Lifecycle!Undecided
      <4> QED
        BY <4>1
    <3>3. CASE sent[m].action = "approve"
      <4>1. NewStatus(sent[m]) \in
              {"paper_executed", "live_manual_ready", "user_approved"}
        BY <2>2, <3>3 DEF NewStatus, Modes
      <4>2. Lifecycle!Approve(t)
        BY <2>3, <3>1, <3>3, <4>1 DEF Open, Lifecycle!Approve,
                                      Lifecycle!Undecided
      <4> QED
        BY <4>2
    <3> QED
      BY <2>2, <2>5, <3>2, <3>3 DEF Actions
  <2> QED
    BY <2>4, <2>5
<1>6. ASSUME NEW p \in Processes, Crash(p), orders' = orders
      PROVE  tickets' = tickets /\ ord' = ord
  BY <1>6 DEF Crash, TicketOf
<1>7. CASE UNCHANGED vars
  BY <1>7 DEF vars, TicketOf
<1> QED
  BY <1>1, <1>2, <1>3, <1>4, <1>5, <1>6, <1>7
  DEF Next, HandlerStep, BrokerAccepts, Crash

\* One handler at a time implements the atomic life cycle of a ticket: the
\* status read by a handler is never stale when it is acted upon.
THEOREM SerialRefinement ==
  ASSUME Serial
  PROVE  Spec => ImplementsLifecycle
<1>1. Init => Lifecycle!Init
  BY DEF Init, Lifecycle!Init
<1>2. SerialInv /\ [Next]_vars
        => [Lifecycle!Next]_<<tickets, {TicketOf(m) : m \in orders}>>
  BY LifecycleStep
<1> QED
  BY <1>1, <1>2, SerialInvariance, PTL
  DEF Spec, ImplementsLifecycle, Lifecycle!Spec
=============================================================================
