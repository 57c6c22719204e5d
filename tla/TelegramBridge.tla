---------------------------- MODULE TelegramBridge ----------------------------
(***************************************************************************)
(* The Telegram approval bridge (scripts/run_telegram_approval_bridge.py)  *)
(* and its gateway (app/telegram/approval_gateway.py): a long-polling loop *)
(* that takes updates from Telegram, hands each to the approval workflow   *)
(* and replies.                                                            *)
(*                                                                         *)
(* Telegram keeps an update until a later getUpdates asks for an offset    *)
(* beyond it.  The bridge keeps its offset in memory only, and any         *)
(* exception ends it: after a restart it is given every update since the   *)
(* last confirmed one again.  What approvals do when they overlap is       *)
(* ApprovalWorkflow; here handle_text is one step.                         *)
(***************************************************************************)
EXTENDS Naturals, Sequences

CONSTANTS
  Tickets,      \* ticket ids; the scan stores only risk-approved ones
  Mode,         \* TelegramApprovalConfig.mode
  Batch,        \* how many updates getUpdates returns at most
  MaxUpdates,   \* bound: how many messages are posted
  MaxCrashes    \* bound: how often the bridge dies

Actions == {"approve", "reject", "final_approve"}
Command == [action : Actions, ticket : Tickets]

\* No command, or one from a chat or thread that is not configured.
Ignored == [action |-> "none"]
Updates == Command \cup {Ignored}

ASSUME BridgeAssumption ==
  /\ Mode \in {"paper", "live_manual", "other"}
  /\ Batch \in Nat \ {0}
  /\ MaxUpdates \in Nat
  /\ MaxCrashes \in Nat

VARIABLES
  tickets,      \* trade_tickets.status
  inbox,        \* external: the updates, in the order of their ids
  confirmed,    \* external: how many of them Telegram has forgotten
  bridge,       \* where the bridge is
  config,       \* the flags --once and --no-send it was started with
  offset,       \* its offset less one; 0 for None
  next, last,   \* the update it has come to, the last one of its batch
  dealt,        \* history: the updates that were handled and answered
  crashes       \* history: how often it has died

bridgeVars == <<tickets, inbox, confirmed, bridge, config, offset, next, last, dealt, crashes>>

Open   == {"risk_approved", "user_approved"}
Closed == {"paper_executed", "live_manual_ready", "user_rejected"}

BridgeTypeOK ==
  /\ tickets \in [Tickets -> Open \cup Closed \cup {"absent"}]
  /\ inbox \in Seq(Updates) /\ Len(inbox) <= MaxUpdates
  /\ confirmed \in 0 .. Len(inbox)
  /\ bridge \in {"down", "poll", "handle", "reply"}
  /\ config \in [once : BOOLEAN, send : BOOLEAN]
  /\ offset \in 0 .. Len(inbox)
  /\ next \in 0 .. Len(inbox) /\ last \in 0 .. Len(inbox)
  /\ dealt \subseteq 1 .. Len(inbox)
  /\ crashes \in 0 .. MaxCrashes

BridgeInit ==
  /\ tickets = [t \in Tickets |-> "absent"]
  /\ inbox = <<>>
  /\ confirmed = 0
  /\ bridge = "down"
  /\ config = [once |-> FALSE, send |-> TRUE]
  /\ offset = 0
  /\ next = 0 /\ last = 0
  /\ dealt = {}
  /\ crashes = 0

-----------------------------------------------------------------------------
(* The users and the scan. *)

\* A scan stores a ticket.
Propose(t) ==
  /\ tickets[t] = "absent"
  /\ tickets' = [tickets EXCEPT ![t] = "risk_approved"]
  /\ UNCHANGED <<inbox, confirmed, bridge, config, offset, next, last, dealt, crashes>>

\* Somebody writes a message.  A ticket is stored before its id is announced
\* (RowsInOrder of ScheduledScan), so commands name stored tickets.
Post(u) ==
  /\ Len(inbox) < MaxUpdates
  /\ u # Ignored => tickets[u.ticket] # "absent"
  /\ inbox' = Append(inbox, u)
  /\ UNCHANGED <<tickets, confirmed, bridge, config, offset, next, last, dealt, crashes>>

-----------------------------------------------------------------------------
(* The bridge. *)

Start(c) ==
  /\ bridge = "down"
  /\ bridge' = "poll"
  /\ config' = c
  /\ offset' = 0
  /\ UNCHANGED <<tickets, inbox, confirmed, next, last, dealt, crashes>>

\* The while loop comes round, or ends after one poll.
NextPoll == IF config.once THEN "down" ELSE "poll"

Least(m, n) == IF m <= n THEN m ELSE n
Most(m, n)  == IF m >= n THEN m ELSE n

\* Mutant: Telegram is asked to forget the whole batch it is about to return.
GetUpdatesAhead ==
  /\ bridge = "poll"
  /\ confirmed' = Least(confirmed + Batch, Len(inbox))
  /\ next' = confirmed + 1
  /\ last' = Least(confirmed + Batch, Len(inbox))
  /\ confirmed < Len(inbox)
  /\ bridge' = "handle"
  /\ UNCHANGED <<tickets, inbox, config, offset, dealt, crashes>>

\* get_updates: Telegram forgets what is below the offset and returns the next
\* updates it has.
GetUpdates ==
  LET kept == Most(confirmed, offset) IN
  /\ bridge = "poll"
  /\ confirmed' = kept
  /\ IF kept = Len(inbox)
       THEN bridge' = NextPoll /\ UNCHANGED <<next, last>>
       ELSE /\ bridge' = "handle"
            /\ next' = kept + 1
            /\ last' = Least(kept + Batch, Len(inbox))
  /\ UNCHANGED <<tickets, inbox, config, offset, dealt, crashes>>

\* The next update of the batch, or the next poll.
Advance ==
  /\ dealt' = dealt \cup {next}
  /\ IF next = last
       THEN bridge' = NextPoll /\ UNCHANGED next
       ELSE bridge' = "handle" /\ next' = next + 1

\* Mutant: an executed ticket can be rejected.
OutcomeAfterExecution(c, status) ==
  CASE c.action = "reject" /\ status # "absent" -> "user_rejected"
    [] c.action = "approve" /\ status \in Open ->
         CASE Mode = "paper"       -> "paper_executed"
           [] Mode = "live_manual" -> "live_manual_ready"
           [] OTHER                -> "user_approved"
    [] OTHER -> status

\* handle_text as the gateway calls it, without a client and without live
\* trading: a final approval changes no status.
Outcome(c, status) ==
  CASE c.action = "reject" /\ status \in Open -> "user_rejected"
    [] c.action = "approve" /\ status \in Open ->
         CASE Mode = "paper"       -> "paper_executed"
           [] Mode = "live_manual" -> "live_manual_ready"
           [] OTHER                -> "user_approved"
    [] OTHER -> status

\* Mutant: the offset follows the commands only.
HandleAndCountCommands ==
  LET u == inbox[next] IN
  /\ bridge = "handle"
  /\ IF u = Ignored
       THEN Advance /\ UNCHANGED <<tickets, offset>>
       ELSE /\ offset' = next
            /\ tickets' = [tickets EXCEPT ![u.ticket] = Outcome(u, @)]
            /\ IF config.send THEN bridge' = "reply" /\ UNCHANGED <<next, dealt>>
                              ELSE Advance
  /\ UNCHANGED <<inbox, confirmed, config, last, crashes>>

\* The offset moves, then handle_update ignores the update or runs the workflow.
Handle ==
  LET u == inbox[next] IN
  /\ bridge = "handle"
  /\ offset' = next
  /\ IF u = Ignored
       THEN Advance /\ UNCHANGED tickets
       ELSE /\ tickets' = [tickets EXCEPT ![u.ticket] = Outcome(u, @)]
            /\ IF config.send THEN bridge' = "reply" /\ UNCHANGED <<next, dealt>>
                              ELSE Advance
  /\ UNCHANGED <<inbox, confirmed, config, last, crashes>>

\* send_message.
Reply ==
  /\ bridge = "reply"
  /\ Advance
  /\ UNCHANGED <<tickets, inbox, confirmed, config, offset, last, crashes>>

\* The bridge is stopped, or a call to Telegram or the database raises.
BridgeDies ==
  /\ bridge # "down"
  /\ crashes < MaxCrashes
  /\ crashes' = crashes + 1
  /\ bridge' = "down"
  /\ UNCHANGED <<tickets, inbox, confirmed, config, offset, next, last, dealt>>

BridgeStep == GetUpdates \/ Handle \/ Reply

Configs == [once : BOOLEAN, send : BOOLEAN]

BridgeNext ==
  \/ \E t \in Tickets : Propose(t)
  \/ \E u \in Updates : Post(u)
  \/ \E c \in Configs : Start(c)
  \/ BridgeStep \/ BridgeDies

\* A running bridge goes on, and whoever runs it with --once starts it without
\* in the end, as README.md shows it.
Fairness ==
  /\ WF_bridgeVars(BridgeStep)
  /\ SF_bridgeVars(\E c \in Configs : ~ c.once /\ Start(c))

BridgeSpec == BridgeInit /\ [][BridgeNext]_bridgeVars
FairSpec == BridgeSpec /\ Fairness

-----------------------------------------------------------------------------

\* Telegram forgets no update before it has been handled and answered, wherever
\* the bridge dies and however it is restarted.
NothingForgotten == 1 .. confirmed \subseteq dealt

\* The commands that would close an open ticket, by their place in the inbox.
Deciding(t) ==
  {i \in 1 .. Len(inbox) :
     /\ inbox[i] # Ignored /\ inbox[i].ticket = t
     /\ Outcome(inbox[i], "risk_approved") \in Closed}

\* A ticket is closed by the first command that could close it, and by no later
\* one: updates that come again or come late change nothing.
FirstCommandDecides ==
  \A t \in Tickets : tickets[t] \in Closed =>
    \E i \in Deciding(t) : /\ \A j \in Deciding(t) : i <= j
                           /\ tickets[t] = Outcome(inbox[i], "risk_approved")

\* A command that could close a ticket finds it closed in the end.
DecidedEventually == \A t \in Tickets : Deciding(t) # {} ~> tickets[t] \in Closed

\* Through the bridge a ticket goes through its life cycle as if every command
\* had been delivered once; no order is placed.
Lifecycle == INSTANCE TicketLifecycle WITH RiskApproved <- Tickets, ordered <- {}
ImplementsLifecycle == Lifecycle!Spec
=============================================================================
