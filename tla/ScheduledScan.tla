---------------------------- MODULE ScheduledScan ----------------------------
(***************************************************************************)
(* The scheduled scan (app/automation/scheduled_scan.py) behind its        *)
(* operational risk guard (app/automation/operational_risk.py), and the    *)
(* workflow it runs (app/agents/chief.py): session check, four guard reads,*)
(* broker calls and agents, then the rows of the run and the notification. *)
(*                                                                         *)
(* Every read and every write is a connection of its own, so users may     *)
(* decide tickets, fills may be recorded and the breaker may be switched   *)
(* between any two of them.  How an approval works is ApprovalWorkflow;    *)
(* here it is one step that executes the ticket.                           *)
(***************************************************************************)
EXTENDS Integers, FiniteSetsExt

CONSTANTS
  Scanners,      \* scan processes; cron_kiwoom_scan.sh allows only one
  Tickets,       \* the tickets, named for the runs that propose them
  Amount,        \* estimated_amount_krw of each ticket
  MaxTime,       \* bound: the last moment that is looked at
  DayLength,     \* how many moments make a KST day
  UtcLag,        \* how many moments UTC is behind KST
  OpenTimes,     \* the moments at which market_session_decision says open
  Cooldown,      \* order_cooldown_minutes
  MaxDailyBuy,   \* max_daily_buy_amount_krw
  Configs,       \* how scans are configured: force, enforce, breaker, chat
  OneDatabase,   \* KIWOOM_TRADING_DB names data/trading.db
  NoTicket       \* no ticket in hand

Time == 0 .. MaxTime

ASSUME ScanAssumption ==
  /\ Amount \in [Tickets -> Nat]
  /\ MaxTime \in Nat
  /\ DayLength \in Nat \ {0}
  /\ UtcLag \in 0 .. DayLength
  /\ OpenTimes \subseteq Time
  /\ Cooldown \in Nat
  /\ MaxDailyBuy \in Nat
  /\ Configs \subseteq [force : BOOLEAN, enforce : BOOLEAN,
                        breaker : BOOLEAN, chat : BOOLEAN]
  /\ OneDatabase \in BOOLEAN
  /\ NoTicket \notin Tickets

VARIABLES
  clock,         \* the present
  status,        \* trade_tickets.status, "absent" if no row
  created,       \* trade_tickets.created_at
  executed_at,   \* history: when a ticket was executed
  runs,          \* agent_runs
  reviews,       \* risk_reviews
  breaker,       \* runtime_state["circuit_breaker"]; no row counts as "off"
  losses,        \* the days whose realized P&L is at the loss limit
  pc,            \* where each scan is
  config,        \* its configuration
  now,           \* the moment it decides by
  ticket,        \* the ticket it proposes
  told,          \* the tickets a notification asked the user to decide
  untold,        \* history: those whose scan died, or has no chat
  seen,          \* history: the tickets executed before each scan began
  early          \* history: the checks each scan passed before they turned

vars == <<clock, status, created, executed_at, runs, reviews, breaker, losses,
          pc, config, now, ticket, told, untold, seen, early>>

market == <<clock, breaker, losses>>
rows   == <<status, runs, reviews>>
scan   == <<pc, config, now, ticket, seen, early>>
past   == <<created, executed_at, told, untold>>

Statuses == {"absent", "risk_approved", "executed", "user_rejected"}
Checks   == {"breaker", "cooldown", "daily_buy", "loss"}
PC       == Checks \cup {"idle", "workflow", "run", "ticket", "review", "notify"}
Idle     == [force |-> FALSE, enforce |-> FALSE, breaker |-> FALSE, chat |-> FALSE]

TypeOK ==
  /\ clock \in Time
  /\ status \in [Tickets -> Statuses]
  /\ created \in [Tickets -> Time]
  /\ executed_at \in [Tickets -> Time]
  /\ runs \subseteq Tickets /\ reviews \subseteq Tickets
  /\ breaker \in {"on", "off"}
  /\ losses \subseteq Nat
  /\ pc \in [Scanners -> PC]
  /\ config \in [Scanners -> Configs \cup {Idle}]
  /\ now \in [Scanners -> Time]
  /\ ticket \in [Scanners -> Tickets \cup {NoTicket}]
  /\ told \subseteq Tickets /\ untold \subseteq Tickets
  /\ seen \in [Scanners -> SUBSET Tickets]
  /\ early \in [Scanners -> SUBSET Checks]

Init ==
  /\ clock = 0
  /\ status = [t \in Tickets |-> "absent"]
  /\ created = [t \in Tickets |-> 0]
  /\ executed_at = [t \in Tickets |-> 0]
  /\ runs = {} /\ reviews = {}
  /\ breaker = "off"
  /\ losses \in SUBSET (0 .. MaxTime \div DayLength)
  /\ pc = [s \in Scanners |-> "idle"]
  /\ config = [s \in Scanners |-> Idle]
  /\ now = [s \in Scanners |-> 0]
  /\ ticket = [s \in Scanners |-> NoTicket]
  /\ told = {} /\ untold = {}
  /\ seen = [s \in Scanners |-> {}]
  /\ early = [s \in Scanners |-> {}]

-----------------------------------------------------------------------------
(* What the guard reads. *)

Day(moment) == moment \div DayLength

\* The date that is written in a row: created_at is stored in UTC, and the rows
\* of a day are found by comparing its text with the bounds of the KST day.
StoredDay(moment) == (moment - UtcLag) \div DayLength

\* What the guard's database shows: the scan writes to data/trading.db, the
\* guard and the approvals open KIWOOM_TRADING_DB.
Visible  == IF OneDatabase THEN {t \in Tickets : status[t] # "absent"} ELSE {}
Executed == {t \in Visible : status[t] = "executed"}

BreakerOn(s) == config[s].breaker /\ breaker = "on"

\* Mutant: the moment that is stored is not brought back to KST.
CoolingDownInUtc(s) ==
  Executed # {} /\ now[s] < Max({created[t] : t \in Executed}) - UtcLag + Cooldown

\* Only the ticket that was created last is looked at.
CoolingDown(s) ==
  Executed # {} /\ now[s] < Max({created[t] : t \in Executed}) + Cooldown

Total(S) == SumFunction([t \in S |-> Amount[t]])

\* sum_executed_buy_amount.
Bought(S, day) == Total({t \in S : StoredDay(created[t]) = day})

\* Mutant: the limit has to be exceeded.
BuyLimitExceeded(s) == Bought(Executed, Day(now[s])) > MaxDailyBuy

BuyLimitReached(s) == Bought(Executed, Day(now[s])) >= MaxDailyBuy

LossLimitReached(s) == Day(now[s]) \in losses

-----------------------------------------------------------------------------
(* The steps of a scan. *)

At(s, label) == pc[s] = label

Goto(s, label) ==
  /\ pc' = [pc EXCEPT ![s] = label]
  /\ UNCHANGED <<config, now, ticket, seen, early>>

\* run_scheduled_scan has returned, or its process has died.
Finish(s) ==
  /\ pc' = [pc EXCEPT ![s] = "idle"]
  /\ config' = [config EXCEPT ![s] = Idle]
  /\ now' = [now EXCEPT ![s] = 0]
  /\ ticket' = [ticket EXCEPT ![s] = NoTicket]
  /\ seen' = [seen EXCEPT ![s] = {}]
  /\ early' = [early EXCEPT ![s] = {}]

\* A check that says no ends the scan, unless it is forced; then the guard's
\* decision is ignored.
Check(s, label, blocked, next) ==
  /\ At(s, label)
  /\ \/ blocked /\ ~ config[s].force /\ Finish(s)
     \/ blocked /\ config[s].force /\ Goto(s, "workflow")
     \/ ~ blocked /\ Goto(s, next)
  /\ UNCHANGED <<market, rows, past>>

\* A scan begins in the session, or is forced; outside it nothing happens.
Start(s, c) ==
  /\ At(s, "idle")
  /\ c.force \/ clock \in OpenTimes
  /\ pc' = [pc EXCEPT ![s] = IF c.enforce THEN "breaker" ELSE "workflow"]
  /\ config' = [config EXCEPT ![s] = c]
  /\ now' = [now EXCEPT ![s] = clock]
  /\ seen' = [seen EXCEPT ![s] = Executed]
  /\ UNCHANGED <<market, rows, past, ticket, early>>

CheckBreaker(s)  == Check(s, "breaker", BreakerOn(s), "cooldown")
CheckCooldown(s) == Check(s, "cooldown", CoolingDown(s), "daily_buy")
CheckDailyBuy(s) == Check(s, "daily_buy", BuyLimitReached(s), "loss")

\* Mutant: the losses of the day before are summed.
CheckLossOfYesterday(s) ==
  Check(s, "loss", Day(now[s]) - 1 \in losses, "workflow")

CheckLoss(s) == Check(s, "loss", LossLimitReached(s), "workflow")

Guarded(s) == config[s].enforce /\ ~ config[s].force

\* The broker's data and the agents lead to no ticket, or to one approved by
\* the risk review.  A run without a ticket leaves rows no property looks at.
Workflow(s) ==
  /\ At(s, "workflow")
  /\ \/ Finish(s) /\ UNCHANGED past
     \/ \E t \in Tickets \ runs :
          /\ \A r \in Scanners : ticket[r] # t
          /\ t \notin untold
          /\ ticket' = [ticket EXCEPT ![s] = t]
          /\ created' = [created EXCEPT ![t] = clock]
          /\ pc' = [pc EXCEPT ![s] = "run"]
          /\ UNCHANGED <<executed_at, told, untold, config, now, seen, early>>
  /\ UNCHANGED <<market, rows>>

\* record_agent_run and the snapshots.
StoreRun(s) ==
  /\ At(s, "run")
  /\ runs' = runs \cup {ticket[s]}
  /\ Goto(s, "ticket")
  /\ UNCHANGED <<market, past, status, reviews>>

\* record_trade_ticket.
StoreTicket(s) ==
  /\ At(s, "ticket")
  /\ status' = [status EXCEPT ![ticket[s]] = "risk_approved"]
  /\ Goto(s, "review")
  /\ UNCHANGED <<market, past, runs, reviews>>

\* Mutant: the scan ends without a notification.
StoreReviewSilently(s) ==
  /\ At(s, "review")
  /\ reviews' = reviews \cup {ticket[s]}
  /\ Finish(s)
  /\ UNCHANGED <<market, status, runs, past>>

\* record_risk_review.
StoreReview(s) ==
  /\ At(s, "review")
  /\ reviews' = reviews \cup {ticket[s]}
  /\ \/ config[s].chat /\ Goto(s, "notify") /\ UNCHANGED untold
     \/ ~ config[s].chat /\ Finish(s) /\ untold' = untold \cup {ticket[s]}
  /\ UNCHANGED <<market, status, runs, created, executed_at, told>>

\* send_message.
Notify(s) ==
  /\ At(s, "notify")
  /\ told' = told \cup {ticket[s]}
  /\ Finish(s)
  /\ UNCHANGED <<market, rows, created, executed_at, untold>>

\* The process dies, or a call to the broker or to Telegram raises.
Crash(s) ==
  /\ ~ At(s, "idle")
  /\ untold' = untold \cup ({ticket[s]} \ {NoTicket})
  /\ Finish(s)
  /\ UNCHANGED <<market, rows, created, executed_at, told>>

-----------------------------------------------------------------------------
(* The rest of the system. *)

\* The user's approval ends in paper_executed or live_order_submitted.
Execute(t) ==
  /\ t \in Visible /\ status[t] = "risk_approved"
  /\ status' = [status EXCEPT ![t] = "executed"]
  /\ executed_at' = [executed_at EXCEPT ![t] = clock]
  /\ UNCHANGED <<market, scan, runs, reviews, created, told, untold>>

Reject(t) ==
  /\ t \in Visible /\ status[t] = "risk_approved"
  /\ status' = [status EXCEPT ![t] = "user_rejected"]
  /\ UNCHANGED <<market, scan, past, runs, reviews>>

\* A block that comes up now was passed by the scans beyond its check.
Passed(s, check) ==
  LET done == CASE check = "breaker"   -> {"cooldown", "daily_buy", "loss"}
                [] check = "cooldown"  -> {"daily_buy", "loss"}
                [] check = "daily_buy" -> {"loss"}
                [] OTHER               -> {}
  IN pc[s] \in done \cup {"workflow", "run", "ticket", "review", "notify"}

\* The operator, or process_fill, switches the breaker.
SwitchOn ==
  /\ breaker # "on"
  /\ breaker' = "on"
  /\ early' = [s \in Scanners |->
                 IF Passed(s, "breaker") THEN early[s] \cup {"breaker"} ELSE early[s]]
  /\ UNCHANGED <<clock, losses, rows, past, pc, config, now, ticket, seen>>

SwitchOff ==
  /\ breaker' = "off"
  /\ early' = [s \in Scanners |-> early[s] \ {"breaker"}]
  /\ UNCHANGED <<clock, losses, rows, past, pc, config, now, ticket, seen>>

\* Realized P&L of a day is recorded, on that day or later, and reaches the limit
\* or recovers.
Lose ==
  \E day \in 0 .. Day(MaxTime) \ losses :
    /\ losses' = losses \cup {day}
    /\ early' = [s \in Scanners |->
                   IF Passed(s, "loss") /\ Day(now[s]) = day
                   THEN early[s] \cup {"loss"} ELSE early[s]]
    /\ UNCHANGED <<clock, breaker, rows, past, pc, config, now, ticket, seen>>

Recover ==
  \E day \in losses :
    /\ losses' = losses \ {day}
    /\ UNCHANGED <<clock, breaker, rows, past, scan>>

Tick ==
  /\ clock < MaxTime
  /\ clock' = clock + 1
  /\ UNCHANGED <<breaker, losses, rows, past, scan>>

ScanStep(s) ==
  \/ CheckBreaker(s) \/ CheckCooldown(s) \/ CheckDailyBuy(s) \/ CheckLoss(s)
  \/ Workflow(s) \/ StoreRun(s) \/ StoreTicket(s) \/ StoreReview(s) \/ Notify(s)

Next ==
  \/ \E s \in Scanners : (\E c \in Configs : Start(s, c)) \/ ScanStep(s) \/ Crash(s)
  \/ \E t \in Tickets : Execute(t) \/ Reject(t)
  \/ SwitchOn \/ SwitchOff \/ Lose \/ Recover \/ Tick

\* A scan that has begun carries on until it ends or dies.
Fairness == \A s \in Scanners : WF_vars(ScanStep(s))

Spec == Init /\ [][Next]_vars
FairSpec == Spec /\ Fairness

-----------------------------------------------------------------------------

\* While the breaker is on, the only guarded scans beyond its check are those
\* that were already there when it came on, and the same of the loss limit: a
\* block stops every later scan, and at most one ticket of each earlier one
\* still comes.
BlocksHaltScans ==
  \A s \in Scanners : Guarded(s) =>
    /\ BreakerOn(s) /\ Passed(s, "breaker") => "breaker" \in early[s]
    /\ LossLimitReached(s) /\ Passed(s, "loss") => "loss" \in early[s]

\* The guarded scans that have a ticket in hand.
Proposing == {s \in Scanners : Guarded(s) /\ ticket[s] # NoTicket}

\* No guarded scan proposes a ticket within the cooldown of any ticket that had
\* been executed when the scan began, though it looks at one ticket only, and
\* later than that.
CooldownKept ==
  \A s \in Proposing : \A t \in seen[s] :
    created[ticket[s]] >= created[t] + Cooldown

\* No guarded scan proposes a ticket when the executed tickets with the date of
\* the day had reached the daily limit by the time the scan began.
DailyBuyKept ==
  \A s \in Proposing : Bought(seen[s], Day(now[s])) < MaxDailyBuy

\* A ticket is never in the database without its run, nor announced to the user
\* without its row and its review, wherever scans die.
RowsInOrder ==
  \A t \in Tickets :
    /\ status[t] # "absent" => t \in runs
    /\ t \in told \cup reviews => status[t] # "absent" /\ t \in runs
    /\ t \in told => t \in reviews

\* The user is told of every ticket that is stored, unless its scan dies or has
\* no chat to send to.
ToldEventually ==
  \A t \in Tickets : status[t] # "absent" ~> t \in told \cup untold

-----------------------------------------------------------------------------
(* What the documents and messages promise and the code does not keep. *)

\* The cooldown runs from the last execution (docs/safety-design.md, order cooldown,
\* and the message of the guard).
CooldownFromExecution ==
  \A s \in Proposing : \A t \in seen[s] :
    created[ticket[s]] >= executed_at[t] + Cooldown

\* A ticket counts for the KST day on which it was created (the guard computes
\* the bounds of the KST day).
KstDayBuyKept ==
  \A s \in Proposing :
    Total({t \in seen[s] : Day(created[t]) = Day(now[s])}) \in 0 .. MaxDailyBuy - 1

\* The tickets executed for one day do not exceed the maximum for a day
\* (docs/safety-design.md, max daily buy amount).
DailyBuyWithinLimit ==
  \A day \in 0 .. Day(MaxTime) : Bought(Executed, day) <= MaxDailyBuy

\* A ticket that the user is told of can be approved or rejected.
ToldIsVisible == told \subseteq Visible
=============================================================================
