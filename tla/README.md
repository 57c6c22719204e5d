# KiwoomAgentTrader: specification, model checking and proofs

KiwoomAgentTrader scans the Korean market on a schedule, lets a chain of agents propose at
most one trade ticket per scan, and asks a person on Telegram to approve it, once for a paper
execution and twice for a live order at the broker. Everything it knows is in one SQLite file.

This directory holds TLA+ models of the parts of that program that change state, the TLC
configurations that check them on small instances, and TLAPS proofs of the properties that
matter most, for every value of the constants. Paths below are relative to `src/`.

The question the models ask is the same throughout. The program is a handful of short-lived
processes (cron jobs, a Telegram bridge, command-line scripts) that share one database file and
nothing else. Every method of `TradingRepository` opens its own connection and commits on its
own. So whatever is read in one call may be stale in the next, any process may die between two
calls, and nothing undoes what it did before. The models take **one database or network access
per step** and let every other process act between any two.

## 1. Inventory

| Component | Code | State it keeps | Operations that change it |
|---|---|---|---|
| approval workflow | `app/approval/workflow.py` | `trade_tickets.status`, `order_events` | `handle_text`: approve, reject, final approve |
| order client | `app/kiwoom/orders.py` | orders at the broker | `place_order` |
| Telegram gateway and bridge | `app/telegram/approval_gateway.py`, `scripts/run_telegram_approval_bridge.py` | the polling offset (in memory), the updates Telegram still holds | poll, handle, reply |
| scheduled scan | `app/automation/scheduled_scan.py` | none of its own | session check, guard, workflow, notification |
| operational risk guard | `app/automation/operational_risk.py` | reads breaker, executed tickets, P&L | four checks in order |
| chief agent | `app/agents/chief.py`, `scripts/run_kiwoom_intraday_workflow.py` | `agent_runs`, the two snapshot tables, `account_states`, `trade_tickets`, `risk_reviews` | asks the broker, stores one run, its data, its ticket, its review |
| risk review and account state | `app/agents/risk_management.py`, `app/agents/account_state.py`, `app/kiwoom/snapshots.py` | none | `review` |
| post-fill circuit breaker | `app/automation/post_fill_risk.py`, `scripts/manage_runtime_risk.py` | `runtime_state`, `realized_pnl_events` | `process_fill`, the operator's switch |
| fill sync | `app/automation/fill_sync.py` | `broker_fill_sync_snapshots`, `realized_pnl_events` | `sync_rows` |
| storage | `app/storage/repository.py` | the SQLite file | the methods the others call |
| KRX calendar | `app/automation/krx_calendar.py`, `scripts/check_krx_holidays.py` | one cache file of holidays per year | `load`: fetch, write the cache or read it |
| post-trade analysis, digest | `app/analysis/post_trade.py`, `app/analysis/post_trade_digest.py` | `post_trade_analyses` | `analyze_ticket`; `build_for_date` only reads |
| strategy lessons | `app/analysis/strategy_lessons.py` | a generated block of a Markdown file the user also edits | `export` |
| broker data | `app/kiwoom/market.py`, `account.py`, `transactions.py`, `snapshots.py`, `app/agents/trading_strategy.py` | none | three requests, and what is read out of the answers |
| automation status | `app/automation/status.py` | reads five tables | `build` |
| Telegram client, settings, policy documents, tools | the rest of `app/`, `scripts/`, `tools/` | none | none |

How they interact. The scan reads the guard's tables, runs the agents, stores run, ticket and
review, and announces the ticket. The bridge takes the user's command and calls the approval
workflow, which changes the ticket and may call the broker. Fills come back by hand
(`record_realized_pnl.py`) or through the fill sync, become P&L events, and switch the breaker
on, which the guard of the next scan reads. The loop is closed only through the database. At its
edges are two kinds of files: the calendar's cache, which every scan reads or rewrites before its
session check, and the lessons, which an export merges into a document from the analyses of
finished trades.

What is hard here (`PROJECT.json` lists each hazard at its line):

- *Check, then act.* The final approval checks the status, calls the broker and then writes the
  status, by id and unconditionally. So do the guard (four reads, then minutes of broker calls,
  then three writes), the fill sync (look for the key, then insert) and the breaker (insert,
  then sum, then set).
- *Death half way.* The broker may have an order the database does not mention; a ticket may be
  stored without its review; a snapshot without its event; a reply lost after the command took
  effect.
- *Repetition.* Telegram delivers again what was not confirmed; the fill sync reads overlapping
  windows; users approve twice.
- *Time.* `created_at` is UTC and is compared as text with bounds in KST, `occurred_at` carries
  whatever offset it was given in; the cooldown counts from the creation of a ticket, not its
  execution; run ids are seconds; holidays are loaded for the years of one moment and used at
  another; a year ago need not exist.
- *Missing data.* An error in the body of a broker's answer looks like an answer without fields,
  and a missing number is zero. A fill is known by a key made of what its row happens to contain.
- *Stale permission.* Everything is checked when the ticket is proposed, and the user answers
  later: the breaker, the losses, the daily amount and the hours are not looked at again.
- *Files.* The cache and the lessons are written by truncating and filling: a death in between
  leaves a torn file, another process may read it, and a note of the user may fall into the gap.
- *Integers.* The review reduces a purchase twice by integer division; the sign of a balance is
  dropped by the parser.

## 2. Modules

| Module | Models | Abstraction |
|---|---|---|
| `ApprovalWorkflow` | handlers of commands over tickets, order events and broker | one step per SELECT, UPDATE, INSERT, broker call |
| `TicketLifecycle` | what an approval promises | each check and change is one atomic step |
| `CircuitBreaker` | recorders of fills, the operator | insert, sum, set; a day and symbol is one key |
| `FillSync` | runs of the sync | snapshot, check, insert per row |
| `FillLedger` | what the sync promises | evidence first, each key once |
| `RiskReview` | one review as a function | amounts are integers, texts left out |
| `ScheduledScan` | scans behind their guard, and the rest of the system as its environment | one step per read or write; a workflow that proposes nothing is one step |
| `TelegramBridge` | the polling loop and Telegram's queue | `handle_text` is one step |
| `KrxCalendar` | loaders of the holiday calendar, its cache files, the service | truncating and filling a file are two steps; a file is absent, torn or a list |
| `PostTrade` | analyses of finished trades and the digest of a day | texts left out, of the lessons two kinds remain |
| `StrategyLessons` | exports into the Markdown file, its user (extends `PostTrade`) | the file is a sequence of markers, notes and blocks |
| `TradingDay` | scans and recorders over one database (extends `CircuitBreaker`, with an instance of `ScheduledScan`) | one state, the steps of both |
| `MarketSession` | the processes that load holidays, and a scan's decision with the list (extends `KrxCalendar`) | a day is a number, the second of the day counts |
| `ChiefRuns` | every row of a run, run ids, overlapping runs | the agents' verdict is one step |
| `AutomationStatus` | the status report (extends `ChiefRuns`) | one step per query |
| `BrokerData` | the broker's answers up to the reviewed ticket (extends `RiskReview` and `OneYearRange`) | a field is a number with a sign, blank, or no number |
| `FillRows` | how keys, amounts and times are read out of the broker's rows | one run of the sync is one step |
| `EventTimes` | times stored and compared as texts | a text is the tuple its characters order by |
| `OneYearRange` | the range of dates of a run, over the calendar | none (operators only) |
| `DigestLessons` | best, worst and most frequent lessons of a digest | a lesson is a model value |
| `*Proofs` | the theorems, see section 5 | |
| `MC*` | finite instances for TLC | |

How they fit together. `ApprovalWorkflow` and `TelegramBridge` both implement
`TicketLifecycle` by refinement mappings, the first with an order counted for a ticket when some
message reached the broker for it (`ordered <- {TicketOf(m) : m \in orders}`), the second with
no orders at all, since the bridge never has an order client. `FillSync` implements
`FillLedger`. `ScheduledScan` takes from the others only what its steps can see of them:
`Execute` and `Reject` are an approval, `SwitchOn` is a tripped breaker or the operator, `Lose`
and `Recover` are P&L totals that reach or leave the limit, of any recorded day, and `Workflow`
proposes only what `RiskReview` approved.

`TradingDay` shows that this environment is what the recorders are: it composes `ScheduledScan`
and `CircuitBreaker`, with `breaker` read as the guard reads it (`BreakerSeen`) and `losses`
computed from the recorded events (`LossDays`), and every step of it is a step of `ScheduledScan`
(`ImplementsScan`). So what is proved of scans holds over a database that recorders write to.
`BrokerData` does the same for the review: `BrokerTypeOK` says that `RiskReview`'s `Candidates`
and `Accounts` are all that a run can come to. `FillRows` supplies the keys that `FillSync` takes
as given, `EventTimes` the days that `CircuitBreaker` takes as given, `MarketSession` the open
times of `ScheduledScan`, and `AutomationStatus` reads what
`ChiefRuns` stores. These are modules of their own because each question needs its own detail: one
model of everything would be too large to check. `MarketSession` and `AutomationStatus` extend the
module they look into, so one run checks both.

Three modules look closer at what another takes as given and share no state with it: `FillRows` with
`FillSync`, `EventTimes` with `CircuitBreaker`, `DigestLessons` with `PostTrade`. One run checks each
pair: `MCFillSync`, `MCCircuitBreaker` and `MCStrategyLessons` put the second module beside
the first, and every behaviour is one of the first or one of the second, the other staying in its
initial state. In the same way a behaviour of `BrokerData` starts either with a request to the broker
or (`request` is `"given"`) with any candidate and account at all, which is `RiskReview` by itself.
Modules that are extended together name their specifications apart: `DaySpec`, `RowsSpec`, `TimesSpec`,
`ReviewSpec`, `BrokerSpec`, `SessionSpec`, `StatusSpec`, `LessonsSpec`, `DigestSpec`, with `Init`, `Next`
and the type invariant alike; so does `TelegramBridge` (`BridgeSpec`), whose proofs share a module with
those of `AutomationStatus`.

`StrategyLessons` extends `PostTrade`: exports run while analyses are stored, and read their table.

### What the components promise

| Component | Correct if |
|---|---|
| approval workflow | no order without two approvals by a live user, no stored submission without an order, an audit trail that agrees with both |
| bridge | no message is forgotten before it is dealt with, and the first command on a ticket decides |
| circuit breaker | a day's loss that reaches the limit stops the scans, whoever records the fills |
| fill sync | every realized fill is recorded, with its evidence, once |
| risk review | what it approves is within the limits; what it changes it only reduces, and not more than needed |
| scan and guard | a guarded scan proposes nothing the breaker, the cooldown, the day's purchases or losses forbid |
| calendar | a holiday is never taken for an open day without a warning, and never one it had known |
| post-trade analysis | the digest of a day adds up to the realized P&L behind it |
| strategy lessons | the user's notes survive, the file heals after a death, every lesson can be traced |
| chief agent | what a run id leads to is of one run, and a decided ticket stays decided |
| broker data | a ticket is approved only on a price and a balance the broker sent |
| market session | an open market is never taken for closed, nor a closed one for open without a warning |
| recorded times | a fill counts for the KST day it happened on |
| status report | no data is shown that is behind other data known when the question was asked, but for runs that overlapped |

### Correspondence

*ApprovalWorkflow.* `tickets` is the `status` column, `order_events` that table, `orders` (external) the
orders the broker took, `sent` the command of each message with the configuration of the process
that handles it (`mode`, `enable_live_trading`, whether it has an order client). `Refuse`,
`Decide`, `RaiseInvalid`, `BlockFinal`, `StartOrder` are the chain of early returns of
`handle_text` and `_handle_final_approval` on the one row it has read; `BrokerAccepts` and
`BrokerRejects` are `place_order`; `WriteStatus` is `update_trade_ticket_approval`, which does
not look at the status it overwrites; `RecordEvent` is `record_order_event`. `Crash` covers
every exception and kill; during `place_order` the order may have been taken nevertheless.

*CircuitBreaker.* `process_fill` is `InsertEvent`, `SumDay`, `SetBreaker`; the fill sync is
`CheckDuplicate`, `InsertEvent` and no more. `SwitchOn` and `SwitchOff` are
`manage_runtime_risk.py`. The history variables say what excuses a breach: the operator resumed
the scans after its last event (`waived`), its recorder died (`lost`), or it came through the
fill sync, which never evaluates the breaker (`unchecked`). The module takes the day of an event
as a given key: `occurred_at` is compared as text, so this assumes that it is given in KST, as the
command line and the fill sync do by default; `EventTimes` shows when that is enough.

*FillSync.* `Begin` is the list of rows of one request; `TakeRow` to `InsertEvent` are one round
of the loop, `Finish` the end and `Crash` a death at any point. The dedupe key of a row is a
constant, so that rows may share one; `FillRows` says when they do.

*RiskReview.* `Review` is `RiskManagementAgent.review`: the symbol check, the fit to the
account's investable cash, the fit to the order limit, in this order. `ParseInt` drops the sign
as `_parse_int` does. Hard reasons are the negation of `Fits`.

*ScheduledScan.* `Start` is the session check, `CheckBreaker` to `CheckLoss` the guard,
`Workflow` the broker calls and agents, `StoreRun`, `StoreTicket`, `StoreReview` the three
transactions of `ChiefAgent.run`, `Notify` the message. `now` is the moment the scan decides
by, fixed when it starts. `Day` is the KST day, `StoredDay` the date that is written in the row.

*TelegramBridge.* `offset` is the variable of the loop, `confirmed` (external) what Telegram has
forgotten: asking for an offset beyond an update forgets it. `GetUpdates`, `Handle` (which moves
the offset first, as the loop does) and `Reply` are one round, with and without `--once` and
`--no-send`.

*KrxCalendar.* One loader is one call of `load`: `todo` is what is left of the loop over the years,
`answer` is `year_dates`. `Fetch` and `FetchFails` are the two ways out of `_fetch_year`,
`OpenCache` and `WriteCache` are `_write_cache`, `CacheFails` is an `OSError` of it, which the same
`except` catches, and `ReadCache` is `_read_cache`, which is called outside of the `try`. `published`
(external) is what the service lists; `Announce` is a temporary holiday. `warned` stands for the
list of warnings. Histories: `promised` is what was published and `owed` what had been cached when
the loader began.

*PostTrade.* `ReadEvents` and `Insert` are `analyze_ticket`, `Realize` is the next P&L event of a
ticket (the signs and amounts of each ticket's events are the constant `Fills`), `Midnight` the
change of the KST day. `events` in a row is the number of events its summary mentions. `Digest` is
`build_for_date`, a function of the table.

*StrategyLessons.* `ReadAnalyses`, `ReadFile`, `OpenFile`, `WriteFile` are `export` in its order;
`Groups` is `build_strategy_lesson_groups` and `Merge` is `_merge_generated_block`, with the first
start and the first end marker wherever they stand. `DieWriting` leaves any prefix of the new text,
which may end in half a marker or word (`Scrap`) or, outside of the markers, within a character of
several bytes (`Broken`). A file with a broken character cannot be read as UTF-8: `ReadFile` is not possible, and every export
from then on raises (`Die`).
`AddNote` is the user, who writes before or behind everything. The histories `excused` and `clean`
name what a death or a race has cost, so that the properties can say that nothing else is lost.

*TradingDay.* `Record` is any step of a recorder, `Operate` the operator, `Scan` any step of a scan,
a rejection or the clock, `Execute` the approval. The variables are those of the two modules;
`early` of `ScheduledScan` is a history variable and is kept by the composition (`KeepHistory`).
A key of `CircuitBreaker` is here a pair of a symbol and a KST day; the scans may begin with any set of
days at the limit, which in the composition is none, or every day if the limit is zero.

*MarketSession.* `StartScan` is `from_env` with `load_krx_holidays_from_env`, `StartScript`
`check_krx_holidays.py --year`; `Work` are the steps of `KrxCalendar`; `Decide` is
`market_session_decision` and the early return of `run_scheduled_scan`. The clock may move between
the start and the decision, and is read twice. `LoadYears` is `_years_from_env`, `Configured` what
`_normalize_holiday` makes of `KRX_HOLIDAYS`, `listed` remembers what was published at the start.

*ChiefRuns.* `Fetch` is what the script does before it calls the chief agent, `Enter` takes the id
and comes to the verdict, the `Store` steps are the six `record_...` calls in their order, each
with the key it replaces by or the row it appends. A row is named by the run that wrote it.
`Decide` is the user, through the workflow. `SameSecond` says whether two runs may enter in one
second.

*AutomationStatus.* `Begin` is the call of `build`, `Read` its five queries. `base` remembers what
there was to read when it began. A snapshot is shown by the time it carries and found by its id.
`Work` is any step of `ChiefRuns`; `together` remembers the pairs of runs of which the second read its
data while the first was under way.

*BrokerData.* `AskQuote`, `AskBalance`, `AskHistory` are the three requests, `Analyze` everything
from the snapshots to the review, `Raise` every exception. `Or` is `a.get(x) or b.get(y)`, which
takes the second value for a blank one (and for the *number* 0, which the broker does not send: its
numbers are texts). `Number` is `_parse_int`, which exists twice and does the same twice.

*FillRows.* A row has an order and a fill number, two P&L columns, a date and a time, each possibly
blank, and some text where a number is expected. `RowKey` is `_dedupe_key`, `SyncRow` one round of
the loop of `sync_rows`, `Sync` the call. `Masked` does what `_mask_embedded_sensitive` does to a
number of six digits or more: rows that differ in its middle only have the same hash.

*EventTimes.* `IsoText` is `isoformat()`: the local day, the local time, the fraction if there is
one, the offset. `Before` is SQLite's order of texts, `DayBounds` the two texts of `process_fill`.
`ProcessFill` is a fill recorded by hand, in any offset, `SyncFill` one of the sync.

*OneYearRange.* `OneYear` is `one_year_range`, which `AskHistory` of `BrokerData` calls on the day of
the request; where `YearBefore` does not exist the code raises, and so does the run. The calendar
(external) is Python's `datetime`.

*DigestLessons.* `Best` and `Worst` are `max` and `min` with their treatment of equals,
`Tally` is one round of the inner loop of `_top_lessons`, over the lessons of a row, `TallyRow` one of
the outer, over the rows, with `NoTally` before and `Tallied` behind them; `Ranked` is its `sorted` by
the key `Before`, and `TopLessons` the cut.

## 3. Runs

A run's properties are those of its configuration. Every passing run is exhaustive, within the bounds
and, for `automation_status`, the constraint named below.

| Run | Instance | What it shows |
|---|---|---|
| `approval_concurrent` | 2 processes, 3 commands, 2 tickets (one refused by the risk review), 3 roles, 1 death | However two handlers interleave and wherever one dies: `SubmittedWasOrdered` (a ticket is stored as submitted only if the broker has an order for it), `TwoStepApproval` (an order took a first approval in live mode and a second, live one), `AuditTrail` (orders and order events agree message by message, but for running or dead handlers), and `TypeOK` |
| `approval_serial` | 1 process, 3 commands, 2 tickets (one whose order cannot be built), 3 roles, 1 death, fair | `ImplementsLifecycle`; `OneOrderUnlessLost`; `AuditedEventually` |
| `approval_duplicate` | 2 processes, no death | *violated:* `NoDuplicateOrder` |
| `circuit_breaker` | 2 recorders, 3 manual fills and a synced one on two keys, losses that only together reach the limit exactly, a gain that undoes the breach, two rows per fill, fair; beside them two fills at the edges of KST days, with and without fractions, in two offsets | `BreachIsCaught` (no unexcused breach is overlooked by overlapping recorders), `BreachTripsBreaker`, `KstFillsAreOfTheirDay` (a sum over fills in KST is that of their day) |
| `fill_sync_serial` | 1 sync at a time, 4 rows of which two share a key and one has no P&L, deaths without bound; beside it any two rows of the broker, in any order, synced again and again | `PassedIsRecorded`, `EvidenceFirst`, `ImplementsLedger`, `SumIsExact` (what is recorded is the sum of what was passed, as far as numbers tell fills apart) |
| `risk_review` | quantities 1 to 5, prices 0 to 12 around an order limit of 10, ten balances, two symbols, both sides; every quote and balance, histories of up to two rows, days around a leap day | `WithinLimits`, `ReducesLeast`, `ApprovedIsBacked` (a ticket of a run rests on a price and a balance the broker sent, and a surplus of withdrawals is marked), `CoversOneYear` |
| `scan_days` | 1 scan in four configurations (guarded, forced, not enforced, without breaker or chat), 2 tickets of which one alone reaches the daily amount and one does not, 3 moments with the change of the UTC date between them, fair | `BlocksHaltScans` (breaker and loss limit stop every guarded scan that had not passed their check), `CooldownKept`, `DailyBuyKept` (by what the scan could see when it looked), `ToldEventually` |
| `telegram_bridge` | every inbox of 3 messages on 2 tickets, batches of 1, 2 deaths, all flags, fair | `NothingForgotten`, `FirstCommandDecides`, `DecidedEventually`, `ImplementsLifecycle` |
| `calendar` | 1 loader, any number of loads of one or two years out of three, 4 dates of which one is also configured by hand, failures and deaths without bound; 5 days over a New Year with a weekend, moments around both limits of the session, holidays spelled right and wrong, three settings of the years and the source | `CompleteUnlessWarned` (a silent load knows every published date), `FailsSafe` (any load that returns knows what had been cached), `CacheKeepsDates`, `DecisionIsRight` (a scan's decision is right unless something named excuses it) |
| `lessons` | 1 analyzer, 1 exporter, 2 analyses over 2 tickets and 2 days (a loss that a later gain makes up for; a ticket never executed), 1 note, 1 death while writing; beside them digests of up to three analyses with up to two of three lessons | `DigestAddsUp`, `AnalysesAdvance` (a later analysis is not staler), `FileIsWhole` (`NotesKept`: the user's notes outlive exports; `LessonsTraced`: every lesson of the file leads to its tickets), `HealsInTwo` (two completed exports repair any torn file that can still be read), `PicksAreRight` (best, worst and most frequent agree with a definition that counts places instead of folding) |
| `automation_status` | 2 processes, 2 runs in different seconds, overlapping or not, with and without broker data, a report under way, 1 analysis | `RunIsWhole` (`CompletedIsWhole`: what the id of a completed run leads to is of that run; `RowsLeadBack`: wherever a run dies, what it has stored leads back to its beginning), `DecisionStands`, `ReportIsFresh` (a snapshot in a report is of the newest data stored when it was asked for, of newer, or of a run that was not over when the newest was begun) |
| `trading_day` | 1 scan in three configurations, 1 recorder, a synced loss of the scanned symbol and a loss of another symbol, each reaching the limit, 2 days | `ImplementsScan` (the composition implements `ScheduledScan`), `BreachHaltsScans` (a breach stops every guarded scan that comes to the check of the breaker afterwards, and one of the scanned symbol stops it in any case) |

### What the documents say and the code does otherwise

Each of these configurations checks one sentence of the repository, and TLC answers with a behaviour of
the model that violates it. The first is the run `approval_duplicate`; the others, and
`KrxCalendarOverlap.cfg`, are run by hand (`tlc -config X.cfg M`). The hazards of `PROJECT.json` name them
where no property of a passing run can catch what goes wrong.

| Configuration | Module | Violated, and how |
|---|---|---|
| `ApprovalDuplicate.cfg` | `MCApprovalWorkflow` | `NoDuplicateOrder` (`docs/safety-design.md:40`: duplicate orders are detected and blocked): two final approvals of one ticket both read `live_manual_ready`, both call the broker, and only then write the status. `OneOrderUnlessLost` is what does hold: with one handler at a time a second order needs a handler that died |
| `ApprovalOverwritten.cfg` | `MCApprovalWorkflow` | `RejectionStands` (`docs/telegram-thread-502-full-log.md:5520`: a rejected ticket is not decided again): the status is updated by ticket id, over whatever it has become since it was read |
| `CircuitBreakerSync.cfg` | `MCCircuitBreaker` | `SyncedBreachIsCaught` (`README.md:160`: the breaker applies at once): the fill sync records the loss that reaches the limit and does not evaluate the breaker |
| `FillSyncOverlap.cfg` | `MCFillSync` | `NoDuplicateEvent` (`README.md:169`: the dedupe key prevents duplicates): two overlapping syncs both find the key absent; no `UNIQUE` constraint guards the table. `ImplementsLedger` is what does hold of one sync at a time |
| `ScheduledScanCooldown.cfg` | `MCScheduledScan` | `CooldownFromExecution` (`docs/safety-design.md:30`, `app/automation/operational_risk.py:59`: since the last execution): the cooldown counts from `created_at`, so a ticket executed later than it was proposed has a shorter one, or none |
| `ScheduledScanBuyLimit.cfg` | `MCScheduledScan` | `DailyBuyWithinLimit` (`docs/safety-design.md:28`): two tickets that wait together are executed together |
| `TradingDayOrder.cfg` | `MCTradingDay` | `NoOrderBeyondLossLimit` (`docs/safety-design.md:40`: all new orders are blocked): an approval reads neither the breaker nor the losses. Nor does it look at the clock (`app/policies/risk_policy.yaml:10`) |
| `ChiefSameSecond.cfg` | `ChiefRuns` | `EveryRunSaved` (`docs/safety-design.md:44`): a run id is a second, and rows keyed by it are replaced |
| `AutomationStatusPending.cfg` | `AutomationStatus` | `WaitingIsShown` (`README.md:204`): the report looks for `pending_user_approval`; the scan stores `risk_approved` |
| `DigestRepeated.cfg` | `MCStrategyLessons` | `TicketsCountedOnce` (`docs/implementation-handoff.md:235`: ticket count): the digest counts analyses, and a ticket may be analysed more than once a day |
| `KrxCalendarOverlap.cfg` | `MCKrxCalendar` | `FailsSafe`, the weaker side of a property above: of two loaders at once the slower one replaces a newer list by its older one |

Others need only another line in the configuration of a run:

| In | put | Violated, and how |
|---|---|---|
| `ApprovalConcurrent.cfg` | `INVARIANT EveryOrderLogged` | a handler dies after the broker took the order |
| `FillSyncSerial.cfg` | `RowSet <- RevisedRows`, `INVARIANT NothingTwice` | the dedupe key contains the P&L, so a corrected fill is a new one (`README.md:169`) |
| `ScheduledScanDays.cfg` | `OneDatabase = FALSE`, `INVARIANT ToldIsVisible` | the workflow writes `data/trading.db` whatever `KIWOOM_TRADING_DB` says; the user is told of a ticket that the approval does not find (`README.md:80`, `README.md:97`) |
| `ScheduledScanDays.cfg` | `INVARIANT KstDayBuyKept` | a ticket of a scan forced before 09:00 KST carries the UTC date of the day before and is not counted |
| `CircuitBreaker.cfg` | `INVARIANT RecordedCounts` | the text of a fill given in another offset sorts into another day, and the sum does not have it |
| `KrxCalendar.cfg` | `INVARIANT NoPretendedOpen` | the words of the class (`app/automation/krx_calendar.py:26`), when neither the service nor a cache answers: the load warns and the day counts as open |
| `StrategyLessons.cfg` | `INVARIANT ManualNotesPreserved` | `README.md:197`; a note written while an export runs |
| `StrategyLessons.cfg` | `Analyzers = {a1, a2}`, `INVARIANT AnalysesAdvance` | the staler of two analyses of a ticket is stored last, and is the one `get_latest_post_trade_analysis` returns |
| `StrategyLessons.cfg` | `Exporters = {x1, x2}`, `INVARIANT NotesKept` | one export reads the file the other has truncated |
| `StrategyLessons.cfg` | `Exporters = {x1, x2}`, `INVARIANT HealsInTwo` | two exports read the same torn file, and each repairs it by one merge |

The type invariants of the modules hold in the configurations above too; those of section 5 are proved.

### Bounds, and why they are enough

- *Processes: two.* Handlers, recorders, syncs and scans only meet through rows, and a race is
  between one that reads and one that writes in between. The theorems of section 5 cover any
  number.
- *Commands: three.* A live order takes two, and the third is the repeated, late or opposite
  one. *Deaths: one or two*, since a handler does not survive its death; `MaxCrashes` bounds them
  in `ApprovalWorkflow` and `TelegramBridge`. The scan, the recorders and the syncs die without
  bound.
- *Rows: `MaxRows` = 2* per fill in `CircuitBreaker` (a fill recorded twice by hand).
- *Time: `MaxTime`* is the last moment; with `DayLength` 3 and `UtcLag` 1 the last moment before
  09:00 and two session moments are told apart, which is all the guard's comparisons can tell.
- *Messages: `MaxUpdates` = 3* with `Batch` = 1, so that batches, their order and redelivery of
  one, two or three updates all occur.
- *Calendar: three years of two, one and one dates*, so that a year can be complete, partly cached or
  empty, the loop has a first, a next and a last round, and the years of the day before New Year and
  of the day after differ; five days, two before it. Loads, failures and deaths are not bounded.
- *Analyses: `MaxAnalyses` = 2, `LastDay` = 1*: two rows of one ticket or of two, on one day or two.
  `MaxDeaths` = 1: the properties speak of what one death leaves and what two exports make of it, if
  they can read it; every prefix of the text occurs, and the number of completed exports is not bounded.
- *Runs: two* in `AutomationStatus`, one after the other or overlapping; `MaxSecond` bounds the clock,
  not the order of the steps. Deaths are not bounded. The constraint `OneThingAtATime` does not follow a
  report that is shown any further, nor one over overlapping runs past a switch of the breaker or an
  analysis: the report reads each table for itself, so these only multiply. Without the other, each
  occurs in full, and runs without a report are not cut at all.
- *Broker data: `MaxTransfers` = 2* rows of the history, so that the order of rows and the comparison of
  two sums matter; prices on both sides of the order limit, amounts whose three tenths are just
  enough and just too little, with either sign.
- *Fill rows: `MaxFills` = 2*: a key collides with one other, a row that raises has one behind it.
- *Times*: a day of `EventTimes` is short, with an instant before, at and half a second after each
  boundary; two events, which add up or are on two days.
- *Digest: three rows, two lessons each, `Limit` = 2* instead of five, so that something is cut off.
- Symmetry is used in `approval_concurrent` only, which checks no temporal property, over what its
  properties do not tell apart.
- `CHECK_DEADLOCK FALSE` is in every configuration because every system here may come to rest:
  the user's commands, messages or moments are used up, or the one review is made.

## 4. Fairness

Only what the operating system gives: a process that has begun and is not dead takes its next
step (`WF` of a handler's, recorder's, scan's or bridge's steps). Nothing makes a user answer, a
scan begin, or a dead process come back, with one exception: the bridge is started without
`--once` again and again as long as it is down (`SF` in `TelegramBridge`), which is how
`README.md:109` runs it. Strong fairness is needed because `--once` runs may keep taking the
turn. Deaths need no assumption: a history variable names the messages, tickets or keys they
hit, and the liveness properties except those; the bridge's deaths are bounded. Calendar, analyses
and lessons are called by hand or by a scan and owe nobody an end: they have no liveness property.
The modules that follow one run from its request to its result (`ChiefRuns`, `BrokerData`,
`MarketSession`, `FillRows`) promise nothing about its end either: every request may fail, and
nothing repeats it.

## 5. Proofs

Every theorem holds for every value of the constants under the named assumptions of the modules,
which only type them (`KrxCalendarAssumption`, `FillRowsAssumption` and so on; TLC evaluates each
in a run), but for what is named here:

- `ASSUME Serial` (one process at a time) is the configuration the repository documents: one bridge,
  one manual sync, one cron scan. The configurations of section 3 with two processes show what happens
  without it.
- `ASSUME OneAnalyzer` and `ASSUME OneExporter` in `PostTradeProofs`, for the theorems that the table names:
  both scripts are run by hand. The second analyzer and the second exporter of section 3 show why.
- `ASSUME Apart` in `OperatorProofs`: no two runs enter within one second, which is what a
  run id can tell apart. `ChiefSameSecond.cfg` shows what happens otherwise.
- `MarketSessionAssumption` has the days lie in two successive years: no load takes longer than that.
- `BrokerDataAssumption` has `Todays` be dates of the calendar; nothing bounds the year.

The pattern is the same in each module. The property is not inductive, because it says nothing of
a process that is half way, so it is strengthened by what each program counter knows of the value
in hand. `IInv` is the conjunction; each action has its lemma, `NextInv` or `NextStep` combines
them, and a temporal step by `PTL` ends the theorem.

| Module | Theorems | The strengthening, and why it is needed |
|---|---|---|
| `ApprovalWorkflowProofs` | `TypeCorrect`, `SubmittedIsOrdered`, `OrdersAreApprovedTwice`, `AuditIsComplete`, for any number of overlapping and dying handlers; with `Serial`, `NoSecondOrder`, `SerialRefinement` (the handlers implement `TicketLifecycle`) | `JobInv`: a message is in at most one pair of hands. `StepInv`: what a handler at each step has decided and done, notably that one about to write "submitted" has an order. `SentInv`: only sent messages leave traces. `ReadyInv`: a ready ticket got so by a first approval, on which `OrderInv` (an order was cleared by two approvals) rests. `FreshInv`: the row has not changed since the handler read it. `PlacedInv`: an order whose handler lives is stored or about to be |
| `CircuitBreakerProofs` | `TypeCorrect`, `NoBreachOverlooked`, for any number of overlapping recorders | `HandInv`, and that the sum over a key changes with events of that key only (`TotalOfOtherKeys`). The invariant excuses a breach while the recorder that will notice it has not set the breaker yet |
| | `ScansBesideRecorders` (`TradingDay` implements `ScheduledScan`), `BreachesHaltScans` | every step of a recorder is, for a scan, a switched breaker, losses that come or go, both at once, or nothing; `KeepHistory` gives `early` the value that `ScheduledScan` gives it. The second theorem puts `NoBreachOverlooked` and `BlocksHalt` together: a breach that nothing excuses and no recorder has in hand has the breaker on, and a scan that passed the check nevertheless passed it before |
| | `FillsAreOfTheirDay` (`EventTimes`) | `TimesInv`: later fills have later numbers, so the fills of the sync that follow leave the sum of the last recorded fill behind. `WholeDays` and `BeforeMidnight` reduce the order of two texts to that of their days, if both carry the offset of Seoul |
| `BrokerProofs` | `TypeCorrect`, `NoFillLost`, `EvidenceIsFirst`; with `Serial`, `SerialImplementsLedger` (`FillSync`) | `HandInv`: a row past its first step has a snapshot. `FreshInv`: the duplicate check still holds at the insert |
| | `SumsAreExact` (`FillRows`), for any rows and revisions, and any number of runs | `RecordedInv`: the recorded events are those of the passed fills, one for each. A run is a fold over the rows (`FoldKeeps`); fills that the broker tells apart have different keys (`KeysDiffer`), so that the sum over events is the sum over fills (`SumImage`) |
| | `ApprovedIsWithinLimits`, `ReviewOnlyReduces`, `ReviewReducesLeast` (`RiskReview`, and all that `BrokerData` can come to) | `ReviewInv` types what is reviewed. The rest is arithmetic: `Division` and `Monotone` state what integer division gives, `ShrinkReduces` what one fit does, applied twice |
| | `LiveApprovalsAreBacked`, for any answers and histories of any length | `BrokerInv`: what is reviewed in a run with broker data was read out of the answers. `LiveIsPaidFor` follows a number from its cell to the ticket: zero, which a missing cell becomes, is a price and a balance at which nothing is approved. `SummaryIsTotals`: the loop over the history comes to the two sums |
| | `HistoryIsOfOneYear`, for every day of the calendar | `RangeInv`: the range is that of a day which the year before has too. `LeapDaysStep` (a year adds its own leap day), `DayAfterCounts` (the day after counts one more, in a month, at its end and at the turn of the year) and `OneYearIsWhole` |
| `ScheduledScanProofs` | `TypeCorrect`, `RowsComeInOrder`, `BlocksHalt`, `CooldownRespected`, `DailyBuyRespected`, for any number of overlapping and dying scans | `HandInv`: which rows of the ticket in hand are stored. `OwnInv`: no two scans share a ticket. `BlockInv`, `CooldownInv` and `FrugalInv` state what a scan that has passed a check may rely on. The guard looks only at the latest executed ticket: a finite set of numbers has a greatest, which makes that enough for all. The amounts of more tickets are no smaller a sum (`BoughtMonotone`), so what was executed before the scan began is below the limit if what it saw later is |
| `OperatorProofs` | `BridgeTypeCorrect`, `NoUpdateForgotten`, `FirstDecides`, `BridgeImplementsLifecycle` (`TelegramBridge`) | `BatchInv`, `DealtInv`: what is below the offset, and what precedes the update in hand, has been dealt with. `ClosedInv`: a deciding command that was handled has closed its ticket, so that a redelivered one finds it closed |
| | `StatusTypeCorrect`, `ReportsAreFresh`, for any runs, overlapping or not; with `Apart`, `RunsAreWhole`, `DecisionsStand` (`AutomationStatus`, `ChiefRuns`) | `IdInv`: a run id belongs to one run, so that what a run replaces was its own. `AuthorInv`, `RowInv`: a row with an id is of the run with that id, and is there once the run has come past it. `ReviewInv`: the runs that ended have one review each. `BackInv`: what a process that has a row in hand has stored before. `TogetherInv`: a run under way has met every run begun after it; hence `SnapshotInv`, the last row of a table is behind another only if their runs met (`AppendUnderWay`). `NewestIsKnown`: the newest of a table is one of its rows, so `base` is there still when the report reads, and `ReadInv`: what it has read so far is not behind it |
| `KrxCalendarProofs` | `TypeCorrect`, `SilentLoadIsComplete`, `CacheHoldsPublished`, for any number of loaders; with `Serial`, `LoadFailsSafe`, `CacheNeverForgets` | `PromiseInv`, `OwedInv`: every date is loaded, or belongs to a year of `todo` that is still to be asked, which is what the loop knows in its middle. `AnswerInv`, `KeepInv`: what is about to be cached was published and contains what was cached before. `FailsSafe` needs that an absent file was never written and that a torn one raises |
| | `SessionsLoad` (the loads of `MarketSession` are those of `KrxCalendar`), `SessionsDecideRightly` | `ListInv`, `CoverInv`: what a scan has loaded was published or configured, and contains, unless it warned or was told other years, what was published when it began, for the year of the start and the next. `Right` is a decision taken with that list, of the minute and the day at which the clock was read (`HoursInMinutes`) |
| `PostTradeProofs` | `PostTradeTypeCorrect`, `DigestsAddUp`, for any number of overlapping and dying analyzers; with `OneAnalyzer`, `LatestKnowsMost` (`PostTrade`) | `SoundInv`: the P&L of a row, or in the hands of an analyzer, is the sum over the first so many events of its ticket. Events are only appended, so the first so many stay what they were (`FirstStay`). `FreshInv`: no stored row of the ticket knows more than the analyzer has just read, which a second analyzer could change |
| | `LessonsTypeCorrect`, `LessonsAreTraced`, for any number of exporters; with `OneExporter`, `FileStaysWhole`, `FileHealsInTwo` (`StrategyLessons`) | An export never writes what `PostTrade` reads (`LessonsImplement`), so what is proved of `PostTrade` holds beside it. `TextsInv`: a text is made of markers, notes, scraps and blocks of groups that some first rows of the table have. `GroupsInv`, `TracedInv`: what an exporter has in hand, and what the file has, are the groups of the rows it read, which stay where they are. `FileInv` says of the file, and of the text an exporter has read, that the one end marker is behind every start marker (`Ordered`), how far it is healed, and that the notes are outside of the block (`Placed`). The first export after a death makes sure of the end marker, the second leaves one start marker (`Healed`); a second exporter would merge what the first has not yet healed |
| | `DigestTypeCorrect`, `DigestPicksRight` (`DigestLessons`), for any rows, lessons and limit | The loops are folds: `BestIsFirst`, `WorstIsFirst` and `DayCounted` say what each has when it has come past some of the rows (`Counts`: how often a lesson is noted, and of two lessons whose first place is first), `CountPlace` that one round keeps it. `RankedIs`: the key orders the counted lessons totally, so the number of those before a lesson is its place, and the sorted sequence exists and has all of them |
| `FiniteSums` | lemmas only | what sums and folds over finite sets are, see below |

Refinement is proved as TLC checks it: initial states map to initial states, and every step maps to
a step of the abstract specification or a stutter, under the invariant.

*Sums and folds.* The induction rules of the library take an operator as a parameter, which the provers
here cannot instantiate. `FiniteSums` goes round them: a set of numbers without the first number that
fails a claim has no such number (`NatInduct`), and the same for the finite subsets of a set by their
size (`SetInduct`). The tables that the community modules define their folds by are then shown to exist
and to agree, and so a sum is what one expects: nothing for the empty set, one term more for one
element more, no smaller over a larger set of amounts.

## 6. What is only model-checked, and what is not modelled

Model-checked only:

- Liveness under fairness (`AuditedEventually`, `BreachTripsBreaker`, `ToldEventually`,
  `DecidedEventually`): the prover reasons about neither fairness nor `ENABLED`.
- The violated properties of section 3: a counterexample is all there is to show of them.

Not modelled:

- The Telegram client (pure I/O: its failures are the failures of the steps that call it),
  settings, policy documents, tools and rehearsal scripts. Of the Kiwoom REST client, the token
  (kept for one process, never renewed) and the fields of the requests.
- Market analysis and recommendation, whose answers are constants of the code; `BrokerData` has the
  one condition that depends on the input, the symbol.
- Wording: reasons, summaries, reports.
- SQLite itself: each method of the repository is one atomic step; a locked database raises and is a
  death of the caller. Foreign keys and migrations do not occur in the code.
- The KRX calendar's parsing of the service's answer: the model starts from sets of dates.

## 7. Plan

In the order in which it was, and will be, worked off:

1. *Done.* Approval workflow, breaker, fill sync, risk review, scan, bridge, calendar, analyses and
   lessons, with runs; the theorems of section 5.
2. *Done.* Scan and breaker over one database; run ids and every row of a run; the broker's data; the
   keys of fills; times as texts; the session and its holidays, over the loads that bring them; the
   status report; the digest's ranking. Each joins the run of the component it belongs to.
3. *Done.* Theorems about the compositions: `TradingDay` implements `ScheduledScan`, a breach halts the
   scans, a session loads as `KrxCalendar` has it and decides rightly; about `ChiefRuns` and
   `AutomationStatus`; about the broker's data (`ApprovedIsBacked`, `CoversOneYear`, `SumIsExact`),
   recorded times and the daily amount, on the sums of `FiniteSums`.
4. *Done.* Theorems about the analyses (`DigestAddsUp`; `AnalysesAdvance` for one analyzer), the exports
   (`LessonsTraced`; `FileIsWhole` and `HealsInTwo` for one exporter) and the digest (`PicksAreRight`, for
   digests of any length). With them every invariant and every safety property that a run checks is
   proved.

What is left are the liveness properties, for want of a prover, and parts of the system that section 6
lists as not modelled.
