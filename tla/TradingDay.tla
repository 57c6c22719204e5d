------------------------------ MODULE TradingDay ------------------------------
(***************************************************************************)
(* The scans of ScheduledScan and the recorders of CircuitBreaker over one *)
(* database.  They meet in two tables: runtime_state, which a recorder or  *)
(* the operator sets and a scan reads, and realized_pnl_events, which the  *)
(* recorders fill and a scan sums for its own symbol and day.              *)
(*                                                                         *)
(* The breaker is tripped by the losses of any symbol, and only by fills   *)
(* recorded by hand; the sum of the guard sees the events of the fill sync *)
(* as well, but one symbol only.                                           *)
(***************************************************************************)
EXTENDS CircuitBreaker

CONSTANTS
  Scanners, Tickets, Amount, MaxTime, DayLength, UtcLag, OpenTimes,  \* scans
  Cooldown, MaxDailyBuy, Configs, OneDatabase, NoTicket,
  Symbol         \* the symbol that is scanned

Days == 0 .. MaxTime \div DayLength

VARIABLES
  clock, status, created, executed_at, runs, reviews, scanPc,  \* ScheduledScan
  config, now, ticket, told, untold, seen, early,
  halted         \* history: the tickets executed while new orders should stop

scanning  == <<clock, status, created, executed_at, runs, reviews, scanPc,
               config, now, ticket, told, untold, seen>>
dayVars   == <<vars, scanning, early, halted>>

\* The guard's sum_realized_pnl, for the symbol it scans.
LossDays == {day \in Days : <<Symbol, day>> \in Breached}

\* Mutant: a loss beyond the limit counts as a breaker that is on.
BreakerOrLoss == IF breaker = "on" \/ LossDays # {} THEN "on" ELSE "off"

\* What the guard makes of the state: only "on" blocks, no row does not.
BreakerSeen == IF breaker = "on" THEN "on" ELSE "off"

Scanning == INSTANCE ScheduledScan
            WITH pc <- scanPc, breaker <- BreakerSeen, losses <- LossDays

\* A key of CircuitBreaker is here what it stands for, a symbol and a KST day.
ASSUME TradingDayAssumption ==
  Scanning!ScanAssumption /\ {Symbol} \X Days \subseteq Keys

DayTypeOK == TypeOK /\ Scanning!TypeOK /\ halted \subseteq Tickets

DayInit == Init /\ Scanning!Init /\ halted = {}

-----------------------------------------------------------------------------

\* The blocks there would be for a scan that looked now.
Blocks(s) ==
  {b \in {"breaker", "loss"} :
     IF b = "breaker" THEN breaker = "on" ELSE Scanning!LossLimitReached(s)}

\* A scan that is past a check when its block comes up was early.
KeepHistory(resumed) ==
  early' = [s \in Scanners |->
              (early[s] \ resumed)
                \cup {b \in Blocks(s)' \ Blocks(s) : Scanning!Passed(s, b)}]

\* Fills are recorded while scans are under way.
Record ==
  /\ \E r \in Recorders : \/ \E f \in Fills : Start(r, f)
                          \/ RecorderStep(r)
                          \/ Crash(r)
  /\ UNCHANGED <<scanning, halted>>
  /\ KeepHistory({})

\* The operator of manage_runtime_risk.py.
Operate ==
  /\ UNCHANGED <<scanning, halted>>
  /\ \/ SwitchOn /\ KeepHistory({})
     \/ SwitchOff /\ KeepHistory({"breaker"})

\* Scans run, and users decide, while fills are recorded.
Scan ==
  /\ UNCHANGED <<vars, halted>>
  /\ \/ \E s \in Scanners : \/ \E c \in Configs : Scanning!Start(s, c)
                            \/ Scanning!ScanStep(s)
                            \/ Scanning!Crash(s)
     \/ \E t \in Tickets : Scanning!Reject(t)
     \/ Scanning!Tick

\* An approval reads neither the breaker nor the losses.
Execute(t) ==
  /\ UNCHANGED vars
  /\ Scanning!Execute(t)
  /\ halted' = IF breaker = "on" \/ Scanning!Day(clock) \in LossDays
               THEN halted \cup {t} ELSE halted

DayNext == Record \/ Operate \/ Scan \/ \E t \in Tickets : Execute(t)

DaySpec == DayInit /\ [][DayNext]_dayVars

-----------------------------------------------------------------------------

\* What ScheduledScan assumes of breaker and losses is what the recorders do, so
\* its properties hold of scans over a database that recorders write to.
ImplementsScan == Scanning!Spec

\* A breach of any symbol, on any day, stops every guarded scan that comes to the
\* check of the breaker afterwards, unless the operator has resumed the scans,
\* the recorder died, or the fill sync recorded the breach; a breach of the
\* scanned symbol on the day of the scan stops it in any case.
BreachHaltsScans ==
  \A s \in Scanners : Scanning!Guarded(s) =>
    /\ /\ config[s].breaker /\ Scanning!Passed(s, "breaker")
       /\ \E k \in Unexcused : ~ InFlight(k)
       => "breaker" \in early[s]
    /\ Scanning!LossLimitReached(s) /\ Scanning!Passed(s, "loss")
       => "loss" \in early[s]

\* When the daily loss limit is reached every new order is blocked
\* (docs/safety-design.md, Failure Handling).
NoOrderBeyondLossLimit == halted = {}
=============================================================================
