--------------------------- MODULE CircuitBreaker ---------------------------
(***************************************************************************)
(* The runtime circuit breaker and the realized P&L events that trip it:   *)
(* PostFillCircuitBreaker.process_fill (app/automation/post_fill_risk.py), *)
(* the fill sync's record_realized_pnl_event_once and the runtime_state    *)
(* table (app/storage/repository.py), and the operator's switch            *)
(* (scripts/manage_runtime_risk.py).                                       *)
(*                                                                         *)
(* process_fill is three transactions -- insert the event, sum the day,    *)
(* set the breaker -- and several recorders and fill syncs may overlap, die*)
(* half way, and race with the operator.                                   *)
(***************************************************************************)
EXTENDS Integers, FiniteSetsExt

CONSTANTS
  Fills,       \* the fills a realized P&L event is recorded for
  SyncFills,   \* those that arrive through the fill sync
  Keys,        \* a symbol on a KST day, what the losses are summed over
  Key,         \* the symbol and the day of each fill
  Pnl,         \* the realized P&L of each fill, negative for a loss
  Limit,       \* max_daily_loss_krw
  Recorders,   \* the processes that record fills
  MaxRows,     \* bound: how many rows one fill may leave in the table
  NoFill       \* no fill in hand

ASSUME BreakerAssumption ==
  /\ SyncFills \subseteq Fills
  /\ Key \in [Fills -> Keys]
  /\ Pnl \in [Fills -> Int]
  /\ Limit \in Nat
  /\ MaxRows \in Nat
  /\ NoFill \notin Fills

VARIABLES
  events,      \* realized_pnl_events: how many rows each fill has
  breaker,     \* runtime_state["circuit_breaker"]
  pc,          \* where each recorder is
  fill,        \* the fill each recorder has in hand
  unchecked,   \* history: the keys whose latest event came from the fill sync
  lost,        \* history: the keys whose check died with its recorder
  waived       \* history: the keys without an event since the operator resumed
               \* the scans, or since the beginning

vars == <<events, breaker, pc, fill, unchecked, lost, waived>>

TypeOK ==
  /\ events \in [Fills -> 0 .. MaxRows]
  /\ breaker \in {"unset", "on", "off"}
  /\ pc \in [Recorders -> {"idle", "check", "insert", "sum", "set"}]
  /\ fill \in [Recorders -> Fills \cup {NoFill}]
  /\ unchecked \subseteq Keys
  /\ lost \subseteq Keys
  /\ waived \subseteq Keys

Init ==
  /\ events = [f \in Fills |-> 0]
  /\ breaker = "unset"
  /\ pc = [r \in Recorders |-> "idle"]
  /\ fill = [r \in Recorders |-> NoFill]
  /\ unchecked = {}
  /\ lost = {}
  /\ waived = Keys

-----------------------------------------------------------------------------

\* sum_realized_pnl over the events of one symbol and day.
DayTotal(ev, k) ==
  SumFunction([f \in {g \in Fills : Key[g] = k} |-> ev[f] * Pnl[f]])

Breached == {k \in Keys : DayTotal(events, k) <= -Limit}

Finish(r) ==
  /\ pc' = [pc EXCEPT ![r] = "idle"]
  /\ fill' = [fill EXCEPT ![r] = NoFill]

Goto(r, label) ==
  /\ pc' = [pc EXCEPT ![r] = label]
  /\ UNCHANGED fill

\* process_fill, or the fill sync on a derived event, takes up a fill.
Start(r, f) ==
  /\ pc[r] = "idle"
  /\ pc' = [pc EXCEPT ![r] = IF f \in SyncFills THEN "check" ELSE "insert"]
  /\ fill' = [fill EXCEPT ![r] = f]
  /\ UNCHANGED <<events, breaker, unchecked, lost, waived>>

\* has_realized_pnl_dedupe_key: a fill that is already stored is skipped.
CheckDuplicate(r) ==
  /\ pc[r] = "check"
  /\ \/ events[fill[r]] > 0 /\ Finish(r)
     \/ events[fill[r]] = 0 /\ Goto(r, "insert")
  /\ UNCHANGED <<events, breaker, unchecked, lost, waived>>

\* record_realized_pnl_event; the fill sync is then done with the fill.
InsertEvent(r) ==
  LET f == fill[r]  k == Key[f] IN
  /\ pc[r] = "insert"
  /\ events[f] < MaxRows
  /\ events' = [events EXCEPT ![f] = @ + 1]
  /\ lost' = lost \ {k}
  /\ waived' = waived \ {k}
  /\ \/ f \in SyncFills /\ Finish(r) /\ unchecked' = unchecked \cup {k}
     \/ f \notin SyncFills /\ Goto(r, "sum") /\ unchecked' = unchecked \ {k}
  /\ UNCHANGED breaker

\* Mutant: the fill is compared with the limit, not the total of its day.
SumFillOnly(r) ==
  /\ pc[r] = "sum"
  /\ \/ Pnl[fill[r]] <= -Limit /\ Goto(r, "set")
     \/ Pnl[fill[r]] > -Limit /\ Finish(r)
  /\ UNCHANGED <<events, breaker, unchecked, lost, waived>>

\* sum_realized_pnl and the comparison with the limit.
SumDay(r) ==
  /\ pc[r] = "sum"
  /\ \/ Key[fill[r]] \in Breached /\ Goto(r, "set")
     \/ Key[fill[r]] \notin Breached /\ Finish(r)
  /\ UNCHANGED <<events, breaker, unchecked, lost, waived>>

\* Mutant: the result is reported and the state not stored.
SetBreakerNot(r) ==
  /\ pc[r] = "set"
  /\ Finish(r)
  /\ UNCHANGED <<events, breaker, unchecked, lost, waived>>

\* set_runtime_state("circuit_breaker", "on", ...).
SetBreaker(r) ==
  /\ pc[r] = "set"
  /\ breaker' = "on"
  /\ Finish(r)
  /\ UNCHANGED <<events, unchecked, lost, waived>>

\* The recorder dies; an event it has already stored is left unexamined.
Crash(r) ==
  /\ pc[r] # "idle"
  /\ lost' = lost \cup (IF pc[r] \in {"sum", "set"} THEN {Key[fill[r]]} ELSE {})
  /\ Finish(r)
  /\ UNCHANGED <<events, breaker, unchecked, waived>>

\* The operator halts the scans, or resumes them whatever the losses.
SwitchOn ==
  /\ breaker' = "on"
  /\ UNCHANGED <<events, pc, fill, unchecked, lost, waived>>

SwitchOff ==
  /\ breaker' = "off"
  /\ waived' = Keys
  /\ UNCHANGED <<events, pc, fill, unchecked, lost>>

RecorderStep(r) ==
  CheckDuplicate(r) \/ InsertEvent(r) \/ SumDay(r) \/ SetBreaker(r)

Next ==
  \/ \E r \in Recorders : \E f \in Fills : Start(r, f)
  \/ \E r \in Recorders : RecorderStep(r) \/ Crash(r)
  \/ SwitchOn \/ SwitchOff

\* A recorder that has started carries on until it ends or dies.
Fairness == \A r \in Recorders : WF_vars(RecorderStep(r))

Spec == Init /\ [][Next]_vars
FairSpec == Spec /\ Fairness

-----------------------------------------------------------------------------

\* A recorder still has to sum, or to set the breaker, for the key.
InFlight(k) ==
  \E r \in Recorders : pc[r] \in {"sum", "set"} /\ Key[fill[r]] = k

\* The breaches nothing excuses: the operator has not resumed the scans since
\* the last event, no recorder died on it, the fill sync did not record it.
Unexcused == Breached \ (waived \cup lost \cup unchecked)

\* No breach of the daily loss limit is overlooked: once the recorders of a
\* symbol and day are done, the breaker is on if the day's total is at or below
\* the limit.  Overlapping recorders may each miss the other's event, but the
\* last insert is always followed by a sum.
BreachIsCaught == \A k \in Unexcused : breaker = "on" \/ InFlight(k)

\* A breach leads to the breaker being on, unless it is excused or made good.
BreachTripsBreaker == Unexcused # {} ~> breaker = "on" \/ Unexcused = {}

\* A breach found through the fill sync trips the breaker (README.md,
\* docs/safety-design.md).
SyncedBreachIsCaught ==
  \A k \in Breached \ (waived \cup lost) : breaker = "on" \/ InFlight(k)
=============================================================================
