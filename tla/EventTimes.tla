------------------------------- MODULE EventTimes -------------------------------
(***************************************************************************)
(* Times as they are stored and compared.  The tables keep ISO texts and   *)
(* SQLite compares them as texts; sum_realized_pnl selects the events of a *)
(* KST day by two such texts.  A text carries the offset it was written    *)
(* in: +09:00 for the fill sync and for a fill recorded now, any offset    *)
(* for --occurred-at of record_realized_pnl_event.py, +00:00 for tickets.  *)
(*                                                                         *)
(* An instant is counted in half seconds; a whole second is written        *)
(* without a fraction.                                                     *)
(***************************************************************************)
EXTENDS Integers, FiniteSetsExt

CONSTANTS
  Instants,      \* the instants of the fills, in half seconds
  Offsets,       \* the offsets in which they may be written, in seconds
  Kst,           \* the offset of Seoul
  DaySeconds,    \* how long a day is
  Realized,      \* what each fill may realize
  MaxEvents      \* bound: how many fills are recorded

ASSUME EventTimesAssumption ==
  /\ Instants \subseteq Nat /\ Offsets \subseteq Int /\ Kst \in Nat
  /\ DaySeconds \in Nat \ {0} /\ Kst < DaySeconds
  /\ Realized \subseteq Int /\ MaxEvents \in Nat

VARIABLES
  stored,        \* realized_pnl_events
  total,         \* daily_pnl, as process_fill found it for the last fill
  last           \* the fill it was called with

timeVars == <<stored, total, last>>

Event == [id : 1 .. MaxEvents, instant : Instants, offset : Offsets, pnl : Realized]
NoEvent == [id |-> 0, instant |-> 0, offset |-> Kst, pnl |-> 0]

TimesTypeOK ==
  /\ stored \subseteq Event
  /\ total \in Int
  /\ last \in stored \cup {NoEvent}
  /\ \A e, f \in stored : e.id = f.id => e = f

TimesInit == stored = {} /\ total = 0 /\ last = NoEvent

-----------------------------------------------------------------------------

LocalDay(instant, offset) == (instant \div 2 + offset) \div DaySeconds

\* isoformat: the day, the time, "+" or "." behind it, and the offset; among the
\* characters "+" comes before ".".
IsoText(instant, offset) ==
  <<LocalDay(instant, offset), (instant \div 2 + offset) % DaySeconds,
    instant % 2, offset>>

\* The order of texts.
Before(a, b) ==
  \E i \in DOMAIN a : a[i] < b[i] /\ \A j \in 1 .. i - 1 : a[j] = b[j]

\* Mutant: the end of the day is the last second of it.
DayBoundsToSecond(instant) ==
  LET start == 2 * (LocalDay(instant, Kst) * DaySeconds - Kst) IN
  <<IsoText(start, Kst), IsoText(start + 2 * (DaySeconds - 1), Kst)>>

\* Midnight in Seoul before an instant, and the next, as texts.
DayBounds(instant) ==
  LET start == 2 * (LocalDay(instant, Kst) * DaySeconds - Kst) IN
  <<IsoText(start, Kst), IsoText(start + 2 * DaySeconds, Kst)>>

\* occurred_at >= start AND occurred_at < end
Selected(rows, bounds) ==
  {e \in rows : /\ ~ Before(IsoText(e.instant, e.offset), bounds[1])
                /\ Before(IsoText(e.instant, e.offset), bounds[2])}

SumPnl(rows) == MapThenSumSet(LAMBDA e : e.pnl, rows)

\* process_fill: the fill is stored, and the sum of its day taken.
ProcessFill(e) ==
  /\ stored' = stored \cup {e}
  /\ total' = SumPnl(Selected(stored', DayBounds(e.instant)))
  /\ last' = e

\* The fill sync stores a fill, in KST.
SyncFill(e) ==
  /\ e.offset = Kst
  /\ stored' = stored \cup {e}
  /\ UNCHANGED <<total, last>>

TimesNext ==
  \E e \in Event : /\ e.id = Cardinality(stored) + 1
                   /\ ProcessFill(e) \/ SyncFill(e)

TimesSpec == TimesInit /\ [][TimesNext]_timeVars

-----------------------------------------------------------------------------

\* Whatever else is in the table, a fill written in KST is selected for exactly its
\* own KST day, to the last half second of it; so if all are, the total compared
\* with the loss limit was that of the day.
KstFillsAreOfTheirDay ==
  /\ \A e, f \in stored : e.offset = Kst =>
       (e \in Selected(stored, DayBounds(f.instant))
          <=> LocalDay(e.instant, Kst) = LocalDay(f.instant, Kst))
  /\ last # NoEvent /\ (\A e \in stored : e.offset = Kst) =>
       total = SumPnl({e \in stored : /\ e.id <= last.id
                                      /\ LocalDay(e.instant, Kst) = LocalDay(last.instant, Kst)})

\* A fill that is recorded counts in the sum the breaker is applied by (README.md).
RecordedCounts ==
  last # NoEvent => last \in Selected(stored, DayBounds(last.instant))
=============================================================================
