------------------------------- MODULE FillRows -------------------------------
(***************************************************************************)
(* From broker rows to realized P&L events: the derivation of              *)
(* app/automation/fill_sync.py and runs of sync_rows, one after the other, *)
(* over a list of rows that grows and is revised.  FillSync takes the      *)
(* dedupe key of a row as given and lets runs overlap and die; here the    *)
(* key is computed from the columns of the row.                            *)
(*                                                                         *)
(* Of the alternative names of a column one stands for all, except for the *)
(* P&L, where the realized one comes before the evaluated one.             *)
(***************************************************************************)
EXTENDS Integers, SequencesExt

CONSTANTS
  RowSet,        \* the rows the broker may list
  MaxFills,      \* bound: how many fills there are
  Blank,         \* an empty or missing column
  Text           \* a column that is no number

Column == Int \cup {Blank, Text}
Row    == [realized : Column, evaluated : Column, order : Column, fill : Column,
           date : Column, time : Seq(0 .. 9)]

ASSUME FillRowsAssumption ==
  /\ RowSet \subseteq Row
  /\ MaxFills \in Nat
  /\ {Blank, Text} \cap Int = {}

VARIABLES
  broker,        \* the fills in the order in which they are listed
  rowOf,         \* the row of each fill
  recorded,      \* realized_pnl_events, by key and amount
  kept,          \* the keys of broker_fill_sync_snapshots
  passed,        \* history: the fills a run has got past
  revised        \* history: the fills listed again with another P&L, or without
                 \* numbers and with any other column

rowVars == <<broker, rowOf, recorded, kept, passed, revised>>

Fills == 1 .. Len(broker)

-----------------------------------------------------------------------------
(* The derivation. *)

IsNumber(cell) == cell \notin {Blank, Text}

\* _first_int over PNL_KEYS: blanks and texts are passed over.
IsDerivable(row) == IsNumber(row.realized) \/ IsNumber(row.evaluated)
Pnl(row) == IF IsNumber(row.realized) THEN row.realized ELSE row.evaluated

\* _mask_embedded_sensitive on a number: of 6 to 12 digits the first two and the
\* last two remain.  A blank or a text stays as it is.
Masked(cell) ==
  IF ~ IsNumber(cell) THEN <<cell>>
  ELSE LET size == IF cell < 0 THEN -cell ELSE cell
           rest == CHOOSE d \in 4 .. 7 : size \div 10 ^ d \in 10 .. 99
       IN IF size < 100000 THEN <<cell>>
          ELSE <<cell < 0, size \div 10 ^ rest, size % 100>>

\* The same on the digits of a time.
MaskedTime(time) ==
  IF Len(time) < 6 THEN time ELSE SubSeq(time, 1, 2) \o SubSeq(time, 5, 6)

\* _sanitize_row.
Sanitized(row) ==
  [row EXCEPT !.realized = Masked(@), !.evaluated = Masked(@),
              !.date = Masked(@), !.time = MaskedTime(@)]

Numbered(row) == row.order # Blank \/ row.fill # Blank

\* Mutant: fills are told apart by their order only.
KeyOfOrder(row) ==
  IF Numbered(row)
  THEN <<row.order, Pnl(row)>>
  ELSE <<Sanitized(row)>>

\* _dedupe_key; the hash of a row stands for the row.
RowKey(row) ==
  IF Numbered(row)
  THEN <<row.order, row.fill, Pnl(row)>>
  ELSE <<Sanitized(row)>>

\* _parse_occurred_at: the digits of the time are filled up with zeros on the
\* right, and datetime raises when the hour is none.  "9:05:10" gives 90 hours.
Hour(time) ==
  LET digits == SubSeq(time \o <<0, 0, 0, 0, 0, 0>>, 1, 6)
  IN 10 * digits[1] + digits[2]

Raises(row) == row.date # Blank /\ Hour(row.time) > 23

-----------------------------------------------------------------------------
(* Runs of the sync. *)

\* One turn of the loop of sync_rows: a row without P&L is skipped, one whose time
\* cannot be read ends the run, a known key is not recorded again.
SyncRow(state, f) ==
  LET row == rowOf[f]  key == RowKey(row) IN
  IF state.raised \/ ~ IsDerivable(row) THEN state
  ELSE IF Raises(row) THEN [state EXCEPT !.raised = TRUE]
  ELSE [state EXCEPT
    !.snapshots = @ \cup {key},
    !.events = IF \E e \in @ : e.key = key THEN @
               ELSE @ \cup {[key |-> key, amount |-> Pnl(row)]},
    !.passed = @ \cup {f}]

\* sync_rows with apply=True.
Sync ==
  LET start == [snapshots |-> kept, events |-> recorded, passed |-> passed,
                raised |-> FALSE]
      end   == FoldLeft(SyncRow, start, broker)
  IN /\ kept' = end.snapshots
     /\ recorded' = end.events
     /\ passed' = end.passed
     /\ UNCHANGED <<broker, rowOf, revised>>

\* Another fill is listed, first or last; the broker numbers the fills of an order.
Trade(row) ==
  /\ Len(broker) < MaxFills
  /\ \A f \in Fills : row.fill # Blank /\ row.order = rowOf[f].order
                        => row.fill # rowOf[f].fill
  /\ LET f == Len(broker) + 1
     IN /\ rowOf' = Append(rowOf, row)
        /\ broker' \in {<<f>> \o broker, Append(broker, f)}
  /\ UNCHANGED <<recorded, kept, passed, revised>>

\* The price has moved since the fill was last listed, and with it the evaluation.
Revise(f, amount) ==
  /\ IsNumber(rowOf[f].evaluated) /\ amount # rowOf[f].evaluated
  /\ rowOf' = [rowOf EXCEPT ![f].evaluated = amount]
  /\ revised' = IF IsNumber(rowOf[f].realized) /\ Numbered(rowOf[f])
                THEN revised ELSE revised \cup {f}
  /\ UNCHANGED <<broker, recorded, kept, passed>>

RowsInit ==
  /\ broker = <<>> /\ rowOf = <<>>
  /\ recorded = {} /\ kept = {} /\ passed = {} /\ revised = {}

RowsNext ==
  \/ \E row \in RowSet : Trade(row)
  \/ \E f \in Fills : \E amount \in {row.evaluated : row \in RowSet} \ {Blank, Text} :
       Revise(f, amount)
  \/ Sync

RowsSpec == RowsInit /\ [][RowsNext]_rowVars

-----------------------------------------------------------------------------

\* Each event has its snapshot, and each fill that a run has passed and that was
\* not revised since has both.
RowsTypeOK ==
  /\ broker \in Seq(Nat) /\ ToSet(broker) = Fills
  /\ rowOf \in Seq(Row) /\ Len(rowOf) = Len(broker)
  /\ passed \subseteq {f \in Fills : IsDerivable(rowOf[f]) /\ ~ Raises(rowOf[f])}
  /\ kept = {e.key : e \in recorded}
  /\ {RowKey(rowOf[f]) : f \in passed \ revised} \subseteq kept
  /\ revised \subseteq Fills

Distinguishable(f, g) ==
  LET a == rowOf[f]  b == rowOf[g] IN
  \/ a.order # b.order
  \/ a.fill # b.fill
  \/ a.order # Blank /\ Pnl(a) # Pnl(b)

\* As long as the broker tells fills apart by their numbers, the sum that the
\* guard and the breaker compare with the loss limit is exactly the P&L of the
\* fills the sync has passed, over any number of runs, wherever new rows are
\* listed, however columns are left blank or hold text, and whatever becomes of
\* the evaluation of a numbered fill that has its realized P&L.
SumIsExact ==
  revised = {} /\ (\A f, g \in passed : f # g => Distinguishable(f, g)) =>
    MapThenSumSet(LAMBDA e : e.amount, recorded)
      = MapThenSumSet(LAMBDA f : Pnl(rowOf[f]), passed)

\* Running the sync repeatedly records no fill twice (README.md).
NothingTwice ==
  \A f \in passed : rowOf[f].fill # Blank =>
    Cardinality({e \in recorded : Len(e.key) = 3 /\ e.key[1] = rowOf[f].order
                                /\ e.key[2] = rowOf[f].fill}) <= 1
=============================================================================
