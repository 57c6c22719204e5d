------------------------------ MODULE FillSync ------------------------------
(***************************************************************************)
(* KiwoomFillSync.sync_rows with apply=True (app/automation/fill_sync.py)  *)
(* over the repository methods it calls (app/storage/repository.py).       *)
(*                                                                         *)
(* Each run of scripts/sync_kiwoom_fills.py reads the rows of its date     *)
(* window from the broker and takes them one by one: snapshot, duplicate   *)
(* check and event are three transactions.  Runs may die anywhere, are run *)
(* again over the same window, and may overlap.  A dry run writes nothing  *)
(* and is no step here.                                                    *)
(***************************************************************************)
EXTENDS Naturals, FiniteSets

CONSTANTS
  Rows,          \* rows the broker may return
  Keys,          \* dedupe keys
  DedupeKey,     \* the key of each row; two rows may share one
  Derivable,     \* the rows with a realized P&L field
  Syncs,         \* the processes that run the fill sync
  NoRow          \* no row in hand

ASSUME FillSyncAssumption ==
  /\ DedupeKey \in [Rows -> Keys]
  /\ Derivable \subseteq Rows
  /\ NoRow \notin Rows

VARIABLES
  snapshots,     \* the keys stored in broker_fill_sync_snapshots
  events,        \* how many realized_pnl_events rows carry each key
  pc,            \* where each run is
  window,        \* the rows the broker returned to each run
  todo,          \* those it has not come to yet
  row            \* the row it is working on

vars == <<snapshots, events, pc, window, todo, row>>

TypeOK ==
  /\ snapshots \subseteq Keys
  /\ events \in [Keys -> Nat]
  /\ pc \in [Syncs -> {"idle", "next", "snapshot", "check", "insert"}]
  /\ window \in [Syncs -> SUBSET Rows]
  /\ todo \in [Syncs -> SUBSET Rows]
  /\ row \in [Syncs -> Rows \cup {NoRow}]

Init ==
  /\ snapshots = {}
  /\ events = [k \in Keys |-> 0]
  /\ pc = [s \in Syncs |-> "idle"]
  /\ window = [s \in Syncs |-> {}]
  /\ todo = [s \in Syncs |-> {}]
  /\ row = [s \in Syncs |-> NoRow]

-----------------------------------------------------------------------------

KeyInHand(s) == DedupeKey[row[s]]

Goto(s, label) == pc' = [pc EXCEPT ![s] = label]

\* The run goes on to the next row.
NextRow(s) == Goto(s, "next") /\ row' = [row EXCEPT ![s] = NoRow]

\* The process ends and forgets its rows.
Stop(s) ==
  /\ Goto(s, "idle")
  /\ window' = [window EXCEPT ![s] = {}]
  /\ todo' = [todo EXCEPT ![s] = {}]
  /\ row' = [row EXCEPT ![s] = NoRow]

\* A run starts with the rows of its window.
Begin(s, R) ==
  /\ pc[s] = "idle"
  /\ Goto(s, "next")
  /\ window' = [window EXCEPT ![s] = R]
  /\ todo' = [todo EXCEPT ![s] = R]
  /\ UNCHANGED <<snapshots, events, row>>

\* Mutant: the event is derived without storing the row.
TakeRowWithoutSnapshot(s, r) ==
  /\ pc[s] = "next"
  /\ r \in todo[s]
  /\ todo' = [todo EXCEPT ![s] = @ \ {r}]
  /\ \/ r \in Derivable /\ Goto(s, "check") /\ row' = [row EXCEPT ![s] = r]
     \/ r \notin Derivable /\ UNCHANGED <<pc, row>>
  /\ UNCHANGED <<snapshots, events, window>>

\* The next row of the list, in whatever order the broker lists them; a row
\* without a realized P&L is passed over.
TakeRow(s, r) ==
  /\ pc[s] = "next"
  /\ r \in todo[s]
  /\ todo' = [todo EXCEPT ![s] = @ \ {r}]
  /\ \/ r \in Derivable /\ Goto(s, "snapshot") /\ row' = [row EXCEPT ![s] = r]
     \/ r \notin Derivable /\ UNCHANGED <<pc, row>>
  /\ UNCHANGED <<snapshots, events, window>>

\* record_broker_fill_sync_snapshot: INSERT OR IGNORE on the unique key.
StoreSnapshot(s) ==
  /\ pc[s] = "snapshot"
  /\ snapshots' = snapshots \cup {KeyInHand(s)}
  /\ Goto(s, "check")
  /\ UNCHANGED <<events, window, todo, row>>

\* Mutant: the duplicate check looks into the snapshots.
CheckSnapshots(s) ==
  /\ pc[s] = "check"
  /\ \/ KeyInHand(s) \in snapshots /\ NextRow(s)
     \/ KeyInHand(s) \notin snapshots /\ Goto(s, "insert") /\ UNCHANGED row
  /\ UNCHANGED <<snapshots, events, window, todo>>

\* Mutant: record_realized_pnl_event is called instead of its _once form.
CheckNothing(s) ==
  /\ pc[s] = "check"
  /\ Goto(s, "insert")
  /\ UNCHANGED <<snapshots, events, window, todo, row>>

\* has_realized_pnl_dedupe_key, the read of record_realized_pnl_event_once.
CheckDuplicate(s) ==
  /\ pc[s] = "check"
  /\ \/ events[KeyInHand(s)] > 0 /\ NextRow(s)
     \/ events[KeyInHand(s)] = 0 /\ Goto(s, "insert") /\ UNCHANGED row
  /\ UNCHANGED <<snapshots, events, window, todo>>

\* record_realized_pnl_event, its write.
InsertEvent(s) ==
  /\ pc[s] = "insert"
  /\ events' = [events EXCEPT ![KeyInHand(s)] = @ + 1]
  /\ NextRow(s)
  /\ UNCHANGED <<snapshots, window, todo>>

\* sync_rows returns its counts.
Finish(s) ==
  /\ pc[s] = "next"
  /\ todo[s] = {}
  /\ Stop(s)
  /\ UNCHANGED <<snapshots, events>>

Crash(s) ==
  /\ pc[s] # "idle"
  /\ Stop(s)
  /\ UNCHANGED <<snapshots, events>>

SyncStep(s) ==
  \/ \E r \in Rows : TakeRow(s, r)
  \/ StoreSnapshot(s) \/ CheckDuplicate(s) \/ InsertEvent(s) \/ Finish(s)

Next ==
  \E s \in Syncs : \/ \E R \in SUBSET Rows : Begin(s, R)
                   \/ SyncStep(s)
                   \/ Crash(s)

Spec == Init /\ [][Next]_vars

-----------------------------------------------------------------------------

\* What a run has passed is in the database: each row it has dealt with has its
\* snapshot and its event, also when an earlier run died between the two.  So a
\* run that reaches its end has recorded its whole window.
PassedIsRecorded ==
  \A s \in Syncs : \A r \in Derivable \cap window[s] :
    r \notin todo[s] \cup {row[s]} =>
      DedupeKey[r] \in snapshots /\ events[DedupeKey[r]] > 0

\* An event is never stored before the broker row it was derived from.
EvidenceFirst == \A k \in Keys : events[k] > 0 => k \in snapshots

\* Runs that do not overlap add each event once, over any crashes and reruns.
Ledger == INSTANCE FillLedger
ImplementsLedger == Ledger!Spec

\* Running the sync repeatedly records nothing twice (README.md).
NoDuplicateEvent == \A k \in Keys : events[k] <= 1
=============================================================================
