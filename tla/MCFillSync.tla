---------------------------- MODULE MCFillSync ------------------------------
(***************************************************************************)
(* Instances of FillSync and FillRows for TLC.  The two share no state:    *)
(* FillSync takes the keys of the rows as given and interleaves the three  *)
(* transactions of a row, FillRows computes the keys and takes a run as    *)
(* one step.  A behaviour is one of FillSync or one of FillRows.           *)
(***************************************************************************)
EXTENDS FillSync, FillRows, TLC

CONSTANTS r1, r2, r3, r4, k1, k2, k3

MCInit == Init /\ RowsInit

MCNext ==
  \/ broker = <<>> /\ Next /\ UNCHANGED rowVars
  \/ Init /\ RowsNext /\ UNCHANGED vars

MCSpec == MCInit /\ [][MCNext]_<<vars, rowVars>>

-----------------------------------------------------------------------------

\* r1 and r2 share a key (two fills of one order with the same P&L and no fill
\* number); r4 has no realized P&L.
MCDedupeKey == (r1 :> k1) @@ (r2 :> k1) @@ (r3 :> k2) @@ (r4 :> k3)

\* With and without numbers, an amount of the first or of the second column, and
\* a time without its leading zero.
MCRows ==
  [realized : {Blank, Text, -120500, -129900}, evaluated : {Blank, -4000, 3000},
   order : {Blank, 7}, fill : {Blank, 1, 2},
   date : {20260601}, time : {<<0, 9, 0, 5, 1, 0>>, <<9, 0, 5, 1, 0>>}]

RevisedRows ==
  [realized : {Blank}, evaluated : {-4000, 3000}, order : {7}, fill : {1, 2},
   date : {20260601}, time : {<<0, 9, 0, 5, 1, 0>>}]
=============================================================================
