---------------------------- MODULE MCKrxCalendar ----------------------------
(***************************************************************************)
(* Instances of KrxCalendar and MarketSession for TLC: the turn of a year. *)
(***************************************************************************)
EXTENDS MarketSession, TLC

\* Two holidays of one year, one of the next, one of the year after.
MCYearOf == (0 :> 2026) @@ (1 :> 2026) @@ (2 :> 2027) @@ (9 :> 2028)

\* Two days of December, three of January.
MCYearOfDay == [d \in Days |-> IF d < 2 THEN 2026 ELSE 2027]

\* The lists of years that a scan or the script may give.
MCYearLists == {<<2026, 2027>>, <<2027, 2028>>, <<2026>>}

\* One holiday in each spelling.
MCEntries == {[day |-> 1, spelling |-> "20260101"], [day |-> 2, spelling |-> "2026/1/1"]}

\* 00:00:00, 09:04:59, 09:05:00, 15:10:59 and 15:11:00.
MCMoments == {0, 32699, 32700, 54659, 54660}

MCConfigs == {[years |-> Unset, manual |-> FALSE], [years |-> <<2026>>, manual |-> FALSE],
              [years |-> Unset, manual |-> TRUE]}

\* One year with two holidays, for two loaders.
OneYearOf == [d \in {0, 1} |-> 2026]
OneYear == {<<2026>>}
=============================================================================
