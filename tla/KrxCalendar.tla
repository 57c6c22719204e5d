----------------------------- MODULE KrxCalendar -----------------------------
(***************************************************************************)
(* KRXHolidayCalendar.load (app/automation/krx_calendar.py), with which    *)
(* every scheduled scan begins and which scripts/check_krx_holidays.py     *)
(* calls by hand.                                                          *)
(*                                                                         *)
(* A loader takes the years one by one.  For each it asks the holiday      *)
(* service, and then either writes the answer to the cache file of the     *)
(* year or, when anything of that failed, reads the file.  A file is       *)
(* written by truncating it and filling it again, two steps between which  *)
(* a loader may die or another one read.  The loaded dates decide whether  *)
(* the scan takes today for a holiday.                                     *)
(***************************************************************************)
EXTENDS Naturals, Sequences, FiniteSets

CONSTANTS
  Loaders,       \* the processes that load the calendar
  Years,
  Dates,         \* the dates that are, or may be announced as, holidays
  YearOf,        \* the year of each date
  YearLists,     \* the lists of years a loader may be given
  Manual         \* the dates of KRX_HOLIDAYS

ASSUME KrxCalendarAssumption ==
  /\ YearOf \in [Dates -> Years]
  /\ YearLists \subseteq Seq(Years) \ {<<>>}
  /\ Manual \subseteq Dates
  /\ IsFiniteSet(Dates)

VARIABLES
  published,     \* external: the dates the service lists for each year
  cache,         \* the cache file of each year
  pc,            \* where each loader is
  todo,          \* the years it has to come to, the one at hand first
  answer,        \* year_dates, what the service answered for that year
  loaded,        \* loaded
  warned,        \* whether it has added a warning
  cached,        \* history: the dates of each year that were ever cached
  promised,      \* history: what was published when the loader began
  owed           \* history: what had been cached when the loader began

files == <<published, cache, cached>>
histories == <<cached, promised, owed>>
vars == <<published, cache, pc, todo, answer, loaded, warned, cached,
          promised, owed>>

Busy == {"fetch", "open", "write", "read"}

\* A cache file: none, one that is no JSON (empty, or cut off), or a list of dates.
Absent == [is |-> "absent", dates |-> {}]
Torn == [is |-> "torn", dates |-> {}]
List(dates) == [is |-> "list", dates |-> dates]
Files == {Absent, Torn} \cup [is : {"list"}, dates : SUBSET Dates]
IsList(file) == file.is = "list"

\* A loader at work has a year at hand, and the answers belong to it.
TypeOK ==
  /\ published \in [Years -> SUBSET Dates]
  /\ cache \in [Years -> Files]
  /\ cached \in [Years -> SUBSET Dates]
  /\ pc \in [Loaders -> Busy \cup {"idle", "done", "died"}]
  /\ todo \in [Loaders -> Seq(Years)]
  /\ answer \in [Loaders -> SUBSET Dates]
  /\ loaded \in [Loaders -> SUBSET Dates]
  /\ warned \in [Loaders -> BOOLEAN]
  /\ promised \in [Loaders -> SUBSET Dates]
  /\ owed \in [Loaders -> SUBSET Dates]
  /\ \A l \in Loaders : pc[l] \in Busy => todo[l] # <<>>

Init ==
  /\ published \in [Years -> SUBSET Dates]
  /\ \A y \in Years : \A d \in published[y] : YearOf[d] = y
  /\ cache = [y \in Years |-> Absent]
  /\ cached = [y \in Years |-> {}]
  /\ pc = [l \in Loaders |-> "idle"]
  /\ todo = [l \in Loaders |-> <<>>]
  /\ answer = [l \in Loaders |-> {}]
  /\ loaded = [l \in Loaders |-> {}]
  /\ warned = [l \in Loaders |-> FALSE]
  /\ promised = [l \in Loaders |-> {}]
  /\ owed = [l \in Loaders |-> {}]

-----------------------------------------------------------------------------

Year(l) == Head(todo[l])
Goto(l, label) == pc' = [pc EXCEPT ![l] = label]
Load(l, dates) == loaded' = [loaded EXCEPT ![l] = @ \cup dates]
Warn(l) == warned' = [warned EXCEPT ![l] = TRUE]

\* The loop goes to the next year, or load returns.
NextYear(l) ==
  /\ todo' = [todo EXCEPT ![l] = Tail(@)]
  /\ Goto(l, IF Len(todo[l]) = 1 THEN "done" ELSE "fetch")

\* The service lists one more date: a temporary holiday.
Announce(d) ==
  /\ d \notin published[YearOf[d]]
  /\ published' = [published EXCEPT ![YearOf[d]] = @ \cup {d}]
  /\ UNCHANGED <<cache, pc, todo, answer, loaded, warned, histories>>

\* load is called: by a scan with the dates of KRX_HOLIDAYS, by the script with
\* a year on its command line without them.
Start(l, years, manual) ==
  /\ pc[l] \notin Busy
  /\ Goto(l, "fetch")
  /\ todo' = [todo EXCEPT ![l] = years]
  /\ answer' = [answer EXCEPT ![l] = {}]
  /\ loaded' = [loaded EXCEPT ![l] = manual]
  /\ warned' = [warned EXCEPT ![l] = FALSE]
  /\ LET listed == {years[i] : i \in DOMAIN years} IN
       /\ promised' = [promised EXCEPT ![l] = UNION {published[y] : y \in listed}]
       /\ owed' = [owed EXCEPT ![l] = UNION {cached[y] : y \in listed}]
  /\ UNCHANGED files

\* load returns at once with KRX_HOLIDAY_SOURCE=manual.
StartManual(l) ==
  /\ pc[l] \notin Busy
  /\ Goto(l, "done")
  /\ todo' = [todo EXCEPT ![l] = <<>>]
  /\ loaded' = [loaded EXCEPT ![l] = Manual]
  /\ warned' = [warned EXCEPT ![l] = FALSE]
  /\ promised' = [promised EXCEPT ![l] = {}]
  /\ owed' = [owed EXCEPT ![l] = {}]
  /\ UNCHANGED <<files, answer>>

\* Mutant: an empty answer is cached like any other.
FetchEvenNothing(l, dates) ==
  /\ pc[l] = "fetch"
  /\ Goto(l, "open")
  /\ answer' = [answer EXCEPT ![l] = dates]
  /\ Load(l, dates)
  /\ UNCHANGED <<files, todo, warned, promised, owed>>

\* _fetch_year: dates, which are loaded before they are cached.
Fetch(l, dates) ==
  /\ pc[l] = "fetch"
  /\ dates # {}
  /\ Goto(l, "open")
  /\ answer' = [answer EXCEPT ![l] = dates]
  /\ Load(l, dates)
  /\ UNCHANGED <<files, todo, warned, promised, owed>>

\* Mutant: the failure is not reported.
FetchFailsSilently(l) ==
  /\ pc[l] = "fetch"
  /\ Goto(l, "read")
  /\ UNCHANGED <<files, todo, answer, loaded, warned, promised, owed>>

\* _fetch_year raises, or answers with an empty list.
FetchFails(l) ==
  /\ pc[l] = "fetch"
  /\ Goto(l, "read")
  /\ Warn(l)
  /\ UNCHANGED <<files, todo, answer, loaded, promised, owed>>

\* _write_cache, its opening: the old file is gone.
OpenCache(l) ==
  /\ pc[l] = "open"
  /\ cache' = [cache EXCEPT ![Year(l)] = Torn]
  /\ Goto(l, "write")
  /\ UNCHANGED <<published, todo, answer, loaded, warned, histories>>

\* _write_cache, its writing.  A longer list that another loader has written
\* since is not truncated again: its end remains behind the shorter one.
WriteCache(l) ==
  /\ pc[l] = "write"
  /\ LET longer == /\ IsList(cache[Year(l)])
                   /\ Cardinality(cache[Year(l)].dates) > Cardinality(answer[l])
     IN  cache' = [cache EXCEPT ![Year(l)] =
                     IF longer THEN Torn ELSE List(answer[l])]
  /\ cached' = [cached EXCEPT ![Year(l)] = @ \cup answer[l]]
  /\ NextYear(l)
  /\ UNCHANGED <<published, answer, loaded, warned, promised, owed>>

\* The directory, the opening or the writing fails; the exception is caught with
\* those of the fetch, and the cache is read.
CacheFails(l) ==
  /\ pc[l] \in {"open", "write"}
  /\ Goto(l, "read")
  /\ Warn(l)
  /\ UNCHANGED <<files, todo, answer, loaded, promised, owed>>

\* Mutant: a file that cannot be parsed counts as no file.
ReadCacheOrNothing(l) ==
  /\ pc[l] = "read"
  /\ IF IsList(cache[Year(l)])
     THEN Load(l, cache[Year(l)].dates)
     ELSE UNCHANGED loaded
  /\ NextYear(l)
  /\ UNCHANGED <<files, answer, warned, promised, owed>>

\* _read_cache.  It is called outside of the try: a torn file ends the loader.
ReadCache(l) ==
  /\ pc[l] = "read"
  /\ \/ cache[Year(l)] = Absent /\ NextYear(l) /\ UNCHANGED loaded
     \/ cache[Year(l)] = Torn /\ Goto(l, "died") /\ UNCHANGED <<todo, loaded>>
     \/ IsList(cache[Year(l)]) /\ NextYear(l) /\ Load(l, cache[Year(l)].dates)
  /\ UNCHANGED <<files, answer, warned, promised, owed>>

Crash(l) ==
  /\ pc[l] \in Busy
  /\ Goto(l, "died")
  /\ UNCHANGED <<files, todo, answer, loaded, warned, promised, owed>>

Next ==
  \/ \E d \in Dates : Announce(d)
  \/ \E l \in Loaders :
       \/ \E years \in YearLists, manual \in {Manual, {}} : Start(l, years, manual)
       \/ StartManual(l)
       \/ /\ pc[l] = "fetch"
          /\ \E dates \in {published[Year(l)], {}} : Fetch(l, dates)
       \/ FetchFails(l)
       \/ OpenCache(l) \/ WriteCache(l) \/ CacheFails(l)
       \/ ReadCache(l)
       \/ Crash(l)

Spec == Init /\ [][Next]_vars

-----------------------------------------------------------------------------

\* A loader that returns without a warning knows every date that was published
\* for its years when it began, whatever became of its cache files.
CompleteUnlessWarned ==
  \A l \in Loaders : pc[l] = "done" /\ ~warned[l] => promised[l] \subseteq loaded[l]

\* The cache fails safe: a loader that returns, with whatever warnings, knows
\* every date that had ever been cached for its years when it began.  When a death
\* in the middle of a write has lost those dates, the loader raises, and the scan
\* it belongs to does not take the day for an open one.
FailsSafe ==
  \A l \in Loaders : pc[l] = "done" => owed[l] \subseteq loaded[l]

\* No later write, by whoever died or failed in between, takes a date out of a
\* cache file: a file that can be read holds all that was ever cached.
CacheKeepsDates ==
  \A y \in Years : IsList(cache[y]) => cached[y] \subseteq cache[y].dates

\* The cache holds nothing the service did not list for that year: a date that was
\* configured by hand does not outlive its configuration.
CacheIsPublished ==
  \A y \in Years : IsList(cache[y]) => cache[y].dates \subseteq published[y]

\* What the class says of itself: a failing service falls back to the cache or the
\* configured dates, and no published holiday is taken for an open day.
NoPretendedOpen ==
  \A l \in Loaders : pc[l] = "done" => promised[l] \subseteq loaded[l]
=============================================================================
