----------------------------- MODULE MarketSession -----------------------------
(***************************************************************************)
(* What a scan takes for an open market: the loaders of KrxCalendar, as    *)
(* the processes that run them start them -- a scheduled scan with the     *)
(* years and the holidays of its environment (load_krx_holidays_from_env), *)
(* scripts/check_krx_holidays.py with years of its own -- and the decision *)
(* a scan takes with the loaded list some time later                       *)
(* (market_session_decision), maybe on another day or in another year.     *)
(***************************************************************************)
EXTENDS KrxCalendar

CONSTANTS
  LastDay,       \* bound: the days that pass are 0 to LastDay
  YearOfDay,     \* their years
  Weekend,       \* those that are Saturdays or Sundays
  Moments,       \* the seconds of a day at which a decision may be taken
  Entries,       \* KRX_HOLIDAYS, as it is spelled
  Configs,       \* KRX_HOLIDAY_YEARS, and whether KRX_HOLIDAY_SOURCE is manual
  Unset,         \* KRX_HOLIDAY_YEARS is not set
  NoScan,        \* a loader that is not of a scan
  Undecided      \* there is no decision yet

Days == 0 .. LastDay

\* _normalize_holiday: eight digits get their dashes, anything else is left alone
\* and then is no day.
Configured == {e.day : e \in {f \in Entries : f.spelling # "2026/1/1"}}

\* _years_from_env without KRX_HOLIDAY_YEARS
DefaultYears(day) == <<YearOfDay[day], YearOfDay[day] + 1>>

\* The days lie in two successive years: no load takes longer than that.
ASSUME MarketSessionAssumption ==
  /\ LastDay \in Nat /\ Weekend \subseteq Days
  /\ YearOfDay \in [Days -> Nat]
  /\ \A d \in Days : \A e \in d .. LastDay : YearOfDay[e] \in YearOfDay[d] .. YearOfDay[d] + 1
  /\ \A d \in Days \cap Dates : YearOf[d] = YearOfDay[d]
  /\ Configs \subseteq [years : YearLists \cup {Unset}, manual : BOOLEAN]
  /\ \A c \in Configs : c.years = Unset => \A d \in Days : DefaultYears(d) \in YearLists
  /\ \A second \in Moments : second \in Nat /\ second < 24 * 60 * 60
  /\ Entries \subseteq [day : Dates, spelling : {"2026-01-01", "20260101", "2026/1/1"}]
  /\ Manual = Configured

MarketOpen  == 9 * 60 + 5
MarketClose == 15 * 60 + 10

VARIABLES
  today,         \* in KST
  config,        \* what each loader was started with
  session,       \* the decision of its scan: when it was taken and what it says
  listed         \* history: all that was published when it began

sessionVars == <<vars, today, config, session, listed>>

SessionInit ==
  /\ Init
  /\ today = 0
  /\ config = [l \in Loaders |-> NoScan]
  /\ session = [l \in Loaders |-> Undecided]
  /\ listed = [l \in Loaders |-> {}]

-----------------------------------------------------------------------------

\* Mutant: the years are those of the calendar year.
LoadYearsOfToday(c) ==
  IF c.years = Unset THEN <<YearOfDay[today]>> ELSE c.years

\* _years_from_env
LoadYears(c) == IF c.years = Unset THEN DefaultYears(today) ELSE c.years

Begin(l, c) ==
  /\ config' = [config EXCEPT ![l] = c]
  /\ session' = [session EXCEPT ![l] = Undecided]
  /\ listed' = [listed EXCEPT ![l] = UNION {published[y] : y \in Years}]
  /\ UNCHANGED today

\* ScheduledScanConfig.from_env, started by cron or by hand.
StartScan(l, c) ==
  /\ IF c.manual THEN StartManual(l) ELSE Start(l, LoadYears(c), Manual)
  /\ Begin(l, c)

\* check_krx_holidays.py --year.
StartScript(l, years) == Start(l, years, {}) /\ Begin(l, NoScan)

\* The loaders at work, and the service.
Work ==
  /\ \/ \E d \in Dates : Announce(d)
     \/ \E l \in Loaders :
          \/ /\ pc[l] = "fetch"
             /\ \E dates \in {published[Year(l)], {}} : Fetch(l, dates)
          \/ FetchFails(l)
          \/ OpenCache(l) \/ WriteCache(l) \/ CacheFails(l)
          \/ ReadCache(l)
          \/ Crash(l)
  /\ UNCHANGED <<today, config, session, listed>>

\* market_session_decision: the minute of the present, its seconds cut off, lies
\* within the hours of a day that is neither a weekend nor a loaded holiday.
IsOpen(holidays, second) ==
  /\ today \notin Weekend /\ today \notin holidays
  /\ second \div 60 \in MarketOpen .. MarketClose

\* run_scheduled_scan, which reads the clock once more.
Decide(l, second) ==
  /\ pc[l] = "done" /\ config[l] # NoScan /\ session[l] = Undecided
  /\ session' = [session EXCEPT ![l] =
       [day |-> today, second |-> second, open |-> IsOpen(loaded[l], second)]]
  /\ UNCHANGED <<vars, today, config, listed>>

Midnight ==
  /\ today < LastDay
  /\ today' = today + 1
  /\ UNCHANGED <<vars, config, session, listed>>

SessionNext ==
  \/ \E l \in Loaders : \/ \E c \in Configs : StartScan(l, c)
                        \/ \E years \in YearLists : StartScript(l, years)
                        \/ \E second \in Moments : Decide(l, second)
  \/ Work
  \/ Midnight

SessionSpec == SessionInit /\ [][SessionNext]_sessionVars

-----------------------------------------------------------------------------

\* From 09:05:00 to 15:10:59, in Korea.
InHours(second) == 32700 <= second /\ second < 54660

\* The decision of a scan is right for the moment at which it is taken, also when
\* midnight or the year has passed since the holidays were loaded.  A market that
\* is open is never taken for closed.  A closed one is taken for open only on a
\* holiday that was published when the load began, and there only if the load
\* warned, the source is manual, or KRX_HOLIDAY_YEARS names other years.
DecisionIsRight ==
  \A l \in Loaders : session[l] # Undecided =>
    LET now == session[l]  c == config[l] IN
    /\ InHours(now.second) /\ now.day \notin Weekend \cup Manual \cup published[YearOfDay[now.day]]
         => now.open
    /\ now.open => InHours(now.second) /\ now.day \notin Weekend \cup Manual
    /\ now.open /\ now.day \in listed[l] =>
         \/ warned[l] \/ c.manual
         \/ c.years # Unset /\ \A i \in DOMAIN c.years : c.years[i] # YearOfDay[now.day]
=============================================================================
