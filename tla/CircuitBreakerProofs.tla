------------------------ MODULE CircuitBreakerProofs ------------------------
(***************************************************************************)
(* No breach of the daily loss limit is overlooked, for any number of      *)
(* fills, days and recorders; beside recorders the scans are those of      *)
(* ScheduledScan, so a breach halts them; and the total of a day is that of*)
(* the fills of the day, though days are told by texts.                    *)
(***************************************************************************)
EXTENDS TradingDay, EventTimes, FiniteSetTheorems, TLAPS

\* A recorder that is at work has a fill in hand.
HandInv ==
  \A r \in Recorders : pc[r] # "idle" => fill[r] \in Fills

IInv == TypeOK /\ HandInv /\ BreachIsCaught

\* The total of a key depends on the rows of its own fills only.
LEMMA TotalOfOtherKeys ==
  ASSUME NEW ev, NEW new, NEW k,
         \A f \in Fills : Key[f] = k => new[f] = ev[f]
  PROVE  DayTotal(new, k) = DayTotal(ev, k)
<1>1. [f \in {g \in Fills : Key[g] = k} |-> new[f] * Pnl[f]]
        = [f \in {g \in Fills : Key[g] = k} |-> ev[f] * Pnl[f]]
  OBVIOUS
<1> QED
  BY <1>1 DEF DayTotal

LEMMA InitInv == Init => IInv
<1> SUFFICES ASSUME Init PROVE IInv
  OBVIOUS
<1>1. TypeOK /\ HandInv
  BY BreakerAssumption DEF Init, TypeOK, HandInv
<1>2. BreachIsCaught
  BY DEF Init, BreachIsCaught, Unexcused, Breached
<1> QED
  BY <1>1, <1>2 DEF IInv

LEMMA NextInv == IInv /\ [Next]_vars => IInv'
<1> SUFFICES ASSUME IInv, [Next]_vars PROVE IInv'
  OBVIOUS
<1> USE BreakerAssumption DEF Finish, Goto
<1>0. TypeOK /\ HandInv /\ BreachIsCaught
  BY DEF IInv
<1>1. ASSUME NEW r \in Recorders, NEW f \in Fills, Start(r, f)
      PROVE  IInv'
  <2>1. TypeOK' /\ HandInv'
    BY <1>0, <1>1 DEF Start, TypeOK, HandInv
  <2>2. BreachIsCaught'
    BY <1>0, <1>1 DEF Start, TypeOK, BreachIsCaught, Unexcused, Breached,
                      InFlight
  <2> QED
    BY <2>1, <2>2 DEF IInv
<1>2. ASSUME NEW r \in Recorders, CheckDuplicate(r)
      PROVE  IInv'
  <2>1. TypeOK' /\ HandInv'
    BY <1>0, <1>2 DEF CheckDuplicate, TypeOK, HandInv
  <2>2. BreachIsCaught'
    BY <1>0, <1>2 DEF CheckDuplicate, TypeOK, BreachIsCaught, Unexcused,
                      Breached, InFlight
  <2> QED
    BY <2>1, <2>2 DEF IInv
\* The insert is followed by the recorder's own sum of the key, or excused.
<1>3. ASSUME NEW r \in Recorders, InsertEvent(r)
      PROVE  IInv'
  <2>1. PICK f \in Fills : f = fill[r]
    BY <1>0, <1>3 DEF InsertEvent, HandInv
  <2>2. /\ events' = [events EXCEPT ![f] = @ + 1]
        /\ events[f] \in 0 .. MaxRows /\ events[f] < MaxRows
        /\ Key[f] \in Keys
    BY <1>0, <1>3, <2>1 DEF InsertEvent, TypeOK
  <2>3. TypeOK'
    <3>1. events' \in [Fills -> 0 .. MaxRows]
      BY <1>0, <2>2 DEF TypeOK
    <3> QED
      BY <1>0, <1>3, <2>1, <2>2, <3>1 DEF InsertEvent, TypeOK
  <2>4. HandInv'
    BY <1>0, <1>3 DEF InsertEvent, TypeOK, HandInv
  <2>5. ASSUME NEW k \in Unexcused', k = Key[f]
        PROVE  InFlight(k)'
    BY <1>0, <1>3, <2>1, <2>5 DEF InsertEvent, TypeOK, Unexcused, InFlight
  <2>6. ASSUME NEW k \in Unexcused', k # Key[f]
        PROVE  (breaker = "on" \/ InFlight(k))'
    <3>1. DayTotal(events', k) = DayTotal(events, k)
      <4>1. \A g \in Fills : Key[g] = k => events'[g] = events[g]
        BY <1>0, <2>2, <2>6 DEF TypeOK
      <4> QED
        BY <4>1, TotalOfOtherKeys
    <3>2. k \in Unexcused
      BY <1>3, <2>1, <2>6, <3>1 DEF InsertEvent, Unexcused, Breached
    <3> QED
      BY <1>0, <1>3, <3>2 DEF InsertEvent, TypeOK, BreachIsCaught, InFlight
  <2> QED
    BY <2>3, <2>4, <2>5, <2>6 DEF IInv, BreachIsCaught
\* A recorder is done only with a key that is not breached.
<1>4. ASSUME NEW r \in Recorders, SumDay(r)
      PROVE  IInv'
  <2>1. TypeOK' /\ HandInv'
    BY <1>0, <1>4 DEF SumDay, TypeOK, HandInv
  <2>2. Unexcused' = Unexcused /\ breaker' = breaker
    BY <1>4 DEF SumDay, Unexcused, Breached
  <2>3. ASSUME NEW k \in Unexcused
        PROVE  InFlight(k) => InFlight(k)'
    BY <1>0, <1>4, <2>3 DEF SumDay, TypeOK, Unexcused, InFlight
  <2> QED
    BY <1>0, <2>1, <2>2, <2>3 DEF IInv, BreachIsCaught
<1>5. ASSUME NEW r \in Recorders, SetBreaker(r)
      PROVE  IInv'
  BY <1>0, <1>5 DEF SetBreaker, TypeOK, HandInv, BreachIsCaught, IInv
\* What the dead recorder leaves unexamined is excused.
<1>6. ASSUME NEW r \in Recorders, Crash(r)
      PROVE  IInv'
  <2>1. lost' \subseteq Keys /\ HandInv'
    BY <1>0, <1>6 DEF Crash, TypeOK, HandInv
  <2>2. TypeOK'
    BY <1>0, <1>6, <2>1 DEF Crash, TypeOK
  <2>3. ASSUME NEW k \in Unexcused'
        PROVE  (breaker = "on" \/ InFlight(k))'
    <3>1. k \in Unexcused
      BY <1>6, <2>3 DEF Crash, Unexcused, Breached
    <3>2. ~ (pc[r] \in {"sum", "set"} /\ Key[fill[r]] = k)
      BY <1>6, <2>3 DEF Crash, Unexcused
    <3> QED
      BY <1>0, <1>6, <3>1, <3>2 DEF Crash, TypeOK, BreachIsCaught, InFlight
  <2> QED
    BY <2>1, <2>2, <2>3 DEF IInv, BreachIsCaught
<1>7. CASE SwitchOn
  BY <1>0, <1>7 DEF SwitchOn, TypeOK, HandInv, BreachIsCaught, IInv
<1>8. CASE SwitchOff
  <2>1. TypeOK' /\ HandInv'
    BY <1>0, <1>8 DEF SwitchOff, TypeOK, HandInv
  <2>2. Unexcused' = {}
    BY <1>8 DEF SwitchOff, Unexcused, Breached
  <2> QED
    BY <2>1, <2>2 DEF IInv, BreachIsCaught
<1>9. CASE UNCHANGED vars
  BY <1>0, <1>9 DEF vars, TypeOK, HandInv, BreachIsCaught, Unexcused, Breached,
                    InFlight, IInv
<1> QED
  BY <1>1, <1>2, <1>3, <1>4, <1>5, <1>6, <1>7, <1>8, <1>9
  DEF Next, RecorderStep

LEMMA Invariance == Spec => []IInv
  BY InitInv, NextInv, PTL DEF Spec

\* The variables keep their types in every run.
THEOREM TypeCorrect == Spec => []TypeOK
<1>1. IInv => TypeOK
  BY DEF IInv
<1> QED
  BY <1>1, Invariance, PTL

\* However the recorders overlap, a day at or below the loss limit has the
\* breaker on, or a recorder that is about to see it, or a named excuse.
THEOREM NoBreachOverlooked == Spec => []BreachIsCaught
<1>1. IInv => BreachIsCaught
  BY DEF IInv
<1> QED
  BY <1>1, Invariance, PTL

-----------------------------------------------------------------------------
(* The scans beside the recorders. *)

ScanProofs == INSTANCE ScheduledScanProofs
              WITH pc <- scanPc, breaker <- BreakerSeen, losses <- LossDays

\* The history of the checks that a scan passed before they turned.
EarlyInv == early \in [Scanners -> SUBSET {"breaker", "cooldown", "daily_buy", "loss"}]

\* Every step of the day is one of the recorders, or none of theirs.
LEMMA RecordersAsEver == DaySpec => Spec
<1>1. DayInit => Init
  BY DEF DayInit
<1>2. [DayNext]_dayVars => [Next]_vars
  BY DEF DayNext, Record, Operate, Scan, Execute, dayVars, Next
<1> QED
  BY <1>1, <1>2, PTL DEF DaySpec, Spec

LEMMA EarlyInit == DayInit => EarlyInv
  BY DEF DayInit, Scanning!Init, EarlyInv

LEMMA EarlyNext == EarlyInv /\ [DayNext]_dayVars => EarlyInv'
<1> SUFFICES ASSUME EarlyInv, [DayNext]_dayVars PROVE EarlyInv'
  OBVIOUS
<1>1. ASSUME NEW resumed, KeepHistory(resumed)
      PROVE  EarlyInv'
  BY <1>1 DEF KeepHistory, Blocks, EarlyInv
<1>2. ASSUME NEW s \in Scanners, early' = early \/ early' = [early EXCEPT ![s] = {}]
      PROVE  EarlyInv'
  BY <1>2 DEF EarlyInv
<1>3. CASE Scan
  BY <1>2, <1>3
  DEF Scan, Scanning!Start, Scanning!ScanStep, Scanning!CheckBreaker,
      Scanning!CheckCooldown, Scanning!CheckDailyBuy, Scanning!CheckLoss,
      Scanning!Check, Scanning!Workflow, Scanning!StoreRun, Scanning!StoreTicket,
      Scanning!StoreReview, Scanning!Notify, Scanning!Crash, Scanning!Finish,
      Scanning!Goto, Scanning!Reject, Scanning!Tick, Scanning!scan, EarlyInv
<1>4. ASSUME NEW t \in Tickets, Execute(t)
      PROVE  EarlyInv'
  BY <1>4 DEF Execute, Scanning!Execute, Scanning!scan, EarlyInv
<1>5. CASE UNCHANGED dayVars
  BY <1>5 DEF dayVars, EarlyInv
<1> QED
  BY <1>1, <1>3, <1>4, <1>5 DEF DayNext, Record, Operate

\* A step of the recorders that changes no block is none of the scans.
LEMMA NoBlockChanges ==
  ASSUME EarlyInv, UNCHANGED scanning, KeepHistory({}),
         BreakerSeen' = BreakerSeen, LossDays' = LossDays
  PROVE  UNCHANGED Scanning!vars
<1>1. ASSUME NEW s \in Scanners
      PROVE  Blocks(s)' = Blocks(s)
  BY <1>1 DEF Blocks, BreakerSeen, scanning, Scanning!LossLimitReached, Scanning!Day
<1>2. early' = early
  BY <1>1 DEF KeepHistory, EarlyInv
<1> QED
  BY <1>2 DEF Scanning!vars, scanning

LEMMA BreakerComesOn ==
  ASSUME EarlyInv, UNCHANGED scanning, KeepHistory({}),
         breaker' = "on", LossDays' = LossDays
  PROVE  [Scanning!SwitchOn]_Scanning!vars
<1>1. CASE breaker = "on"
  BY <1>1, NoBlockChanges DEF BreakerSeen
<1>2. CASE breaker # "on"
  <2>1. ASSUME NEW s \in Scanners
        PROVE  Blocks(s)' \ Blocks(s) = {"breaker"}
    BY <1>2, <2>1 DEF Blocks, scanning, Scanning!LossLimitReached, Scanning!Day
  <2>2. early' = [s \in Scanners |->
                    IF Scanning!Passed(s, "breaker")
                    THEN early[s] \cup {"breaker"} ELSE early[s]]
    BY <2>1 DEF KeepHistory, EarlyInv
  <2> QED
    BY <1>2, <2>2
    DEF Scanning!SwitchOn, Scanning!rows, Scanning!past, scanning, BreakerSeen
<1> QED
  BY <1>1, <1>2

LEMMA BreakerGoesOff ==
  ASSUME EarlyInv, UNCHANGED scanning, KeepHistory({"breaker"}),
         breaker' = "off", LossDays' = LossDays
  PROVE  Scanning!SwitchOff
<1>1. ASSUME NEW s \in Scanners
      PROVE  Blocks(s)' \ Blocks(s) = {}
  BY <1>1 DEF Blocks, scanning, Scanning!LossLimitReached, Scanning!Day
<1>2. early' = [s \in Scanners |-> early[s] \ {"breaker"}]
  BY <1>1 DEF KeepHistory, EarlyInv
<1> QED
  BY <1>2
  DEF Scanning!SwitchOff, Scanning!rows, Scanning!past, scanning, BreakerSeen

LEMMA DayReachesLimit ==
  ASSUME EarlyInv, UNCHANGED <<scanning, breaker>>, KeepHistory({}),
         NEW day \in Days \ LossDays, LossDays' = LossDays \cup {day}
  PROVE  Scanning!Lose
<1>1. ASSUME NEW s \in Scanners
      PROVE  Blocks(s)' \ Blocks(s) =
               IF Scanning!Day(now[s]) = day THEN {"loss"} ELSE {}
  BY <1>1 DEF Blocks, scanning, Scanning!LossLimitReached, Scanning!Day
<1>2. early' = [s \in Scanners |->
                  IF Scanning!Passed(s, "loss") /\ Scanning!Day(now[s]) = day
                  THEN early[s] \cup {"loss"} ELSE early[s]]
  BY <1>1 DEF KeepHistory, EarlyInv
<1>3. Days = 0 .. Scanning!Day(MaxTime)
  BY DEF Days, Scanning!Day
<1> QED
  BY <1>2, <1>3
  DEF Scanning!Lose, Scanning!rows, Scanning!past, scanning, BreakerSeen

LEMMA DayRecovers ==
  ASSUME EarlyInv, UNCHANGED <<scanning, breaker>>, KeepHistory({}),
         NEW day \in LossDays, LossDays' = LossDays \ {day}
  PROVE  Scanning!Recover
<1>1. ASSUME NEW s \in Scanners
      PROVE  Blocks(s)' \ Blocks(s) = {}
  BY <1>1 DEF Blocks, scanning, Scanning!LossLimitReached, Scanning!Day
<1>2. early' = early
  BY <1>1 DEF KeepHistory, EarlyInv
<1> QED
  BY <1>2
  DEF Scanning!Recover, Scanning!rows, Scanning!past, Scanning!scan, scanning,
      BreakerSeen

\* An event changes the total of its own key only, so of one day at most.
LEMMA InsertOneDay ==
  ASSUME IInv, NEW r \in Recorders, InsertEvent(r)
  PROVE  \/ LossDays' = LossDays
         \/ \E day \in Days \ LossDays : LossDays' = LossDays \cup {day}
         \/ \E day \in LossDays : LossDays' = LossDays \ {day}
<1>1. PICK f \in Fills : f = fill[r] /\ events' = [events EXCEPT ![f] = @ + 1]
  BY DEF InsertEvent, IInv, HandInv
<1>2. ASSUME NEW day \in Days, Key[f] # <<Symbol, day>>
      PROVE  day \in LossDays' <=> day \in LossDays
  <2>1. \A g \in Fills : Key[g] = <<Symbol, day>> => events'[g] = events[g]
    BY <1>1, <1>2 DEF IInv, TypeOK
  <2>2. DayTotal(events', <<Symbol, day>>) = DayTotal(events, <<Symbol, day>>)
    BY <2>1, TotalOfOtherKeys
  <2> QED
    BY <2>2 DEF LossDays, Breached
<1>3. LossDays \subseteq Days /\ LossDays' \subseteq Days
  BY DEF LossDays
<1>4. CASE \E day \in Days : Key[f] = <<Symbol, day>>
  <2>1. PICK day \in Days : Key[f] = <<Symbol, day>>
    BY <1>4
  <2>2. \A d \in Days : d # day => Key[f] # <<Symbol, d>>
    BY <2>1
  <2> QED
    BY <1>2, <1>3, <2>2
<1>5. CASE \A day \in Days : Key[f] # <<Symbol, day>>
  BY <1>2, <1>3, <1>5
<1> QED
  BY <1>4, <1>5

LEMMA ScanStepOfDay ==
  ASSUME IInv, EarlyInv, [DayNext]_dayVars
  PROVE  [Scanning!Next]_Scanning!vars
<1>1. CASE Record
  <2>1. PICK r \in Recorders : (\E f \in Fills : Start(r, f)) \/ RecorderStep(r) \/ Crash(r)
    BY <1>1 DEF Record
  <2>2. UNCHANGED scanning /\ KeepHistory({})
    BY <1>1 DEF Record
  <2>3. CASE UNCHANGED <<events, breaker>>
    <3>1. BreakerSeen' = BreakerSeen /\ LossDays' = LossDays
      BY <2>3 DEF BreakerSeen, LossDays, Breached
    <3> QED
      BY <2>2, <3>1, NoBlockChanges
  <2>4. CASE InsertEvent(r)
    <3>1. breaker' = breaker /\ BreakerSeen' = BreakerSeen
      BY <2>4 DEF InsertEvent, BreakerSeen
    <3> QED
      BY <2>2, <2>4, <3>1, InsertOneDay, NoBlockChanges, DayReachesLimit, DayRecovers
      DEF Scanning!Next
  <2>5. CASE SetBreaker(r)
    <3>1. breaker' = "on" /\ LossDays' = LossDays
      BY <2>5 DEF SetBreaker, LossDays, Breached
    <3> QED
      BY <2>2, <3>1, BreakerComesOn DEF Scanning!Next
  <2> QED
    BY <2>1, <2>3, <2>4, <2>5
    DEF RecorderStep, Start, CheckDuplicate, SumDay, Crash
<1>2. CASE Operate
  <2>1. LossDays' = LossDays
    BY <1>2 DEF Operate, SwitchOn, SwitchOff, LossDays, Breached
  <2> QED
    BY <1>2, <2>1, BreakerComesOn, BreakerGoesOff
    DEF Operate, SwitchOn, SwitchOff, Scanning!Next
<1>3. CASE Scan
  BY <1>3 DEF Scan, Scanning!Next
<1>4. ASSUME NEW t \in Tickets, Execute(t)
      PROVE  Scanning!Next
  BY <1>4 DEF Execute, Scanning!Next
<1>5. CASE UNCHANGED dayVars
  BY <1>5
  DEF dayVars, vars, scanning, Scanning!vars, BreakerSeen, LossDays, Breached
<1> QED
  BY <1>1, <1>2, <1>3, <1>4, <1>5 DEF DayNext

\* Beside the recorders and the operator the scans run as ScheduledScan says: what
\* it lets the breaker and the losses do is all that the recorders do to them.
THEOREM ScansBesideRecorders == DaySpec => ImplementsScan
<1>1. DayInit => Scanning!Init
  BY DEF DayInit
<1>2. IInv /\ EarlyInv /\ [DayNext]_dayVars => [Scanning!Next]_Scanning!vars
  BY ScanStepOfDay
<1> QED
  BY <1>1, <1>2, EarlyInit, EarlyNext, Invariance, RecordersAsEver, PTL
  DEF DaySpec, ImplementsScan, Scanning!Spec
LEMMA SameAssumption == ScanProofs!ScanAssumption
  BY TradingDayAssumption DEF Scanning!ScanAssumption, ScanProofs!ScanAssumption,
     Scanning!Time, ScanProofs!Time

\* ScheduledScan is instantiated twice, with its theorems and without.
LEMMA SameScan ==
  /\ Scanning!Init <=> ScanProofs!Init
  /\ [Scanning!Next]_Scanning!vars <=> [ScanProofs!Next]_ScanProofs!vars
  /\ Scanning!BlocksHaltScans <=> ScanProofs!BlocksHaltScans
<1>1. ASSUME NEW s \in Scanners, NEW c \in Configs
      PROVE  Scanning!Start(s, c) <=> ScanProofs!Start(s, c)
  BY DEF Scanning!Start, Scanning!Executed, Scanning!Visible, Scanning!At,
      Scanning!market, Scanning!rows, Scanning!past, ScanProofs!Start,
      ScanProofs!Executed, ScanProofs!Visible, ScanProofs!At,
      ScanProofs!market, ScanProofs!rows, ScanProofs!past
<1>2. ASSUME NEW s \in Scanners
      PROVE  /\ Scanning!CoolingDown(s) <=> ScanProofs!CoolingDown(s)
             /\ Scanning!BuyLimitReached(s) <=> ScanProofs!BuyLimitReached(s)
  BY DEF Scanning!CoolingDown, Scanning!BuyLimitReached, Scanning!Bought,
      Scanning!Total, Scanning!StoredDay, Scanning!Day, Scanning!Executed,
      Scanning!Visible, Scanning!Max, Scanning!SumFunction,
      Scanning!SumFunctionOnSet, Scanning!FoldFunctionOnSet,
      Scanning!MapThenFoldSet, ScanProofs!CoolingDown,
      ScanProofs!BuyLimitReached, ScanProofs!Bought, ScanProofs!Total,
      ScanProofs!StoredDay, ScanProofs!Day, ScanProofs!Executed,
      ScanProofs!Visible, ScanProofs!Max, ScanProofs!SumFunction,
      ScanProofs!SumFunctionOnSet, ScanProofs!FoldFunctionOnSet,
      ScanProofs!MapThenFoldSet
<1>3. ASSUME NEW s \in Scanners
      PROVE  /\ Scanning!CheckBreaker(s) <=> ScanProofs!CheckBreaker(s)
             /\ Scanning!CheckLoss(s) <=> ScanProofs!CheckLoss(s)
  BY DEF Scanning!CheckBreaker, Scanning!CheckLoss, Scanning!Check,
      Scanning!BreakerOn, Scanning!LossLimitReached, Scanning!At,
      Scanning!Goto, Scanning!Finish, Scanning!Idle, Scanning!market,
      Scanning!rows, Scanning!past, Scanning!Day, ScanProofs!CheckBreaker,
      ScanProofs!CheckLoss, ScanProofs!Check, ScanProofs!BreakerOn,
      ScanProofs!LossLimitReached, ScanProofs!At, ScanProofs!Goto,
      ScanProofs!Finish, ScanProofs!Idle, ScanProofs!market, ScanProofs!rows,
      ScanProofs!past, ScanProofs!Day
<1>4. ASSUME NEW s \in Scanners
      PROVE  /\ Scanning!CheckCooldown(s) <=> ScanProofs!CheckCooldown(s)
             /\ Scanning!CheckDailyBuy(s) <=> ScanProofs!CheckDailyBuy(s)
  BY <1>2
  DEF Scanning!CheckCooldown, Scanning!CheckDailyBuy, Scanning!Check,
      Scanning!At, Scanning!Goto, Scanning!Finish, Scanning!Idle,
      Scanning!market, Scanning!rows, Scanning!past, ScanProofs!CheckCooldown,
      ScanProofs!CheckDailyBuy, ScanProofs!Check, ScanProofs!At,
      ScanProofs!Goto, ScanProofs!Finish, ScanProofs!Idle, ScanProofs!market,
      ScanProofs!rows, ScanProofs!past
<1>5. ASSUME NEW s \in Scanners
      PROVE  /\ Scanning!Workflow(s) <=> ScanProofs!Workflow(s)
             /\ Scanning!StoreRun(s) <=> ScanProofs!StoreRun(s)
             /\ Scanning!StoreTicket(s) <=> ScanProofs!StoreTicket(s)
             /\ Scanning!StoreReview(s) <=> ScanProofs!StoreReview(s)
             /\ Scanning!Notify(s) <=> ScanProofs!Notify(s)
             /\ Scanning!Crash(s) <=> ScanProofs!Crash(s)
  BY DEF Scanning!Workflow, Scanning!StoreRun, Scanning!StoreTicket,
      Scanning!StoreReview, Scanning!Notify, Scanning!Crash, Scanning!At,
      Scanning!Goto, Scanning!Finish, Scanning!Idle, Scanning!market,
      Scanning!rows, Scanning!past, ScanProofs!Workflow, ScanProofs!StoreRun,
      ScanProofs!StoreTicket, ScanProofs!StoreReview, ScanProofs!Notify,
      ScanProofs!Crash, ScanProofs!At, ScanProofs!Goto, ScanProofs!Finish,
      ScanProofs!Idle, ScanProofs!market, ScanProofs!rows, ScanProofs!past
<1>6. ASSUME NEW t \in Tickets
      PROVE  /\ Scanning!Execute(t) <=> ScanProofs!Execute(t)
             /\ Scanning!Reject(t) <=> ScanProofs!Reject(t)
  BY DEF Scanning!Execute, Scanning!Reject, Scanning!Visible, Scanning!market,
      Scanning!past, Scanning!scan, ScanProofs!Execute, ScanProofs!Reject,
      ScanProofs!Visible, ScanProofs!market, ScanProofs!past, ScanProofs!scan
<1>7. /\ Scanning!SwitchOn <=> ScanProofs!SwitchOn
      /\ Scanning!SwitchOff <=> ScanProofs!SwitchOff
      /\ Scanning!Lose <=> ScanProofs!Lose
      /\ Scanning!Recover <=> ScanProofs!Recover
      /\ Scanning!Tick <=> ScanProofs!Tick
  BY DEF Scanning!SwitchOn, Scanning!SwitchOff, Scanning!Lose, Scanning!Recover,
      Scanning!Tick, Scanning!rows, Scanning!past, Scanning!scan,
      Scanning!Day, Scanning!Passed, ScanProofs!SwitchOn,
      ScanProofs!SwitchOff, ScanProofs!Lose, ScanProofs!Recover,
      ScanProofs!Tick, ScanProofs!rows, ScanProofs!past, ScanProofs!scan,
      ScanProofs!Day, ScanProofs!Passed
<1>8. Scanning!Next <=> ScanProofs!Next
  BY <1>1, <1>3, <1>4, <1>5, <1>6, <1>7
  DEF Scanning!Next, Scanning!ScanStep, ScanProofs!Next, ScanProofs!ScanStep
<1>9. /\ Scanning!Init <=> ScanProofs!Init
      /\ Scanning!BlocksHaltScans <=> ScanProofs!BlocksHaltScans
  BY DEF Scanning!Init, Scanning!Idle, Scanning!BlocksHaltScans,
      Scanning!Guarded, Scanning!BreakerOn, Scanning!LossLimitReached,
      Scanning!Day, Scanning!Passed, ScanProofs!Init, ScanProofs!Idle,
      ScanProofs!BlocksHaltScans, ScanProofs!Guarded, ScanProofs!BreakerOn,
      ScanProofs!LossLimitReached, ScanProofs!Day, ScanProofs!Passed
<1>10. [Scanning!Next]_Scanning!vars <=> [ScanProofs!Next]_ScanProofs!vars
  BY <1>8 DEF Scanning!vars, ScanProofs!vars
<1> QED
  BY <1>9, <1>10

\* A breach is on the breaker, and the breaker on every scan that comes to its
\* check, however recorders, scans, users and the operator interleave; a breach of
\* the scanned symbol is on the sum of the guard in any case.
THEOREM BreachesHaltScans == DaySpec => []BreachHaltsScans
<1>1. DaySpec => []Scanning!BlocksHaltScans
  <2>1. DaySpec => ScanProofs!Spec
    BY ScansBesideRecorders, SameScan, PTL
    DEF ImplementsScan, Scanning!Spec, ScanProofs!Spec
  <2>2. ScanProofs!Spec => []ScanProofs!BlocksHaltScans
    BY ScanProofs!BlocksHalt, SameAssumption
  <2> QED
    BY <2>1, <2>2, SameScan, PTL
<1>2. BreachIsCaught /\ Scanning!BlocksHaltScans => BreachHaltsScans
  BY DEF BreachIsCaught, Scanning!BlocksHaltScans, BreachHaltsScans,
         Scanning!BreakerOn, BreakerSeen
<1>3. IInv => BreachIsCaught
  BY DEF IInv
<1> QED
  BY <1>1, <1>2, <1>3, Invariance, RecordersAsEver, PTL

-----------------------------------------------------------------------------
(* The day a fill counts for. *)

\* Whole days add nothing to the time of the day.
LEMMA WholeDays ==
  ASSUME NEW n \in Int, NEW size \in Nat \ {0}
  PROVE  (n * size) \div size = n /\ (n * size) % size = 0
<1> DEFINE q == (n * size) \div size
           r == (n * size) % size
<1>1. n * size \in Int
  OBVIOUS
<1>2. q \in Int /\ r \in 0 .. size - 1 /\ n * size = size * q + r
  BY <1>1
<1> HIDE DEF q, r
<1>3. (n - q) * size = r
  BY <1>2
<1>4. CASE n - q >= 1
  <2>1. (n - q) * size >= size
    BY <1>2, <1>4
  <2> QED
    BY <1>2, <1>3, <2>1
<1>5. CASE n - q <= -1
  <2>1. (n - q) * size <= -size
    BY <1>2, <1>5
  <2> QED
    BY <1>2, <1>3, <2>1
<1>6. CASE n = q
  BY <1>2, <1>3, <1>6 DEF q, r
<1> QED
  BY <1>2, <1>4, <1>5, <1>6

\* The parts of a text.
LEMMA TextParts ==
  ASSUME NEW instant \in Nat, NEW offset \in Int
  PROVE  /\ LocalDay(instant, offset) \in Int
         /\ (instant \div 2 + offset) % DaySeconds \in Nat
         /\ instant % 2 \in Nat
<1>1. instant \div 2 \in Int /\ instant % 2 \in Nat
  OBVIOUS
<1>2. instant \div 2 + offset \in Int /\ DaySeconds \in Nat \ {0}
  BY <1>1, EventTimesAssumption
<1>3. LocalDay(instant, offset) \in Int
  BY <1>2 DEF LocalDay
<1>4. (instant \div 2 + offset) % DaySeconds \in Nat
  <2> DEFINE n == instant \div 2 + offset
  <2> HIDE DEF n
  <2> QED
    BY <1>2
<1> QED
  BY <1>1, <1>3, <1>4

\* Midnight of a day in Seoul.
Midnight(day) == 2 * (day * DaySeconds - Kst)

LEMMA MidnightText ==
  ASSUME NEW day \in Int
  PROVE  IsoText(Midnight(day), Kst) = <<day, 0, 0, Kst>>
<1> DEFINE n == day * DaySeconds
<1>1. DaySeconds \in Nat \ {0} /\ Kst \in Nat /\ n \in Int
  BY EventTimesAssumption
<1>2. n \div DaySeconds = day /\ n % DaySeconds = 0
  BY <1>1, WholeDays
<1> HIDE DEF n
<1>3. /\ (2 * (n - Kst)) \div 2 + Kst = n
      /\ (2 * (n - Kst)) % 2 = 0
  BY <1>1
<1> QED
  BY <1>2, <1>3 DEF IsoText, LocalDay, Midnight, n

\* The next midnight begins the next day.
LEMMA BoundsAre ==
  ASSUME NEW instant \in Nat
  PROVE  DayBounds(instant) = <<<<LocalDay(instant, Kst), 0, 0, Kst>>,
                                <<LocalDay(instant, Kst) + 1, 0, 0, Kst>>>>
<1> DEFINE day == LocalDay(instant, Kst)
<1>1. DaySeconds \in Nat \ {0} /\ Kst \in Nat /\ day \in Int
  BY EventTimesAssumption, TextParts
<1> HIDE DEF day
<1>2. Midnight(day) + 2 * DaySeconds = Midnight(day + 1) /\ day + 1 \in Int
  BY <1>1 DEF Midnight
<1>3. DayBounds(instant) = <<IsoText(Midnight(day), Kst),
                             IsoText(Midnight(day) + 2 * DaySeconds, Kst)>>
  BY DEF DayBounds, Midnight, day
<1> QED
  BY <1>1, <1>2, <1>3, MidnightText DEF day

\* A text in the offset of Seoul comes before a midnight if its day does.
LEMMA BeforeMidnight ==
  ASSUME NEW d \in Int, NEW time \in Nat, NEW half \in Nat, NEW day \in Int
  PROVE  Before(<<d, time, half, Kst>>, <<day, 0, 0, Kst>>) <=> d < day
<1> DEFINE a == <<d, time, half, Kst>>
           b == <<day, 0, 0, Kst>>
<1>1. DOMAIN a = 1 .. 4 /\ Kst \in Nat
  BY EventTimesAssumption
<1>2. /\ a[1] = d /\ a[2] = time /\ a[3] = half /\ a[4] = Kst
      /\ b[1] = day /\ b[2] = 0 /\ b[3] = 0 /\ b[4] = Kst
  OBVIOUS
<1>3. ASSUME d < day PROVE Before(a, b)
  <2>1. a[1] < b[1] /\ \A j \in 1 .. 1 - 1 : a[j] = b[j]
    BY <1>2, <1>3
  <2> QED
    BY <1>1, <2>1 DEF Before
<1>4. ASSUME Before(a, b) PROVE d < day
  <2>1. PICK i \in 1 .. 4 : a[i] < b[i] /\ \A j \in 1 .. i - 1 : a[j] = b[j]
    BY <1>1, <1>4 DEF Before
  <2>2. i = 1
    BY <1>1, <1>2, <2>1
  <2> QED
    BY <1>2, <2>1, <2>2
<1> QED
  BY <1>3, <1>4

\* A fill written in the offset of Seoul is selected for its day.
LEMMA SelectedByDay ==
  ASSUME NEW rows, NEW e \in rows, e \in Event, e.offset = Kst, NEW instant \in Nat
  PROVE  e \in Selected(rows, DayBounds(instant))
           <=> LocalDay(e.instant, Kst) = LocalDay(instant, Kst)
<1> DEFINE d == LocalDay(e.instant, Kst)
           time == (e.instant \div 2 + Kst) % DaySeconds
           half == e.instant % 2
           day == LocalDay(instant, Kst)
<1>1. e.instant \in Nat /\ Kst \in Int
  BY EventTimesAssumption DEF Event
<1>2. d \in Int /\ time \in Nat /\ half \in Nat /\ day \in Int /\ day + 1 \in Int
  <2>1. d \in Int /\ time \in Nat /\ half \in Nat
    BY <1>1, TextParts
  <2>2. day \in Int
    BY <1>1, TextParts
  <2> QED
    BY <2>1, <2>2
<1>3. IsoText(e.instant, e.offset) = <<d, time, half, Kst>>
  BY DEF IsoText
<1>4. /\ DayBounds(instant)[1] = <<day, 0, 0, Kst>>
      /\ DayBounds(instant)[2] = <<day + 1, 0, 0, Kst>>
  BY BoundsAre
<1> HIDE DEF d, time, half, day
<1>5. /\ Before(<<d, time, half, Kst>>, <<day, 0, 0, Kst>>) <=> d < day
      /\ Before(<<d, time, half, Kst>>, <<day + 1, 0, 0, Kst>>) <=> d < day + 1
  BY <1>2, BeforeMidnight
<1>6. e \in Selected(rows, DayBounds(instant)) <=> ~ (d < day) /\ d < day + 1
  BY <1>3, <1>4, <1>5 DEF Selected
<1> QED
  BY <1>2, <1>6 DEF d, day

\* The fills of the day of the last one, up to it.
FillsOfDay == {e \in stored : /\ e.id <= last.id
                              /\ LocalDay(e.instant, Kst) = LocalDay(last.instant, Kst)}

InKst == \A e \in stored : e.offset = Kst

TimesInv ==
  /\ stored \subseteq Event /\ IsFiniteSet(stored)
  /\ \A e \in stored : e.id <= Cardinality(stored)
  /\ last \in stored \cup {NoEvent}
  /\ last # NoEvent /\ InKst => total = SumPnl(FillsOfDay)

\* Later fills of the sync have later numbers, and leave the sum behind.
LEMMA TimesInvariance == TimesSpec => []TimesInv
<1>1. TimesInit => TimesInv
  BY FS_EmptySet DEF TimesInit, TimesInv
<1>2. TimesInv /\ [TimesNext]_timeVars => TimesInv'
  <2> SUFFICES ASSUME TimesInv, [TimesNext]_timeVars PROVE TimesInv'
    OBVIOUS
  <2>1. CASE UNCHANGED timeVars
    BY <2>1 DEF timeVars, TimesInv, FillsOfDay, InKst
  <2>2. ASSUME NEW e \in Event, e.id = Cardinality(stored) + 1, ProcessFill(e) \/ SyncFill(e)
        PROVE  TimesInv'
    <3>1. stored' = stored \cup {e}
      BY <2>2 DEF ProcessFill, SyncFill
    <3>2. /\ stored \subseteq Event /\ IsFiniteSet(stored)
          /\ \A f \in stored : f.id <= Cardinality(stored)
          /\ last \in stored \cup {NoEvent}
      BY DEF TimesInv
    <3>3. Cardinality(stored) \in Nat /\ \A f \in Event : f.id \in Nat
      BY <3>2, FS_CardinalityType DEF Event
    <3>4. e \notin stored
      BY <2>2, <3>2, <3>3
    <3>5. IsFiniteSet(stored') /\ Cardinality(stored') = Cardinality(stored) + 1
      BY <3>1, <3>2, <3>4, FS_AddElement
    <3>6. \A f \in stored' : f.id <= Cardinality(stored')
      BY <2>2, <3>1, <3>2, <3>3, <3>5
    <3>7. stored' \subseteq Event
      BY <2>2, <3>1, <3>2
    <3>8. CASE ProcessFill(e)
      <4>1. last' = e /\ last' \in stored'
        BY <3>1, <3>8 DEF ProcessFill
      <4>2. ASSUME InKst' PROVE total' = SumPnl(FillsOfDay')
        <5>1. total' = SumPnl(Selected(stored', DayBounds(e.instant)))
          BY <3>8 DEF ProcessFill
        <5>2. e.instant \in Nat
          BY EventTimesAssumption DEF Event
        <5>3. \A f \in stored' : f \in Selected(stored', DayBounds(e.instant))
                                   <=> LocalDay(f.instant, Kst) = LocalDay(e.instant, Kst)
          BY <3>7, <4>2, <5>2, SelectedByDay DEF InKst
        <5>4. \A f \in stored' : f.id <= e.id
          BY <2>2, <3>5, <3>6
        <5>5. FillsOfDay' = {f \in stored' : /\ f.id <= e.id
                                /\ LocalDay(f.instant, Kst) = LocalDay(e.instant, Kst)}
          BY <4>1 DEF FillsOfDay
        <5>6. Selected(stored', DayBounds(e.instant)) \subseteq stored'
          BY DEF Selected
        <5>7. Selected(stored', DayBounds(e.instant)) = FillsOfDay'
          BY <5>3, <5>4, <5>5, <5>6
        <5> QED
          BY <5>1, <5>7
      <4> QED
        BY <3>5, <3>6, <3>7, <4>1, <4>2 DEF TimesInv
    <3>9. CASE SyncFill(e)
      <4>1. last' = last /\ total' = total /\ last' \in stored' \cup {NoEvent}
        BY <3>1, <3>2, <3>9 DEF SyncFill
      <4>2. ASSUME last' # NoEvent, InKst' PROVE total' = SumPnl(FillsOfDay')
        <5>1. last # NoEvent /\ InKst /\ last \in stored
          BY <3>1, <3>2, <4>1, <4>2 DEF InKst
        <5>2. ~ (e.id <= last.id)
          BY <2>2, <3>2, <3>3, <5>1
        <5>3. FillsOfDay' = FillsOfDay
          BY <3>1, <4>1, <5>2 DEF FillsOfDay
        <5> QED
          BY <4>1, <5>1, <5>3 DEF TimesInv
      <4> QED
        BY <3>5, <3>6, <3>7, <4>1, <4>2 DEF TimesInv
    <3> QED
      BY <2>2, <3>8, <3>9
  <2> QED
    BY <2>1, <2>2 DEF TimesNext
<1> QED
  BY <1>1, <1>2, PTL DEF TimesSpec

\* However the clock stands, a fill written in KST counts for its own KST day, to the
\* last half second of it, and what the limit is compared with is the sum of that day.
THEOREM FillsAreOfTheirDay == TimesSpec => []KstFillsAreOfTheirDay
<1>1. TimesInv => KstFillsAreOfTheirDay
  <2> SUFFICES ASSUME TimesInv PROVE KstFillsAreOfTheirDay
    OBVIOUS
  <2>1. ASSUME NEW e \in stored, NEW f \in stored, e.offset = Kst
        PROVE  e \in Selected(stored, DayBounds(f.instant))
                 <=> LocalDay(e.instant, Kst) = LocalDay(f.instant, Kst)
    <3>1. e \in Event /\ f.instant \in Nat
      BY EventTimesAssumption DEF TimesInv, Event
    <3> QED
      BY <2>1, <3>1, SelectedByDay
  <2>2. last # NoEvent /\ InKst => total = SumPnl(FillsOfDay)
    BY DEF TimesInv
  <2> QED
    BY <2>1, <2>2 DEF KstFillsAreOfTheirDay, InKst, FillsOfDay
<1> QED
  BY <1>1, TimesInvariance, PTL
=============================================================================
