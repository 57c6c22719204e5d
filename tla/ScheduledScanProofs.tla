------------------------- MODULE ScheduledScanProofs ------------------------
(***************************************************************************)
(* What guarded scans keep for any number of scans and tickets, any times, *)
(* cooldown and configurations: blocks halt them, rows come in order, and  *)
(* the cooldown since the creation of executed tickets is respected.       *)
(***************************************************************************)
EXTENDS ScheduledScan, FiniteSums, TLAPS

InHand == {"run", "ticket", "review", "notify"}

\* What is stored of the ticket a scan has in hand.
HandInv ==
  \A s \in Scanners :
    /\ pc[s] \in InHand <=> ticket[s] # NoTicket
    /\ pc[s] \in {"ticket", "review", "notify"} => ticket[s] \in runs
    /\ pc[s] \in {"run", "ticket"} => status[ticket[s]] = "absent"
    /\ pc[s] \in {"review", "notify"} => status[ticket[s]] # "absent"
    /\ pc[s] = "notify" => ticket[s] \in reviews

\* Every scan has a ticket of its own.
OwnInv ==
  \A r, s \in Scanners : ticket[s] # NoTicket /\ ticket[r] = ticket[s] => r = s

\* The places beyond the cooldown check.
Beyond(s) == pc[s] \in {"daily_buy", "loss", "workflow"} \cup InHand

\* The executed tickets a scan has seen are executed still; the scan decides by
\* a moment that is past; beyond the cooldown check it is out of the cooldown of
\* each of them; and the ticket it proposes is younger than that moment.
Cooled(s) ==
  /\ seen[s] \subseteq Executed
  /\ now[s] <= clock
  /\ Guarded(s) /\ Beyond(s) =>
       \A t \in seen[s] : created[t] + Cooldown <= now[s]
  /\ ticket[s] # NoTicket => now[s] <= created[ticket[s]]

CooldownInv == \A s \in Scanners : Cooled(s)

IInv == TypeOK /\ HandInv /\ OwnInv /\ RowsInOrder

-----------------------------------------------------------------------------

LEMMA DayType ==
  ASSUME NEW moment \in Nat
  PROVE  Day(moment) \in Nat
<1>1. DayLength \in Nat /\ DayLength > 0
  BY ScanAssumption
<1> QED
  BY <1>1 DEF Day

\* Beyond which checks a scan is at each place.
LEMMA PassedPlaces ==
  ASSUME NEW s \in Scanners
  PROVE  /\ Passed(s, "breaker") <=>
              pc[s] \in {"cooldown", "daily_buy", "loss", "workflow"} \cup InHand
         /\ Passed(s, "loss") <=> pc[s] \in {"workflow"} \cup InHand
BY DEF Passed, InHand

LEMMA IdleConfig == Idle.force = FALSE /\ Idle.enforce = FALSE
BY DEF Idle

-----------------------------------------------------------------------------
(* Types and rows. *)

LEMMA InitInv == Init => IInv
<1> SUFFICES ASSUME Init PROVE IInv
  OBVIOUS
<1>1. losses \subseteq Nat
  <2>1. MaxTime \div DayLength \in Nat
    BY DayType, ScanAssumption DEF Day
  <2> QED
    BY <2>1 DEF Init
<1> QED
  BY <1>1, ScanAssumption
  DEF Init, IInv, TypeOK, Time, Statuses, PC, Checks, HandInv, OwnInv,
      RowsInOrder, InHand

LEMMA CheckStep ==
  ASSUME IInv, NEW s \in Scanners, NEW blocked,
         NEW label \in Checks, NEW next \in Checks \cup {"workflow"},
         Check(s, label, blocked, next)
  PROVE  IInv'
<1> USE DEF IInv, market, rows, past
<1>1. /\ pc[s] = label /\ ticket[s] = NoTicket
      /\ UNCHANGED <<clock, breaker, losses, status, runs, reviews, created,
                     executed_at, told, untold>>
  BY DEF Check, At, HandInv, InHand, Checks
<1>2. RowsInOrder'
  BY <1>1 DEF RowsInOrder
<1>3. CASE Finish(s)
  BY <1>1, <1>2, <1>3, ScanAssumption
  DEF Finish, TypeOK, HandInv, OwnInv, InHand, PC, Time
<1>4. ASSUME NEW to \in Checks \cup {"workflow"}, Goto(s, to)
      PROVE  IInv'
  BY <1>1, <1>2, <1>4 DEF Goto, TypeOK, HandInv, OwnInv, InHand, PC, Checks
<1> QED
  BY <1>3, <1>4 DEF Check

LEMMA StartStep ==
  ASSUME IInv, NEW s \in Scanners, NEW c \in Configs, Start(s, c)
  PROVE  IInv'
<1> USE DEF IInv, Start, At, market, rows, past
<1>1. TypeOK'
  BY DEF TypeOK, PC, Checks, Executed, Visible
<1>2. HandInv'
  BY DEF TypeOK, HandInv, InHand
<1>3. OwnInv' /\ RowsInOrder'
  BY DEF OwnInv, RowsInOrder
<1> QED
  BY <1>1, <1>2, <1>3

\* The ticket that a workflow proposes has no row and no scan.
LEMMA WorkflowStep ==
  ASSUME IInv, NEW s \in Scanners, Workflow(s)
  PROVE  IInv'
<1> USE DEF IInv, At, market, rows, past
<1>1. CASE Finish(s) /\ UNCHANGED past
  BY <1>1, ScanAssumption
  DEF Workflow, Finish, TypeOK, HandInv, OwnInv, RowsInOrder, InHand, PC, Time
<1>2. ASSUME NEW t \in Tickets \ runs,
             \A r \in Scanners : ticket[r] # t,
             ticket' = [ticket EXCEPT ![s] = t],
             created' = [created EXCEPT ![t] = clock],
             pc' = [pc EXCEPT ![s] = "run"],
             UNCHANGED <<executed_at, told, untold, config, now, seen, early>>
      PROVE  IInv'
  <2>1. status[t] = "absent" /\ t # NoTicket
    BY ScanAssumption DEF RowsInOrder
  <2>2. UNCHANGED <<clock, breaker, losses, status, runs, reviews>>
    BY DEF Workflow
  <2>3. TypeOK'
    BY <1>2, <2>2 DEF TypeOK, PC
  <2>4. HandInv'
    BY <1>2, <2>1, <2>2 DEF TypeOK, HandInv, InHand
  <2>5. OwnInv' /\ RowsInOrder'
    BY <1>2, <2>1, <2>2 DEF TypeOK, OwnInv, RowsInOrder
  <2> QED
    BY <2>3, <2>4, <2>5
<1> QED
  BY <1>1, <1>2 DEF Workflow

\* The ticket in hand, for the steps that store its rows.
LEMMA TicketInHand ==
  ASSUME IInv, NEW s \in Scanners, pc[s] \in InHand
  PROVE  ticket[s] \in Tickets /\ ticket[s] # NoTicket
BY DEF IInv, TypeOK, HandInv, InHand

LEMMA StoreRunStep ==
  ASSUME IInv, NEW s \in Scanners, StoreRun(s)
  PROVE  IInv'
<1> USE DEF IInv, StoreRun, Goto, At, market, past
<1>1. ticket[s] \in Tickets
  BY TicketInHand DEF InHand
<1>2. TypeOK'
  BY <1>1 DEF TypeOK, PC
<1>3. HandInv'
  BY <1>1 DEF TypeOK, HandInv, InHand
<1>4. OwnInv' /\ RowsInOrder'
  BY DEF OwnInv, RowsInOrder
<1> QED
  BY <1>2, <1>3, <1>4

LEMMA StoreTicketStep ==
  ASSUME IInv, NEW s \in Scanners, StoreTicket(s)
  PROVE  IInv'
<1> USE DEF IInv, StoreTicket, Goto, At, market, past
<1>1. /\ ticket[s] \in Tickets /\ ticket[s] # NoTicket /\ ticket[s] \in runs
      /\ status' = [status EXCEPT ![ticket[s]] = "risk_approved"]
  BY TicketInHand DEF InHand, HandInv
<1>2. TypeOK'
  BY <1>1 DEF TypeOK, PC, Statuses
<1>3. \A r \in Scanners : r # s => ticket[r] # ticket[s]
  BY <1>1 DEF OwnInv
<1>4. HandInv'
  BY <1>1, <1>3 DEF TypeOK, HandInv, InHand
<1>5. OwnInv' /\ RowsInOrder'
  BY <1>1 DEF TypeOK, OwnInv, RowsInOrder
<1> QED
  BY <1>2, <1>4, <1>5

LEMMA StoreReviewStep ==
  ASSUME IInv, NEW s \in Scanners, StoreReview(s)
  PROVE  IInv'
<1> USE DEF IInv, At, market
<1>1. /\ pc[s] = "review" /\ reviews' = reviews \cup {ticket[s]}
      /\ UNCHANGED <<clock, breaker, losses, status, runs, created,
                     executed_at, told>>
  BY DEF StoreReview
<1>2. /\ ticket[s] \in Tickets /\ ticket[s] \in runs
      /\ status[ticket[s]] # "absent"
  BY <1>1, TicketInHand DEF InHand, HandInv
<1>3. RowsInOrder'
  BY <1>1, <1>2 DEF RowsInOrder
<1>4. CASE Goto(s, "notify") /\ UNCHANGED untold
  BY <1>1, <1>2, <1>3, <1>4
  DEF Goto, TypeOK, HandInv, OwnInv, InHand, PC
<1>5. CASE Finish(s) /\ untold' = untold \cup {ticket[s]}
  BY <1>1, <1>2, <1>3, <1>5, ScanAssumption
  DEF Finish, TypeOK, HandInv, OwnInv, InHand, PC, Time
<1> QED
  BY <1>4, <1>5 DEF StoreReview

LEMMA EndStep ==
  ASSUME IInv, NEW s \in Scanners, Notify(s) \/ Crash(s)
  PROVE  IInv'
<1> USE DEF IInv, At, market, rows
<1>1. /\ Finish(s)
      /\ UNCHANGED <<clock, breaker, losses, status, runs, reviews, created,
                     executed_at>>
  BY DEF Notify, Crash
<1>2. told' = told \/ (pc[s] = "notify" /\ told' = told \cup {ticket[s]})
  BY DEF Notify, Crash
<1>3. untold' = untold \/ untold' = untold \cup ({ticket[s]} \ {NoTicket})
  BY DEF Notify, Crash
<1>4. pc[s] = "notify" =>
        /\ ticket[s] \in Tickets /\ ticket[s] \in runs /\ ticket[s] \in reviews
        /\ status[ticket[s]] # "absent"
  BY TicketInHand DEF InHand, HandInv
<1>5. TypeOK'
  BY <1>1, <1>2, <1>3, <1>4, ScanAssumption DEF Finish, TypeOK, PC, Time
<1>6. HandInv' /\ OwnInv'
  BY <1>1 DEF Finish, TypeOK, HandInv, OwnInv, InHand
<1>7. RowsInOrder'
  BY <1>1, <1>2, <1>4 DEF RowsInOrder
<1> QED
  BY <1>5, <1>6, <1>7

LEMMA DecisionStep ==
  ASSUME IInv, NEW t \in Tickets, Execute(t) \/ Reject(t)
  PROVE  IInv'
<1> USE DEF IInv, Execute, Reject, market, scan, past
<1>1. TypeOK'
  BY DEF TypeOK, Statuses
<1>2. HandInv'
  BY DEF TypeOK, HandInv, InHand
<1>3. OwnInv' /\ RowsInOrder'
  BY DEF TypeOK, OwnInv, RowsInOrder
<1> QED
  BY <1>1, <1>2, <1>3

LEMMA MarketStep ==
  ASSUME IInv, SwitchOn \/ SwitchOff \/ Lose \/ Recover \/ Tick
  PROVE  IInv'
<1> USE DEF IInv, rows, past, scan
<1>1. UNCHANGED <<status, runs, reviews, created, executed_at, told, untold,
                  pc, config, now, ticket, seen>>
  BY DEF SwitchOn, SwitchOff, Lose, Recover, Tick
<1>2. HandInv' /\ OwnInv' /\ RowsInOrder'
  BY <1>1 DEF HandInv, OwnInv, RowsInOrder
<1>3. clock' \in Time /\ breaker' \in {"on", "off"}
  BY ScanAssumption DEF SwitchOn, SwitchOff, Lose, Recover, Tick, TypeOK, Time
<1>4. losses' \subseteq Nat
  <2>1. 0 .. Day(MaxTime) \subseteq Nat
    <3>1. Day(MaxTime) \in Nat
      BY DayType, ScanAssumption
    <3> QED
      BY <3>1
  <2>2. CASE Lose
    <3>1. PICK day \in 0 .. Day(MaxTime) : losses' = losses \cup {day}
      BY <2>2 DEF Lose
    <3> QED
      BY <2>1, <3>1 DEF TypeOK
  <2>3. CASE SwitchOn \/ SwitchOff \/ Recover \/ Tick
    BY <2>3 DEF SwitchOn, SwitchOff, Recover, Tick, TypeOK
  <2> QED
    BY <2>2, <2>3
<1>5. early' \in [Scanners -> SUBSET Checks]
  BY DEF SwitchOn, SwitchOff, Lose, Recover, Tick, TypeOK, Checks
<1> QED
  BY <1>1, <1>2, <1>3, <1>4, <1>5 DEF TypeOK

LEMMA NextInv == IInv /\ [Next]_vars => IInv'
<1> SUFFICES ASSUME IInv, [Next]_vars PROVE IInv'
  OBVIOUS
<1>1. ASSUME NEW s \in Scanners,
             \/ CheckBreaker(s) \/ CheckCooldown(s)
             \/ CheckDailyBuy(s) \/ CheckLoss(s)
      PROVE  IInv'
  BY <1>1, CheckStep
  DEF CheckBreaker, CheckCooldown, CheckDailyBuy, CheckLoss, Checks
<1>2. CASE UNCHANGED vars
  BY <1>2 DEF vars, IInv, TypeOK, HandInv, OwnInv, RowsInOrder
<1> QED
  BY <1>1, <1>2, StartStep, WorkflowStep, StoreRunStep, StoreTicketStep,
     StoreReviewStep, EndStep, DecisionStep, MarketStep DEF Next, ScanStep

LEMMA Invariance == Spec => []IInv
BY InitInv, NextInv, PTL DEF Spec

\* The variables keep their types in every run.
THEOREM TypeCorrect == Spec => []TypeOK
<1>1. IInv => TypeOK
  BY DEF IInv
<1> QED
  BY <1>1, Invariance, PTL

\* No ticket is stored without its run, nor announced without its row and its
\* review, however scans overlap and die.
THEOREM RowsComeInOrder == Spec => []RowsInOrder
<1>1. IInv => RowsInOrder
  BY DEF IInv
<1> QED
  BY <1>1, Invariance, PTL

-----------------------------------------------------------------------------
(* The blocks. *)

BlockInv == IInv /\ BlocksHaltScans

LEMMA BlocksInit == Init => BlocksHaltScans
BY DEF Init, BlocksHaltScans, Guarded, Idle

\* What a scan's step does to where it stands.
LEMMA BlocksOfScan ==
  ASSUME BlockInv, NEW s \in Scanners,
         (\E c \in Configs : Start(s, c)) \/ ScanStep(s) \/ Crash(s)
  PROVE  BlocksHaltScans'
<1> USE DEF BlockInv, At, market, rows, past
<1>1. /\ breaker' = breaker /\ losses' = losses
      /\ \A r \in Scanners : r # s =>
           /\ pc'[r] = pc[r] /\ config'[r] = config[r] /\ now'[r] = now[r]
           /\ early'[r] = early[r]
  BY DEF IInv, TypeOK, Start, ScanStep, CheckBreaker, CheckCooldown,
         CheckDailyBuy, CheckLoss, Check, Workflow, StoreRun, StoreTicket,
         StoreReview, Notify, Crash, Finish, Goto
<1> DEFINE Halts(r) ==
      Guarded(r) =>
        /\ BreakerOn(r) /\ Passed(r, "breaker") => "breaker" \in early[r]
        /\ LossLimitReached(r) /\ Passed(r, "loss") => "loss" \in early[r]
<1>2. ASSUME NEW r \in Scanners, r # s
      PROVE  Halts(r)'
  BY <1>1, <1>2 DEF BlocksHaltScans, Guarded, BreakerOn, LossLimitReached,
                    Passed
<1>3. ASSUME config'[s] = Idle
      PROVE  Halts(s)'
  BY <1>3 DEF Guarded, Idle
<1>4. ASSUME Finish(s)
      PROVE  Halts(s)'
  BY <1>3, <1>4 DEF Finish, IInv, TypeOK
<1>5. ASSUME NEW to \in PC, Goto(s, to),
             Guarded(s) /\ to \in {"cooldown", "daily_buy", "loss", "workflow"}
               \cup InHand => Passed(s, "breaker") \/ ~ BreakerOn(s),
             Guarded(s) /\ to \in {"workflow"} \cup InHand =>
               Passed(s, "loss") \/ ~ LossLimitReached(s)
      PROVE  Halts(s)'
  <2>1. /\ pc'[s] = to /\ config'[s] = config[s] /\ now'[s] = now[s]
        /\ early'[s] = early[s]
    BY <1>5 DEF Goto, IInv, TypeOK
  <2>2. /\ Guarded(s)' = Guarded(s) /\ BreakerOn(s)' = BreakerOn(s)
        /\ LossLimitReached(s)' = LossLimitReached(s)
    BY <1>1, <2>1 DEF Guarded, BreakerOn, LossLimitReached
  <2>3. /\ Passed(s, "breaker")' <=>
             to \in {"cooldown", "daily_buy", "loss", "workflow"} \cup InHand
        /\ Passed(s, "loss")' <=> to \in {"workflow"} \cup InHand
    BY <2>1 DEF Passed, InHand
  <2> QED
    BY <1>5, <2>1, <2>2, <2>3 DEF BlocksHaltScans
<1>6. Halts(s)'
  <2>1. ASSUME NEW c \in Configs, Start(s, c)
        PROVE  Halts(s)'
    BY <2>1 DEF Start, IInv, TypeOK, Guarded, Passed
  <2>2. CASE CheckBreaker(s)
    BY <1>4, <1>5, <2>2
    DEF CheckBreaker, Check, PC, Checks, InHand, Guarded
  <2>3. CASE CheckCooldown(s)
    BY <1>4, <1>5, <2>3, PassedPlaces
    DEF CheckCooldown, Check, PC, Checks, InHand, Guarded
  <2>4. CASE CheckDailyBuy(s)
    BY <1>4, <1>5, <2>4, PassedPlaces
    DEF CheckDailyBuy, Check, PC, Checks, InHand, Guarded
  <2>5. CASE CheckLoss(s)
    BY <1>4, <1>5, <2>5, PassedPlaces
    DEF CheckLoss, Check, PC, Checks, InHand, Guarded
  <2>6. CASE Workflow(s)
    <3>1. CASE Finish(s)
      BY <1>4, <3>1
    <3>2. CASE pc' = [pc EXCEPT ![s] = "run"] /\ UNCHANGED <<config, now, early>>
      <4>1. /\ Passed(s, "breaker") /\ Passed(s, "loss")
        BY <2>6, PassedPlaces DEF Workflow
      <4> QED
        BY <1>1, <3>2, <4>1
        DEF BlocksHaltScans, Guarded, BreakerOn, LossLimitReached
    <3> QED
      BY <2>6, <3>1, <3>2 DEF Workflow
  <2>7. CASE StoreRun(s) \/ StoreTicket(s) \/ StoreReview(s)
    BY <1>4, <1>5, <2>7, PassedPlaces
    DEF StoreRun, StoreTicket, StoreReview, PC, InHand
  <2>8. CASE Notify(s) \/ Crash(s)
    BY <1>4, <2>8 DEF Notify, Crash
  <2> QED
    BY <2>1, <2>2, <2>3, <2>4, <2>5, <2>6, <2>7, <2>8 DEF ScanStep
<1> QED
  BY <1>2, <1>6 DEF BlocksHaltScans

LEMMA BlocksOfMarket ==
  ASSUME BlockInv, SwitchOn \/ SwitchOff \/ Lose \/ Recover \/ Tick
  PROVE  BlocksHaltScans'
<1> USE DEF BlockInv
<1>1. /\ UNCHANGED <<pc, config, now>>
      /\ \A s \in Scanners : /\ Guarded(s)' = Guarded(s)
                             /\ Passed(s, "breaker")' = Passed(s, "breaker")
                             /\ Passed(s, "loss")' = Passed(s, "loss")
  BY DEF SwitchOn, SwitchOff, Lose, Recover, Tick, scan, Guarded, Passed
<1>2. CASE SwitchOn
  BY <1>1, <1>2 DEF SwitchOn, BlocksHaltScans, LossLimitReached,
                    IInv, TypeOK
<1>3. CASE SwitchOff
  BY <1>1, <1>3 DEF SwitchOff, BlocksHaltScans, BreakerOn, LossLimitReached,
                    IInv, TypeOK
<1>4. CASE Lose
  BY <1>1, <1>4 DEF Lose, BlocksHaltScans, BreakerOn,
                    LossLimitReached, IInv, TypeOK
<1>5. CASE Recover \/ Tick
  BY <1>1, <1>5 DEF Recover, Tick, scan, BlocksHaltScans, BreakerOn,
                    LossLimitReached
<1> QED
  BY <1>2, <1>3, <1>4, <1>5

LEMMA BlocksNext == BlockInv /\ [Next]_vars => BlocksHaltScans'
<1> SUFFICES ASSUME BlockInv, [Next]_vars PROVE BlocksHaltScans'
  OBVIOUS
<1>1. ASSUME UNCHANGED <<breaker, losses, scan>>
      PROVE  BlocksHaltScans'
  BY <1>1 DEF BlockInv, BlocksHaltScans, Guarded, BreakerOn, LossLimitReached,
              Passed, scan
<1>2. ASSUME NEW t \in Tickets, Execute(t) \/ Reject(t)
      PROVE  BlocksHaltScans'
  BY <1>1, <1>2 DEF Execute, Reject, market
<1>3. CASE UNCHANGED vars
  BY <1>1, <1>3 DEF vars, scan
<1> QED
  BY <1>2, <1>3, BlocksOfScan, BlocksOfMarket DEF Next

\* The breaker and the daily loss limit halt every guarded scan that was not
\* already beyond their check.
THEOREM BlocksHalt == Spec => []BlocksHaltScans
<1>1. IInv /\ BlocksHaltScans /\ [Next]_vars => BlocksHaltScans'
  BY BlocksNext DEF BlockInv
<1> QED
  BY <1>1, BlocksInit, Invariance, PTL DEF Spec

-----------------------------------------------------------------------------
(* The cooldown. *)

LEMMA CooledInit == Init => CooldownInv
BY DEF Init, CooldownInv, Cooled, Guarded, Idle

\* Time goes on, and an executed ticket stays executed and keeps its date.
LEMMA ExecutedStays ==
  ASSUME IInv, [Next]_vars
  PROVE  /\ clock <= clock' /\ clock' \in Nat
         /\ \A t \in Executed : t \in Executed' /\ created'[t] = created[t]
<1> USE DEF IInv, At, market, rows, past, scan
<1> DEFINE Stay == \A t \in Executed : /\ t \in Executed'
                                       /\ created'[t] = created[t]
<1>1. clock \in Nat /\ clock' \in Nat /\ clock <= clock'
  BY ScanAssumption
  DEF TypeOK, Time, Next, ScanStep, Start, CheckBreaker, CheckCooldown,
      CheckDailyBuy, CheckLoss, Check, Workflow, StoreRun, StoreTicket,
      StoreReview, Notify, Crash, Execute, Reject, SwitchOn, SwitchOff, Lose,
      Recover, Tick, vars
<1>2. ASSUME UNCHANGED <<status, created>>
      PROVE  Stay
  BY <1>2 DEF Executed, Visible
<1>3. ASSUME NEW s \in Scanners, StoreTicket(s)
      PROVE  Stay
  <2>1. /\ status[ticket[s]] = "absent" /\ created' = created
        /\ status' = [status EXCEPT ![ticket[s]] = "risk_approved"]
    BY <1>3 DEF StoreTicket, HandInv
  <2> QED
    BY <2>1 DEF Executed, Visible, TypeOK
<1>4. ASSUME NEW s \in Scanners, Workflow(s)
      PROVE  Stay
  <2>1. CASE created' = created
    BY <1>2, <1>4, <2>1 DEF Workflow
  <2>2. ASSUME NEW t \in Tickets \ runs,
               created' = [created EXCEPT ![t] = clock]
        PROVE  Stay
    <3>1. t \notin Executed
      BY <2>2 DEF RowsInOrder, Executed, Visible
    <3> QED
      BY <1>4, <2>2, <3>1 DEF Workflow, Executed, Visible, TypeOK
  <2> QED
    BY <1>4, <2>1, <2>2 DEF Workflow
<1>5. ASSUME NEW t \in Tickets, Execute(t) \/ Reject(t)
      PROVE  Stay
  BY <1>5 DEF Execute, Reject, Executed, Visible, TypeOK
<1>6. Stay
  <2>1. ASSUME NEW s \in Scanners, NEW c \in Configs, Start(s, c)
        PROVE  Stay
    BY <1>2, <2>1 DEF Start
  <2>2. ASSUME NEW s \in Scanners,
               \/ CheckBreaker(s) \/ CheckCooldown(s) \/ CheckDailyBuy(s)
               \/ CheckLoss(s) \/ StoreRun(s) \/ StoreReview(s) \/ Notify(s)
               \/ Crash(s)
        PROVE  Stay
    BY <1>2, <2>2
    DEF CheckBreaker, CheckCooldown, CheckDailyBuy, CheckLoss, Check, StoreRun,
        StoreReview, Notify, Crash
  <2>3. CASE SwitchOn \/ SwitchOff \/ Lose \/ Recover \/ Tick \/ UNCHANGED vars
    BY <1>2, <2>3 DEF SwitchOn, SwitchOff, Lose, Recover, Tick, vars
  <2> HIDE DEF Stay
  <2> QED
    BY <1>3, <1>4, <1>5, <2>1, <2>2, <2>3 DEF Next, ScanStep
<1> QED
  BY <1>1, <1>6

\* A scan that keeps what it decided by stays out of the cooldown.
LEMMA CooledCarries ==
  ASSUME IInv, [Next]_vars, NEW s \in Scanners, Cooled(s),
         config'[s] = config[s], now'[s] = now[s], seen'[s] = seen[s],
         ticket'[s] = ticket[s],
         ticket[s] # NoTicket => created'[ticket[s]] = created[ticket[s]],
         Guarded(s) /\ Beyond(s)' => Beyond(s)
  PROVE  Cooled(s)'
<1>1. seen'[s] \subseteq Executed'
  BY ExecutedStays DEF Cooled
<1>2. now'[s] <= clock'
  <2>1. now[s] \in Nat /\ clock \in Nat
    BY DEF IInv, TypeOK, Time
  <2> QED
    BY <2>1, ExecutedStays DEF Cooled
<1>3. ASSUME Guarded(s)', Beyond(s)', NEW t \in seen'[s]
      PROVE  created'[t] + Cooldown <= now'[s]
  <2>1. Guarded(s) /\ Beyond(s)
    BY <1>3 DEF Guarded
  <2>2. t \in Executed
    BY <1>3 DEF Cooled
  <2> QED
    BY <1>3, <2>1, <2>2, ExecutedStays DEF Cooled
<1> QED
  BY <1>1, <1>2, <1>3 DEF Cooled

LEMMA CooledEnds ==
  ASSUME IInv, [Next]_vars, NEW s \in Scanners, Finish(s)
  PROVE  Cooled(s)'
<1>1. /\ seen'[s] = {} /\ now'[s] = 0 /\ ticket'[s] = NoTicket
  BY DEF Finish, IInv, TypeOK
<1>2. clock' \in Nat
  BY ExecutedStays
<1> QED
  BY <1>1, <1>2 DEF Cooled

LEMMA CooledGoesOn ==
  ASSUME IInv, [Next]_vars, NEW s \in Scanners, Cooled(s),
         NEW to \in PC, Goto(s, to), created' = created,
         Guarded(s) /\ to \in {"daily_buy", "loss", "workflow"} \cup InHand =>
           Beyond(s)
  PROVE  Cooled(s)'
<1>1. /\ pc'[s] = to /\ config'[s] = config[s] /\ now'[s] = now[s]
      /\ seen'[s] = seen[s] /\ ticket'[s] = ticket[s]
  BY DEF Goto, IInv, TypeOK
<1>2. Guarded(s) /\ Beyond(s)' => Beyond(s)
  BY <1>1 DEF Beyond
<1> QED
  BY <1>1, <1>2, CooledCarries

\* The check looks at the ticket that was created last, which is not before any
\* ticket the scan has seen.
LEMMA CooldownChecked ==
  ASSUME IInv, NEW s \in Scanners, Cooled(s), ~ CoolingDown(s)
  PROVE  \A t \in seen[s] : created[t] + Cooldown <= now[s]
<1> SUFFICES ASSUME NEW t \in seen[s]
             PROVE  created[t] + Cooldown <= now[s]
  OBVIOUS
<1> DEFINE dates == {created[u] : u \in Executed}
<1>1. t \in Executed
  BY DEF Cooled
<1>2. dates \in SUBSET Time /\ created[t] \in dates
  BY <1>1 DEF IInv, TypeOK, Executed, Visible
<1>3. ~ (now[s] < Max(dates) + Cooldown)
  BY <1>1 DEF CoolingDown
<1> HIDE DEF dates
<1>4. Max(dates) \in Time /\ created[t] <= Max(dates)
  BY <1>2, MaxIsGreatest, ScanAssumption DEF Time
<1>5. now[s] \in Time /\ created[t] \in Time
  BY <1>2 DEF IInv, TypeOK
<1> QED
  BY <1>3, <1>4, <1>5, ScanAssumption DEF Time

LEMMA CooledOfScan ==
  ASSUME IInv, [Next]_vars, NEW s \in Scanners, Cooled(s),
         (\E c \in Configs : Start(s, c)) \/ ScanStep(s) \/ Crash(s)
  PROVE  Cooled(s)'
<1> USE DEF At, market, rows, past
<1>1. ASSUME NEW c \in Configs, Start(s, c)
      PROVE  Cooled(s)'
  <2>1. /\ pc'[s] \in {"breaker", "workflow"} /\ config'[s] = c
        /\ pc'[s] = "workflow" => ~ c.enforce
        /\ now'[s] = clock /\ seen'[s] = Executed /\ ticket'[s] = NoTicket
        /\ clock' = clock
    BY <1>1 DEF Start, IInv, TypeOK, HandInv, InHand
  <2>2. Executed' = Executed
    BY <1>1 DEF Start, Executed, Visible
  <2>3. ~ (Guarded(s)' /\ Beyond(s)')
    BY <2>1 DEF Guarded, Beyond, InHand
  <2>4. clock \in Nat
    BY DEF IInv, TypeOK, Time
  <2> QED
    BY <2>1, <2>2, <2>3, <2>4 DEF Cooled
<1>2. CASE CheckBreaker(s)
  BY <1>2, CooledEnds, CooledGoesOn
  DEF CheckBreaker, Check, PC, Checks, InHand, Guarded
<1>3. CASE CheckCooldown(s)
  <2>1. CASE Finish(s)
    BY <2>1, CooledEnds
  <2>2. CASE CoolingDown(s) /\ config[s].force /\ Goto(s, "workflow")
    BY <1>3, <2>2, CooledGoesOn DEF CheckCooldown, Check, PC, Checks, Guarded
  <2>3. CASE ~ CoolingDown(s) /\ Goto(s, "daily_buy")
    <3>1. \A t \in seen[s] : created[t] + Cooldown <= now[s]
      BY <2>3, CooldownChecked
    <3>2. /\ UNCHANGED <<clock, status, created>>
          /\ now'[s] = now[s] /\ seen'[s] = seen[s] /\ ticket'[s] = ticket[s]
      BY <1>3, <2>3 DEF CheckCooldown, Check, Goto
    <3>3. Executed' = Executed
      BY <3>2 DEF Executed, Visible
    <3> QED
      BY <3>1, <3>2, <3>3 DEF Cooled
  <2> QED
    BY <1>3, <2>1, <2>2, <2>3 DEF CheckCooldown, Check
<1>4. CASE CheckDailyBuy(s)
  BY <1>4, CooledEnds, CooledGoesOn
  DEF CheckDailyBuy, Check, PC, Checks, Beyond
<1>5. CASE CheckLoss(s)
  BY <1>5, CooledEnds, CooledGoesOn DEF CheckLoss, Check, PC, Checks, Beyond
<1>6. CASE Workflow(s)
  <2>1. CASE Finish(s)
    BY <2>1, CooledEnds
  <2>2. ASSUME NEW t \in Tickets \ runs,
               ticket' = [ticket EXCEPT ![s] = t],
               created' = [created EXCEPT ![t] = clock],
               UNCHANGED <<config, now, seen>>
        PROVE  Cooled(s)'
    <3>1. /\ ticket'[s] = t /\ created'[t] = clock
          /\ clock' = clock /\ status' = status
      BY <1>6, <2>2 DEF Workflow, IInv, TypeOK
    <3>2. /\ seen'[s] \subseteq Executed'
          /\ \A u \in seen'[s] : created'[u] = created[u]
      BY <2>2, ExecutedStays DEF Cooled
    <3>3. Beyond(s) /\ Guarded(s)' = Guarded(s)
      BY <1>6, <2>2 DEF Workflow, Beyond, Guarded
    <3> QED
      BY <2>2, <3>1, <3>2, <3>3 DEF Cooled
  <2> QED
    BY <1>6, <2>1, <2>2 DEF Workflow
<1>7. CASE StoreRun(s) \/ StoreTicket(s) \/ StoreReview(s)
  BY <1>7, CooledEnds, CooledGoesOn
  DEF StoreRun, StoreTicket, StoreReview, PC, InHand, Beyond
<1>8. CASE Notify(s) \/ Crash(s)
  BY <1>8, CooledEnds DEF Notify, Crash
<1> QED
  BY <1>1, <1>2, <1>3, <1>4, <1>5, <1>6, <1>7, <1>8 DEF ScanStep

\* The steps of another scan leave a scan and its ticket alone.
LEMMA OtherScan ==
  ASSUME IInv, NEW r \in Scanners, NEW s \in Scanners, r # s,
         (\E c \in Configs : Start(r, c)) \/ ScanStep(r) \/ Crash(r)
  PROVE  /\ pc'[s] = pc[s] /\ config'[s] = config[s] /\ now'[s] = now[s]
         /\ seen'[s] = seen[s] /\ ticket'[s] = ticket[s]
         /\ ticket[s] # NoTicket => created'[ticket[s]] = created[ticket[s]]
<1> USE DEF IInv, TypeOK, At, market, rows, past, Finish, Goto
<1>1. CASE Workflow(r)
  BY <1>1 DEF Workflow
<1>2. CASE ~ Workflow(r)
  BY <1>2 DEF Start, ScanStep, CheckBreaker, CheckCooldown, CheckDailyBuy,
    CheckLoss, Check, StoreRun, StoreTicket, StoreReview, Notify, Crash
<1> QED
  BY <1>1, <1>2

LEMMA CooledNext == IInv /\ CooldownInv /\ [Next]_vars => CooldownInv'
<1> SUFFICES ASSUME IInv, CooldownInv, [Next]_vars, NEW s \in Scanners
             PROVE  Cooled(s)'
  BY DEF CooldownInv
<1>1. Cooled(s)
  BY DEF CooldownInv
<1>2. ASSUME NEW r \in Scanners,
             (\E c \in Configs : Start(r, c)) \/ ScanStep(r) \/ Crash(r)
      PROVE  Cooled(s)'
  <2>1. CASE r = s
    BY <1>1, <1>2, <2>1, CooledOfScan
  <2>2. CASE r # s
    <3>1. Guarded(s) /\ Beyond(s)' => Beyond(s)
      BY <1>2, <2>2, OtherScan DEF Beyond
    <3> QED
      BY <1>1, <1>2, <2>2, <3>1, OtherScan, CooledCarries
  <2> QED
    BY <2>1, <2>2
<1>3. ASSUME UNCHANGED <<pc, config, now, seen, ticket, created>>
      PROVE  Cooled(s)'
  <2>1. Guarded(s) /\ Beyond(s)' => Beyond(s)
    BY <1>3 DEF Beyond
  <2> QED
    BY <1>1, <1>3, <2>1, CooledCarries
<1>4. ASSUME NEW t \in Tickets, Execute(t) \/ Reject(t)
      PROVE  Cooled(s)'
  BY <1>3, <1>4 DEF Execute, Reject, scan, past
<1>5. CASE SwitchOn \/ SwitchOff \/ Lose \/ Recover \/ Tick \/ UNCHANGED vars
  BY <1>3, <1>5 DEF SwitchOn, SwitchOff, Lose, Recover, Tick, vars, scan, past
<1> QED
  BY <1>2, <1>4, <1>5 DEF Next

\* A guarded scan proposes no ticket within the cooldown of any ticket that was
\* executed when it began.
THEOREM CooldownRespected == Spec => []CooldownKept
<1>1. IInv /\ CooldownInv => CooldownKept
  <2>1. SUFFICES ASSUME IInv, CooldownInv, NEW s \in Proposing,
                        NEW t \in seen[s]
                 PROVE  created[ticket[s]] >= created[t] + Cooldown
    BY DEF CooldownKept
  <2>2. s \in Scanners /\ Guarded(s) /\ ticket[s] # NoTicket /\ Cooled(s)
    BY <2>1 DEF Proposing, CooldownInv
  <2>3. Beyond(s)
    BY <2>1, <2>2 DEF IInv, HandInv, Beyond
  <2>4. created[t] + Cooldown <= now[s] /\ now[s] <= created[ticket[s]]
    BY <2>1, <2>2, <2>3 DEF Cooled
  <2>5. t \in Tickets /\ ticket[s] \in Tickets
    BY <2>1, <2>2 DEF Cooled, Executed, Visible, IInv, TypeOK
  <2>6. /\ created[t] \in Nat /\ now[s] \in Nat /\ Cooldown \in Nat
        /\ created[ticket[s]] \in Nat
    BY <2>1, <2>2, <2>5, ScanAssumption DEF IInv, TypeOK, Time
  <2> QED
    BY <2>4, <2>6
<1> QED
  BY <1>1, CooledInit, CooledNext, Invariance, PTL DEF Spec

-----------------------------------------------------------------------------
(* The daily limit. *)

\* The sum over a function is that over its values.
LEMMA TotalIsSum ==
  ASSUME NEW S \in SUBSET Tickets, IsFiniteSet(S)
  PROVE  Total(S) = Sum(Amount, S)
<1> DEFINE f == [t \in S |-> Amount[t]]
<1>1. Total(S) = Sum(f, S)
  BY DEF Total, SumFunction, SumFunctionOnSet, FoldFunctionOnSet, MapThenFoldSet,
         Sum, SumTable, Choice
<1>2. \A t \in S : f[t] \in Int /\ f[t] = Amount[t]
  BY ScanAssumption
<1> HIDE DEF f
<1> QED
  BY <1>1, <1>2, SumSame

\* Finitely many tickets have been proposed, so that what has been bought is a sum.
FiniteInv == IsFiniteSet(runs)

LEMMA FiniteInit == Init => FiniteInv
BY FS_EmptySet DEF Init, FiniteInv

LEMMA FiniteNext == FiniteInv /\ [Next]_vars => FiniteInv'
<1> SUFFICES ASSUME FiniteInv, [Next]_vars PROVE FiniteInv'
  OBVIOUS
<1>1. CASE runs' = runs
  BY <1>1 DEF FiniteInv
<1>2. ASSUME NEW s \in Scanners, StoreRun(s)
      PROVE  FiniteInv'
  BY <1>2, FS_AddElement DEF StoreRun, FiniteInv
<1>3. runs' = runs \/ \E s \in Scanners : StoreRun(s)
  BY DEF Next, ScanStep, Start, CheckBreaker, CheckCooldown, CheckDailyBuy,
         CheckLoss, Check, Workflow, StoreTicket, StoreReview, Notify, Crash,
         Execute, Reject, SwitchOn, SwitchOff, Lose, Recover, Tick, vars, rows
<1> QED
  BY <1>1, <1>2, <1>3

\* More executed tickets are worth no less.
LEMMA BoughtMonotone ==
  ASSUME IInv, FiniteInv, NEW S \in SUBSET Executed, NEW day
  PROVE  /\ Bought(S, day) \in Int /\ Bought(Executed, day) \in Int
         /\ Bought(S, day) <= Bought(Executed, day)
<1> DEFINE D == {t \in Executed : StoredDay(created[t]) = day}
           E == {t \in S : StoredDay(created[t]) = day}
<1>1. D \subseteq runs /\ D \in SUBSET Tickets /\ E \in SUBSET D
  BY DEF IInv, RowsInOrder, Executed, Visible
<1>2. IsFiniteSet(D) /\ IsFiniteSet(E)
  BY <1>1, FS_Subset DEF FiniteInv
<1>3. Bought(Executed, day) = Total(D) /\ Bought(S, day) = Total(E)
  BY DEF Bought
<1> HIDE DEF D, E
<1>4. Total(D) = Sum(Amount, D) /\ Total(E) = Sum(Amount, E)
  BY <1>1, <1>2, TotalIsSum
<1>5. \A t \in D : Amount[t] \in Nat /\ Amount[t] \in Int
  BY <1>1, ScanAssumption
<1>6. Sum(Amount, D) \in Int /\ Sum(Amount, E) \in Int
  BY <1>1, <1>2, <1>5, SumType
<1>7. Sum(Amount, E) <= Sum(Amount, D)
  BY <1>1, <1>2, <1>5, SumMonotone
<1> QED
  BY <1>3, <1>4, <1>6, <1>7

\* The places beyond the check of the daily limit.
Afforded(s) == pc[s] \in {"loss", "workflow"} \cup InHand

Frugal(s) ==
  Guarded(s) /\ Afforded(s) => Bought(seen[s], Day(now[s])) < MaxDailyBuy

FrugalInv == \A s \in Scanners : Frugal(s)

LEMMA FrugalInit == Init => FrugalInv
BY DEF Init, FrugalInv, Frugal, Guarded, Idle

\* A scan that keeps what it decided by stays within the limit: the tickets it has
\* seen keep their dates.
LEMMA FrugalCarries ==
  ASSUME IInv, [Next]_vars, NEW s \in Scanners, Cooled(s), Frugal(s),
         config'[s] = config[s], now'[s] = now[s], seen'[s] = seen[s],
         Guarded(s) /\ Afforded(s)' => Afforded(s)
  PROVE  Frugal(s)'
<1>1. \A t \in seen[s] : created'[t] = created[t]
  BY ExecutedStays DEF Cooled
<1>2. {t \in seen'[s] : StoredDay(created[t])' = Day(now[s])'}
        = {t \in seen[s] : StoredDay(created[t]) = Day(now[s])}
  BY <1>1 DEF StoredDay, Day
<1>3. Bought(seen[s], Day(now[s]))' = Bought(seen[s], Day(now[s]))
  BY <1>2 DEF Bought, Total
<1>4. Guarded(s)' = Guarded(s)
  BY DEF Guarded
<1> QED
  BY <1>3, <1>4 DEF Frugal

LEMMA FrugalEnds ==
  ASSUME IInv, NEW s \in Scanners, Finish(s)
  PROVE  Frugal(s)'
<1>1. config'[s] = Idle
  BY DEF Finish, IInv, TypeOK
<1> QED
  BY <1>1, IdleConfig DEF Frugal, Guarded

LEMMA FrugalGoesOn ==
  ASSUME IInv, [Next]_vars, NEW s \in Scanners, Cooled(s), Frugal(s),
         NEW to \in PC, Goto(s, to),
         Guarded(s) /\ to \in {"loss", "workflow"} \cup InHand => Afforded(s)
  PROVE  Frugal(s)'
<1>1. /\ pc'[s] = to /\ config'[s] = config[s] /\ now'[s] = now[s]
      /\ seen'[s] = seen[s]
  BY DEF Goto, IInv, TypeOK
<1>2. Guarded(s) /\ Afforded(s)' => Afforded(s)
  BY <1>1 DEF Afforded
<1> QED
  BY <1>1, <1>2, FrugalCarries

\* The check sums at least the tickets that the scan has seen.
LEMMA BuyLimitChecked ==
  ASSUME IInv, FiniteInv, NEW s \in Scanners, Cooled(s), ~ BuyLimitReached(s)
  PROVE  Bought(seen[s], Day(now[s])) < MaxDailyBuy
<1> DEFINE day == Day(now[s])
<1>1. seen[s] \in SUBSET Executed
  BY DEF Cooled
<1>2. ~ (Bought(Executed, day) >= MaxDailyBuy)
  BY DEF BuyLimitReached
<1> HIDE DEF day
<1>3. /\ Bought(seen[s], day) \in Int /\ Bought(Executed, day) \in Int
      /\ Bought(seen[s], day) <= Bought(Executed, day)
  BY <1>1, BoughtMonotone
<1>4. MaxDailyBuy \in Int
  BY ScanAssumption
<1>5. Bought(seen[s], day) < MaxDailyBuy
  BY <1>2, <1>3, <1>4
<1> QED
  BY <1>5 DEF day

LEMMA FrugalOfScan ==
  ASSUME IInv, FiniteInv, [Next]_vars, NEW s \in Scanners, Cooled(s), Frugal(s),
         (\E c \in Configs : Start(s, c)) \/ ScanStep(s) \/ Crash(s)
  PROVE  Frugal(s)'
<1> USE DEF At
<1>1. ASSUME NEW c \in Configs, Start(s, c)
      PROVE  Frugal(s)'
  <2>1. /\ pc'[s] \in {"breaker", "workflow"} /\ config'[s] = c
        /\ pc'[s] = "workflow" => ~ c.enforce
    BY <1>1 DEF Start, IInv, TypeOK
  <2>2. ~ (Guarded(s)' /\ Afforded(s)')
    BY <2>1 DEF Guarded, Afforded, InHand
  <2> QED
    BY <2>2 DEF Frugal
<1>2. CASE CheckBreaker(s)
  BY <1>2, FrugalEnds, FrugalGoesOn
  DEF CheckBreaker, Check, PC, Checks, InHand, Guarded
<1>3. CASE CheckCooldown(s)
  BY <1>3, FrugalEnds, FrugalGoesOn
  DEF CheckCooldown, Check, PC, Checks, InHand, Guarded
<1>4. CASE CheckDailyBuy(s)
  <2>1. CASE Finish(s)
    BY <2>1, FrugalEnds
  <2>2. CASE config[s].force /\ Goto(s, "workflow")
    BY <2>2, FrugalGoesOn DEF PC, Guarded
  <2>3. CASE ~ BuyLimitReached(s) /\ Goto(s, "loss")
    <3>1. Bought(seen[s], Day(now[s])) < MaxDailyBuy
      BY <2>3, BuyLimitChecked
    <3>2. created' = created /\ now'[s] = now[s] /\ seen'[s] = seen[s]
      BY <1>4, <2>3 DEF CheckDailyBuy, Check, Goto, past
    <3>3. Bought(seen[s], Day(now[s]))' = Bought(seen[s], Day(now[s]))
      BY <3>2 DEF Bought, StoredDay, Day, Total
    <3> QED
      BY <3>1, <3>3 DEF Frugal
  <2> QED
    BY <1>4, <2>1, <2>2, <2>3 DEF CheckDailyBuy, Check
<1>5. CASE CheckLoss(s)
  BY <1>5, FrugalEnds, FrugalGoesOn DEF CheckLoss, Check, PC, Checks, Afforded
<1>6. CASE Workflow(s)
  <2>1. CASE Finish(s)
    BY <2>1, FrugalEnds
  <2>2. CASE UNCHANGED <<config, now, seen>>
    <3>1. Afforded(s)
      BY <1>6 DEF Workflow, Afforded
    <3> QED
      BY <2>2, <3>1, FrugalCarries
  <2> QED
    BY <1>6, <2>1, <2>2 DEF Workflow
<1>7. CASE StoreRun(s) \/ StoreTicket(s) \/ StoreReview(s)
  BY <1>7, FrugalEnds, FrugalGoesOn
  DEF StoreRun, StoreTicket, StoreReview, PC, InHand, Afforded
<1>8. CASE Notify(s) \/ Crash(s)
  BY <1>8, FrugalEnds DEF Notify, Crash
<1> QED
  BY <1>1, <1>2, <1>3, <1>4, <1>5, <1>6, <1>7, <1>8 DEF ScanStep

LEMMA FrugalNext ==
  IInv /\ FiniteInv /\ CooldownInv /\ FrugalInv /\ [Next]_vars => FrugalInv'
<1> SUFFICES ASSUME IInv, FiniteInv, CooldownInv, FrugalInv, [Next]_vars,
                    NEW s \in Scanners
             PROVE  Frugal(s)'
  BY DEF FrugalInv
<1>1. Cooled(s) /\ Frugal(s)
  BY DEF CooldownInv, FrugalInv
<1>2. ASSUME NEW r \in Scanners,
             (\E c \in Configs : Start(r, c)) \/ ScanStep(r) \/ Crash(r)
      PROVE  Frugal(s)'
  <2>1. CASE r = s
    BY <1>1, <1>2, <2>1, FrugalOfScan
  <2>2. CASE r # s
    <3>1. Guarded(s) /\ Afforded(s)' => Afforded(s)
      BY <1>2, <2>2, OtherScan DEF Afforded
    <3> QED
      BY <1>1, <1>2, <2>2, <3>1, OtherScan, FrugalCarries
  <2> QED
    BY <2>1, <2>2
<1>3. ASSUME UNCHANGED <<pc, config, now, seen>>
      PROVE  Frugal(s)'
  <2>1. Guarded(s) /\ Afforded(s)' => Afforded(s)
    BY <1>3 DEF Afforded
  <2> QED
    BY <1>1, <1>3, <2>1, FrugalCarries
<1>4. ASSUME NEW t \in Tickets, Execute(t) \/ Reject(t)
      PROVE  Frugal(s)'
  BY <1>3, <1>4 DEF Execute, Reject, scan
<1>5. CASE SwitchOn \/ SwitchOff \/ Lose \/ Recover \/ Tick \/ UNCHANGED vars
  BY <1>3, <1>5 DEF SwitchOn, SwitchOff, Lose, Recover, Tick, vars, scan
<1> QED
  BY <1>2, <1>4, <1>5 DEF Next

\* A guarded scan proposes no ticket when the tickets executed for the day had
\* reached the daily limit by the time it began, however many there are, whatever
\* they are worth, and whatever is executed while it looks.
THEOREM DailyBuyRespected == Spec => []DailyBuyKept
<1>1. IInv /\ FrugalInv => DailyBuyKept
  <2>1. SUFFICES ASSUME IInv, FrugalInv, NEW s \in Proposing
                 PROVE  Bought(seen[s], Day(now[s])) < MaxDailyBuy
    BY DEF DailyBuyKept
  <2>2. s \in Scanners /\ Guarded(s) /\ ticket[s] # NoTicket /\ Frugal(s)
    BY <2>1 DEF Proposing, FrugalInv
  <2>3. Afforded(s)
    BY <2>1, <2>2 DEF IInv, HandInv, Afforded
  <2> QED
    BY <2>2, <2>3 DEF Frugal
<1> QED
  BY <1>1, FiniteInit, FiniteNext, CooledInit, CooledNext, FrugalInit, FrugalNext,
     Invariance, PTL DEF Spec
=============================================================================
