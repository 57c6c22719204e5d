---------------------------- MODULE OperatorProofs ----------------------------
(***************************************************************************)
(* What the operator is told and what comes of what the operator answers.  *)
(*                                                                         *)
(* The rows of a run and the status report: whatever processes overlap and *)
(* die, the rows that a run id leads to are of one run, and no decision is *)
(* undone, as long as no two runs are entered in the same second.  The     *)
(* data in a report is behind the newest that was stored when it was asked *)
(* for only if the runs of the two overlapped.                             *)
(*                                                                         *)
(* The bridge forgets no command and handles none twice to any effect, for *)
(* any number of messages, any batch size and any number of deaths.        *)
(***************************************************************************)
EXTENDS AutomationStatus, TelegramBridge, FiniteSums, SequenceTheorems, TLAPS

-----------------------------------------------------------------------------
(* The rows of a run and the status report. *)

\* No two runs take their ids in the same second.
Apart == SameSecond = FALSE

\* A process has a run in hand exactly when it is at work, and has it alone; the
\* run has its id from the moment it enters the agent.
HandInv ==
  \A p \in Scanners :
    /\ pc[p] = "idle" => run[p] = None
    /\ pc[p] # "idle" =>
         /\ run[p] \in 1 .. begun /\ run[p] \notin done
         /\ entered[run[p]] = None <=> pc[p] = "enter"
         /\ pc[p] \in {"market", "account", "state"} => run[p] \in live
    /\ \A q \in Scanners : run[q] = run[p] => q = p \/ run[p] = None

\* A run is known from its fetch on, and has a verdict from its id on.
RunInv ==
  /\ \A n \in Runs : entered[n] = None => verdict[n] = "none" /\ n \notin done
  /\ \A n \in Runs : begun < n => entered[n] = None /\ n \notin live

\* A run id belongs to one run.
IdInv ==
  \A m, n \in Runs : entered[m] = entered[n] => m = n \/ entered[m] = None

\* The run has come past the row, or will not come to it any more.
Stored(n, places) ==
  n \in done \/ \E p \in Scanners : run[p] = n /\ pc[p] \in places

\* A row that has an id is of the run with that id.
AuthorInv ==
  \A i \in Ids :
    /\ account_states[i] # None =>
         account_states[i] \in live /\ RunId(account_states[i]) = i
    /\ trade_tickets[i].run = None <=> trade_tickets[i].status = "absent"
    /\ trade_tickets[i].run # None =>
         /\ RunId(trade_tickets[i].run) = i
         /\ verdict[trade_tickets[i].run] = "approved"
         /\ \A p \in Scanners : run[p] = trade_tickets[i].run => pc[p] = "review"

\* The row of a run stays its own once it is stored.
RowInv ==
  \A n \in Runs :
    /\ Stored(n, {"market", "account", "state", "ticket", "review"}) =>
         agent_runs[RunId(n)] = n
    /\ Stored(n, {"ticket", "review"}) /\ n \in live =>
         account_states[RunId(n)] = n
    /\ Stored(n, {"review"}) /\ verdict[n] = "approved" =>
         trade_tickets[RunId(n)].run = n

\* The runs that ended have one review each.
ReviewInv ==
  /\ \A k \in DOMAIN risk_reviews : risk_reviews[k] \in done
  /\ \A j, k \in DOMAIN risk_reviews : risk_reviews[j] = risk_reviews[k] => j = k
  /\ \A n \in done : \E k \in DOMAIN risk_reviews : risk_reviews[k] = n

IInv ==
  TypeOK /\ HandInv /\ RunInv /\ IdInv /\ AuthorInv /\ RowInv /\ ReviewInv

-----------------------------------------------------------------------------

LEMMA InitInv == Init => IInv
<1> SUFFICES ASSUME Init PROVE IInv
  OBVIOUS
<1>1. TypeOK
  BY ChiefAssumption DEF Init, TypeOK, Ids, Runs, PC, NoRow
<1>2. HandInv /\ RunInv /\ IdInv
  BY ChiefAssumption DEF Init, HandInv, RunInv, IdInv, Runs
<1>3. AuthorInv /\ RowInv /\ ReviewInv
  BY ChiefAssumption DEF Init, AuthorInv, RowInv, ReviewInv, Stored, NoRow, Ids, Runs
<1> QED
  BY <1>1, <1>2, <1>3 DEF IInv

\* The types, and what a process has in hand.
LEMMA TypeStep == TypeOK /\ HandInv /\ [Next]_vars => TypeOK'
<1> SUFFICES ASSUME TypeOK, HandInv, [Next]_vars PROVE TypeOK'
  OBVIOUS
<1> USE ChiefAssumption DEF TypeOK, HandInv, RunId, IdInHand, Goto, Stop, facts, tables
<1>1. ASSUME NEW p \in Scanners, NEW given \in BOOLEAN, Fetch(p, given)
      PROVE  TypeOK'
  BY <1>1 DEF Fetch, Runs, PC
<1>2. ASSUME NEW p \in Scanners, NEW says \in {"none", "rejected", "approved"},
             Enter(p, says)
      PROVE  TypeOK'
  BY <1>2 DEF Enter, PC
<1>3. ASSUME NEW p \in Scanners, StoreRun(p)
      PROVE  TypeOK'
  BY <1>3 DEF StoreRun, PC
<1>4. ASSUME NEW p \in Scanners, StoreMarket(p) \/ StoreAccount(p)
      PROVE  TypeOK'
  <2>1. /\ Append(market_snapshots, run[p]) \in Seq(Runs)
        /\ Append(account_snapshots, run[p]) \in Seq(Runs)
    BY <1>4 DEF StoreMarket, StoreAccount, Runs
  <2>2. CASE StoreMarket(p)
    BY <2>1, <2>2 DEF StoreMarket, PC
  <2>3. CASE StoreAccount(p)
    BY <2>1, <2>3 DEF StoreAccount, PC
  <2> QED
    BY <1>4, <2>2, <2>3
<1>5. ASSUME NEW p \in Scanners, StoreState(p)
      PROVE  TypeOK'
  BY <1>5 DEF StoreState, PC
<1>6. ASSUME NEW p \in Scanners, StoreTicket(p)
      PROVE  TypeOK'
  BY <1>6 DEF StoreTicket, PC
<1>7. ASSUME NEW p \in Scanners, StoreReview(p)
      PROVE  TypeOK'
  <2>1. run[p] \in Runs /\ Append(risk_reviews, run[p]) \in Seq(Runs)
    BY <1>7 DEF StoreReview, Runs
  <2> QED
    BY <1>7, <2>1 DEF StoreReview, PC
<1>8. ASSUME NEW p \in Scanners, Crash(p)
      PROVE  TypeOK'
  BY <1>8 DEF Crash, PC
<1>9. ASSUME NEW i \in Ids, Decide(i)
      PROVE  TypeOK'
  BY <1>9 DEF Decide
<1>10. CASE Tick
  BY <1>10 DEF Tick, Ids
<1>11. CASE UNCHANGED vars
  BY <1>11 DEF vars
<1> QED
  BY <1>1, <1>2, <1>3, <1>4, <1>5, <1>6, <1>7, <1>8, <1>9, <1>10, <1>11
  DEF Next, Store

\* A process keeps its run to itself.
LEMMA HandStep == TypeOK /\ HandInv /\ RunInv /\ [Next]_vars => HandInv'
<1> SUFFICES ASSUME TypeOK, HandInv, RunInv, [Next]_vars PROVE HandInv'
  OBVIOUS
<1> USE ChiefAssumption DEF TypeOK, HandInv, RunInv, Runs, RunId, IdInHand, Goto, Stop, facts, tables
<1>1. ASSUME NEW p \in Scanners, NEW given \in BOOLEAN, Fetch(p, given)
      PROVE  HandInv'
  BY <1>1 DEF Fetch
<1>2. ASSUME NEW p \in Scanners, NEW says \in {"none", "rejected", "approved"},
             Enter(p, says)
      PROVE  HandInv'
  <2>1. /\ run[p] \in Runs /\ entered[run[p]] = None /\ second \in Nat /\ second # None
        /\ entered'[run[p]] = second
        /\ \A n \in Runs : n # run[p] => entered'[n] = entered[n]
    BY <1>2 DEF Enter, Ids
  <2>2. \A q \in Scanners : q # p => pc'[q] = pc[q] /\ (pc[q] # "idle" => run[q] # run[p])
    BY <1>2, <2>1 DEF Enter
  <2> QED
    BY <1>2, <2>1, <2>2 DEF Enter
<1>3. ASSUME NEW p \in Scanners, StoreRun(p)
      PROVE  HandInv'
  BY <1>3 DEF StoreRun
<1>4. ASSUME NEW p \in Scanners, StoreMarket(p) \/ StoreAccount(p)
      PROVE  HandInv'
  BY <1>4 DEF StoreMarket, StoreAccount
<1>5. ASSUME NEW p \in Scanners, StoreState(p)
      PROVE  HandInv'
  BY <1>5 DEF StoreState
<1>6. ASSUME NEW p \in Scanners, StoreTicket(p)
      PROVE  HandInv'
  BY <1>6 DEF StoreTicket
<1>7. ASSUME NEW p \in Scanners, StoreReview(p)
      PROVE  HandInv'
  BY <1>7 DEF StoreReview
<1>8. ASSUME NEW p \in Scanners, Crash(p)
      PROVE  HandInv'
  BY <1>8 DEF Crash
<1>9. ASSUME NEW i \in Ids, Decide(i)
      PROVE  HandInv'
  BY <1>9 DEF Decide
<1>10. CASE Tick
  BY <1>10 DEF Tick
<1>11. CASE UNCHANGED vars
  BY <1>11 DEF vars
<1> QED
  BY <1>1, <1>2, <1>3, <1>4, <1>5, <1>6, <1>7, <1>8, <1>9, <1>10, <1>11
  DEF Next, Store
\* A run that is not fetched, or not entered, has nothing yet.
LEMMA RunStep == TypeOK /\ HandInv /\ RunInv /\ [Next]_vars => RunInv'
<1> SUFFICES ASSUME TypeOK, HandInv, RunInv, [Next]_vars PROVE RunInv'
  OBVIOUS
<1> USE ChiefAssumption DEF TypeOK, HandInv, RunInv, Runs, RunId, IdInHand, Goto, Stop, facts, tables
<1>1. ASSUME NEW p \in Scanners, NEW given \in BOOLEAN, Fetch(p, given)
      PROVE  RunInv'
  BY <1>1 DEF Fetch
<1>2. ASSUME NEW p \in Scanners, NEW says \in {"none", "rejected", "approved"},
             Enter(p, says)
      PROVE  RunInv'
  <2>1. /\ run[p] \in Runs /\ entered[run[p]] = None /\ second \in Nat /\ second # None
        /\ entered'[run[p]] = second
        /\ \A n \in Runs : n # run[p] => entered'[n] = entered[n]
    BY <1>2 DEF Enter, Ids
  <2> QED
    BY <1>2, <2>1 DEF Enter
<1>3. ASSUME NEW p \in Scanners, StoreRun(p)
      PROVE  RunInv'
  BY <1>3 DEF StoreRun
<1>4. ASSUME NEW p \in Scanners, StoreMarket(p) \/ StoreAccount(p)
      PROVE  RunInv'
  BY <1>4 DEF StoreMarket, StoreAccount
<1>5. ASSUME NEW p \in Scanners, StoreState(p)
      PROVE  RunInv'
  BY <1>5 DEF StoreState
<1>6. ASSUME NEW p \in Scanners, StoreTicket(p)
      PROVE  RunInv'
  BY <1>6 DEF StoreTicket
<1>7. ASSUME NEW p \in Scanners, StoreReview(p)
      PROVE  RunInv'
  BY <1>7 DEF StoreReview
<1>8. ASSUME NEW p \in Scanners, Crash(p)
      PROVE  RunInv'
  BY <1>8 DEF Crash
<1>9. ASSUME NEW i \in Ids, Decide(i)
      PROVE  RunInv'
  BY <1>9 DEF Decide
<1>10. CASE Tick
  BY <1>10 DEF Tick
<1>11. CASE UNCHANGED vars
  BY <1>11 DEF vars
<1> QED
  BY <1>1, <1>2, <1>3, <1>4, <1>5, <1>6, <1>7, <1>8, <1>9, <1>10, <1>11
  DEF Next, Store
\* Ids are taken in different seconds.
LEMMA IdStep == Apart /\ TypeOK /\ HandInv /\ IdInv /\ [Next]_vars => IdInv'
<1> SUFFICES ASSUME Apart, TypeOK, HandInv, IdInv, [Next]_vars PROVE IdInv'
  OBVIOUS
<1> USE ChiefAssumption DEF Apart, TypeOK, HandInv, IdInv, Runs, RunId, IdInHand, Goto, Stop, facts, tables
<1>1. ASSUME NEW p \in Scanners, NEW given \in BOOLEAN, Fetch(p, given)
      PROVE  IdInv'
  BY <1>1 DEF Fetch
<1>2. ASSUME NEW p \in Scanners, NEW says \in {"none", "rejected", "approved"},
             Enter(p, says)
      PROVE  IdInv'
  BY <1>2 DEF Enter
<1>3. ASSUME NEW p \in Scanners, StoreRun(p)
      PROVE  IdInv'
  BY <1>3 DEF StoreRun
<1>4. ASSUME NEW p \in Scanners, StoreMarket(p) \/ StoreAccount(p)
      PROVE  IdInv'
  BY <1>4 DEF StoreMarket, StoreAccount
<1>5. ASSUME NEW p \in Scanners, StoreState(p)
      PROVE  IdInv'
  BY <1>5 DEF StoreState
<1>6. ASSUME NEW p \in Scanners, StoreTicket(p)
      PROVE  IdInv'
  BY <1>6 DEF StoreTicket
<1>7. ASSUME NEW p \in Scanners, StoreReview(p)
      PROVE  IdInv'
  BY <1>7 DEF StoreReview
<1>8. ASSUME NEW p \in Scanners, Crash(p)
      PROVE  IdInv'
  BY <1>8 DEF Crash
<1>9. ASSUME NEW i \in Ids, Decide(i)
      PROVE  IdInv'
  BY <1>9 DEF Decide
<1>10. CASE Tick
  BY <1>10 DEF Tick
<1>11. CASE UNCHANGED vars
  BY <1>11 DEF vars
<1> QED
  BY <1>1, <1>2, <1>3, <1>4, <1>5, <1>6, <1>7, <1>8, <1>9, <1>10, <1>11
  DEF Next, Store
\* A row is stored under the id of its run.
LEMMA AuthorStep == TypeOK /\ HandInv /\ RunInv /\ IdInv /\ AuthorInv /\ [Next]_vars => AuthorInv'
<1> SUFFICES ASSUME TypeOK, HandInv, RunInv, IdInv, AuthorInv, [Next]_vars PROVE AuthorInv'
  OBVIOUS
<1> USE ChiefAssumption DEF TypeOK, HandInv, RunInv, IdInv, AuthorInv, Runs, RunId, IdInHand, Goto, Stop, facts, tables
<1>1. ASSUME NEW p \in Scanners, NEW given \in BOOLEAN, Fetch(p, given)
      PROVE  AuthorInv'
  BY <1>1 DEF Fetch
<1>2. ASSUME NEW p \in Scanners, NEW says \in {"none", "rejected", "approved"},
             Enter(p, says)
      PROVE  AuthorInv'
  <2>1. run[p] \in Runs /\ entered[run[p]] = None /\ second # None
    BY <1>2 DEF Enter, Ids
  <2>2. \A n \in Runs : n # run[p] => entered'[n] = entered[n] /\ verdict'[n] = verdict[n]
    BY <1>2, <2>1 DEF Enter
  <2>3. UNCHANGED <<account_states, trade_tickets, live, run>>
    BY <1>2 DEF Enter
  <2>4. ASSUME NEW n \in Runs, entered[n] \in Ids
        PROVE  entered'[n] = entered[n] /\ verdict'[n] = verdict[n]
    BY <2>1, <2>2, <2>4 DEF Ids
  <2>5. ASSUME NEW i \in Ids, account_states[i] # None
        PROVE  account_states[i] \in live /\ entered'[account_states[i]] = i
    BY <2>4, <2>5
  <2>6. ASSUME NEW i \in Ids, trade_tickets[i].run # None
        PROVE  /\ entered'[trade_tickets[i].run] = i
               /\ verdict'[trade_tickets[i].run] = "approved"
               /\ trade_tickets[i].run # run[p]
    <3>1. trade_tickets[i].run \in Runs /\ entered[trade_tickets[i].run] = i
      BY <2>6
    <3>2. verdict[trade_tickets[i].run] = "approved"
      BY <2>6
    <3> QED
      BY <2>1, <2>4, <3>1, <3>2 DEF Ids
  <2>7. \A q \in Scanners : q # p => pc'[q] = pc[q]
    BY <1>2 DEF Enter
  <2> QED
    BY <2>3, <2>5, <2>6, <2>7
<1>3. ASSUME NEW p \in Scanners, StoreRun(p)
      PROVE  AuthorInv'
  BY <1>3 DEF StoreRun
<1>4. ASSUME NEW p \in Scanners, StoreMarket(p) \/ StoreAccount(p)
      PROVE  AuthorInv'
  BY <1>4 DEF StoreMarket, StoreAccount
<1>5. ASSUME NEW p \in Scanners, StoreState(p)
      PROVE  AuthorInv'
  <2>1. run[p] \in Runs /\ entered[run[p]] \in Ids
    BY <1>5 DEF StoreState
  <2> QED
    BY <1>5, <2>1 DEF StoreState
<1>6. ASSUME NEW p \in Scanners, StoreTicket(p)
      PROVE  AuthorInv'
  BY <1>6 DEF StoreTicket
<1>7. ASSUME NEW p \in Scanners, StoreReview(p)
      PROVE  AuthorInv'
  BY <1>7 DEF StoreReview
<1>8. ASSUME NEW p \in Scanners, Crash(p)
      PROVE  AuthorInv'
  BY <1>8 DEF Crash
<1>9. ASSUME NEW i \in Ids, Decide(i)
      PROVE  AuthorInv'
  BY <1>9 DEF Decide
<1>10. CASE Tick
  BY <1>10 DEF Tick
<1>11. CASE UNCHANGED vars
  BY <1>11 DEF vars
<1> QED
  BY <1>1, <1>2, <1>3, <1>4, <1>5, <1>6, <1>7, <1>8, <1>9, <1>10, <1>11
  DEF Next, Store
\* No other run stores a row under the id.
LEMMA RowStep == TypeOK /\ HandInv /\ RunInv /\ IdInv /\ RowInv /\ [Next]_vars => RowInv'
<1> SUFFICES ASSUME TypeOK, HandInv, RunInv, IdInv, RowInv, [Next]_vars PROVE RowInv'
  OBVIOUS
<1> USE ChiefAssumption DEF TypeOK, HandInv, RunInv, IdInv, RowInv, Stored, Runs, RunId, IdInHand, Goto, Stop, facts, tables
<1>1. ASSUME NEW p \in Scanners, NEW given \in BOOLEAN, Fetch(p, given)
      PROVE  RowInv'
  <2>1. /\ begun + 1 \in Runs /\ begun + 1 \notin done
        /\ \A q \in Scanners : pc[q] # "idle" => run[q] # begun + 1
    BY <1>1 DEF Fetch
  <2>2. /\ pc'[p] = "enter" /\ run'[p] = begun + 1
        /\ \A q \in Scanners : q # p => pc'[q] = pc[q] /\ run'[q] = run[q]
        /\ \A n \in live' : n \in live \/ n = begun + 1
    BY <1>1 DEF Fetch
  <2>3. UNCHANGED <<agent_runs, account_states, trade_tickets, entered, verdict, done>>
    BY <1>1 DEF Fetch
  <2> HIDE DEF TypeOK, HandInv, RunInv, IdInv
  <2>4. ASSUME NEW n \in Runs, NEW places, "enter" \notin places, "idle" \notin places,
               Stored(n, places)'
        PROVE  n # begun + 1 /\ Stored(n, places)
    BY <2>1, <2>2, <2>3, <2>4
  <2>5. ASSUME NEW n \in Runs,
               NEW places \in {{"market", "account", "state", "ticket", "review"},
                              {"ticket", "review"}, {"review"}},
               Stored(n, places)'
        PROVE  n # begun + 1 /\ Stored(n, places)
    BY <2>4, <2>5
  <2> HIDE DEF Stored
  <2> QED
    BY <2>2, <2>3, <2>5
<1>2. ASSUME NEW p \in Scanners, NEW says \in {"none", "rejected", "approved"},
             Enter(p, says)
      PROVE  RowInv'
  BY <1>2 DEF Enter
<1>3. ASSUME NEW p \in Scanners, StoreRun(p)
      PROVE  RowInv'
  BY <1>3 DEF StoreRun
<1>4. ASSUME NEW p \in Scanners, StoreMarket(p) \/ StoreAccount(p)
      PROVE  RowInv'
  BY <1>4 DEF StoreMarket, StoreAccount
<1>5. ASSUME NEW p \in Scanners, StoreState(p)
      PROVE  RowInv'
  BY <1>5 DEF StoreState
<1>6. ASSUME NEW p \in Scanners, StoreTicket(p)
      PROVE  RowInv'
  BY <1>6 DEF StoreTicket
<1>7. ASSUME NEW p \in Scanners, StoreReview(p)
      PROVE  RowInv'
  BY <1>7 DEF StoreReview
<1>8. ASSUME NEW p \in Scanners, Crash(p)
      PROVE  RowInv'
  BY <1>8 DEF Crash
<1>9. ASSUME NEW i \in Ids, Decide(i)
      PROVE  RowInv'
  BY <1>9 DEF Decide
<1>10. CASE Tick
  BY <1>10 DEF Tick
<1>11. CASE UNCHANGED vars
  BY <1>11 DEF vars
<1> QED
  BY <1>1, <1>2, <1>3, <1>4, <1>5, <1>6, <1>7, <1>8, <1>9, <1>10, <1>11
  DEF Next, Store
\* A run stores one review, as its last row.
LEMMA ReviewStep == TypeOK /\ HandInv /\ ReviewInv /\ [Next]_vars => ReviewInv'
<1> SUFFICES ASSUME TypeOK, HandInv, ReviewInv, [Next]_vars PROVE ReviewInv'
  OBVIOUS
<1> USE ChiefAssumption DEF TypeOK, HandInv, ReviewInv, Runs, RunId, IdInHand, Goto, Stop, facts, tables
<1>1. ASSUME NEW p \in Scanners, NEW given \in BOOLEAN, Fetch(p, given)
      PROVE  ReviewInv'
  BY <1>1 DEF Fetch
<1>2. ASSUME NEW p \in Scanners, NEW says \in {"none", "rejected", "approved"},
             Enter(p, says)
      PROVE  ReviewInv'
  BY <1>2 DEF Enter
<1>3. ASSUME NEW p \in Scanners, StoreRun(p)
      PROVE  ReviewInv'
  BY <1>3 DEF StoreRun
<1>4. ASSUME NEW p \in Scanners, StoreMarket(p) \/ StoreAccount(p)
      PROVE  ReviewInv'
  BY <1>4 DEF StoreMarket, StoreAccount
<1>5. ASSUME NEW p \in Scanners, StoreState(p)
      PROVE  ReviewInv'
  BY <1>5 DEF StoreState
<1>6. ASSUME NEW p \in Scanners, StoreTicket(p)
      PROVE  ReviewInv'
  BY <1>6 DEF StoreTicket
<1>7. ASSUME NEW p \in Scanners, StoreReview(p)
      PROVE  ReviewInv'
  <2>1. run[p] \in Runs /\ run[p] \notin done /\ risk_reviews \in Seq(Runs)
    BY <1>7 DEF StoreReview
  <2>2. /\ Len(risk_reviews) \in Nat
        /\ DOMAIN risk_reviews = 1 .. Len(risk_reviews)
        /\ DOMAIN risk_reviews' = 1 .. Len(risk_reviews) + 1
        /\ risk_reviews'[Len(risk_reviews) + 1] = run[p]
        /\ \A k \in DOMAIN risk_reviews : risk_reviews'[k] = risk_reviews[k]
    BY <1>7, <2>1, AppendProperties, LenProperties DEF StoreReview
  <2>3. done' = done \cup {run[p]}
    BY <1>7 DEF StoreReview
  <2> HIDE DEF TypeOK, HandInv
  <2> DEFINE top == Len(risk_reviews) + 1
  <2>4. \A k \in DOMAIN risk_reviews' : k = top \/ k \in DOMAIN risk_reviews
    BY <2>2
  <2>5. \A k \in DOMAIN risk_reviews : risk_reviews'[k] \in done
    BY <2>2
  <2>6. top \in DOMAIN risk_reviews' /\ DOMAIN risk_reviews \subseteq DOMAIN risk_reviews'
    BY <2>2
  <2> HIDE DEF top
  <2>7. \A k \in DOMAIN risk_reviews' : risk_reviews'[k] \in done'
    BY <2>2, <2>3, <2>4, <2>5 DEF top
  <2>8. \A j, k \in DOMAIN risk_reviews' :
          risk_reviews'[j] = risk_reviews'[k] => j = k
    BY <2>1, <2>2, <2>4, <2>5 DEF top
  <2>9. \A n \in done' : \E k \in DOMAIN risk_reviews' : risk_reviews'[k] = n
    BY <2>2, <2>3, <2>6 DEF top
  <2> QED
    BY <2>7, <2>8, <2>9
<1>8. ASSUME NEW p \in Scanners, Crash(p)
      PROVE  ReviewInv'
  BY <1>8 DEF Crash
<1>9. ASSUME NEW i \in Ids, Decide(i)
      PROVE  ReviewInv'
  BY <1>9 DEF Decide
<1>10. CASE Tick
  BY <1>10 DEF Tick
<1>11. CASE UNCHANGED vars
  BY <1>11 DEF vars
<1> QED
  BY <1>1, <1>2, <1>3, <1>4, <1>5, <1>6, <1>7, <1>8, <1>9, <1>10, <1>11
  DEF Next, Store

LEMMA NextInv == Apart /\ IInv /\ [Next]_vars => IInv'
  BY TypeStep, HandStep, RunStep, IdStep, AuthorStep, RowStep, ReviewStep DEF IInv

LEMMA Invariance ==
  ASSUME Apart
  PROVE  Spec => []IInv
  BY InitInv, NextInv, PTL DEF Spec

\* Of the rows with a run's id, the reviews included, all are of the run.
LEMMA WholeRuns == IInv => CompletedIsWhole
<1> SUFFICES ASSUME IInv, NEW n \in done
             PROVE  LET i == RunId(n) IN
                    /\ agent_runs[i] = n
                    /\ account_states[i] = IF n \in live THEN n ELSE None
                    /\ trade_tickets[i].run = IF verdict[n] = "approved" THEN n ELSE None
                    /\ verdict[n] # "none" => risk_reviews[Max(ReviewsOf(i))] = n
  BY DEF CompletedIsWhole
<1> DEFINE i == RunId(n)
<1>1. n \in Runs /\ i \in Ids /\ i # None
  BY ChiefAssumption DEF IInv, TypeOK, RunInv, RunId, Ids
<1>2. \A m \in Runs : RunId(m) = i => m = n
  BY <1>1 DEF IInv, IdInv, RunId
<1>3. agent_runs[i] = n
  BY <1>1 DEF IInv, RowInv, Stored
<1>4. account_states[i] = IF n \in live THEN n ELSE None
  <2>1. CASE n \in live
    BY <1>1, <2>1 DEF IInv, RowInv, Stored
  <2>2. CASE n \notin live
    BY <1>1, <1>2, <2>2 DEF IInv, AuthorInv, TypeOK
  <2> QED
    BY <2>1, <2>2
<1>5. trade_tickets[i].run = IF verdict[n] = "approved" THEN n ELSE None
  <2>1. CASE verdict[n] = "approved"
    BY <1>1, <2>1 DEF IInv, RowInv, Stored
  <2>2. CASE verdict[n] # "approved"
    BY <1>1, <1>2, <2>2 DEF IInv, AuthorInv, TypeOK
  <2> QED
    BY <2>1, <2>2
<1>6. ASSUME verdict[n] # "none"
      PROVE  risk_reviews[Max(ReviewsOf(i))] = n
  <2>1. PICK k \in DOMAIN risk_reviews : risk_reviews[k] = n
    BY DEF IInv, ReviewInv
  <2>2. k \in Nat
    BY <2>1 DEF IInv, TypeOK
  <2>3. ReviewsOf(i) = {k}
    BY <1>1, <1>2, <1>6, <2>1 DEF ReviewsOf, IInv, ReviewInv, TypeOK
  <2>4. Max({k}) = k
    BY <2>2 DEF Max
  <2> QED
    BY <2>1, <2>3, <2>4
<1> QED
  BY <1>3, <1>4, <1>5, <1>6

-----------------------------------------------------------------------------
(* What the report adds to the runs only reads them. *)

\* Every run of the status model is one of ChiefRuns.
LEMMA StatusOnlyReads == StatusSpec => Spec
<1>1. StatusInit => Init
  BY DEF StatusInit
<1>2. [StatusNext]_allVars => [Next]_vars
  BY DEF StatusNext, Work, Begin, Read, Query, Switch, Analyse, allVars
<1> QED
  BY <1>1, <1>2, PTL DEF StatusSpec, Spec

\* What a process that has a row of its run in hand has stored before.
BackInv ==
  /\ RowsLeadBack
  /\ \A n \in ToSet(market_snapshots) : entered[n] # None
  /\ \A p \in Scanners :
       /\ pc[p] \in {"account", "state"} => run[p] \in ToSet(market_snapshots)
       /\ pc[p] = "state" => run[p] \in ToSet(account_snapshots)

LEMMA AppendSet ==
  ASSUME NEW table \in Seq(Runs), NEW n \in Runs
  PROVE  ToSet(Append(table, n)) = ToSet(table) \cup {n}
<1>1. /\ Len(table) \in Nat /\ DOMAIN table = 1 .. Len(table)
      /\ DOMAIN Append(table, n) = 1 .. Len(table) + 1
      /\ Append(table, n)[Len(table) + 1] = n
      /\ \A k \in DOMAIN table : Append(table, n)[k] = table[k]
  BY AppendProperties, LenProperties
<1> QED
  BY <1>1 DEF ToSet

LEMMA BackInit == Init => BackInv
  BY ChiefAssumption DEF Init, BackInv, RowsLeadBack, ToSet, NoRow

\* Each row is stored behind those it leads back to, and none of these is replaced by
\* the row of another run.
LEMMA BackStep == IInv /\ BackInv /\ [Next]_vars => BackInv'
<1> SUFFICES ASSUME IInv, BackInv, [Next]_vars PROVE BackInv'
  OBVIOUS
<1> USE ChiefAssumption DEF BackInv, RowsLeadBack, RunId, IdInHand, Goto, Stop, facts, tables
<1>0. /\ TypeOK /\ HandInv /\ RunInv /\ IdInv /\ AuthorInv /\ RowInv
      /\ ToSet(market_snapshots) \subseteq Runs /\ ToSet(account_snapshots) \subseteq Runs
      /\ \A p \in Scanners : pc[p] # "idle" => run[p] \in Runs
      /\ \A i \in Ids : trade_tickets[i].run \in Runs \cup {None} /\ i # None
      /\ \A p \in Scanners : pc[p] \notin {"idle", "enter"} =>
           entered[run[p]] \in Ids /\ entered[run[p]] # None
  <2>1. TypeOK /\ HandInv /\ RunInv /\ IdInv /\ AuthorInv /\ RowInv
    BY DEF IInv
  <2>2. ToSet(market_snapshots) \subseteq Runs /\ ToSet(account_snapshots) \subseteq Runs
    BY <2>1, LenProperties DEF TypeOK, ToSet
  <2>3. \A p \in Scanners : pc[p] # "idle" => run[p] \in Runs
    BY <2>1 DEF TypeOK, HandInv, Runs
  <2>4. \A i \in Ids : trade_tickets[i].run \in Runs \cup {None} /\ i # None
    BY <2>1 DEF TypeOK, Ids
  <2>5. \A p \in Scanners : pc[p] \notin {"idle", "enter"} =>
          entered[run[p]] \in Ids /\ entered[run[p]] # None
    BY <2>1, <2>3 DEF TypeOK, HandInv
  <2> QED
    BY <2>1, <2>2, <2>3, <2>4, <2>5
<1>1. ASSUME NEW p \in Scanners, NEW given \in BOOLEAN, Fetch(p, given)
      PROVE  BackInv'
  <2>1. \A i \in Ids : trade_tickets[i].run # None => trade_tickets[i].run <= begun
    BY <1>0 DEF AuthorInv, RunInv, TypeOK, RunId, Runs
  <2> QED
    BY <1>0, <1>1, <2>1 DEF Fetch, TypeOK, Runs
<1>2. ASSUME NEW p \in Scanners, NEW says \in {"none", "rejected", "approved"},
             Enter(p, says)
      PROVE  BackInv'
  <2>1. entered[run[p]] = None
    BY <1>0, <1>2 DEF Enter, HandInv
  <2>2. \A n \in Runs : entered[n] # None => entered'[n] = entered[n]
    BY <1>0, <1>2, <2>1 DEF Enter, TypeOK
  <2> QED
    BY <1>0, <1>2, <2>2 DEF Enter, TypeOK
<1>3. ASSUME NEW p \in Scanners, StoreRun(p)
      PROVE  BackInv'
  <2>1. run[p] \in Runs /\ entered[run[p]] \in Ids /\ entered[run[p]] # None
    BY <1>0, <1>3 DEF StoreRun
  <2>2. /\ agent_runs' = [agent_runs EXCEPT ![entered[run[p]]] = run[p]]
        /\ UNCHANGED <<market_snapshots, account_snapshots, account_states, trade_tickets,
                      entered, run, live>>
        /\ \A q \in Scanners : q # p => pc'[q] = pc[q]
        /\ pc'[p] \in {"market", "ticket"}
    BY <1>0, <1>3 DEF StoreRun, TypeOK
  <2>3. \A n \in Runs : entered[n] = entered[run[p]] => n = run[p]
    BY <1>0, <2>1 DEF IdInv
  <2>4. \A n \in ToSet(market_snapshots) : agent_runs'[entered[n]] = n
    BY <1>0, <2>1, <2>2, <2>3 DEF TypeOK
  <2>5. \A i \in Ids : trade_tickets[i].run # None => agent_runs'[i] = trade_tickets[i].run
    BY <1>0, <2>1, <2>2, <2>3 DEF TypeOK, AuthorInv
  <2> QED
    BY <2>2, <2>4, <2>5
<1>4. ASSUME NEW p \in Scanners, StoreMarket(p)
      PROVE  BackInv'
  <2>1. agent_runs[entered[run[p]]] = run[p] /\ entered[run[p]] # None
    BY <1>0, <1>4 DEF StoreMarket, RowInv, Stored, HandInv
  <2>2. ToSet(market_snapshots') = ToSet(market_snapshots) \cup {run[p]}
    BY <1>0, <1>4, AppendSet DEF StoreMarket, TypeOK
  <2> QED
    BY <1>0, <1>4, <2>1, <2>2 DEF StoreMarket, TypeOK
<1>5. ASSUME NEW p \in Scanners, StoreAccount(p)
      PROVE  BackInv'
  <2>1. ToSet(account_snapshots') = ToSet(account_snapshots) \cup {run[p]}
    BY <1>0, <1>5, AppendSet DEF StoreAccount, TypeOK
  <2> QED
    BY <1>0, <1>5, <2>1 DEF StoreAccount, TypeOK
<1>6. ASSUME NEW p \in Scanners, StoreState(p)
      PROVE  BackInv'
  <2>1. run[p] \in Runs /\ entered[run[p]] \in Ids /\ entered[run[p]] # None
    BY <1>0, <1>6 DEF StoreState
  <2>2. \A n \in Runs : entered[n] = entered[run[p]] => n = run[p]
    BY <1>0, <2>1 DEF IdInv
  <2>3. \A i \in Ids : trade_tickets[i].run # None /\ i = entered[run[p]]
                         => trade_tickets[i].run = run[p]
    BY <1>0, <2>2 DEF AuthorInv
  <2> QED
    BY <1>0, <1>6, <2>1, <2>3 DEF StoreState, TypeOK
<1>7. ASSUME NEW p \in Scanners, StoreTicket(p)
      PROVE  BackInv'
  <2>1. /\ agent_runs[entered[run[p]]] = run[p]
        /\ run[p] \in live => account_states[entered[run[p]]] = run[p]
    BY <1>0, <1>7 DEF StoreTicket, RowInv, Stored
  <2> QED
    BY <1>0, <1>7, <2>1 DEF StoreTicket, TypeOK
<1>8. ASSUME NEW p \in Scanners, StoreReview(p) \/ Crash(p)
      PROVE  BackInv'
  BY <1>0, <1>8 DEF StoreReview, Crash, TypeOK
<1>9. ASSUME NEW i \in Ids, Decide(i)
      PROVE  BackInv'
  BY <1>0, <1>9 DEF Decide, TypeOK
<1>10. CASE Tick \/ UNCHANGED vars
  BY <1>10 DEF Tick, vars
<1> QED
  BY <1>1, <1>2, <1>3, <1>4, <1>5, <1>6, <1>7, <1>8, <1>9, <1>10 DEF Next, Store

\* However many processes overlap, and wherever they die: the rows that the id of a
\* completed run leads to are all of that run, and every row that was stored leads back
\* through all that its run had stored before, if no two runs are entered in one second.
THEOREM RunsAreWhole ==
  ASSUME Apart
  PROVE  StatusSpec => []RunIsWhole
<1>1. IInv /\ BackInv => RunIsWhole
  BY WholeRuns DEF BackInv, RunIsWhole
<1>2. IInv /\ BackInv /\ [Next]_vars => BackInv'
  BY BackStep
<1>3. Init => BackInv
  BY BackInit
<1> QED
  BY <1>1, <1>2, <1>3, Invariance, StatusOnlyReads, PTL DEF Spec

\* A ticket is stored before it is decided, and never again.
LEMMA DecidedStays ==
  ASSUME IInv, [Next]_vars, NEW i \in Ids, trade_tickets[i].status = "decided"
  PROVE  trade_tickets'[i] = trade_tickets[i]
<1>1. ASSUME NEW p \in Scanners, StoreTicket(p)
      PROVE  trade_tickets'[i] = trade_tickets[i]
  <2>1. run[p] \in Runs /\ entered[run[p]] # None
    BY <1>1, ChiefAssumption DEF StoreTicket, IInv, TypeOK, HandInv, Runs
  <2>2. trade_tickets[i].run # run[p]
    BY <1>1, <2>1 DEF StoreTicket, IInv, TypeOK, AuthorInv
  <2>3. trade_tickets[i].run \in Runs /\ RunId(trade_tickets[i].run) = i
    BY DEF IInv, TypeOK, AuthorInv
  <2>4. RunId(run[p]) # i
    BY <2>1, <2>2, <2>3 DEF IInv, IdInv, RunId
  <2> QED
    BY <1>1, <2>4 DEF StoreTicket, IInv, TypeOK, IdInHand
<1>2. ASSUME NEW j \in Ids, Decide(j)
      PROVE  trade_tickets'[i] = trade_tickets[i]
  BY <1>2 DEF Decide, IInv, TypeOK
<1>3. CASE UNCHANGED trade_tickets
  BY <1>3
<1> QED
  BY <1>1, <1>2, <1>3
  DEF Next, Store, Fetch, Enter, StoreRun, StoreMarket, StoreAccount, StoreState,
      StoreReview, Crash, Tick, Goto, tables, vars

\* The ticket that a user decided is never replaced by one that waits again, if
\* no two runs are entered in one second.
THEOREM DecisionsStand ==
  ASSUME Apart
  PROVE  StatusSpec => DecisionStands
<1>1. IInv /\ [Next]_vars
        => [\A i \in Ids : trade_tickets[i].status = "decided"
                            => trade_tickets'[i] = trade_tickets[i]]_vars
  BY DecidedStays
<1> QED
  BY <1>1, Invariance, StatusOnlyReads, PTL DEF Spec, DecisionStands

-----------------------------------------------------------------------------
(* The report. *)

\* A run under way has met every run that was begun after it.
TogetherInv ==
  \A p \in Scanners : pc[p] # "idle" =>
    \A n \in Runs : run[p] < n /\ n <= begun => <<run[p], n>> \in together

\* The last row is not behind any other.
InOrder(table) == \A k \in DOMAIN table : NotBehind(table[Len(table)], table[k])

SnapshotInv ==
  \A table \in {market_snapshots, account_snapshots} :
    /\ \A k \in DOMAIN table : table[k] <= begun
    /\ InOrder(table)

\* The runs of a table, and 0 for none.
Known(table) == ToSet(table) \cup {0}

\* The base was there when the report began, and is there still; what has been read
\* is not behind it.
ReadInv ==
  reportPc # "start" =>
    /\ base.market \in Known(market_snapshots)
    /\ base.account \in Known(account_snapshots)
    /\ reportPc = "market" \/ NotBehind(report.market, base.market)
    /\ reportPc \in {"market", "account"} \/ NotBehind(report.account, base.account)
    /\ switched \/
         base.breaker = IF reportPc \in {"market", "account", "breaker"}
                        THEN breaker ELSE report.breaker
    /\ base.analysis \in Nat
    /\ base.analysis <= IF reportPc = "shown" THEN report.analysis ELSE analyses

ReportInv ==
  StatusTypeOK /\ HandInv /\ RunInv /\ TogetherInv /\ SnapshotInv /\ ReadInv

\* What a query for the last row gives.
LEMMA LatestType ==
  ASSUME NEW table \in Seq(Runs)
  PROVE  LatestRow(table) \in 0 .. MaxRuns
<1>1. table # <<>> => table[Len(table)] \in Runs
  BY EmptySeq, LenProperties
<1> QED
  BY <1>1, ChiefAssumption DEF LatestRow, Last, Runs

\* The run with the newest data is one of the table.
LEMMA NewestIsKnown ==
  ASSUME NEW table \in Seq(Runs)
  PROVE  Newest(table) \in Known(table)
<1>1. Known(table) \in SUBSET (0 .. MaxRuns)
  BY LenProperties, ChiefAssumption DEF Known, ToSet, Runs
<1>2. Known(table) # {} /\ MaxRuns \in Nat
  BY ChiefAssumption DEF Known
<1> QED
  BY <1>1, <1>2, MaxIsGreatest DEF Newest, Known

\* The last row of a table in order is not behind any run that the table has.
LEMMA LastIsFresh ==
  ASSUME NEW table \in Seq(Runs), InOrder(table), NEW n \in Known(table)
  PROVE  NotBehind(LatestRow(table), n)
<1>1. /\ Len(table) \in Nat /\ DOMAIN table = 1 .. Len(table)
      /\ \A k \in 1 .. Len(table) : table[k] \in Nat
  BY LenProperties, ChiefAssumption DEF Runs
<1>2. CASE n \in ToSet(table)
  <2>1. PICK k \in DOMAIN table : table[k] = n
    BY <1>2 DEF ToSet
  <2>2. table # <<>>
    BY <1>1, <2>1, EmptySeq
  <2> QED
    BY <2>1, <2>2 DEF InOrder, LatestRow, Last
<1>3. CASE n = 0
  <2>1. LatestRow(table) \in 0 .. MaxRuns
    BY LatestType
  <2> QED
    BY <1>3, <2>1 DEF NotBehind
<1> QED
  BY <1>2, <1>3 DEF Known

\* A row of a run that is under way keeps the order and what is known.
LEMMA AppendUnderWay ==
  ASSUME NEW table \in Seq(Runs), NEW n \in Runs,
         \A k \in DOMAIN table : table[k] <= begun,
         \A m \in Runs : n < m /\ m <= begun => <<n, m>> \in together
  PROVE  /\ InOrder(Append(table, n))
         /\ Known(table) \subseteq Known(Append(table, n))
<1>1. /\ Len(table) \in Nat /\ DOMAIN table = 1 .. Len(table)
      /\ DOMAIN Append(table, n) = 1 .. Len(table) + 1
      /\ Len(Append(table, n)) = Len(table) + 1
      /\ Append(table, n)[Len(table) + 1] = n
      /\ \A k \in DOMAIN table : Append(table, n)[k] = table[k]
      /\ \A k \in DOMAIN table : table[k] \in Runs
  BY AppendProperties, LenProperties
<1>2. InOrder(Append(table, n))
  <2>1. SUFFICES ASSUME NEW k \in 1 .. Len(table) + 1
                 PROVE  NotBehind(n, Append(table, n)[k])
    BY <1>1 DEF InOrder
  <2>2. CASE k = Len(table) + 1
    BY <1>1, <2>2, ChiefAssumption DEF NotBehind, Runs
  <2>3. CASE k \in DOMAIN table
    BY <1>1, <2>3, ChiefAssumption DEF NotBehind, Runs
  <2> QED
    BY <1>1, <2>1, <2>2, <2>3
<1>3. Known(table) \subseteq Known(Append(table, n))
  BY <1>1 DEF Known, ToSet
<1> QED
  BY <1>2, <1>3

LEMMA ReportInit == StatusInit => ReportInv
<1> SUFFICES ASSUME StatusInit PROVE ReportInv
  OBVIOUS
<1>1. IInv
  BY InitInv DEF StatusInit
<1>2. StatusTypeOK
  <2>1. Nothing \in [market : 0 .. MaxRuns, account : 0 .. MaxRuns,
                     breaker : {"on", "off"}, pending : SUBSET Ids,
                     analysis : 0 .. MaxAnalyses]
    BY ChiefAssumption, StatusAssumption DEF Nothing
  <2> QED
    <3>1. switched \in BOOLEAN /\ together \subseteq Runs \X Runs
      BY DEF StatusInit
    <3>2. analyses \in 0 .. MaxAnalyses
      BY StatusAssumption DEF StatusInit
    <3>3. DOMAIN base = DOMAIN report
      BY DEF StatusInit
    <3>4. TypeOK
      BY <1>1 DEF IInv
    <3> QED
      BY <2>1, <3>1, <3>2, <3>3, <3>4 DEF StatusInit, StatusTypeOK
<1>3. TogetherInv /\ SnapshotInv /\ ReadInv
  BY DEF StatusInit, Init, TogetherInv, SnapshotInv, InOrder, ReadInv
<1> QED
  BY <1>1, <1>2, <1>3 DEF IInv, ReportInv

\* A step of a run, of a decision or of the clock.
LEMMA WorkStep ==
  ASSUME ReportInv, Work
  PROVE  ReportInv'
<1> USE ChiefAssumption DEF Goto, Stop, facts, tables, statusVars
<1>0. TypeOK /\ HandInv /\ RunInv /\ TogetherInv /\ SnapshotInv
  BY DEF ReportInv, StatusTypeOK
<1>1. HandInv' /\ RunInv'
  BY <1>0, HandStep, RunStep DEF Work
<1>2. /\ begun \in Nat /\ begun' \in begun .. MaxRuns /\ begun' <= begun + 1
      /\ together \subseteq together'
  BY <1>0
  DEF Work, Next, Store, Fetch, Enter, StoreRun, StoreMarket, StoreAccount, StoreState,
      StoreTicket, StoreReview, Crash, Decide, Tick, TypeOK
<1>3. StatusTypeOK'
  <2>1. TypeOK'
    BY <1>0, TypeStep DEF Work
  <2>2. together' \subseteq Runs \X Runs
    <3>1. \A p \in Scanners : pc[p] # "idle" => run[p] \in Runs
      BY <1>0 DEF HandInv, TypeOK, Runs
    <3>2. begun + 1 .. begun' \subseteq Runs
      BY <1>2 DEF Runs
    <3> QED
      BY <3>1, <3>2 DEF Work, ReportInv, StatusTypeOK
  <2> QED
    BY <2>1, <2>2 DEF Work, ReportInv, StatusTypeOK
<1>4. TogetherInv'
  <2>1. ASSUME NEW p \in Scanners, NEW given \in BOOLEAN, Fetch(p, given)
        PROVE  TogetherInv'
    <3>1. SUFFICES ASSUME NEW q \in Scanners, pc'[q] # "idle", NEW n \in Runs,
                          run'[q] < n, n <= begun'
                   PROVE  <<run'[q], n>> \in together'
      BY DEF TogetherInv
    <3>2. /\ run'[p] = begun' /\ begun' = begun + 1
          /\ q # p => pc[q] # "idle" /\ run'[q] = run[q]
      BY <1>0, <2>1, <3>1 DEF Fetch, TypeOK
    <3>3. q # p
      BY <1>2, <3>1, <3>2 DEF Runs
    <3>4. n <= begun \/ n \in begun + 1 .. begun'
      BY <1>2, <3>1, <3>2 DEF Runs
    <3> QED
      BY <1>0, <1>2, <3>1, <3>2, <3>3, <3>4 DEF TogetherInv, Work
  <2>2. ASSUME \A p \in Scanners : pc'[p] # "idle" => pc[p] # "idle" /\ run'[p] = run[p],
               begun' = begun
        PROVE  TogetherInv'
    BY <1>0, <1>2, <2>2 DEF TogetherInv
  <2> QED
    BY <1>0, <2>1, <2>2
    DEF Work, Next, Store, Enter, StoreRun, StoreMarket, StoreAccount, StoreState,
        StoreTicket, StoreReview, Crash, Decide, Tick, TypeOK
\* A run that stores a snapshot has met every run that is newer.
<1>5. ASSUME NEW p \in Scanners, StoreMarket(p) \/ StoreAccount(p)
      PROVE  /\ run[p] \in Runs /\ run[p] <= begun /\ begun' = begun
             /\ \A m \in Runs : run[p] < m /\ m <= begun => <<run[p], m>> \in together
  BY <1>0, <1>5 DEF StoreMarket, StoreAccount, TypeOK, HandInv, TogetherInv, Runs
<1>6. /\ SnapshotInv'
      /\ Known(market_snapshots) \subseteq Known(market_snapshots')
      /\ Known(account_snapshots) \subseteq Known(account_snapshots')
  <2> DEFINE Kept(table, new) ==
               /\ \A k \in DOMAIN new : new[k] <= begun'
               /\ InOrder(new) /\ Known(table) \subseteq Known(new)
  <2>1. ASSUME NEW table \in {market_snapshots, account_snapshots}
        PROVE  Kept(table, table)
    <3>1. \A k \in DOMAIN table : table[k] \in Nat /\ table[k] <= begun
      BY <1>0, <2>1, LenProperties, ChiefAssumption DEF SnapshotInv, TypeOK, Runs
    <3> QED
      BY <1>0, <1>2, <2>1, <3>1 DEF SnapshotInv
  <2>2. ASSUME NEW table \in {market_snapshots, account_snapshots},
               NEW p \in Scanners, StoreMarket(p) \/ StoreAccount(p)
        PROVE  Kept(table, Append(table, run[p]))
    <3>1. table \in Seq(Runs) /\ \A k \in DOMAIN table : table[k] <= begun
      BY <1>0 DEF TypeOK, SnapshotInv
    <3>2. /\ InOrder(Append(table, run[p]))
          /\ Known(table) \subseteq Known(Append(table, run[p]))
      BY <1>5, <2>2, <3>1, AppendUnderWay
    <3>3. \A k \in DOMAIN Append(table, run[p]) : Append(table, run[p])[k] <= begun
      BY <1>5, <2>2, <3>1, AppendProperties, LenProperties
    <3> QED
      BY <1>5, <2>2, <3>2, <3>3
  <2>3. /\ Kept(market_snapshots, market_snapshots')
        /\ Kept(account_snapshots, account_snapshots')
    <3> HIDE DEF Kept
    <3> QED
      BY <2>1, <2>2
      DEF Work, Next, Store, Fetch, Enter, StoreRun, StoreMarket, StoreAccount, StoreState,
          StoreTicket, StoreReview, Crash, Decide, Tick
  <2>4. ASSUME NEW table, InOrder(table)
        PROVE  \A k \in DOMAIN table : table[Len(table)] >= table[k]
                  \/ <<table[Len(table)], table[k]>> \in together'
    BY <1>2, <2>4 DEF InOrder, NotBehind
  <2> QED
    BY <2>3, <2>4 DEF SnapshotInv, InOrder, NotBehind
<1>7. ReadInv'
  <2>1. UNCHANGED <<breaker, analyses, reportPc, report, base, switched>>
    BY DEF Work
  <2>2. ReadInv
    BY DEF ReportInv
  <2> QED
    BY <1>2, <1>6, <2>1, <2>2 DEF ReadInv, NotBehind
<1> QED
  BY <1>1, <1>3, <1>4, <1>6, <1>7 DEF ReportInv

\* A step of the report, of the breaker or of the analyses.
LEMMA OtherStep ==
  ASSUME ReportInv, Begin \/ Read \/ Switch \/ Analyse
  PROVE  ReportInv'
<1>0. /\ StatusTypeOK /\ TypeOK /\ HandInv /\ RunInv /\ TogetherInv /\ SnapshotInv
      /\ ReadInv
      /\ LatestRow(market_snapshots) \in 0 .. MaxRuns
      /\ LatestRow(account_snapshots) \in 0 .. MaxRuns
  BY LatestType DEF ReportInv, StatusTypeOK, TypeOK
<1>1. UNCHANGED vars /\ UNCHANGED together
  BY DEF Begin, Read, Query, Switch, Analyse
<1>2. TypeOK' /\ HandInv' /\ RunInv' /\ TogetherInv' /\ SnapshotInv'
  BY <1>0, <1>1
  DEF vars, facts, tables, TypeOK, HandInv, RunInv, TogetherInv, SnapshotInv, InOrder,
      NotBehind
<1>3. StatusTypeOK'
  <2>1. CASE Begin
    BY <1>0, <1>2, <2>1 DEF Begin, StatusTypeOK
  <2>2. CASE Read
    <3>1. Pending \subseteq Ids
      BY DEF Pending
    <3> QED
      BY <1>0, <1>2, <2>2, <3>1 DEF Read, Query, StatusTypeOK
  <2>3. CASE Switch
    BY <1>0, <1>2, <2>3 DEF Switch, StatusTypeOK
  <2>4. CASE Analyse
    BY <1>0, <1>2, <2>4, StatusAssumption DEF Analyse, StatusTypeOK
  <2> QED
    BY <2>1, <2>2, <2>3, <2>4
<1>4. ReadInv'
  <2>0. /\ \A n \in Known(market_snapshots) : NotBehind(LatestRow(market_snapshots), n)
        /\ \A n \in Known(account_snapshots) : NotBehind(LatestRow(account_snapshots), n)
    BY <1>0, LastIsFresh DEF TypeOK, SnapshotInv
  <2>1. CASE Begin
    <3>1. /\ Newest(market_snapshots) \in Known(market_snapshots)
          /\ Newest(account_snapshots) \in Known(account_snapshots)
      BY <1>0, NewestIsKnown DEF TypeOK
    <3>2. /\ reportPc' = "market"
          /\ base'.market = Newest(market_snapshots)
          /\ base'.account = Newest(account_snapshots)
          /\ base'.breaker = breaker /\ base'.analysis = analyses
          /\ UNCHANGED <<market_snapshots, account_snapshots, breaker, analyses, switched>>
      BY <2>1 DEF Begin, vars, tables
    <3> QED
      BY <1>0, <1>1, <3>1, <3>2 DEF ReadInv, Known, StatusTypeOK
  <2>2. CASE Read
    <3> USE <1>0, <1>1, <2>0 DEF Query, ReadInv, StatusTypeOK, NotBehind, Known, vars, tables
    <3>1. CASE Query("market", LatestRow(market_snapshots), "account")
      BY <3>1
    <3>2. CASE Query("account", LatestRow(account_snapshots), "breaker")
      BY <3>2
    <3>3. CASE Query("breaker", breaker, "pending")
      BY <3>3
    <3>4. CASE Query("pending", Pending, "analysis")
      BY <3>4
    <3>5. CASE Query("analysis", analyses, "shown")
      BY <3>5
    <3> QED
      BY <2>2, <3>1, <3>2, <3>3, <3>4, <3>5 DEF Read
  <2>3. CASE Switch
    <3>1. /\ reportPc' # "start" => switched'
          /\ UNCHANGED <<market_snapshots, account_snapshots, analyses, reportPc,
                         report, base>>
      BY <1>0, <2>3 DEF Switch, StatusTypeOK, vars, tables
    <3> QED
      BY <1>0, <1>1, <3>1 DEF ReadInv, Known, NotBehind
  <2>4. CASE Analyse
    BY <1>0, <1>1, <2>4 DEF Analyse, ReadInv, StatusTypeOK, Known, NotBehind, vars, tables
  <2> QED
    BY <2>1, <2>2, <2>3, <2>4
<1> QED
  BY <1>2, <1>3, <1>4 DEF ReportInv

LEMMA ReportNext == ReportInv /\ [StatusNext]_allVars => ReportInv'
<1> SUFFICES ASSUME ReportInv, [StatusNext]_allVars PROVE ReportInv'
  OBVIOUS
<1>1. CASE Work
  BY <1>1, WorkStep
<1>2. CASE Begin \/ Read \/ Switch \/ Analyse
  BY <1>2, OtherStep
<1>3. CASE UNCHANGED allVars
  BY <1>3
  DEF allVars, vars, facts, tables, statusVars, ReportInv, StatusTypeOK, TypeOK,
      HandInv, RunInv, TogetherInv, SnapshotInv, InOrder, ReadInv, Known, NotBehind
<1> QED
  BY <1>1, <1>2, <1>3 DEF StatusNext

LEMMA ReportInvariance == StatusSpec => []ReportInv
  BY ReportInit, ReportNext, PTL DEF StatusSpec

\* The variables keep their types, those of the runs and of the report.
THEOREM StatusTypeCorrect == StatusSpec => []StatusTypeOK
<1>1. ReportInv => StatusTypeOK
  BY DEF ReportInv
<1> QED
  BY <1>1, ReportInvariance, PTL

\* However many runs, recorders and analyses the queries of the report interleave
\* with, and however the runs overlap: a snapshot that the report shows is of the
\* newest data that was stored when it was asked for, of newer data, or of a run that
\* was still under way when the newest one was begun; its analyses are those of that
\* moment or more, and so is its breaker unless it was switched in between.
THEOREM ReportsAreFresh == StatusSpec => []ReportIsFresh
<1>1. ReportInv => ReportIsFresh
  BY DEF ReportInv, ReadInv, StatusTypeOK, ReportIsFresh
<1> QED
  BY <1>1, ReportInvariance, PTL


-----------------------------------------------------------------------------
(* The bridge. *)

Busy == bridge \in {"handle", "reply"}

\* The bridge works on an update of its batch; while it answers, its offset has
\* already moved on.
BatchInv ==
  /\ Busy => next \in 1 .. last /\ last <= Len(inbox)
  /\ bridge = "reply" => offset = next

\* What Telegram has forgotten, what the next poll lets it forget, and what the
\* bridge has left behind in its batch is dealt with.
DealtInv ==
  /\ 1 .. confirmed \subseteq dealt
  /\ bridge = "poll" => 1 .. offset \subseteq dealt
  /\ Busy => 1 .. (next - 1) \subseteq dealt

\* Commands name tickets that are stored.
StoredInv ==
  \A i \in 1 .. Len(inbox) :
    inbox[i] # Ignored => tickets[inbox[i].ticket] # "absent"

\* The updates the workflow has been called with in this or an earlier life.
Handled == dealt \cup (IF bridge = "reply" THEN {next} ELSE {})

\* A ticket is closed once a command that could close it has been handled.
ClosedInv ==
  \A t \in Tickets : \A i \in Deciding(t) :
    i \in Handled => tickets[t] \in Closed

BridgeInv == BridgeTypeOK /\ BatchInv /\ DealtInv /\ StoredInv

DecideInv == ClosedInv /\ FirstCommandDecides

-----------------------------------------------------------------------------

\* An update is a command or is ignored, and the marker is no command.
LEMMA UpdateType ==
  ASSUME NEW u \in Updates, u # Ignored
  PROVE  u \in Command /\ u.ticket \in Tickets /\ u.action \in Actions
BY DEF Updates, Ignored, Command

\* A command keeps the set of statuses and never brings a ticket back.
LEMMA OutcomeType ==
  ASSUME NEW u \in Command, NEW status \in Open \cup Closed \cup {"absent"}
  PROVE  /\ Outcome(u, status) \in Open \cup Closed \cup {"absent"}
         /\ status = "absent" <=> Outcome(u, status) = "absent"
BY DEF Outcome, Open, Closed, Command, Actions

LEMMA BridgeInitInv == BridgeInit => BridgeInv /\ DecideInv
<1> SUFFICES ASSUME BridgeInit PROVE BridgeInv /\ DecideInv
  OBVIOUS
<1>1. BridgeTypeOK
  BY BridgeAssumption, EmptySeq DEF BridgeInit, BridgeTypeOK
<1>2. BatchInv /\ DealtInv
  BY DEF BridgeInit, BatchInv, DealtInv, Busy
<1>3. Len(inbox) = 0
  BY EmptySeq DEF BridgeInit
<1>4. StoredInv /\ ClosedInv
  BY <1>3 DEF StoredInv, ClosedInv, Deciding
<1>5. FirstCommandDecides
  BY DEF BridgeInit, FirstCommandDecides, Closed
<1> QED
  BY <1>1, <1>2, <1>4, <1>5 DEF BridgeInv, DecideInv

-----------------------------------------------------------------------------
(* The facts about updates, one step at a time. *)

LEMMA ProposeStep ==
  ASSUME BridgeInv, NEW t \in Tickets, Propose(t)
  PROVE  BridgeInv'
<1> USE DEF BridgeInv
<1>1. BridgeTypeOK'
  BY DEF Propose, BridgeTypeOK, Open
<1>2. BatchInv' /\ DealtInv'
  BY DEF Propose, BatchInv, DealtInv, Busy
<1>3. StoredInv'
  BY DEF Propose, BridgeTypeOK, StoredInv
<1> QED
  BY <1>1, <1>2, <1>3

\* A message is added behind those that are there.
LEMMA PostAppends ==
  ASSUME BridgeInv, NEW u \in Updates, Post(u)
  PROVE  /\ inbox \in Seq(Updates) /\ inbox' \in Seq(Updates)
         /\ Len(inbox) \in Nat
         /\ Len(inbox') = Len(inbox) + 1
         /\ inbox'[Len(inbox) + 1] = u
         /\ \A i \in 1 .. Len(inbox) : inbox'[i] = inbox[i]
BY AppendProperties DEF BridgeInv, BridgeTypeOK, Post

LEMMA PostStep ==
  ASSUME BridgeInv, NEW u \in Updates, Post(u)
  PROVE  BridgeInv'
<1> USE DEF BridgeInv
<1>1. PICK n \in Nat : n = Len(inbox) /\ Len(inbox') = n + 1
  BY PostAppends
<1>2. BridgeTypeOK'
  BY <1>1, PostAppends, BridgeAssumption DEF Post, BridgeTypeOK
<1>3. BatchInv'
  BY <1>1 DEF Post, BatchInv, Busy, BridgeTypeOK
<1>4. DealtInv'
  BY DEF Post, DealtInv, Busy
<1>5. StoredInv'
  BY <1>1, PostAppends DEF Post, StoredInv
<1> QED
  BY <1>2, <1>3, <1>4, <1>5

LEMMA StartStep ==
  ASSUME BridgeInv, NEW c \in Configs, Start(c)
  PROVE  BridgeInv'
BY DEF BridgeInv, Start, Configs, BridgeTypeOK, BatchInv, DealtInv, StoredInv, Busy

LEMMA GetUpdatesStep ==
  ASSUME BridgeInv, GetUpdates
  PROVE  BridgeInv'
<1> USE DEF BridgeInv
<1> DEFINE kept == Most(confirmed, offset)
<1>1. PICK n \in Nat : n = Len(inbox)
  BY DEF BridgeTypeOK
<1>2. kept \in 0 .. n /\ 1 .. kept \subseteq dealt
  BY <1>1 DEF GetUpdates, Most, BridgeTypeOK, DealtInv
<1>3. /\ bridge = "poll" /\ confirmed' = kept
      /\ UNCHANGED <<tickets, inbox, config, offset, dealt, crashes>>
  BY DEF GetUpdates
<1>4. CASE kept = n
  <2>1. bridge' \in {"poll", "down"} /\ UNCHANGED <<next, last>>
    BY <1>1, <1>4 DEF GetUpdates, NextPoll
  <2> QED
    BY <1>1, <1>2, <1>3, <2>1
    DEF BridgeTypeOK, BatchInv, DealtInv, StoredInv, Busy
<1>5. CASE kept # n
  <2>1. /\ bridge' = "handle" /\ next' = kept + 1
        /\ last' = Least(kept + Batch, n)
    BY <1>1, <1>5 DEF GetUpdates
  <2>2. last' \in 0 .. n /\ next' \in 1 .. last'
    BY <1>2, <1>5, <2>1, BridgeAssumption DEF Least
  <2>3. next' - 1 = kept
    BY <1>2, <2>1
  <2> HIDE DEF kept
  <2> QED
    BY <1>1, <1>2, <1>3, <2>1, <2>2, <2>3
    DEF BridgeTypeOK, BatchInv, DealtInv, StoredInv, Busy
<1> QED
  BY <1>4, <1>5

\* Advance has dealt with one more update.
LEMMA AdvanceStep ==
  ASSUME BridgeInv, Busy, Advance, offset' = next,
         UNCHANGED <<inbox, confirmed, config, last, crashes>>
  PROVE  /\ offset' \in 0 .. Len(inbox) /\ next' \in 0 .. Len(inbox)
         /\ bridge' \in {"down", "poll", "handle"}
         /\ dealt' \subseteq 1 .. Len(inbox)
         /\ BatchInv' /\ DealtInv'
<1> USE DEF BridgeInv
<1>1. PICK n \in Nat : n = Len(inbox)
  BY DEF BridgeTypeOK
<1>2. next \in 1 .. last /\ last \in 1 .. n
  BY <1>1 DEF BridgeTypeOK, BatchInv
<1>3. dealt' = dealt \cup {next} /\ 1 .. next \subseteq dealt'
  BY <1>2 DEF Advance, DealtInv
<1>4. 1 .. confirmed \subseteq dealt'
  BY <1>3 DEF DealtInv
<1>5. CASE next = last
  BY <1>1, <1>2, <1>3, <1>4, <1>5
  DEF Advance, NextPoll, BridgeTypeOK, BatchInv, DealtInv, Busy
<1>6. CASE next # last
  <2>1. bridge' = "handle" /\ next' = next + 1
    BY <1>6 DEF Advance
  <2>2. next' \in 1 .. last /\ next' - 1 = next
    BY <1>2, <1>6, <2>1
  <2> QED
    BY <1>1, <1>2, <1>3, <1>4, <2>1, <2>2
    DEF BridgeTypeOK, BatchInv, DealtInv, Busy
<1> QED
  BY <1>5, <1>6

LEMMA HandleStep ==
  ASSUME BridgeInv, Handle
  PROVE  BridgeInv'
<1> USE DEF BridgeInv
<1>1. PICK n \in Nat : n = Len(inbox) /\ next \in 1 .. n
  BY DEF Handle, BridgeTypeOK, BatchInv, Busy
<1>2. inbox[next] \in Updates
  BY <1>1, ElementOfSeq DEF BridgeTypeOK
<1>3. /\ bridge = "handle" /\ Busy /\ offset' = next
      /\ UNCHANGED <<inbox, confirmed, config, last, crashes>>
  BY DEF Handle, Busy
<1>4. /\ tickets' \in [Tickets -> Open \cup Closed \cup {"absent"}]
      /\ \A t \in Tickets : tickets[t] # "absent" => tickets'[t] # "absent"
  <2>1. CASE inbox[next] = Ignored
    BY <2>1 DEF Handle, BridgeTypeOK
  <2>2. CASE inbox[next] # Ignored
    <3>1. inbox[next] \in Command /\ inbox[next].ticket \in Tickets
      BY <1>2, <2>2, UpdateType
    <3>2. tickets' = [tickets EXCEPT ![inbox[next].ticket] =
                        Outcome(inbox[next], tickets[inbox[next].ticket])]
      BY <2>2 DEF Handle
    <3> QED
      BY <3>1, <3>2, OutcomeType DEF BridgeTypeOK
  <2> QED
    BY <2>1, <2>2
<1>5. StoredInv'
  <2>1. SUFFICES ASSUME NEW i \in 1 .. n, inbox[i] # Ignored
                 PROVE  tickets'[inbox[i].ticket] # "absent"
    BY <1>1, <1>3 DEF StoredInv
  <2>2. inbox[i].ticket \in Tickets
    BY <1>1, <2>1, ElementOfSeq, UpdateType DEF BridgeTypeOK
  <2> QED
    BY <1>1, <1>4, <2>1, <2>2 DEF StoredInv
<1>6. CASE Advance
  BY <1>1, <1>3, <1>4, <1>5, <1>6, AdvanceStep DEF BridgeTypeOK
<1>7. CASE bridge' = "reply" /\ UNCHANGED <<next, dealt>>
  BY <1>1, <1>3, <1>4, <1>5, <1>7 DEF BridgeTypeOK, BatchInv, DealtInv, Busy
<1> QED
  BY <1>6, <1>7 DEF Handle

LEMMA ReplyStep ==
  ASSUME BridgeInv, Reply
  PROVE  BridgeInv'
<1> USE DEF BridgeInv
<1>1. /\ Busy /\ Advance /\ offset' = next
      /\ UNCHANGED <<tickets, inbox, confirmed, config, last, crashes>>
  BY DEF Reply, Busy, BatchInv
<1>2. BridgeTypeOK' /\ BatchInv' /\ DealtInv'
  BY <1>1, AdvanceStep DEF BridgeTypeOK
<1>3. StoredInv'
  BY <1>1 DEF StoredInv
<1> QED
  BY <1>2, <1>3

LEMMA DiesStep ==
  ASSUME BridgeInv, BridgeDies
  PROVE  BridgeInv'
BY BridgeAssumption
DEF BridgeInv, BridgeDies, BridgeTypeOK, BatchInv, DealtInv, StoredInv, Busy

LEMMA BridgeNextInv == BridgeInv /\ [BridgeNext]_bridgeVars => BridgeInv'
<1> SUFFICES ASSUME BridgeInv, [BridgeNext]_bridgeVars PROVE BridgeInv'
  OBVIOUS
<1>1. CASE UNCHANGED bridgeVars
  BY <1>1 DEF bridgeVars, BridgeInv, BridgeTypeOK, BatchInv, DealtInv, StoredInv, Busy
<1> QED
  BY <1>1, ProposeStep, PostStep, StartStep, GetUpdatesStep, HandleStep,
     ReplyStep, DiesStep DEF BridgeNext, BridgeStep

LEMMA BridgeInvariance == BridgeSpec => []BridgeInv
<1>1. BridgeInit => BridgeInv
  BY BridgeInitInv
<1> QED
  BY <1>1, BridgeNextInv, PTL DEF BridgeSpec

\* The variables keep their types in every run.
THEOREM BridgeTypeCorrect == BridgeSpec => []BridgeTypeOK
<1>1. BridgeInv => BridgeTypeOK
  BY DEF BridgeInv
<1> QED
  BY <1>1, BridgeInvariance, PTL

\* Telegram never forgets an update that has not been handled and answered.
THEOREM NoUpdateForgotten == BridgeSpec => []NothingForgotten
<1>1. BridgeInv => NothingForgotten
  BY DEF BridgeInv, DealtInv, NothingForgotten
<1> QED
  BY <1>1, BridgeInvariance, PTL

-----------------------------------------------------------------------------
(* The first command decides. *)

\* A closed ticket stays as it is, and an open one is closed by the commands
\* that would close a fresh one, in the same way.
LEMMA OutcomeCloses ==
  ASSUME NEW u \in Command, NEW status \in Open \cup Closed
  PROVE  /\ status \in Closed => Outcome(u, status) = status
         /\ status \in Open =>
              /\ status \notin Closed
              /\ Outcome(u, status) \in Closed
                   <=> Outcome(u, "risk_approved") \in Closed
              /\ Outcome(u, status) \in Closed
                   => Outcome(u, status) = Outcome(u, "risk_approved")
BY DEF Outcome, Open, Closed, Command, Actions

\* Steps that leave tickets and inbox alone and handle nothing.
LEMMA QuietDecide ==
  ASSUME DecideInv, UNCHANGED <<tickets, inbox>>, Handled' \subseteq Handled
  PROVE  DecideInv'
<1>1. \A t \in Tickets : Deciding(t)' = Deciding(t)
  BY DEF Deciding
<1>2. ClosedInv'
  BY <1>1 DEF DecideInv, ClosedInv
<1>3. FirstCommandDecides'
  BY <1>1 DEF DecideInv, FirstCommandDecides, Deciding
<1> QED
  BY <1>2, <1>3 DEF DecideInv

LEMMA ProposeDecide ==
  ASSUME BridgeInv, DecideInv, NEW t \in Tickets, Propose(t)
  PROVE  DecideInv'
<1>1. \A r \in Tickets : Deciding(r)' = Deciding(r)
  BY DEF Propose, Deciding
<1>2. Handled' = Handled
  BY DEF Propose, Handled
<1>3. \A r \in Tickets :
        /\ tickets[r] \in Closed => tickets'[r] = tickets[r]
        /\ tickets'[r] \in Closed => tickets'[r] = tickets[r]
  BY DEF BridgeInv, BridgeTypeOK, Propose, Closed
<1>4. ClosedInv'
  BY <1>1, <1>2, <1>3 DEF DecideInv, ClosedInv
<1>5. FirstCommandDecides'
  BY <1>1, <1>3 DEF DecideInv, FirstCommandDecides, Propose
<1> QED
  BY <1>4, <1>5 DEF DecideInv

\* A new message comes behind every other, and has not been handled.
LEMMA PostDecide ==
  ASSUME BridgeInv, DecideInv, NEW u \in Updates, Post(u)
  PROVE  DecideInv'
<1>1. PICK n \in Nat : n = Len(inbox) /\ Len(inbox') = n + 1
  BY PostAppends
<1>2. \A i \in 1 .. n : inbox'[i] = inbox[i]
  BY <1>1, PostAppends
<1>3. \A t \in Tickets : /\ Deciding(t) \subseteq Deciding(t)'
                         /\ Deciding(t)' \subseteq Deciding(t) \cup {n + 1}
                         /\ Deciding(t) \subseteq 1 .. n
  BY <1>1, <1>2 DEF Deciding
<1>4. Handled' = Handled /\ n + 1 \notin Handled
  BY <1>1 DEF BridgeInv, BridgeTypeOK, BatchInv, Busy, Post, Handled
<1>5. tickets' = tickets
  BY DEF Post
<1>6. ClosedInv'
  BY <1>3, <1>4, <1>5 DEF DecideInv, ClosedInv
<1>7. FirstCommandDecides'
  <2>1. SUFFICES ASSUME NEW t \in Tickets, tickets[t] \in Closed
                 PROVE  \E i \in Deciding(t)' :
                          /\ \A j \in Deciding(t)' : i <= j
                          /\ tickets[t] = Outcome(inbox'[i], "risk_approved")
    BY <1>5 DEF FirstCommandDecides
  <2>2. PICK i \in Deciding(t) :
               /\ \A j \in Deciding(t) : i <= j
               /\ tickets[t] = Outcome(inbox[i], "risk_approved")
    BY <2>1 DEF DecideInv, FirstCommandDecides
  <2>3. i \in 1 .. n /\ i \in Deciding(t)'
    BY <1>3
  <2>4. \A j \in Deciding(t)' : i <= j
    BY <1>3, <2>2, <2>3
  <2> QED
    BY <1>2, <2>2, <2>3, <2>4
<1> QED
  BY <1>6, <1>7 DEF DecideInv

\* What Handle does to a ticket: the command in hand is applied to its own one.
LEMMA HandleEffect ==
  ASSUME BridgeInv, Handle
  PROVE  /\ Handled = dealt /\ Handled' = dealt \cup {next}
         /\ inbox' = inbox /\ next \in 1 .. Len(inbox)
         /\ 1 .. (next - 1) \subseteq dealt
         /\ \A t \in Tickets :
              \/ /\ tickets'[t] = tickets[t]
                 /\ next \notin Deciding(t)
              \/ /\ inbox[next] \in Command /\ inbox[next] # Ignored
                 /\ inbox[next].ticket = t
                 /\ tickets[t] \in Open \cup Closed
                 /\ tickets'[t] = Outcome(inbox[next], tickets[t])
<1> USE DEF BridgeInv
<1>1. /\ bridge = "handle" /\ Busy /\ inbox' = inbox
      /\ next \in 1 .. Len(inbox) /\ 1 .. (next - 1) \subseteq dealt
  BY DEF Handle, Busy, BridgeTypeOK, BatchInv, DealtInv
<1>2. inbox[next] \in Updates
  BY <1>1, ElementOfSeq DEF BridgeTypeOK
<1>3. Handled = dealt
  BY <1>1 DEF Handled
<1>4. Handled' = dealt \cup {next}
  BY <1>1 DEF Handle, Advance, NextPoll, Handled
<1>5. ASSUME NEW t \in Tickets
      PROVE  \/ /\ tickets'[t] = tickets[t]
                /\ next \notin Deciding(t)
             \/ /\ inbox[next] \in Command /\ inbox[next] # Ignored
                /\ inbox[next].ticket = t
                /\ tickets[t] \in Open \cup Closed
                /\ tickets'[t] = Outcome(inbox[next], tickets[t])
  <2>1. CASE inbox[next] = Ignored
    BY <2>1 DEF Handle, Deciding
  <2>2. CASE inbox[next] # Ignored
    <3>1. inbox[next] \in Command /\ inbox[next].ticket \in Tickets
      BY <1>2, <2>2, UpdateType
    <3>2. tickets[inbox[next].ticket] \in Open \cup Closed
      BY <1>1, <2>2, <3>1 DEF BridgeTypeOK, StoredInv
    <3>3. tickets' = [tickets EXCEPT ![inbox[next].ticket] =
                        Outcome(inbox[next], tickets[inbox[next].ticket])]
      BY <2>2 DEF Handle
    <3> QED
      BY <2>2, <3>1, <3>2, <3>3 DEF BridgeTypeOK, Deciding
  <2> QED
    BY <2>1, <2>2
<1> QED
  BY <1>1, <1>3, <1>4, <1>5

LEMMA HandleDecide ==
  ASSUME BridgeInv, DecideInv, Handle
  PROVE  DecideInv'
<1>1. \A t \in Tickets : Deciding(t)' = Deciding(t)
  BY HandleEffect DEF Deciding
<1>2. ASSUME NEW t \in Tickets, tickets[t] \in Closed
      PROVE  tickets'[t] = tickets[t]
  BY <1>2, HandleEffect, OutcomeCloses
<1>3. ASSUME NEW t \in Tickets, next \in Deciding(t)
      PROVE  tickets'[t] \in Closed
  <2>1. /\ inbox[next] \in Command
        /\ tickets[t] \in Open \cup Closed
        /\ tickets'[t] = Outcome(inbox[next], tickets[t])
        /\ Outcome(inbox[next], "risk_approved") \in Closed
    BY <1>3, HandleEffect DEF Deciding
  <2> QED
    BY <2>1, OutcomeCloses
<1>4. ClosedInv'
  BY <1>1, <1>2, <1>3, HandleEffect DEF DecideInv, ClosedInv
<1>5. ASSUME NEW t \in Tickets, tickets'[t] \in Closed
      PROVE  \E i \in Deciding(t) :
               /\ \A j \in Deciding(t) : i <= j
               /\ tickets'[t] = Outcome(inbox[i], "risk_approved")
  <2>1. CASE tickets[t] \in Closed
    BY <1>2, <2>1 DEF DecideInv, FirstCommandDecides
  <2>2. CASE tickets[t] \notin Closed
    <3>1. /\ inbox[next] \in Command /\ inbox[next] # Ignored
          /\ inbox[next].ticket = t /\ tickets[t] \in Open
          /\ tickets'[t] = Outcome(inbox[next], tickets[t])
      BY <1>5, <2>2, HandleEffect
    <3>2. /\ tickets'[t] = Outcome(inbox[next], "risk_approved")
          /\ next \in Deciding(t)
      BY <1>5, <3>1, OutcomeCloses, HandleEffect DEF Deciding
    <3>3. ASSUME NEW j \in Deciding(t), j < next
          PROVE  FALSE
      <4>1. j \in 1 .. (next - 1)
        BY <3>3, HandleEffect DEF Deciding, BridgeInv, BridgeTypeOK
      <4> QED
        BY <2>2, <4>1, HandleEffect DEF DecideInv, ClosedInv
    <3>4. \A j \in Deciding(t) : next <= j
      BY <3>3, HandleEffect DEF Deciding, BridgeInv, BridgeTypeOK
    <3> QED
      BY <3>2, <3>4
  <2> QED
    BY <2>1, <2>2
<1>6. FirstCommandDecides'
  BY <1>1, <1>5, HandleEffect DEF FirstCommandDecides
<1> QED
  BY <1>4, <1>6 DEF DecideInv

LEMMA DecideNext == BridgeInv /\ DecideInv /\ [BridgeNext]_bridgeVars => DecideInv'
<1> SUFFICES ASSUME BridgeInv, DecideInv, [BridgeNext]_bridgeVars PROVE DecideInv'
  OBVIOUS
<1>1. ASSUME NEW c \in Configs, Start(c) PROVE DecideInv'
  BY <1>1, QuietDecide DEF Start, Handled
<1>2. CASE GetUpdates
  BY <1>2, QuietDecide DEF GetUpdates, NextPoll, Handled
<1>3. CASE Reply
  BY <1>3, QuietDecide DEF Reply, Advance, NextPoll, Handled
<1>4. CASE BridgeDies
  BY <1>4, QuietDecide DEF BridgeDies, Handled
<1>5. CASE UNCHANGED bridgeVars
  BY <1>5, QuietDecide DEF bridgeVars, Handled
<1> QED
  BY <1>1, <1>2, <1>3, <1>4, <1>5, ProposeDecide, PostDecide, HandleDecide
  DEF BridgeNext, BridgeStep

\* A ticket is decided by the first command that can decide it, however often
\* commands are delivered again and wherever the bridge dies.
THEOREM FirstDecides == BridgeSpec => []FirstCommandDecides
<1>1. BridgeInit => DecideInv
  BY BridgeInitInv
<1>2. DecideInv => FirstCommandDecides
  BY DEF DecideInv
<1> QED
  BY <1>1, <1>2, DecideNext, BridgeInvariance, PTL DEF BridgeSpec

-----------------------------------------------------------------------------
(* The life cycle. *)

LEMMA LifecycleInit == BridgeInit => Lifecycle!Init
BY DEF BridgeInit, Lifecycle!Init

LEMMA LifecycleStep ==
  BridgeInv /\ [BridgeNext]_bridgeVars => [Lifecycle!Next]_<<tickets, {}>>
<1> SUFFICES ASSUME BridgeInv, [BridgeNext]_bridgeVars
             PROVE  [Lifecycle!Next]_<<tickets, {}>>
  OBVIOUS
<1>1. ASSUME NEW t \in Tickets, Propose(t)
      PROVE  Lifecycle!Next
  BY <1>1 DEF Propose, Lifecycle!Next, Lifecycle!Propose, Lifecycle!Move
<1>2. CASE Handle
  <2>1. CASE inbox[next] = Ignored
    BY <1>2, <2>1 DEF Handle
  <2>2. CASE inbox[next] # Ignored
    <3> DEFINE u == inbox[next]
               old == tickets[u.ticket]
    <3>1. u \in Command /\ u.ticket \in Tickets /\ u.action \in Actions
      BY <1>2, <2>2, ElementOfSeq, UpdateType
      DEF BridgeInv, BridgeTypeOK, BatchInv, Busy, Handle
    <3>2. /\ tickets' = [tickets EXCEPT ![u.ticket] = Outcome(u, old)]
          /\ tickets \in [Tickets -> Open \cup Closed \cup {"absent"}]
      BY <1>2, <2>2 DEF Handle, BridgeInv, BridgeTypeOK
    <3> HIDE DEF u
    <3>3. CASE Outcome(u, old) = old
      BY <3>1, <3>2, <3>3
    <3>4. CASE Outcome(u, old) = "user_rejected" /\ old \in Open
      BY <3>1, <3>2, <3>4 DEF Open, Lifecycle!Next, Lifecycle!Reject,
         Lifecycle!Move, Lifecycle!Undecided
    <3>5. CASE /\ old \in Open
               /\ Outcome(u, old) \in {"paper_executed", "live_manual_ready",
                                       "user_approved"}
      BY <3>1, <3>2, <3>5 DEF Open, Lifecycle!Next, Lifecycle!Approve,
         Lifecycle!Move, Lifecycle!Undecided
    <3> QED
      BY <3>1, <3>3, <3>4, <3>5 DEF Outcome
  <2> QED
    BY <2>1, <2>2
<1>3. CASE UNCHANGED tickets
  BY <1>3
<1> QED
  BY <1>1, <1>2, <1>3
  DEF BridgeNext, BridgeStep, Post, Start, GetUpdates, Reply, BridgeDies, bridgeVars

\* The bridge implements the life cycle of tickets.
THEOREM BridgeImplementsLifecycle == BridgeSpec => ImplementsLifecycle
BY LifecycleInit, LifecycleStep, BridgeInvariance, PTL
DEF BridgeSpec, ImplementsLifecycle, Lifecycle!Spec
=============================================================================
