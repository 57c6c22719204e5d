------------------------------- MODULE ChiefRuns -------------------------------
(***************************************************************************)
(* The rows of a run: ChiefInvestmentAgent.run_intraday_signal_scan        *)
(* (app/agents/chief.py) over the tables of app/storage/repository.py.     *)
(*                                                                         *)
(* A run takes its id from the second in which the agent is entered, and   *)
(* the ticket takes its id from the run.  Snapshots and reviews are        *)
(* appended; runs, account states and tickets replace the row that has     *)
(* their id.  Each row is a transaction of its own, so runs of several     *)
(* processes -- cron, the workflow script, a forced scan -- interleave.    *)
(***************************************************************************)
EXTENDS Naturals, SequencesExt

CONSTANTS
  Scanners,      \* the processes that run the workflow
  MaxRuns,       \* bound: how many runs there are
  MaxSecond,     \* bound: the last second in which one is entered
  SameSecond,    \* two runs may be entered within one second
  None           \* no run, no second

ASSUME ChiefAssumption ==
  /\ MaxRuns \in Nat
  /\ MaxSecond \in Nat
  /\ SameSecond \in BOOLEAN
  /\ None \notin Nat

VARIABLES
  second,        \* the present
  begun,         \* how many runs have fetched their data; they are numbered so
  pc,            \* where each process is
  run,           \* the run it is at
  entered,       \* the second in which a run entered the agent
  live,          \* the runs that were given a quote and an account
  verdict,       \* what the risk review of a run said
  agent_runs,         \* per id: the run whose row it is
  market_snapshots,   \* the runs in the order of their rows
  account_snapshots,
  account_states,     \* per id: the run whose row it is
  trade_tickets,      \* per id: the run whose ticket it is, and the status
  risk_reviews,       \* the runs in the order of their rows
  done           \* history: the runs that ended

tables == <<agent_runs, market_snapshots, account_snapshots, account_states,
            trade_tickets, risk_reviews>>
facts  == <<begun, entered, live, verdict>>
vars   == <<second, pc, run, facts, tables, done>>

Runs == 1 .. MaxRuns
Ids  == 0 .. MaxSecond

PC == {"idle", "enter", "run", "market", "account", "state", "ticket", "review"}

NoRow == [run |-> None, status |-> "absent"]

TypeOK ==
  /\ second \in Ids
  /\ begun \in 0 .. MaxRuns
  /\ pc \in [Scanners -> PC]
  /\ run \in [Scanners -> Runs \cup {None}]
  /\ entered \in [Runs -> Ids \cup {None}]
  /\ live \subseteq Runs
  /\ verdict \in [Runs -> {"none", "rejected", "approved"}]
  /\ agent_runs \in [Ids -> Runs \cup {None}]
  /\ account_states \in [Ids -> Runs \cup {None}]
  /\ \A table \in {market_snapshots, account_snapshots, risk_reviews} :
       table \in Seq(Runs)
  /\ trade_tickets \in [Ids -> [run : Runs \cup {None},
                                status : {"absent", "risk_approved", "decided"}]]
  /\ done \subseteq Runs

Init ==
  /\ second = 0 /\ begun = 0
  /\ pc = [p \in Scanners |-> "idle"]
  /\ run = [p \in Scanners |-> None]
  /\ entered = [n \in Runs |-> None]
  /\ live = {}
  /\ verdict = [n \in Runs |-> "none"]
  /\ agent_runs = [i \in Ids |-> None]
  /\ account_states = [i \in Ids |-> None]
  /\ market_snapshots = <<>> /\ account_snapshots = <<>> /\ risk_reviews = <<>>
  /\ trade_tickets = [i \in Ids |-> NoRow]
  /\ done = {}

-----------------------------------------------------------------------------

\* Mutant: the minute is taken for the second.
RunIdOfMinute(n) == entered[n] \div 2

\* run_id, which also names the ticket of the run.
RunId(n) == entered[n]

IdInHand(p) == RunId(run[p])

\* The process goes on to the next row.
Goto(p, label) ==
  /\ pc' = [pc EXCEPT ![p] = label]
  /\ UNCHANGED <<second, run, facts, done>>

Stop(p) ==
  /\ pc' = [pc EXCEPT ![p] = "idle"]
  /\ run' = [run EXCEPT ![p] = None]

\* The broker's quote and balance are read and dated, or there are none: the
\* workflow without a broker.
Fetch(p, given) ==
  /\ pc[p] = "idle"
  /\ begun < MaxRuns
  /\ begun' = begun + 1
  /\ live' = IF given THEN live \cup {begun + 1} ELSE live
  /\ pc' = [pc EXCEPT ![p] = "enter"]
  /\ run' = [run EXCEPT ![p] = begun + 1]
  /\ UNCHANGED <<second, entered, verdict, tables, done>>

\* The id is taken, and the agents come to their verdict: no candidate, one that
\* the review rejects, or a ticket.
Enter(p, says) ==
  /\ pc[p] = "enter"
  /\ SameSecond \/ \A n \in Runs : entered[n] # second
  /\ entered' = [entered EXCEPT ![run[p]] = second]
  /\ verdict' = [verdict EXCEPT ![run[p]] = says]
  /\ pc' = [pc EXCEPT ![p] = "run"]
  /\ UNCHANGED <<second, run, begun, live, tables, done>>

\* record_agent_run.
StoreRun(p) ==
  /\ pc[p] = "run"
  /\ agent_runs' = [agent_runs EXCEPT ![IdInHand(p)] = run[p]]
  /\ Goto(p, IF run[p] \in live THEN "market" ELSE "ticket")
  /\ UNCHANGED <<market_snapshots, account_snapshots, account_states,
                 trade_tickets, risk_reviews>>

\* record_market_snapshot.
StoreMarket(p) ==
  /\ pc[p] = "market"
  /\ market_snapshots' = Append(market_snapshots, run[p])
  /\ Goto(p, "account")
  /\ UNCHANGED <<agent_runs, account_snapshots, account_states, trade_tickets,
                 risk_reviews>>

\* Mutant: only the account that a ticket was sized by is stored.
StoreAccountOfTicket(p) ==
  /\ pc[p] = "account"
  /\ account_snapshots' = IF verdict[run[p]] = "approved"
                          THEN Append(account_snapshots, run[p]) ELSE account_snapshots
  /\ Goto(p, "state")
  /\ UNCHANGED <<agent_runs, market_snapshots, account_states, trade_tickets,
                 risk_reviews>>

\* record_account_snapshot.
StoreAccount(p) ==
  /\ pc[p] = "account"
  /\ account_snapshots' = Append(account_snapshots, run[p])
  /\ Goto(p, "state")
  /\ UNCHANGED <<agent_runs, market_snapshots, account_states, trade_tickets,
                 risk_reviews>>

\* record_account_state.
StoreState(p) ==
  /\ pc[p] = "state"
  /\ account_states' = [account_states EXCEPT ![IdInHand(p)] = run[p]]
  /\ Goto(p, "ticket")
  /\ UNCHANGED <<agent_runs, market_snapshots, account_snapshots, trade_tickets,
                 risk_reviews>>

\* record_trade_ticket, for the ticket of an approving review.
StoreTicket(p) ==
  /\ pc[p] = "ticket"
  /\ trade_tickets' =
       IF verdict[run[p]] = "approved"
       THEN [trade_tickets EXCEPT ![IdInHand(p)] =
               [run |-> run[p], status |-> "risk_approved"]]
       ELSE trade_tickets
  /\ Goto(p, "review")
  /\ UNCHANGED <<agent_runs, market_snapshots, account_snapshots, account_states,
                 risk_reviews>>

\* record_risk_review, and the run is over.
StoreReview(p) ==
  /\ pc[p] = "review"
  /\ risk_reviews' = Append(risk_reviews, run[p])
  /\ done' = done \cup {run[p]}
  /\ Stop(p)
  /\ UNCHANGED <<second, facts, agent_runs, market_snapshots, account_snapshots,
                 account_states, trade_tickets>>

\* The process dies, or the broker's data cannot be read.
Crash(p) ==
  /\ pc[p] # "idle"
  /\ Stop(p)
  /\ UNCHANGED <<second, facts, tables, done>>

\* The user's decision, executed or rejected; see ApprovalWorkflow.
Decide(i) ==
  /\ trade_tickets[i].status = "risk_approved"
  /\ trade_tickets' = [trade_tickets EXCEPT ![i].status = "decided"]
  /\ UNCHANGED <<second, pc, run, facts, done, agent_runs, market_snapshots,
                 account_snapshots, account_states, risk_reviews>>

Tick ==
  /\ second < MaxSecond
  /\ second' = second + 1
  /\ UNCHANGED <<pc, run, facts, tables, done>>

Store(p) ==
  \/ StoreRun(p) \/ StoreMarket(p) \/ StoreAccount(p) \/ StoreState(p)
  \/ StoreTicket(p) \/ StoreReview(p)

Next ==
  \/ \E p \in Scanners :
       \/ \E given \in BOOLEAN : Fetch(p, given)
       \/ \E says \in {"none", "rejected", "approved"} : Enter(p, says)
       \/ Store(p) \/ Crash(p)
  \/ \E i \in Ids : Decide(i)
  \/ Tick

Spec == Init /\ [][Next]_vars

-----------------------------------------------------------------------------

\* The rows of the reviews that name the ticket with an id; a rejected candidate
\* has the id of a ticket that was never stored.
ReviewsOf(i) ==
  {k \in DOMAIN risk_reviews :
     verdict[risk_reviews[k]] # "none" /\ RunId(risk_reviews[k]) = i}

\* The rows that the id of a completed run leads to are of that run: its state of the
\* account, its ticket exactly if its review approved one, and get_latest_risk_review
\* of that ticket, the row with the highest number, is its review.
CompletedIsWhole ==
  \A n \in done :
    LET i == RunId(n) IN
    /\ agent_runs[i] = n
    /\ account_states[i] = IF n \in live THEN n ELSE None
    /\ trade_tickets[i].run = IF verdict[n] = "approved" THEN n ELSE None
    /\ verdict[n] # "none" => risk_reviews[Max(ReviewsOf(i))] = n

\* Wherever a run dies, what it has stored leads back to its beginning: its ticket to
\* the run and, if the run had broker data, to the state of its account, that state to
\* the two snapshots it was made of, and each snapshot to the run.
RowsLeadBack ==
  /\ \A n \in ToSet(market_snapshots) : agent_runs[RunId(n)] = n
  /\ ToSet(account_snapshots) \subseteq ToSet(market_snapshots)
  /\ \A i \in Ids : account_states[i] # None =>
       account_states[i] \in ToSet(account_snapshots)
  /\ \A i \in Ids : LET n == trade_tickets[i].run IN
       n # None => agent_runs[i] = n /\ (n \in live => account_states[i] = n)

\* What is stored of a run is of that run only, and whole as far as the run came.
RunIsWhole == CompletedIsWhole /\ RowsLeadBack

\* A decided ticket is never waiting again.
DecisionStands ==
  [][\A i \in Ids : trade_tickets[i].status = "decided"
                      => trade_tickets'[i] = trade_tickets[i]]_vars

\* Every run saves its run id (docs/safety-design.md, Audit Trail).
EveryRunSaved == \A n \in done : agent_runs[RunId(n)] = n
=============================================================================
