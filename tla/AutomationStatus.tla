---------------------------- MODULE AutomationStatus ----------------------------
(***************************************************************************)
(* The status report, AutomationStatusBuilder.build                        *)
(* (app/automation/status.py), over the tables of ChiefRuns: five queries, *)
(* each a transaction of its own, while runs store their rows, users       *)
(* decide, the operator or a recorder switches the breaker, and trades are *)
(* analysed.                                                               *)
(***************************************************************************)
EXTENDS ChiefRuns

CONSTANT MaxAnalyses   \* bound: how many analyses are stored

ASSUME StatusAssumption == MaxAnalyses \in Nat

VARIABLES
  breaker,       \* runtime_state["circuit_breaker"]; no row is shown as "off"
  analyses,      \* how many rows post_trade_analyses has
  reportPc,      \* the query that comes next
  report,        \* what has been read
  base,          \* history: what there was to read when the report began
  switched,      \* history: the breaker changed since then
  together       \* history: the pairs of runs of which the second fetched its data
                 \* while the first was under way

statusVars == <<breaker, analyses, reportPc, report, base, switched>>
allVars    == <<vars, statusVars, together>>

\* The run whose data was read from the broker last, by captured_at.
Newest(table) == Max(ToSet(table) \cup {0})

\* Mutant: the rows are listed in ascending order.
FirstRow(table) == IF table = <<>> THEN 0 ELSE Head(table)

\* get_latest_market_snapshot and get_latest_account_snapshot: ORDER BY id DESC.
LatestRow(table) == IF table = <<>> THEN 0 ELSE Last(table)

\* The tickets that wait for the user.
Waiting == {i \in Ids : trade_tickets[i].status = "risk_approved"}

\* list_trade_tickets_by_status("pending_user_approval").
Pending == {i \in Ids : trade_tickets[i].status = "pending_user_approval"}

Nothing == [market |-> 0, account |-> 0, breaker |-> "off", pending |-> {},
            analysis |-> 0]

StatusTypeOK ==
  /\ TypeOK
  /\ breaker \in {"on", "off"}
  /\ analyses \in 0 .. MaxAnalyses
  /\ reportPc \in {"start", "market", "account", "breaker", "pending",
                   "analysis", "shown"}
  /\ report \in [market : 0 .. MaxRuns, account : 0 .. MaxRuns,
                 breaker : {"on", "off"}, pending : SUBSET Ids,
                 analysis : 0 .. MaxAnalyses]
  /\ DOMAIN base = DOMAIN report
  /\ switched \in BOOLEAN
  /\ together \subseteq Runs \X Runs

StatusInit ==
  /\ Init
  /\ breaker = "off" /\ analyses = 0
  /\ reportPc = "start" /\ report = Nothing /\ base = Nothing
  /\ switched = FALSE /\ together = {}

-----------------------------------------------------------------------------

\* build is called.
Begin ==
  /\ reportPc = "start"
  /\ reportPc' = "market"
  /\ base' = [market |-> Newest(market_snapshots), account |-> Newest(account_snapshots),
              breaker |-> breaker, pending |-> Waiting, analysis |-> analyses]
  /\ UNCHANGED <<vars, breaker, analyses, report, switched, together>>

\* One query, and which comes next.
Query(item, value, next) ==
  /\ reportPc = item
  /\ report' = [report EXCEPT ![item] = value]
  /\ reportPc' = next
  /\ UNCHANGED <<vars, breaker, analyses, base, switched, together>>

Read ==
  \/ Query("market", LatestRow(market_snapshots), "account")
  \/ Query("account", LatestRow(account_snapshots), "breaker")
  \/ Query("breaker", breaker, "pending")
  \/ Query("pending", Pending, "analysis")
  \/ Query("analysis", analyses, "shown")

\* set_runtime_state, by the operator or by process_fill.
Switch ==
  /\ breaker' \in {"on", "off"} \ {breaker}
  /\ switched' = (switched \/ reportPc # "start")
  /\ UNCHANGED <<vars, analyses, reportPc, report, base, together>>

\* record_post_trade_analysis.
Analyse ==
  /\ analyses < MaxAnalyses
  /\ analyses' = analyses + 1
  /\ UNCHANGED <<vars, breaker, reportPc, report, base, switched, together>>

\* Runs store their rows, and users decide.
Work ==
  /\ Next /\ UNCHANGED statusVars
  /\ together' = together \cup
       {<<run[p], n>> : p \in {q \in Scanners : pc[q] # "idle"}, n \in begun + 1 .. begun'}

StatusNext ==
  \/ Work
  \/ Begin \/ Read \/ Switch \/ Analyse

\* Bounds: a report that is shown is not followed further; nor is one over runs that
\* overlap followed over a switched breaker or an analysis, which it reads for itself.
OneThingAtATime ==
  /\ reportPc # "shown"
  /\ reportPc # "start" /\ together # {} => breaker = "off" /\ ~ switched /\ analyses = 0

StatusSpec == StatusInit /\ [][StatusNext]_allVars

-----------------------------------------------------------------------------

\* The data of one run is behind that of another only if the other was begun while
\* the one was still under way.
NotBehind(shown, newest) == shown >= newest \/ <<shown, newest>> \in together

\* However runs overlap, each snapshot of a report is of the run with the newest data
\* that was stored when the report was asked for, or of one that was not over when
\* that run began: a snapshot is found by the order of the rows and shown by the time
\* in the row, and the older data may have the later row.  The report has the
\* analyses of that moment or more, and the breaker of that moment, unless it was
\* switched since.
ReportIsFresh ==
  reportPc = "shown" =>
    /\ NotBehind(report.market, base.market)
    /\ NotBehind(report.account, base.account)
    /\ report.analysis >= base.analysis
    /\ switched \/ report.breaker = base.breaker

\* The report shows the tickets that wait for approval (README.md).
WaitingIsShown ==
  reportPc = "shown" => base.pending \cap Waiting \subseteq report.pending
=============================================================================
