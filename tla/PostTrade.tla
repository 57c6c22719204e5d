------------------------------ MODULE PostTrade ------------------------------
(***************************************************************************)
(* The analysis of finished trades (app/analysis/post_trade.py) and the    *)
(* daily digest of the analyses (app/analysis/post_trade_digest.py).       *)
(*                                                                         *)
(* Every call of analyze_ticket reads the ticket, then its realized P&L    *)
(* events, and appends one row to post_trade_analyses; a ticket may be     *)
(* analysed before, between and after its events, and any number of times. *)
(* The digest is a function of the table.  The texts are left out:        *)
(* of the lessons there remain the one that follows from the outcome and   *)
(* the one about a ticket that was not executed.                           *)
(***************************************************************************)
EXTENDS Integers, Sequences, FiniteSetsExt

CONSTANTS
  Tickets,
  Symbol,        \* the symbol of each ticket
  Executed,      \* the tickets with an executed status
  Fills,         \* the realized P&L of each ticket's fills, one after another
  Analyzers,     \* the processes that run scripts/analyze_trade_ticket.py
  NoTicket,
  MaxAnalyses,   \* bound: the analyses
  LastDay        \* bound: the last day (KST)

ASSUME PostTradeAssumption ==
  /\ Executed \subseteq Tickets
  /\ \A t \in Tickets : Fills[t] \in Seq(Int)
  /\ NoTicket \notin Tickets
  /\ MaxAnalyses \in Nat /\ LastDay \in Nat

VARIABLES
  today,
  realized_pnl_events,   \* in the order in which they were recorded
  post_trade_analyses,   \* in the order of their ids
  pc,                    \* where each analyzer is
  job                    \* what it has read so far

tables == <<today, realized_pnl_events, post_trade_analyses>>
analysis == <<today, realized_pnl_events, post_trade_analyses, pc, job>>

Outcomes == {"win", "loss", "flat"}
Lessons == Outcomes \cup {"unexecuted"}
Days == 0..LastDay

Event == [ticket : Tickets, pnl : Int, day : Days]
\* events is the number of P&L events the summary mentions.
Row == [ticket : Tickets, outcome : Outcomes, pnl : Int, events : Nat,
        lessons : SUBSET Lessons, day : Days]
Job == [ticket : Tickets \cup {NoTicket}, pnl : Int, events : Nat]
NoJob == [ticket |-> NoTicket, pnl |-> 0, events |-> 0]

TypeOK ==
  /\ today \in Days
  /\ realized_pnl_events \in Seq(Event)
  /\ post_trade_analyses \in Seq(Row)
  /\ pc \in [Analyzers -> {"idle", "insert"}]
  /\ job \in [Analyzers -> Job]
  /\ \A a \in Analyzers : pc[a] # "idle" => job[a].ticket \in Tickets

Init ==
  /\ today = 0
  /\ realized_pnl_events = <<>>
  /\ post_trade_analyses = <<>>
  /\ pc = [a \in Analyzers |-> "idle"]
  /\ job = [a \in Analyzers |-> NoJob]

-----------------------------------------------------------------------------

\* The P&L of some of the rows of a table.
Total(table, places) == MapThenSumSet(LAMBDA i : table[i].pnl, places)

\* get_realized_pnl_events_for_ticket: the places of its events, and the first n of them.
EventsOf(t) == {i \in DOMAIN realized_pnl_events : realized_pnl_events[i].ticket = t}
FirstOf(t, n) ==
  {i \in EventsOf(t) : Cardinality({k \in EventsOf(t) : k <= i}) <= n}

\* _classify_outcome
Outcome(pnl) == IF pnl > 0 THEN "win" ELSE IF pnl < 0 THEN "loss" ELSE "flat"

\* _build_lessons
LessonsOf(j) ==
  {Outcome(j.pnl)} \cup {l \in {"unexecuted"} : j.ticket \notin Executed}

RowOf(j, day) ==
  [ticket |-> j.ticket, outcome |-> Outcome(j.pnl), pnl |-> j.pnl,
   events |-> j.events, lessons |-> LessonsOf(j), day |-> day]

Goto(a, label) == pc' = [pc EXCEPT ![a] = label]

\* The analyzer has read the ticket and the P&L events at these places.
Take(a, t, places) ==
  /\ pc[a] = "idle"
  /\ Goto(a, "insert")
  /\ job' = [job EXCEPT ![a] =
       [ticket |-> t, pnl |-> Total(realized_pnl_events, places),
        events |-> Cardinality(places)]]
  /\ UNCHANGED tables

\* Mutant: the events of every ticket are summed.
ReadAllEvents(a, t) == Take(a, t, DOMAIN realized_pnl_events)

\* Mutant: only the events of the current day are read.
ReadEventsOfToday(a, t) ==
  Take(a, t, {i \in EventsOf(t) : realized_pnl_events[i].day = today})

\* analyze_ticket is called for a ticket that exists.
ReadEvents(a, t) == Take(a, t, EventsOf(t))

\* record_post_trade_analysis, with a created_at taken just before.
Insert(a) ==
  /\ pc[a] = "insert"
  /\ Len(post_trade_analyses) < MaxAnalyses
  /\ post_trade_analyses' = Append(post_trade_analyses, RowOf(job[a], today))
  /\ Goto(a, "idle")
  /\ job' = [job EXCEPT ![a] = NoJob]
  /\ UNCHANGED <<today, realized_pnl_events>>

Crash(a) ==
  /\ pc[a] # "idle"
  /\ Goto(a, "idle")
  /\ job' = [job EXCEPT ![a] = NoJob]
  /\ UNCHANGED tables

\* The next fill of the ticket is recorded, by hand or by the fill sync.
Realize(t) ==
  LET n == Cardinality(EventsOf(t)) + 1 IN
  /\ n \in DOMAIN Fills[t]
  /\ realized_pnl_events' =
       Append(realized_pnl_events, [ticket |-> t, pnl |-> Fills[t][n], day |-> today])
  /\ UNCHANGED <<today, post_trade_analyses, pc, job>>

Midnight ==
  /\ today < LastDay
  /\ today' = today + 1
  /\ UNCHANGED <<realized_pnl_events, post_trade_analyses, pc, job>>

Next ==
  \/ \E a \in Analyzers :
       \/ \E t \in Tickets : ReadEvents(a, t)
       \/ Insert(a) \/ Crash(a)
  \/ \E t \in Tickets : Realize(t)
  \/ Midnight

Spec == Init /\ [][Next]_analysis

-----------------------------------------------------------------------------

\* The rows of a digest, by their places: those created on a KST day.
RowsOf(day) == {i \in DOMAIN post_trade_analyses : post_trade_analyses[i].day = day}

\* PostTradeDigestBuilder.build_for_date
Digest(day) ==
  [ticket_count |-> Cardinality(RowsOf(day)),
   total |-> Total(post_trade_analyses, RowsOf(day)),
   outcome_counts |-> [o \in Outcomes |->
     Cardinality({i \in RowsOf(day) : post_trade_analyses[i].outcome = o})]]

\* Its tickets, and whether each was analysed only once.
Analysed(day) == {post_trade_analyses[i].ticket : i \in RowsOf(day)}
OncePerTicket(day) ==
  \A i, j \in RowsOf(day) :
    post_trade_analyses[i].ticket = post_trade_analyses[j].ticket => i = j

\* The P&L of the events that an analysis had seen.
Seen(row) == Total(realized_pnl_events, FirstOf(row.ticket, row.events))

\* If no ticket was analysed twice on a day, the digest of that day counts its
\* tickets, its outcomes add up to them, and its total is what the events each
\* analysis had seen had realized: the analysis, the table and the digest agree on
\* the P&L of a ticket, whatever was recorded meanwhile and on whichever day.
DigestAddsUp ==
  \A day \in Days : OncePerTicket(day) =>
    LET digest == Digest(day) IN
    /\ \A i \in RowsOf(day) :
         post_trade_analyses[i].events <= Cardinality(EventsOf(post_trade_analyses[i].ticket))
    /\ digest.ticket_count = Cardinality(Analysed(day))
    /\ digest.ticket_count =
         MapThenSumSet(LAMBDA o : digest.outcome_counts[o], Outcomes)
    /\ digest.total = MapThenSumSet(LAMBDA i : Seen(post_trade_analyses[i]), RowsOf(day))

\* An analysis that follows another of the same ticket is not the staler one: it
\* knows every event the other knew, and is not dated before it.  The latest row
\* of a ticket is what get_latest_post_trade_analysis returns.
AnalysesAdvance ==
  \A i, j \in DOMAIN post_trade_analyses :
    LET earlier == post_trade_analyses[i]
        later == post_trade_analyses[j]
    IN  i < j /\ earlier.ticket = later.ticket =>
          earlier.events <= later.events /\ earlier.day <= later.day

\* The handoff document: the digest has the ticket count of its day.
TicketsCountedOnce ==
  \A day \in Days : Digest(day).ticket_count = Cardinality(Analysed(day))
=============================================================================
