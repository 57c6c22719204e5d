--------------------------- MODULE PostTradeProofs ---------------------------
(***************************************************************************)
(* What is made of finished trades: the analyses agree with the P&L events *)
(* and the digest with the analyses, for any number of analyzers; the file *)
(* of lessons keeps what is the user's, is made whole by two exports and   *)
(* traces every lesson to its ticket; and what the digest picks out of a   *)
(* day is what a count of places would.                                    *)
(***************************************************************************)
EXTENDS StrategyLessons, DigestLessons, SequenceTheorems, FiniteSums, TLAPS

-----------------------------------------------------------------------------
(* Sums over the rows of a table. *)

\* A total is the sum of one column over some rows.
LEMMA TotalIsSum ==
  ASSUME NEW table, NEW places, IsFiniteSet(places),
         \A i \in places : table[i].pnl \in Int
  PROVE  Total(table, places) = Sum([i \in places |-> table[i].pnl], places)
<1> DEFINE f == [i \in places |-> table[i].pnl]
           Table(k) == k = [s \in SUBSET places |->
             IF s = {} THEN 0 ELSE table[Choice(s)].pnl + k[s \ {Choice(s)}]]
<1>1. \A k : Table(k) <=> SumTable(k, f, places)
  <2>1. \A s \in SUBSET places : s # {} => f[Choice(s)] = table[Choice(s)].pnl
    BY DEF Choice
  <2> QED
    BY <2>1 DEF SumTable
<1>2. Total(table, places) = (CHOOSE k : Table(k))[places]
  BY DEF Total, MapThenSumSet, MapThenFoldSet, Choice
<1>3. \A i \in places : f[i] \in Int
  OBVIOUS
<1> HIDE DEF f, Table
<1>4. Table(CHOOSE k : Table(k))
  BY <1>1, <1>3, TableExists
<1> QED
  BY <1>1, <1>2, <1>3, <1>4, TableSum DEF f

LEMMA TotalType ==
  ASSUME NEW table, NEW places, IsFiniteSet(places),
         \A i \in places : table[i].pnl \in Int
  PROVE  Total(table, places) \in Int
<1> DEFINE f == [i \in places |-> table[i].pnl]
<1>1. \A i \in places : f[i] \in Int
  OBVIOUS
<1> HIDE DEF f
<1>2. Sum(f, places) \in Int
  BY <1>1, SumType
<1> QED
  BY <1>2, TotalIsSum DEF f

\* Tables with the same rows in some places have the same total there.
LEMMA TotalSame ==
  ASSUME NEW table, NEW other, NEW places, IsFiniteSet(places),
         \A i \in places : table[i].pnl \in Int /\ other[i] = table[i]
  PROVE  Total(other, places) = Total(table, places)
<1> DEFINE f == [i \in places |-> table[i].pnl]
           g == [i \in places |-> other[i].pnl]
<1>1. \A i \in places : f[i] \in Int /\ f[i] = g[i] /\ other[i].pnl \in Int
  OBVIOUS
<1> HIDE DEF f, g
<1>2. Sum(f, places) = Sum(g, places)
  BY <1>1, SumSame
<1> QED
  BY <1>1, <1>2, TotalIsSum DEF f, g

-----------------------------------------------------------------------------
(* The analyses. *)

\* What is written down of a ticket's P&L are its first events, as many as it says.
Sound(r) == r.events <= Cardinality(EventsOf(r.ticket)) /\ r.pnl = Seen(r)

SoundInv ==
  /\ \A a \in Analyzers : pc[a] = "insert" => Sound(job[a])
  /\ \A i \in DOMAIN post_trade_analyses : Sound(post_trade_analyses[i])

AnalysisInv == TypeOK /\ SoundInv

LEMMA EventPlaces ==
  ASSUME TypeOK
  PROVE  /\ Len(realized_pnl_events) \in Nat
         /\ DOMAIN realized_pnl_events = 1 .. Len(realized_pnl_events)
         /\ \A i \in DOMAIN realized_pnl_events :
              realized_pnl_events[i] \in Event /\ realized_pnl_events[i].pnl \in Int
         /\ \A S \in SUBSET DOMAIN realized_pnl_events :
              /\ IsFiniteSet(S) /\ Cardinality(S) \in Nat
              /\ Total(realized_pnl_events, S) \in Int
         /\ \A t, n : FirstOf(t, n) \subseteq EventsOf(t)
         /\ \A t : EventsOf(t) \subseteq DOMAIN realized_pnl_events
<1>1. /\ Len(realized_pnl_events) \in Nat
      /\ DOMAIN realized_pnl_events = 1 .. Len(realized_pnl_events)
      /\ \A i \in DOMAIN realized_pnl_events :
           realized_pnl_events[i] \in Event /\ realized_pnl_events[i].pnl \in Int
  <2>1. realized_pnl_events \in Seq(Event)
    BY DEF TypeOK
  <2>2. \A e \in Event : e.pnl \in Int
    BY DEF Event
  <2> QED
    BY <2>1, <2>2, LenProperties, ElementOfSeq
<1>2. ASSUME NEW S \in SUBSET DOMAIN realized_pnl_events
      PROVE  IsFiniteSet(S) /\ Cardinality(S) \in Nat /\ Total(realized_pnl_events, S) \in Int
  <2> DEFINE L == Len(realized_pnl_events)
  <2>1. IsFiniteSet(1 .. L) /\ S \in SUBSET (1 .. L)
    BY <1>1, FS_Interval
  <2>2. IsFiniteSet(S)
    BY <2>1, FS_Subset
  <2> QED
    BY <1>1, <2>2, FS_CardinalityType, TotalType
<1> QED
  BY <1>1, <1>2 DEF FirstOf, EventsOf

LEMMA AnalysisRows ==
  ASSUME TypeOK
  PROVE  /\ Len(post_trade_analyses) \in Nat
         /\ DOMAIN post_trade_analyses = 1 .. Len(post_trade_analyses)
         /\ \A i \in DOMAIN post_trade_analyses : post_trade_analyses[i] \in Row
<1>1. post_trade_analyses \in Seq(Row)
  BY DEF TypeOK
<1> QED
  BY <1>1, LenProperties, ElementOfSeq

\* All events of a ticket are its first ones.
LEMMA AllAreFirst ==
  ASSUME TypeOK, NEW t
  PROVE  FirstOf(t, Cardinality(EventsOf(t))) = EventsOf(t)
<1>1. ASSUME NEW i \in EventsOf(t)
      PROVE  Cardinality({k \in EventsOf(t) : k <= i}) <= Cardinality(EventsOf(t))
  BY EventPlaces, FS_Subset
<1> QED
  BY <1>1 DEF FirstOf

\* An event more leaves the first ones as they are.
LEMMA FirstStay ==
  ASSUME TypeOK, NEW x \in Event, realized_pnl_events' = Append(realized_pnl_events, x),
         NEW u, NEW n \in Nat, n <= Cardinality(EventsOf(u))
  PROVE  /\ FirstOf(u, n)' = FirstOf(u, n)
         /\ n <= Cardinality(EventsOf(u))'
<1> DEFINE E == realized_pnl_events
           L == Len(E)
           new == IF x.ticket = u THEN {L + 1} ELSE {}
<1>1. /\ L \in Nat /\ DOMAIN E = 1 .. L /\ DOMAIN E' = 1 .. L + 1
      /\ \A i \in 1 .. L : E'[i] = E[i]
      /\ E'[L + 1] = x
  BY EventPlaces, AppendProperties, LenProperties DEF TypeOK
<1>2. EventsOf(u)' = EventsOf(u) \cup new
  BY <1>1 DEF EventsOf
<1>3. /\ EventsOf(u) \subseteq 1 .. L /\ IsFiniteSet(EventsOf(u))
      /\ Cardinality(EventsOf(u)) \in Nat
  BY <1>1, EventPlaces
<1>4. /\ IsFiniteSet(EventsOf(u) \cup new)
      /\ Cardinality(EventsOf(u) \cup new)
           = IF x.ticket = u THEN Cardinality(EventsOf(u)) + 1 ELSE Cardinality(EventsOf(u))
  <2>1. L + 1 \notin EventsOf(u)
    BY <1>1, <1>3
  <2> QED
    BY <1>3, <2>1, FS_AddElement, EventsOf(u) \cup {} = EventsOf(u)
<1>5. n <= Cardinality(EventsOf(u))'
  BY <1>2, <1>3, <1>4
<1>6. ASSUME NEW i \in EventsOf(u)
      PROVE  {k \in EventsOf(u)' : k <= i} = {k \in EventsOf(u) : k <= i}
  BY <1>1, <1>2, <1>3
<1>7. ASSUME x.ticket = u
      PROVE  ~ (Cardinality({k \in EventsOf(u)' : k <= L + 1}) <= n)
  <2>1. {k \in EventsOf(u)' : k <= L + 1} = EventsOf(u) \cup new
    BY <1>1, <1>2, <1>3, <1>7
  <2>2. Cardinality({k \in EventsOf(u)' : k <= L + 1}) = Cardinality(EventsOf(u)) + 1
    BY <1>4, <1>7, <2>1
  <2> QED
    BY <1>3, <2>2
<1>8. FirstOf(u, n)' = {i \in EventsOf(u)' : Cardinality({k \in EventsOf(u)' : k <= i}) <= n}
  BY DEF FirstOf
<1>9. FirstOf(u, n) = {i \in EventsOf(u) : Cardinality({k \in EventsOf(u) : k <= i}) <= n}
  BY DEF FirstOf
<1>10. ASSUME NEW i \in EventsOf(u)'
       PROVE  Cardinality({k \in EventsOf(u)' : k <= i}) <= n
                <=> i \in EventsOf(u) /\ Cardinality({k \in EventsOf(u) : k <= i}) <= n
  <2>1. CASE i \in EventsOf(u)
    BY <1>6, <2>1
  <2>2. CASE i \notin EventsOf(u)
    BY <1>2, <1>7, <2>2
  <2> QED
    BY <2>1, <2>2
<1> QED
  BY <1>2, <1>5, <1>8, <1>9, <1>10

\* What was written down stays true of the events.
LEMMA SoundStays ==
  ASSUME TypeOK, NEW x \in Event, realized_pnl_events' = Append(realized_pnl_events, x),
         NEW r, r.events \in Nat, Sound(r)
  PROVE  Sound(r)'
<1> DEFINE places == FirstOf(r.ticket, r.events)
<1>1. /\ FirstOf(r.ticket, r.events)' = places
      /\ (r.events <= Cardinality(EventsOf(r.ticket)))'
  BY FirstStay DEF Sound
<1>2. IsFiniteSet(places) /\ \A i \in places : /\ realized_pnl_events[i].pnl \in Int
                                               /\ realized_pnl_events'[i] = realized_pnl_events[i]
  BY EventPlaces, AppendProperties DEF TypeOK
<1> HIDE DEF places
<1>3. Total(realized_pnl_events', places) = Total(realized_pnl_events, places)
  BY <1>2, TotalSame
<1>4. Seen(r) = Total(realized_pnl_events, places)
  BY DEF Seen, places
<1>5. Seen(r)' = Total(realized_pnl_events', places)
  BY <1>1 DEF Seen, Total, MapThenSumSet, MapThenFoldSet
<1> QED
  BY <1>1, <1>3, <1>4, <1>5 DEF Sound

LEMMA AnalysisInit == Init => AnalysisInv
<1> SUFFICES ASSUME Init PROVE AnalysisInv
  OBVIOUS
<1>1. NoJob \in Job
  BY DEF NoJob, Job
<1>2. TypeOK
  BY <1>1, PostTradeAssumption, EmptySeq DEF Init, TypeOK, Days
<1>3. SoundInv
  BY EmptySeq DEF Init, SoundInv
<1> QED
  BY <1>2, <1>3 DEF AnalysisInv

LEMMA ReadInv ==
  ASSUME AnalysisInv, NEW a \in Analyzers, NEW t \in Tickets, ReadEvents(a, t)
  PROVE  AnalysisInv'
<1> DEFINE new == [ticket |-> t, pnl |-> Total(realized_pnl_events, EventsOf(t)),
                   events |-> Cardinality(EventsOf(t))]
<1> USE DEF AnalysisInv
<1>1. /\ pc' = [pc EXCEPT ![a] = "insert"] /\ job' = [job EXCEPT ![a] = new]
      /\ UNCHANGED tables
  BY DEF ReadEvents, Take, Goto
<1>2. new \in Job /\ Sound(new)
  BY EventPlaces, AllAreFirst DEF Job, Sound, Seen
<1> HIDE DEF new
<1>3. TypeOK'
  <2>1. new.ticket \in Tickets
    BY DEF new
  <2> QED
    BY <1>1, <1>2, <2>1 DEF TypeOK, tables
<1>4. \A r : Sound(r)' = Sound(r)
  BY <1>1 DEF tables, Sound, Seen, EventsOf, FirstOf
<1>5. SoundInv'
  <2>1. \A b \in Analyzers : pc'[b] = "insert" => Sound(job'[b])
    BY <1>1, <1>2 DEF TypeOK, SoundInv
  <2>2. post_trade_analyses' = post_trade_analyses
    BY <1>1 DEF tables
  <2> QED
    BY <1>4, <2>1, <2>2 DEF SoundInv
<1> QED
  BY <1>3, <1>5

\* What an analyzer stores.
LEMMA RowType ==
  ASSUME TypeOK, NEW a \in Analyzers, pc[a] = "insert"
  PROVE  RowOf(job[a], today) \in Row
<1>1. job[a].ticket \in Tickets /\ job[a].pnl \in Int /\ job[a].events \in Nat
  BY DEF TypeOK, Job
<1>2. Outcome(job[a].pnl) \in Outcomes /\ LessonsOf(job[a]) \in SUBSET Lessons
  BY DEF Outcome, Outcomes, LessonsOf, Lessons
<1> QED
  BY <1>1, <1>2 DEF TypeOK, RowOf, Row

LEMMA InsertInv ==
  ASSUME AnalysisInv, NEW a \in Analyzers, Insert(a)
  PROVE  AnalysisInv'
<1> DEFINE row == RowOf(job[a], today)
           L == Len(post_trade_analyses)
<1> USE DEF AnalysisInv
<1>1. /\ pc[a] = "insert" /\ post_trade_analyses' = Append(post_trade_analyses, row)
      /\ pc' = [pc EXCEPT ![a] = "idle"] /\ job' = [job EXCEPT ![a] = NoJob]
      /\ UNCHANGED <<today, realized_pnl_events>>
  BY DEF Insert, Goto
<1>2. row \in Row
  BY <1>1, RowType
<1>3. NoJob \in Job
  BY DEF NoJob, Job
<1>4. TypeOK'
  BY <1>1, <1>2, <1>3, AppendProperties DEF TypeOK
<1>5. \A r : Sound(r)' = Sound(r)
  BY <1>1 DEF Sound, Seen, EventsOf, FirstOf
<1>6. Sound(row)
  <2>1. row.ticket = job[a].ticket /\ row.pnl = job[a].pnl /\ row.events = job[a].events
    BY DEF RowOf
  <2> QED
    BY <1>1, <2>1 DEF SoundInv, Sound, Seen
<1>7. /\ DOMAIN post_trade_analyses' = DOMAIN post_trade_analyses \cup {L + 1}
      /\ \A i \in DOMAIN post_trade_analyses : post_trade_analyses'[i] = post_trade_analyses[i]
      /\ post_trade_analyses'[L + 1] = row
  BY <1>1, <1>2, AppendProperties, LenProperties DEF TypeOK
<1> HIDE DEF row, L
<1>8. SoundInv'
  <2>1. \A b \in Analyzers : pc'[b] = "insert" => Sound(job'[b])
    BY <1>1 DEF TypeOK, SoundInv
  <2>2. \A i \in DOMAIN post_trade_analyses' : Sound(post_trade_analyses'[i])
    BY <1>6, <1>7 DEF SoundInv
  <2> QED
    BY <1>5, <2>1, <2>2 DEF SoundInv
<1> QED
  BY <1>4, <1>8

LEMMA AnalyzerCrashInv ==
  ASSUME AnalysisInv, NEW a \in Analyzers, Crash(a)
  PROVE  AnalysisInv'
<1> USE DEF AnalysisInv
<1>1. /\ pc' = [pc EXCEPT ![a] = "idle"] /\ job' = [job EXCEPT ![a] = NoJob]
      /\ UNCHANGED tables
  BY DEF Crash, Goto
<1>2. NoJob \in Job
  BY DEF NoJob, Job
<1>3. TypeOK'
  BY <1>1, <1>2 DEF TypeOK, tables
<1>4. \A r : Sound(r)' = Sound(r)
  BY <1>1 DEF tables, Sound, Seen, EventsOf, FirstOf
<1>5. SoundInv'
  <2>1. \A b \in Analyzers : pc'[b] = "insert" => Sound(job'[b])
    BY <1>1 DEF TypeOK, SoundInv
  <2>2. post_trade_analyses' = post_trade_analyses
    BY <1>1 DEF tables
  <2> QED
    BY <1>4, <2>1, <2>2 DEF SoundInv
<1> QED
  BY <1>3, <1>5

LEMMA RealizeInv ==
  ASSUME AnalysisInv, NEW t \in Tickets, Realize(t)
  PROVE  AnalysisInv'
<1> DEFINE n == Cardinality(EventsOf(t)) + 1
           x == [ticket |-> t, pnl |-> Fills[t][n], day |-> today]
<1> USE DEF AnalysisInv
<1>1. /\ n \in DOMAIN Fills[t] /\ realized_pnl_events' = Append(realized_pnl_events, x)
      /\ UNCHANGED <<today, post_trade_analyses, pc, job>>
  BY DEF Realize
<1>2. x \in Event
  <2>1. Fills[t][n] \in Int
    BY <1>1, PostTradeAssumption, LenProperties, ElementOfSeq
  <2> QED
    BY <2>1 DEF TypeOK, Event
<1> HIDE DEF x
<1>3. TypeOK'
  BY <1>1, <1>2, AppendProperties DEF TypeOK
<1>4. ASSUME NEW r, r.events \in Nat, Sound(r) PROVE Sound(r)'
  BY <1>1, <1>2, <1>4, SoundStays
<1>5. SoundInv'
  <2>1. \A b \in Analyzers : job[b].events \in Nat
    BY DEF TypeOK, Job
  <2>2. \A i \in DOMAIN post_trade_analyses : post_trade_analyses[i].events \in Nat
    BY AnalysisRows DEF Row
  <2>3. ASSUME NEW b \in Analyzers, pc[b] = "insert" PROVE Sound(job[b])'
    BY <1>1, <1>4, <2>1, <2>3 DEF SoundInv
  <2>4. ASSUME NEW i \in DOMAIN post_trade_analyses PROVE Sound(post_trade_analyses[i])'
    BY <1>1, <1>4, <2>2 DEF SoundInv
  <2> QED
    BY <1>1, <2>3, <2>4 DEF SoundInv
<1> QED
  BY <1>3, <1>5

LEMMA QuietSound ==
  ASSUME SoundInv, UNCHANGED <<realized_pnl_events, post_trade_analyses, pc, job>>
  PROVE  SoundInv'
<1>1. \A r : Sound(r)' = Sound(r)
  BY DEF Sound, Seen, EventsOf, FirstOf
<1> QED
  BY <1>1 DEF SoundInv

LEMMA AnalysisNext == AnalysisInv /\ [Next]_analysis => AnalysisInv'
<1> SUFFICES ASSUME AnalysisInv, [Next]_analysis PROVE AnalysisInv'
  OBVIOUS
<1>1. ASSUME Midnight PROVE AnalysisInv'
  <2>1. TypeOK' /\ UNCHANGED <<realized_pnl_events, post_trade_analyses, pc, job>>
    BY <1>1, PostTradeAssumption DEF Midnight, AnalysisInv, TypeOK, Days
  <2> QED
    BY <2>1, QuietSound DEF AnalysisInv
<1>2. ASSUME UNCHANGED analysis PROVE AnalysisInv'
  <2>1. TypeOK' /\ UNCHANGED <<realized_pnl_events, post_trade_analyses, pc, job>>
    BY <1>2 DEF analysis, AnalysisInv, TypeOK
  <2> QED
    BY <2>1, QuietSound DEF AnalysisInv
<1> QED
  BY <1>1, <1>2, ReadInv, InsertInv, AnalyzerCrashInv, RealizeInv DEF Next

LEMMA AnalysisInvariance == Spec => []AnalysisInv
BY AnalysisInit, AnalysisNext, PTL DEF Spec

\* Events, analyses and what an analyzer has read keep their types.
THEOREM PostTradeTypeCorrect == Spec => []TypeOK
BY AnalysisInvariance, PTL DEF AnalysisInv

-----------------------------------------------------------------------------
(* The digest of a day. *)

LEMMA SumOfSeen ==
  ASSUME NEW places, IsFiniteSet(places),
         \A i \in places : Seen(post_trade_analyses[i]) \in Int
  PROVE  MapThenSumSet(LAMBDA i : Seen(post_trade_analyses[i]), places)
           = Sum([i \in places |-> Seen(post_trade_analyses[i])], places)
<1> DEFINE f == [i \in places |-> Seen(post_trade_analyses[i])]
           Table(k) == k = [s \in SUBSET places |->
             IF s = {} THEN 0 ELSE Seen(post_trade_analyses[Choice(s)]) + k[s \ {Choice(s)}]]
<1>1. \A k : Table(k) <=> SumTable(k, f, places)
  <2>1. \A s \in SUBSET places : s # {} => f[Choice(s)] = Seen(post_trade_analyses[Choice(s)])
    BY DEF Choice
  <2> QED
    BY <2>1 DEF SumTable
<1>2. MapThenSumSet(LAMBDA i : Seen(post_trade_analyses[i]), places)
        = (CHOOSE k : Table(k))[places]
  BY DEF MapThenSumSet, MapThenFoldSet, Choice
<1>3. \A i \in places : f[i] \in Int
  OBVIOUS
<1> HIDE DEF f, Table
<1>4. Table(CHOOSE k : Table(k))
  BY <1>1, <1>3, TableExists
<1> QED
  BY <1>1, <1>2, <1>3, <1>4, TableSum DEF f

\* The counts of the three outcomes.
LEMMA SumOfCounts ==
  ASSUME NEW d, \A o \in Outcomes : d.outcome_counts[o] \in Int
  PROVE  MapThenSumSet(LAMBDA o : d.outcome_counts[o], Outcomes)
           = d.outcome_counts["win"] + d.outcome_counts["loss"] + d.outcome_counts["flat"]
<1> DEFINE f == [o \in Outcomes |-> d.outcome_counts[o]]
           Table(k) == k = [s \in SUBSET Outcomes |->
             IF s = {} THEN 0 ELSE d.outcome_counts[Choice(s)] + k[s \ {Choice(s)}]]
<1>1. \A k : Table(k) <=> SumTable(k, f, Outcomes)
  <2>1. \A s \in SUBSET Outcomes : s # {} => f[Choice(s)] = d.outcome_counts[Choice(s)]
    BY DEF Choice
  <2> QED
    BY <2>1 DEF SumTable
<1>2. MapThenSumSet(LAMBDA o : d.outcome_counts[o], Outcomes) = (CHOOSE k : Table(k))[Outcomes]
  BY DEF MapThenSumSet, MapThenFoldSet, Choice
<1>3. \A o \in Outcomes : f[o] \in Int /\ f[o] = d.outcome_counts[o]
  OBVIOUS
<1>4. /\ IsFiniteSet({"win"}) /\ IsFiniteSet({"win", "loss"}) /\ IsFiniteSet(Outcomes)
      /\ {"win"} = {} \cup {"win"} /\ {"win", "loss"} = {"win"} \cup {"loss"}
      /\ Outcomes = {"win", "loss"} \cup {"flat"}
  <2>1. {"win"} = {} \cup {"win"} /\ {"win", "loss"} = {"win"} \cup {"loss"}
    OBVIOUS
  <2>2. Outcomes = {"win", "loss"} \cup {"flat"}
    BY DEF Outcomes
  <2>3. IsFiniteSet({"win"}) /\ IsFiniteSet({"win"} \cup {"loss"})
    BY FS_Singleton, FS_AddElement
  <2>4. IsFiniteSet({"win", "loss"} \cup {"flat"})
    BY <2>1, <2>3, FS_AddElement
  <2> QED
    BY <2>1, <2>2, <2>3, <2>4
<1> HIDE DEF f, Table
<1>5. Table(CHOOSE k : Table(k))
  BY <1>1, <1>3, <1>4, TableExists
<1>6. MapThenSumSet(LAMBDA o : d.outcome_counts[o], Outcomes) = Sum(f, Outcomes)
  BY <1>1, <1>2, <1>3, <1>4, <1>5, TableSum
<1>7. f["win"] \in Int /\ f["loss"] \in Int /\ f["flat"] \in Int
  BY <1>3 DEF Outcomes
<1>8. Sum(f, {"win"}) = f["win"] + 0
  <2>1. Sum(f, {} \cup {"win"}) = f["win"] + Sum(f, {})
    BY <1>7, FS_EmptySet, SumInsert
  <2> QED
    BY <1>4, <2>1, SumEmpty
<1>9. Sum(f, {"win", "loss"}) = f["loss"] + Sum(f, {"win"})
  <2>1. Sum(f, {"win"} \cup {"loss"}) = f["loss"] + Sum(f, {"win"})
    BY <1>4, <1>7, SumInsert
  <2> QED
    BY <1>4, <2>1
<1>10. Sum(f, Outcomes) = f["flat"] + Sum(f, {"win", "loss"})
  <2>1. Sum(f, {"win", "loss"} \cup {"flat"}) = f["flat"] + Sum(f, {"win", "loss"})
    BY <1>4, <1>7, SumInsert
  <2> QED
    BY <1>4, <2>1
<1>11. /\ f["win"] = d.outcome_counts["win"] /\ f["loss"] = d.outcome_counts["loss"]
       /\ f["flat"] = d.outcome_counts["flat"]
  BY <1>3 DEF Outcomes
<1> QED
  BY <1>6, <1>7, <1>8, <1>9, <1>10, <1>11

\* Every row has one of them.
LEMMA OutcomesPartition ==
  ASSUME NEW places, IsFiniteSet(places), NEW outcome, \A i \in places : outcome[i] \in Outcomes
  PROVE  Cardinality(places)
           = Cardinality({i \in places : outcome[i] = "win"})
               + Cardinality({i \in places : outcome[i] = "loss"})
               + Cardinality({i \in places : outcome[i] = "flat"})
<1> DEFINE Of(o) == {i \in places : outcome[i] = o}
<1>1. \A o : IsFiniteSet(Of(o)) /\ Cardinality(Of(o)) \in Nat
  BY FS_Subset, FS_CardinalityType
<1>2. Of("win") \cap Of("loss") = {} /\ (Of("win") \cup Of("loss")) \cap Of("flat") = {}
  OBVIOUS
<1>3. places = (Of("win") \cup Of("loss")) \cup Of("flat")
  BY DEF Outcomes
<1> HIDE DEF Of
<1>4. /\ IsFiniteSet(Of("win") \cup Of("loss"))
      /\ Cardinality(Of("win") \cup Of("loss")) = Cardinality(Of("win")) + Cardinality(Of("loss"))
  <2>1. IsFiniteSet(Of("win")) /\ IsFiniteSet(Of("loss"))
    BY <1>1
  <2>2. /\ IsFiniteSet(Of("win") \cup Of("loss"))
        /\ Cardinality(Of("win") \cup Of("loss"))
             = Cardinality(Of("win")) + Cardinality(Of("loss")) - Cardinality({})
    BY <1>2, <2>1, FS_Union
  <2> QED
    BY <1>1, <2>2, FS_EmptySet
<1>5. Cardinality(places) = Cardinality(Of("win") \cup Of("loss")) + Cardinality(Of("flat"))
  <2>1. Cardinality(places)
          = Cardinality(Of("win") \cup Of("loss")) + Cardinality(Of("flat")) - Cardinality({})
    BY <1>1, <1>2, <1>3, <1>4, FS_Union
  <2> QED
    BY <1>1, <1>4, <2>1, FS_EmptySet
<1> QED
  BY <1>1, <1>4, <1>5 DEF Of

\* The digest of a day on which no ticket was analysed twice counts its tickets, its
\* outcomes add up to them, and its total is the P&L of the events that the analyses had
\* seen, for any number of analyzers, whatever was recorded meanwhile.
THEOREM DigestsAddUp == Spec => []DigestAddsUp
<1> DEFINE table == post_trade_analyses
<1>1. ASSUME AnalysisInv, NEW day \in Days, OncePerTicket(day)
      PROVE  /\ \A i \in RowsOf(day) :
                  table[i].events <= Cardinality(EventsOf(table[i].ticket))
             /\ Digest(day).ticket_count = Cardinality(Analysed(day))
             /\ Digest(day).ticket_count
                  = MapThenSumSet(LAMBDA o : Digest(day).outcome_counts[o], Outcomes)
             /\ Digest(day).total = MapThenSumSet(LAMBDA i : Seen(table[i]), RowsOf(day))
  <2> DEFINE R == RowsOf(day)
             outcome == [i \in R |-> table[i].outcome]
             ticket == [i \in R |-> table[i].ticket]
  <2>1. /\ R \subseteq DOMAIN table /\ IsFiniteSet(R)
        /\ \A i \in R : /\ table[i] \in Row
                        /\ Sound(table[i])
    <3>1. R \in SUBSET (1 .. Len(table)) /\ IsFiniteSet(1 .. Len(table))
      BY <1>1, AnalysisRows, FS_Interval DEF RowsOf, AnalysisInv
    <3>2. IsFiniteSet(R)
      BY <3>1, FS_Subset
    <3>3. \A i \in R : table[i] \in Row /\ Sound(table[i])
      BY <1>1, <3>1, AnalysisRows DEF AnalysisInv, SoundInv
    <3> QED
      BY <1>1, <3>1, <3>2, <3>3, AnalysisRows DEF AnalysisInv
  <2>2. \A i \in R : table[i].pnl \in Int /\ table[i].outcome \in Outcomes
    BY <2>1 DEF Row
  <2>3. \A i \in R : table[i].events <= Cardinality(EventsOf(table[i].ticket))
    BY <2>1 DEF Sound
  <2>4. Cardinality(R) = Cardinality(Analysed(day))
    <3>1. /\ ticket \in [R -> Analysed(day)]
          /\ \A i, j \in R : ticket[i] = ticket[j] => i = j
          /\ \A t \in Analysed(day) : \E i \in R : ticket[i] = t
      BY <1>1 DEF Analysed, OncePerTicket
    <3> HIDE DEF ticket, R
    <3>2. ticket \in Bijection(R, Analysed(day))
      BY <3>1 DEF Bijection, Injection, Surjection, IsInjective
    <3> QED
      BY <2>1, <3>2, FS_Bijection DEF ExistsBijection
  <2>5. Digest(day).ticket_count
          = MapThenSumSet(LAMBDA o : Digest(day).outcome_counts[o], Outcomes)
    <3> DEFINE N(o) == Cardinality({i \in R : outcome[i] = o})
    <3>1. \A o \in Outcomes : Digest(day).outcome_counts[o] = N(o)
      BY DEF Digest
    <3>2. \A o : N(o) \in Nat
      <4> HIDE DEF R, outcome
      <4> QED
        BY <2>1, FS_Subset, FS_CardinalityType
    <3>3. \A i \in R : outcome[i] \in Outcomes
      BY <2>2
    <3> HIDE DEF outcome
    <3>4. Cardinality(R) = N("win") + N("loss") + N("flat")
      BY <2>1, <3>3, OutcomesPartition
    <3> HIDE DEF N
    <3>5. \A o \in Outcomes : Digest(day).outcome_counts[o] \in Int
      BY <3>1, <3>2
    <3>6. "win" \in Outcomes /\ "loss" \in Outcomes /\ "flat" \in Outcomes
      BY DEF Outcomes
    <3>7. Digest(day).ticket_count = Cardinality(R)
      BY DEF Digest
    <3> DEFINE d == Digest(day)
    <3> HIDE DEF d, R
    <3>8. MapThenSumSet(LAMBDA o : d.outcome_counts[o], Outcomes)
            = d.outcome_counts["win"] + d.outcome_counts["loss"] + d.outcome_counts["flat"]
      BY <3>5, SumOfCounts DEF d
    <3> QED
      BY <3>1, <3>4, <3>6, <3>7, <3>8 DEF d
  <2>6. Digest(day).total = MapThenSumSet(LAMBDA i : Seen(table[i]), R)
    <3> DEFINE f == [i \in R |-> table[i].pnl]
               h == [i \in R |-> Seen(table[i])]
    <3>1. \A i \in R : table[i].pnl = Seen(table[i]) /\ table[i].pnl \in Int
      BY <2>1, <2>2 DEF Sound
    <3>2. f = h
      BY <3>1
    <3>3. Digest(day).total = Total(table, R)
      BY DEF Digest
    <3> HIDE DEF R
    <3>4. Total(table, R) = Sum(f, R)
      BY <2>1, <3>1, TotalIsSum
    <3>5. MapThenSumSet(LAMBDA i : Seen(table[i]), R) = Sum(h, R)
      BY <2>1, <3>1, SumOfSeen
    <3> QED
      BY <3>2, <3>3, <3>4, <3>5
  <2>7. Digest(day).ticket_count = Cardinality(R)
    BY DEF Digest
  <2> QED
    BY <2>3, <2>4, <2>5, <2>6, <2>7
<1>2. AnalysisInv => DigestAddsUp
  BY <1>1 DEF DigestAddsUp
<1> QED
  BY <1>2, AnalysisInvariance, PTL

-----------------------------------------------------------------------------
(* The order of the analyses. *)

\* One analysis at a time, as scripts/analyze_trade_ticket.py is run by hand.
OneAnalyzer == \A a, b \in Analyzers : a = b

\* No stored row of a ticket knows more than what its analyzer has just read.
FreshInv ==
  /\ \A a \in Analyzers : \A i \in DOMAIN post_trade_analyses :
       pc[a] = "insert" /\ post_trade_analyses[i].ticket = job[a].ticket =>
         post_trade_analyses[i].events <= job[a].events
  /\ \A i \in DOMAIN post_trade_analyses : post_trade_analyses[i].day <= today

LEMMA FreshInit == Init => FreshInv /\ AnalysesAdvance
BY EmptySeq DEF Init, FreshInv, AnalysesAdvance

LEMMA FreshNext ==
  ASSUME OneAnalyzer, AnalysisInv, AnalysisInv', FreshInv, AnalysesAdvance, [Next]_analysis
  PROVE  FreshInv' /\ AnalysesAdvance'
<1> DEFINE table == post_trade_analyses
           L == Len(table)
<1>1. TypeOK /\ TypeOK' /\ SoundInv
  BY DEF AnalysisInv
<1>2. /\ L \in Nat /\ DOMAIN table = 1 .. L /\ today \in Nat
      /\ \A i \in DOMAIN table : /\ table[i] \in Row /\ table[i].events \in Nat
                                 /\ table[i].day \in Nat
      /\ \A a \in Analyzers : job[a].events \in Nat
  <2>1. \A r \in Row : r.events \in Nat /\ r.day \in Nat
    BY PostTradeAssumption DEF Row, Days
  <2>2. \A j \in Job : j.events \in Nat
    BY DEF Job
  <2> QED
    BY <1>1, <2>1, <2>2, AnalysisRows, PostTradeAssumption DEF TypeOK, Days
<1>3. ASSUME NEW a \in Analyzers, NEW t \in Tickets, ReadEvents(a, t)
      PROVE  FreshInv' /\ AnalysesAdvance'
  <2>1. /\ pc' = [pc EXCEPT ![a] = "insert"] /\ table' = table /\ today' = today
        /\ job' = [job EXCEPT ![a] = [ticket |-> t,
                     pnl |-> Total(realized_pnl_events, EventsOf(t)),
                     events |-> Cardinality(EventsOf(t))]]
    BY <1>3 DEF ReadEvents, Take, Goto, tables
  <2>2. job'[a].ticket = t /\ job'[a].events = Cardinality(EventsOf(t))
    BY <1>1, <2>1 DEF TypeOK
  <2>3. \A b \in Analyzers : b = a
    BY DEF OneAnalyzer
  <2>4. \A i \in DOMAIN table : table[i].events <= Cardinality(EventsOf(table[i].ticket))
    BY <1>1 DEF SoundInv, Sound
  <2>5. FreshInv'
    BY <2>1, <2>2, <2>3, <2>4 DEF FreshInv
  <2> QED
    BY <2>1, <2>5 DEF AnalysesAdvance
<1>4. ASSUME NEW a \in Analyzers, Insert(a) PROVE FreshInv' /\ AnalysesAdvance'
  <2> DEFINE row == RowOf(job[a], today)
  <2>1. /\ pc[a] = "insert" /\ table' = Append(table, row) /\ today' = today
        /\ pc' = [pc EXCEPT ![a] = "idle"]
    BY <1>4 DEF Insert, Goto
  <2>2. row \in Row /\ row.ticket = job[a].ticket /\ row.events = job[a].events /\ row.day = today
    BY <1>1, <2>1, RowType DEF RowOf
  <2> HIDE DEF row
  <2>3. /\ DOMAIN table' = 1 .. L + 1
        /\ \A i \in 1 .. L : table'[i] = table[i]
        /\ table'[L + 1] = row
    BY <1>1, <2>1, <2>2, AppendProperties, LenProperties DEF TypeOK
  <2>4. \A b \in Analyzers : pc'[b] # "insert"
    BY <1>1, <2>1 DEF TypeOK, OneAnalyzer
  <2>5. ASSUME NEW i \in DOMAIN table PROVE table[i].day <= today
    BY DEF FreshInv
  <2>6. ASSUME NEW i \in DOMAIN table, table[i].ticket = row.ticket
        PROVE  table[i].events <= row.events
    BY <2>1, <2>2, <2>6 DEF FreshInv
  <2>7. FreshInv'
    BY <1>2, <2>1, <2>2, <2>3, <2>4, <2>5 DEF FreshInv
  <2>8. ASSUME NEW i \in 1 .. L + 1, NEW j \in 1 .. L + 1, i < j,
               table'[i].ticket = table'[j].ticket
        PROVE  table'[i].events <= table'[j].events /\ table'[i].day <= table'[j].day
    <3>1. i \in 1 .. L
      BY <1>2, <2>8
    <3>2. CASE j = L + 1
      BY <1>2, <2>2, <2>3, <2>5, <2>6, <2>8, <3>1, <3>2
    <3>3. CASE j \in 1 .. L
      BY <1>2, <2>3, <2>8, <3>1, <3>3 DEF AnalysesAdvance
    <3> QED
      BY <1>2, <3>2, <3>3
  <2> QED
    BY <2>3, <2>7, <2>8 DEF AnalysesAdvance
<1>5. ASSUME NEW a \in Analyzers, Crash(a) PROVE FreshInv' /\ AnalysesAdvance'
  <2>1. pc' = [pc EXCEPT ![a] = "idle"] /\ table' = table /\ today' = today
    BY <1>5 DEF Crash, Goto, tables
  <2>2. \A b \in Analyzers : pc'[b] # "insert"
    BY <1>1, <2>1 DEF TypeOK, OneAnalyzer
  <2> QED
    BY <2>1, <2>2 DEF FreshInv, AnalysesAdvance
<1>6. ASSUME NEW t \in Tickets, Realize(t) PROVE FreshInv' /\ AnalysesAdvance'
  BY <1>6 DEF Realize, FreshInv, AnalysesAdvance
<1>7. ASSUME Midnight PROVE FreshInv' /\ AnalysesAdvance'
  <2>1. UNCHANGED <<table, pc, job>> /\ today' = today + 1
    BY <1>7 DEF Midnight
  <2>2. \A i \in DOMAIN table : table[i].day <= today'
    BY <1>2, <2>1 DEF FreshInv
  <2> QED
    BY <2>1, <2>2 DEF FreshInv, AnalysesAdvance
<1>8. ASSUME UNCHANGED analysis PROVE FreshInv' /\ AnalysesAdvance'
  BY <1>8 DEF analysis, FreshInv, AnalysesAdvance
<1> QED
  BY <1>3, <1>4, <1>5, <1>6, <1>7, <1>8 DEF Next

\* With one analysis at a time, a later analysis of a ticket knows every event that an
\* earlier one knew, so that the latest row is the one to go by.
THEOREM LatestKnowsMost ==
  ASSUME OneAnalyzer
  PROVE  Spec => []AnalysesAdvance
<1>1. AnalysisInv /\ AnalysisInv' /\ FreshInv /\ AnalysesAdvance /\ [Next]_analysis
        => FreshInv' /\ AnalysesAdvance'
  BY OneAnalyzer, FreshNext
<1> QED
  BY <1>1, FreshInit, AnalysisInvariance, PTL DEF Spec

-----------------------------------------------------------------------------
(* Texts of the file of lessons, whatever their tokens are. *)

At(text, token) == {i \in 1 .. Len(text) : text[i] = token}

\* There is at most one end marker, and every start marker is before it.
Ordered(text) ==
  /\ \A i, j \in At(text, End) : i = j
  /\ \A j \in At(text, End) : At(text, Start) # {} /\ \A i \in At(text, Start) : i < j

\* What an export does to a text that a death has left: the first one makes sure of the
\* end marker, the second one of the start marker.
Healed(text, exports) ==
  /\ Ordered(text)
  /\ exports >= 1 => (At(text, Start) # {} => At(text, End) # {})
  /\ exports >= 2 => \A i, k \in At(text, Start) : i = k

\* The notes are not inside of the block.
Placed(text, some) ==
  \A n \in some : \A p \in At(text, Note(n)) :
    (\A i \in At(text, Start) : p < i) \/ (\E j \in At(text, End) : j < p)

\* What may remain of a piece of text that was cut.
Scraps == {Scrap, Broken}

LEMMA Kinds ==
  /\ Start # End
  /\ \A x \in Scraps : x # Start /\ x # End /\ x.kind \in {"scrap", "broken"}
  /\ \A n : Note(n) # Start /\ Note(n) # End /\ Note(n) \notin Scraps
  /\ \A n, m : Note(n) = Note(m) => n = m
  /\ \A g : Body(g) # Start /\ Body(g) # End /\ Body(g) \notin Scraps
  /\ \A g : Body(g).kind = "body" /\ Body(g).groups = g
  /\ \A g, n : Body(g) # Note(n)
  /\ \A n : Note(n).kind = "note"
  /\ Start.kind = "start" /\ End.kind = "end"
<1>1. /\ Start.kind = "start" /\ End.kind = "end"
      /\ \A x \in Scraps : x.kind \in {"scrap", "broken"}
      /\ \A n : Note(n).kind = "note" /\ Note(n).note = n
      /\ \A g : Body(g).kind = "body" /\ Body(g).groups = g
  BY DEF Start, End, Scraps, Scrap, Broken, Note, Body
<1> QED
  BY <1>1

LEMMA ContainsAt == \A text, token : Contains(text, token) <=> At(text, token) # {}
BY DEF Contains, At

\* The first place of a token.
LEMMA FirstIs ==
  ASSUME NEW T, NEW text \in Seq(T), NEW token, Contains(text, token)
  PROVE  /\ First(text, token) \in 1 .. Len(text)
         /\ text[First(text, token)] = token
         /\ \A k \in At(text, token) : First(text, token) <= k
<1>1. Len(text) \in Nat /\ DOMAIN text = 1 .. Len(text)
  BY LenProperties
<1>2. At(text, token) \in SUBSET Nat /\ At(text, token) # {}
  BY <1>1, ContainsAt DEF At
<1>3. PICK m \in At(text, token) : \A x \in At(text, token) : m <= x
  BY <1>2, LeastExists
<1>4. /\ m \in DOMAIN text /\ text[m] = token
      /\ \A k \in 1 .. (m - 1) : text[k] # token
  BY <1>1, <1>3 DEF At
<1>5. /\ First(text, token) \in DOMAIN text
      /\ text[First(text, token)] = token
      /\ \A k \in 1 .. (First(text, token) - 1) : text[k] # token
  BY <1>4 DEF First
<1> QED
  BY <1>1, <1>5 DEF At

\* What is put together from the first `pre` tokens of a text, a block and what comes
\* after its first `post` tokens.
Splits(text, merged, pre, post, g) ==
  /\ pre \in 0 .. Len(text) /\ post \in 0 .. Len(text)
  /\ Len(merged) = pre + 3 + Len(text) - post
  /\ \A k \in 1 .. pre : merged[k] = text[k]
  /\ merged[pre + 1] = Start /\ merged[pre + 2] = Body(g) /\ merged[pre + 3] = End
  /\ \A k \in pre + 4 .. Len(merged) : merged[k] = text[k + post - pre - 3]

LEMMA JoinSplits ==
  ASSUME NEW T, NEW text \in Seq(T), NEW g, Block(g) \in Seq(T),
         NEW pre \in 0 .. Len(text), NEW post \in 0 .. Len(text)
  PROVE  LET merged == SubSeq(text, 1, pre) \o Block(g) \o SubSeq(text, post + 1, Len(text)) IN
         merged \in Seq(T) /\ Splits(text, merged, pre, post, g)
<1> DEFINE head == SubSeq(text, 1, pre)
           tail == SubSeq(text, post + 1, Len(text))
           front == head \o Block(g)
           merged == front \o tail
<1>1. Len(text) \in Nat /\ \A i \in 1 .. Len(text) : text[i] \in T
  BY LenProperties, ElementOfSeq
<1>2. /\ head \in Seq(T) /\ Len(head) = pre
      /\ \A k \in 1 .. pre : head[k] = text[k]
  BY <1>1, SubSeqProperties
<1>3. /\ tail \in Seq(T) /\ Len(tail) = Len(text) - post
      /\ \A k \in 1 .. Len(text) - post : tail[k] = text[post + k]
  BY <1>1, SubSeqProperties
<1>4. /\ Len(Block(g)) = 3
      /\ Block(g)[1] = Start /\ Block(g)[2] = Body(g) /\ Block(g)[3] = End
  BY DEF Block
<1> HIDE DEF head, tail
<1>5. /\ front \in Seq(T) /\ Len(front) = pre + 3
      /\ \A k \in 1 .. pre : front[k] = text[k]
      /\ front[pre + 1] = Start /\ front[pre + 2] = Body(g) /\ front[pre + 3] = End
  <2>1. /\ front \in Seq(T) /\ Len(front) = pre + 3
        /\ \A i \in 1 .. pre + 3 :
             front[i] = IF i <= pre THEN head[i] ELSE Block(g)[i - pre]
    <3>1. /\ front \in Seq(T) /\ Len(front) = Len(head) + Len(Block(g))
          /\ \A i \in 1 .. Len(head) + Len(Block(g)) :
               front[i] = IF i <= Len(head) THEN head[i] ELSE Block(g)[i - Len(head)]
      BY <1>2, ConcatProperties
    <3> QED
      BY <1>2, <1>4, <3>1
  <2>2. /\ pre + 1 \in 1 .. pre + 3 /\ pre + 2 \in 1 .. pre + 3 /\ pre + 3 \in 1 .. pre + 3
        /\ (pre + 1) - pre = 1 /\ (pre + 2) - pre = 2 /\ (pre + 3) - pre = 3
    OBVIOUS
  <2>3. ASSUME NEW k \in 1 .. pre PROVE front[k] = text[k]
    BY <1>2, <2>1
  <2>4. /\ front[pre + 1] = Block(g)[1] /\ front[pre + 2] = Block(g)[2]
        /\ front[pre + 3] = Block(g)[3]
    <3> HIDE DEF front
    <3> QED
      BY <2>1, <2>2
  <2> QED
    BY <1>4, <2>1, <2>3, <2>4
<1> HIDE DEF front
<1>6. /\ merged \in Seq(T) /\ Len(merged) = pre + 3 + Len(text) - post
      /\ \A i \in 1 .. Len(merged) :
           merged[i] = IF i <= pre + 3 THEN front[i] ELSE tail[i - (pre + 3)]
  <2>1. /\ merged \in Seq(T) /\ Len(merged) = Len(front) + Len(tail)
        /\ \A i \in 1 .. Len(front) + Len(tail) :
             merged[i] = IF i <= Len(front) THEN front[i] ELSE tail[i - Len(front)]
    BY <1>3, <1>5, ConcatProperties
  <2>2. Len(front) + Len(tail) = pre + 3 + Len(text) - post
    BY <1>1, <1>3, <1>5
  <2> HIDE DEF merged
  <2> QED
    BY <1>5, <2>1, <2>2
<1>7. ASSUME NEW k \in pre + 4 .. Len(merged)
      PROVE  merged[k] = text[k + post - pre - 3]
  <2>1. k \in 1 .. Len(merged) /\ ~(k <= pre + 3)
        /\ k - (pre + 3) \in 1 .. Len(text) - post
    BY <1>1, <1>6
  <2>2. merged[k] = tail[k - (pre + 3)] /\ post + (k - (pre + 3)) = k + post - pre - 3
    BY <1>1, <1>6, <2>1
  <2> QED
    BY <1>3, <2>1, <2>2
<1>8. ASSUME NEW k \in 1 .. pre + 3 PROVE merged[k] = front[k]
  <2>1. pre + 3 <= pre + 3 + Len(text) - post
    BY <1>1
  <2>2. k \in 1 .. Len(merged) /\ k <= pre + 3
    BY <1>1, <1>6, <2>1
  <2> HIDE DEF merged
  <2> QED
    BY <1>6, <2>2
<1>9. pre + 1 \in 1 .. pre + 3 /\ pre + 2 \in 1 .. pre + 3 /\ pre + 3 \in 1 .. pre + 3
      /\ 1 .. pre \subseteq 1 .. pre + 3
  OBVIOUS
<1> HIDE DEF merged
<1>10. merged \in Seq(T) /\ Splits(text, merged, pre, post, g)
  BY <1>5, <1>6, <1>7, <1>8, <1>9 DEF Splits
<1> QED
  BY <1>10 DEF merged, front, head, tail

\* A text in which no end marker is without a start marker is split at its markers, or
\* it has no end marker and the block comes after it.
LEMMA MergeSplits ==
  ASSUME NEW T, NEW text \in Seq(T), NEW g, Block(g) \in Seq(T), Ordered(text)
  PROVE  LET merged == Merge(text, g) IN
         /\ merged \in Seq(T)
         /\ \E pre, post \in 0 .. Len(text) :
              /\ pre <= post /\ Splits(text, merged, pre, post, g)
              /\ \/ /\ At(text, End) = {} /\ pre = Len(text)
                 \/ /\ At(text, End) = {post} /\ pre + 1 \in At(text, Start)
                    /\ \A k \in At(text, Start) : pre + 1 <= k
<1>1. Len(text) \in Nat /\ \A i \in 1 .. Len(text) : text[i] \in T
  BY LenProperties, ElementOfSeq
<1>2. CASE Contains(text, Start) /\ Contains(text, End)
  <2> DEFINE pre == First(text, Start) - 1
             post == First(text, End)
  <2>1. /\ First(text, Start) \in 1 .. Len(text) /\ text[First(text, Start)] = Start
        /\ \A k \in At(text, Start) : First(text, Start) <= k
    BY <1>2, FirstIs
  <2>2. post \in 1 .. Len(text) /\ text[post] = End
    BY <1>2, FirstIs
  <2>3. post \in At(text, End) /\ First(text, Start) \in At(text, Start)
    BY <2>1, <2>2 DEF At
  <2>4. At(text, End) = {post} /\ First(text, Start) < post
    BY <2>3 DEF Ordered
  <2>5. /\ pre \in 0 .. Len(text) /\ post \in 0 .. Len(text) /\ pre <= post
        /\ pre + 1 = First(text, Start)
    BY <1>1, <2>1, <2>2, <2>4
  <2>6. Merge(text, g) = SubSeq(text, 1, pre) \o Block(g) \o SubSeq(text, post + 1, Len(text))
    BY <1>2 DEF Merge
  <2> HIDE DEF pre, post
  <2>7. Merge(text, g) \in Seq(T) /\ Splits(text, Merge(text, g), pre, post, g)
    BY <2>5, <2>6, JoinSplits
  <2> QED
    BY <2>1, <2>3, <2>4, <2>5, <2>7
<1>3. CASE ~(Contains(text, Start) /\ Contains(text, End))
  <2> DEFINE n == Len(text)
  <2>1. At(text, End) = {}
    BY <1>3, ContainsAt DEF Ordered
  <2>2. n \in 0 .. n /\ n <= n
    BY <1>1
  <2>3. Merge(text, g) = text \o Block(g)
    BY <1>3 DEF Merge
  <2>4. SubSeq(text, 1, n) = text /\ SubSeq(text, n + 1, n) = <<>>
    <3>1. n + 1 \in Int /\ n \in Int /\ n < n + 1
      BY <1>1
    <3> QED
      BY <3>1, SubSeqFull, SubSeqEmpty
  <2>5. /\ text \o Block(g) \in Seq(T)
    BY ConcatProperties
  <2>6. Merge(text, g) = SubSeq(text, 1, n) \o Block(g) \o SubSeq(text, n + 1, n)
    BY <2>3, <2>4, <2>5, ConcatEmptySeq
  <2>7. Merge(text, g) \in Seq(T) /\ Splits(text, Merge(text, g), n, n, g)
    BY <2>2, <2>6, JoinSplits
  <2> QED
    BY <2>1, <2>2, <2>7
<1> QED
  BY <1>2, <1>3

\* Where the markers and the notes of the merged text are.
LEMMA MergePlaces ==
  ASSUME NEW T, NEW text \in Seq(T), NEW g, Block(g) \in Seq(T), Ordered(text)
  PROVE  LET merged == Merge(text, g) IN
         \E pre, post \in 0 .. Len(text) :
           /\ pre <= post
           /\ At(merged, End) = {pre + 3}
           /\ pre + 1 \in At(merged, Start)
           /\ \A k \in At(merged, Start) : k <= pre + 1
           /\ \A k \in At(merged, Start) : k # pre + 1 => k \in At(text, Start)
           /\ At(text, End) # {} => /\ At(merged, Start) = {pre + 1}
                                    /\ At(text, End) = {post} /\ pre + 1 \in At(text, Start)
           /\ At(text, End) = {} => pre = Len(text)
           /\ \A k \in 1 .. pre : k \in 1 .. Len(merged) /\ merged[k] = text[k]
           /\ \A k \in post + 1 .. Len(text) :
                k + 3 + pre - post \in 1 .. Len(merged) /\ merged[k + 3 + pre - post] = text[k]
           /\ \A k \in 1 .. Len(merged) :
                \/ k <= pre /\ k \in 1 .. Len(text) /\ text[k] = merged[k]
                \/ merged[k] \in {Start, Body(g), End}
                \/ k > pre + 3
           /\ merged[pre + 2] = Body(g) /\ pre + 2 \in 1 .. Len(merged)
<1> DEFINE merged == Merge(text, g)
<1>1. Len(text) \in Nat
  BY LenProperties
<1>2. /\ merged \in Seq(T)
      /\ \E pre, post \in 0 .. Len(text) :
           /\ pre <= post /\ Splits(text, merged, pre, post, g)
           /\ \/ /\ At(text, End) = {} /\ pre = Len(text)
              \/ /\ At(text, End) = {post} /\ pre + 1 \in At(text, Start)
                 /\ \A k \in At(text, Start) : pre + 1 <= k
  BY MergeSplits
<1> HIDE DEF merged
<1>3. PICK pre \in 0 .. Len(text), post \in 0 .. Len(text) :
        /\ pre <= post /\ Splits(text, merged, pre, post, g)
        /\ \/ /\ At(text, End) = {} /\ pre = Len(text)
           \/ /\ At(text, End) = {post} /\ pre + 1 \in At(text, Start)
              /\ \A k \in At(text, Start) : pre + 1 <= k
  BY <1>2
<1>4. /\ post \in pre .. Len(text) /\ pre <= post
      /\ Len(merged) = pre + 3 + Len(text) - post
      /\ \A k \in 1 .. pre : merged[k] = text[k]
      /\ merged[pre + 1] = Start /\ merged[pre + 2] = Body(g) /\ merged[pre + 3] = End
      /\ \A k \in pre + 4 .. Len(merged) : merged[k] = text[k + post - pre - 3]
  <2>1. pre <= post /\ Splits(text, merged, pre, post, g)
    BY <1>3
  <2> QED
    BY <1>1, <2>1 DEF Splits
<1> DEFINE m == Len(merged)
           n == Len(text)
<1>4a. m \in Nat /\ n \in Nat /\ m = pre + 3 + n - post /\ pre <= post /\ post <= n
  BY <1>1, <1>4
<1>5. ASSUME NEW j \in At(text, End) PROVE j > pre /\ j <= post
  <2>1. At(text, End) = {post} /\ pre + 1 \in At(text, Start)
    BY <1>3
  <2>2. pre + 1 < post
    BY <2>1 DEF Ordered
  <2> QED
    BY <2>1, <2>2
<1>6. \A i \in At(text, Start) : i <= post
  BY <1>1, <1>3, <1>4 DEF Ordered, At
<1>7. ASSUME NEW k \in 1 .. Len(merged)
      PROVE  \/ k \in 1 .. pre /\ k \in 1 .. Len(text) /\ text[k] = merged[k]
             \/ k = pre + 1 /\ merged[k] = Start
             \/ k = pre + 2 /\ merged[k] = Body(g)
             \/ k = pre + 3 /\ merged[k] = End
             \/ /\ k \in pre + 4 .. Len(merged)
                /\ k + post - pre - 3 \in 1 .. Len(text) /\ k + post - pre - 3 > post
                /\ merged[k] = text[k + post - pre - 3]
  <2>1. \/ k \in 1 .. pre \/ k = pre + 1 \/ k = pre + 2 \/ k = pre + 3
        \/ k \in pre + 4 .. Len(merged)
    <3>1. k \in 1 .. m
      OBVIOUS
    <3>2. \/ k \in 1 .. pre \/ k = pre + 1 \/ k = pre + 2 \/ k = pre + 3 \/ k \in pre + 4 .. m
      <4> HIDE DEF m
      <4> QED
        BY <1>4a, <3>1
    <3> QED
      BY <3>2
  <2>2. CASE k \in pre + 4 .. Len(merged)
    <3>1. k \in pre + 4 .. m
      BY <2>2
    <3>2. k + post - pre - 3 \in 1 .. n /\ k + post - pre - 3 > post
      <4> HIDE DEF m, n
      <4> QED
        BY <1>4a, <3>1
    <3>3. merged[k] = text[k + post - pre - 3]
      BY <1>4, <2>2
    <3> QED
      BY <2>2, <3>2, <3>3
  <2>3. CASE k \in 1 .. pre
    BY <1>1, <1>4, <2>3
  <2> QED
    BY <1>4, <2>1, <2>2, <2>3
<1>8. /\ pre + 1 \in 1 .. Len(merged) /\ pre + 2 \in 1 .. Len(merged)
      /\ pre + 3 \in 1 .. Len(merged)
  BY <1>1, <1>4
<1>9. At(merged, End) = {pre + 3}
  <2>1. pre + 3 \in At(merged, End)
    BY <1>4, <1>8 DEF At
  <2>2. ASSUME NEW k \in At(merged, End) PROVE k = pre + 3
    <3>1. k \in 1 .. Len(merged) /\ merged[k] = End
      BY DEF At
    <3>2. CASE k \in 1 .. pre /\ k \in 1 .. Len(text) /\ text[k] = merged[k]
      BY <1>5, <3>1, <3>2 DEF At
    <3>3. CASE /\ k + post - pre - 3 \in 1 .. Len(text) /\ k + post - pre - 3 > post
               /\ merged[k] = text[k + post - pre - 3]
      <4>1. k + post - pre - 3 \in At(text, End)
        BY <3>1, <3>3 DEF At
      <4> QED
        BY <1>5, <3>3, <4>1
    <3> QED
      BY <1>7, <3>1, <3>2, <3>3, Kinds
  <2> QED
    BY <2>1, <2>2
<1>10. ASSUME NEW k \in At(merged, Start)
       PROVE  k <= pre + 1 /\ (k # pre + 1 => k \in At(text, Start) /\ k <= pre)
  <2>1. k \in 1 .. Len(merged) /\ merged[k] = Start
    BY DEF At
  <2>2. CASE k \in 1 .. pre /\ k \in 1 .. Len(text) /\ text[k] = merged[k]
    BY <2>1, <2>2 DEF At
  <2>3. CASE /\ k + post - pre - 3 \in 1 .. Len(text) /\ k + post - pre - 3 > post
             /\ merged[k] = text[k + post - pre - 3]
    <3>1. k + post - pre - 3 \in At(text, Start)
      BY <2>1, <2>3 DEF At
    <3> QED
      BY <1>6, <2>3, <3>1
  <2> QED
    BY <1>7, <2>1, <2>2, <2>3, Kinds
<1>11. pre + 1 \in At(merged, Start)
  BY <1>4, <1>8 DEF At
<1>12. At(text, End) # {} =>
         /\ At(text, End) = {post} /\ pre + 1 \in At(text, Start)
         /\ At(merged, Start) = {pre + 1}
  <2> SUFFICES ASSUME At(text, End) # {}
               PROVE  /\ At(text, End) = {post} /\ pre + 1 \in At(text, Start)
                      /\ At(merged, Start) = {pre + 1}
    OBVIOUS
  <2>1. \A k \in At(text, Start) : pre + 1 <= k
    BY <1>3
  <2>2. ASSUME NEW k \in At(merged, Start) PROVE k = pre + 1
    <3>1. k # pre + 1 => k \in At(text, Start) /\ k <= pre
      BY <1>10
    <3>2. k \in Int /\ pre \in Int
      BY DEF At
    <3> HIDE DEF merged
    <3>3. k # pre + 1 => pre + 1 <= k
      BY <2>1, <3>1
    <3> QED
      BY <3>1, <3>2, <3>3
  <2> QED
    BY <1>3, <1>11, <2>2
<1>13. ASSUME NEW k \in post + 1 .. Len(text)
       PROVE  k + 3 + pre - post \in 1 .. Len(merged) /\ merged[k + 3 + pre - post] = text[k]
  <2>1. /\ k + 3 + pre - post \in pre + 4 .. Len(merged)
        /\ k + 3 + pre - post \in 1 .. Len(merged)
        /\ (k + 3 + pre - post) + post - pre - 3 = k
    <3>1. k \in post + 1 .. n
      OBVIOUS
    <3>2. k + 3 + pre - post \in pre + 4 .. m /\ k + 3 + pre - post \in 1 .. m
      <4> HIDE DEF m, n
      <4> QED
        BY <1>4a, <3>1
    <3> QED
      BY <1>1, <3>2
  <2>2. \A i \in pre + 4 .. Len(merged) : merged[i] = text[i + post - pre - 3]
    BY <1>4
  <2> QED
    BY <2>1, <2>2
<1>14. \A k \in 1 .. Len(merged) :
         \/ k <= pre /\ k \in 1 .. Len(text) /\ text[k] = merged[k]
         \/ merged[k] \in {Start, Body(g), End}
         \/ k > pre + 3
  BY <1>7
<1>15. \A k \in 1 .. pre : k \in 1 .. Len(merged) /\ merged[k] = text[k]
  BY <1>1, <1>4
<1>16. At(text, End) = {} => pre = Len(text)
  BY <1>3
<1>17. \E x, y \in 0 .. Len(text) :
           /\ x <= y
           /\ At(merged, End) = {x + 3}
           /\ x + 1 \in At(merged, Start)
           /\ \A k \in At(merged, Start) : k <= x + 1
           /\ \A k \in At(merged, Start) : k # x + 1 => k \in At(text, Start)
           /\ At(text, End) # {} => /\ At(merged, Start) = {x + 1}
                                    /\ At(text, End) = {y} /\ x + 1 \in At(text, Start)
           /\ At(text, End) = {} => x = Len(text)
           /\ \A k \in 1 .. x : k \in 1 .. Len(merged) /\ merged[k] = text[k]
           /\ \A k \in y + 1 .. Len(text) :
                k + 3 + x - y \in 1 .. Len(merged) /\ merged[k + 3 + x - y] = text[k]
           /\ \A k \in 1 .. Len(merged) :
                \/ k <= x /\ k \in 1 .. Len(text) /\ text[k] = merged[k]
                \/ merged[k] \in {Start, Body(g), End}
                \/ k > x + 3
           /\ merged[x + 2] = Body(g) /\ x + 2 \in 1 .. Len(merged)
  <2> WITNESS pre \in 0 .. Len(text), post \in 0 .. Len(text)
  <2> QED
    BY <1>4, <1>8, <1>9, <1>10, <1>11, <1>12, <1>13, <1>14, <1>15, <1>16
<1> QED
  BY <1>17 DEF merged

\* An export brings a text on its way to being whole.
LEMMA MergeHeals ==
  ASSUME NEW T, NEW text \in Seq(T), NEW g, Block(g) \in Seq(T),
         NEW exports \in 0 .. 2, Healed(text, exports)
  PROVE  Healed(Merge(text, g), Min({exports + 1, 2}))
<1> DEFINE merged == Merge(text, g)
<1>1. Ordered(text)
  BY DEF Healed
<1>2. Len(text) \in Nat
  BY LenProperties
<1>3. PICK pre \in 0 .. Len(text), post \in 0 .. Len(text) :
        /\ At(merged, End) = {pre + 3}
        /\ pre + 1 \in At(merged, Start)
        /\ \A k \in At(merged, Start) : k <= pre + 1
        /\ \A k \in At(merged, Start) : k # pre + 1 => k \in At(text, Start)
        /\ At(text, End) # {} => At(merged, Start) = {pre + 1}
  BY <1>1, MergePlaces
<1> HIDE DEF merged
<1>4. Ordered(merged)
  <2>1. \A i \in At(merged, Start) : i \in Int /\ i <= pre + 1
    BY <1>3 DEF At
  <2> QED
    BY <1>2, <1>3, <2>1 DEF Ordered
<1>5. At(merged, End) # {}
  BY <1>3
<1>6. ASSUME exports >= 1, NEW i \in At(merged, Start), NEW k \in At(merged, Start)
      PROVE  i = k
  <2>1. CASE At(text, End) # {}
    BY <1>3, <2>1
  <2>2. CASE At(text, End) = {}
    <3>1. At(text, Start) = {}
      BY <1>6, <2>2 DEF Healed
    <3> QED
      BY <1>3, <3>1
  <2> QED
    BY <2>1, <2>2
<1>7. Min({exports + 1, 2}) \in {1, 2} /\ (Min({exports + 1, 2}) = 2 => exports >= 1)
  <2>1. exports \in {0, 1, 2}
    OBVIOUS
  <2>2. \E x \in {exports + 1, 2} : \A y \in {exports + 1, 2} : x <= y
    BY <2>1
  <2>3. /\ Min({exports + 1, 2}) \in {exports + 1, 2}
        /\ \A y \in {exports + 1, 2} : Min({exports + 1, 2}) <= y
    BY <2>2 DEF Min
  <2> QED
    BY <2>1, <2>3
<1>8. Healed(merged, Min({exports + 1, 2}))
  BY <1>4, <1>5, <1>6, <1>7 DEF Healed
<1> QED
  BY <1>8 DEF merged

\* It takes no note that is not inside of the block, and puts none there.
LEMMA MergePlaced ==
  ASSUME NEW T, NEW text \in Seq(T), NEW g, Block(g) \in Seq(T), Ordered(text),
         NEW some \in SUBSET Notes, Placed(text, some)
  PROVE  /\ Placed(Merge(text, g), some)
         /\ some \cap NotesIn(text) \subseteq NotesIn(Merge(text, g))
<1> DEFINE merged == Merge(text, g)
<1>1. Len(text) \in Nat
  BY LenProperties
<1>2. PICK pre \in 0 .. Len(text), post \in 0 .. Len(text) :
        /\ pre <= post
        /\ At(merged, End) = {pre + 3}
        /\ \A k \in At(merged, Start) : k <= pre + 1
        /\ \A k \in At(merged, Start) : k # pre + 1 => k \in At(text, Start)
        /\ At(text, End) # {} => At(text, End) = {post} /\ pre + 1 \in At(text, Start)
        /\ At(text, End) = {} => pre = Len(text)
        /\ \A k \in 1 .. pre : k \in 1 .. Len(merged) /\ merged[k] = text[k]
        /\ \A k \in post + 1 .. Len(text) :
             k + 3 + pre - post \in 1 .. Len(merged) /\ merged[k + 3 + pre - post] = text[k]
        /\ \A k \in 1 .. Len(merged) :
             \/ k <= pre /\ k \in 1 .. Len(text) /\ text[k] = merged[k]
             \/ merged[k] \in {Start, Body(g), End}
             \/ k > pre + 3
  BY MergePlaces
<1> HIDE DEF merged
<1>3. ASSUME NEW n \in some, NEW p \in At(merged, Note(n))
      PROVE  (\A i \in At(merged, Start) : p < i) \/ (\E j \in At(merged, End) : j < p)
  <2>1. p \in 1 .. Len(merged) /\ merged[p] = Note(n)
    BY DEF At
  <2>2. CASE p > pre + 3
    BY <1>2, <2>2
  <2>3. CASE p <= pre /\ p \in 1 .. Len(text) /\ text[p] = Note(n)
    <3>1. p \in At(text, Note(n))
      BY <2>3 DEF At
    <3>2. CASE \A i \in At(text, Start) : p < i
      BY <1>2, <2>1, <2>3, <3>2
    <3>3. CASE \E j \in At(text, End) : j < p
      BY <1>2, <2>3, <3>3 DEF Ordered
    <3> QED
      BY <3>1, <3>2, <3>3 DEF Placed
  <2>4. merged[p] \notin {Start, Body(g), End}
    BY <2>1, Kinds
  <2> QED
    BY <1>2, <2>1, <2>2, <2>3, <2>4
<1>4. ASSUME NEW n \in some, n \in NotesIn(text) PROVE n \in NotesIn(merged)
  <2>1. PICK p \in At(text, Note(n)) : TRUE
    BY <1>4, ContainsAt DEF NotesIn
  <2>2. p \in 1 .. Len(text) /\ text[p] = Note(n)
    BY <2>1 DEF At
  <2>3. p \in 1 .. pre \/ p \in post + 1 .. Len(text)
    <3>1. CASE At(text, End) = {}
      BY <1>1, <1>2, <2>2, <3>1
    <3>2. CASE At(text, End) # {}
      <4>1. pre + 1 \in At(text, Start) /\ At(text, End) = {post}
        BY <1>2, <3>2
      <4>2. p < pre + 1 \/ post < p
        BY <2>1, <4>1 DEF Placed
      <4> QED
        BY <1>1, <2>2, <4>2
    <3> QED
      BY <3>1, <3>2
  <2>4. At(merged, Note(n)) # {}
    BY <1>2, <2>2, <2>3 DEF At
  <2> QED
    BY <2>4, ContainsAt DEF NotesIn
<1> QED
  BY <1>3, <1>4 DEF Placed, merged

\* What it has to say is in the text, whatever was there.
LEMMA MergeHasBody ==
  ASSUME NEW T, NEW text \in Seq(T), NEW g, Block(g) \in Seq(T)
  PROVE  Merge(text, g) \in Seq(T) /\ g \in Bodies(Merge(text, g))
<1> DEFINE merged == Merge(text, g)
<1>1. Len(text) \in Nat
  BY LenProperties
<1>2. \E pre, post \in 0 .. Len(text) :
        merged = SubSeq(text, 1, pre) \o Block(g) \o SubSeq(text, post + 1, Len(text))
  <2>1. CASE Contains(text, Start) /\ Contains(text, End)
    <3> DEFINE pre == First(text, Start) - 1
               post == First(text, End)
    <3>1. First(text, Start) \in 1 .. Len(text) /\ post \in 1 .. Len(text)
      BY <2>1, FirstIs
    <3>2. pre \in 0 .. Len(text) /\ post \in 0 .. Len(text)
      BY <1>1, <3>1
    <3>3. merged = SubSeq(text, 1, pre) \o Block(g) \o SubSeq(text, post + 1, Len(text))
      BY <2>1 DEF Merge
    <3> QED
      BY <3>2, <3>3
  <2>2. CASE ~(Contains(text, Start) /\ Contains(text, End))
    <3> DEFINE n == Len(text)
    <3>1. merged = text \o Block(g)
      BY <2>2 DEF Merge
    <3>2. SubSeq(text, 1, n) = text /\ SubSeq(text, n + 1, n) = <<>>
      <4>1. n + 1 \in Int /\ n \in Int /\ n < n + 1
        BY <1>1
      <4> QED
        BY <4>1, SubSeqFull, SubSeqEmpty
    <3>3. merged = SubSeq(text, 1, n) \o Block(g) \o SubSeq(text, n + 1, n)
      BY <3>1, <3>2, ConcatProperties, ConcatEmptySeq
    <3>4. n \in 0 .. n
      BY <1>1
    <3> QED
      BY <3>3, <3>4
  <2> QED
    BY <2>1, <2>2
<1>3. PICK pre \in 0 .. Len(text), post \in 0 .. Len(text) :
        merged = SubSeq(text, 1, pre) \o Block(g) \o SubSeq(text, post + 1, Len(text))
  BY <1>2
<1>4. merged \in Seq(T) /\ Splits(text, merged, pre, post, g)
  BY <1>3, JoinSplits
<1>5. merged[pre + 2] = Body(g) /\ Len(merged) = pre + 3 + Len(text) - post
  BY <1>4 DEF Splits
<1>6. pre + 2 \in 1 .. Len(merged)
  BY <1>1, <1>5
<1>7. pre + 2 \in DOMAIN merged
  BY <1>4, <1>6, LenProperties
<1>8. merged[pre + 2].kind = "body" /\ merged[pre + 2].groups = g
  BY <1>5, Kinds
<1> QED
  BY <1>4, <1>7, <1>8 DEF Bodies

\* A death in the middle of a write leaves the order and the places.
LEMMA CutKeeps ==
  ASSUME NEW T, NEW text \in Seq(T), Scraps \subseteq T, NEW rest \in Cut(text), Ordered(text),
         NEW some, Placed(text, some)
  PROVE  rest \in Seq(T) /\ Ordered(rest) /\ Placed(rest, some)
<1>1. Len(text) \in Nat /\ \A i \in 1 .. Len(text) : text[i] \in T
  BY LenProperties, ElementOfSeq
<1>2. PICK c \in 0 .. Len(text) - 1 :
        rest = SubSeq(text, 1, c) \/ \E x \in Scraps : rest = Append(SubSeq(text, 1, c), x)
  BY DEF Cut, Scraps
<1> DEFINE prefix == SubSeq(text, 1, c)
<1>3. /\ prefix \in Seq(T) /\ Len(prefix) = c
      /\ \A k \in 1 .. c : prefix[k] = text[k]
  BY <1>1, SubSeqProperties
<1> HIDE DEF prefix
<1>4. /\ rest \in Seq(T) /\ c <= Len(rest) /\ Len(rest) \in Nat
      /\ \A k \in 1 .. Len(rest) : k <= c \/ rest[k] \in Scraps
      /\ \A k \in 1 .. c : rest[k] = text[k]
  <2>1. CASE rest = prefix
    BY <1>3, <2>1
  <2>2. ASSUME NEW x \in Scraps, rest = Append(prefix, x)
        PROVE  /\ rest \in Seq(T) /\ c <= Len(rest) /\ Len(rest) \in Nat
               /\ \A k \in 1 .. Len(rest) : k <= c \/ rest[k] \in Scraps
               /\ \A k \in 1 .. c : rest[k] = text[k]
    <3>1. /\ rest \in Seq(T) /\ Len(rest) = c + 1
          /\ \A i \in 1 .. c : rest[i] = prefix[i]
          /\ rest[c + 1] \in Scraps
      BY <1>3, <2>2, AppendProperties
    <3>2. c \in Nat /\ \A k \in 1 .. c + 1 : k <= c \/ k = c + 1
      OBVIOUS
    <3> QED
      BY <1>3, <3>1, <3>2
  <2> QED
    BY <1>2, <2>1, <2>2 DEF prefix
<1>5. ASSUME NEW token, token \notin Scraps
      PROVE  At(rest, token) = {k \in At(text, token) : k <= c}
  <2>1. ASSUME NEW k \in At(rest, token) PROVE k \in At(text, token) /\ k <= c
    BY <1>1, <1>4, <1>5 DEF At
  <2>2. ASSUME NEW k \in At(text, token), k <= c PROVE k \in At(rest, token)
    BY <1>1, <1>4, <2>2 DEF At
  <2> QED
    BY <2>1, <2>2
<1>6. /\ At(rest, Start) = {k \in At(text, Start) : k <= c}
      /\ At(rest, End) = {k \in At(text, End) : k <= c}
      /\ \A n : At(rest, Note(n)) = {k \in At(text, Note(n)) : k <= c}
  BY <1>5, Kinds
<1>7. \A token : \A k \in At(text, token) : k \in Int
  BY DEF At
<1>8. Ordered(rest)
  <2>1. ASSUME NEW j \in At(rest, End)
        PROVE  At(rest, Start) # {} /\ \A i \in At(rest, Start) : i < j
    <3>1. j \in At(text, End) /\ j <= c
      BY <1>6
    <3>2. PICK i \in At(text, Start) : i < j
      BY <3>1 DEF Ordered
    <3>3. i <= c
      BY <1>7, <3>1, <3>2
    <3> QED
      BY <1>6, <3>1, <3>2, <3>3 DEF Ordered
  <2> QED
    BY <1>6, <2>1 DEF Ordered
<1>9. Placed(rest, some)
  <2> SUFFICES ASSUME NEW n \in some, NEW p \in At(rest, Note(n))
               PROVE  (\A i \in At(rest, Start) : p < i) \/ (\E j \in At(rest, End) : j < p)
    BY DEF Placed
  <2>1. p \in At(text, Note(n)) /\ p <= c
    BY <1>6
  <2>2. CASE \A i \in At(text, Start) : p < i
    BY <1>6, <2>2
  <2>3. CASE \E j \in At(text, End) : j < p
    <3>1. PICK j \in At(text, End) : j < p
      BY <2>3
    <3>2. j <= c
      BY <1>7, <2>1, <3>1
    <3> QED
      BY <1>6, <3>1, <3>2
  <2> QED
    BY <2>1, <2>2, <2>3 DEF Placed
<1> QED
  BY <1>4, <1>8, <1>9

\* So does the user, whose note is not inside of the block unless this has been cut off.
LEMMA NoteKeeps ==
  ASSUME NEW T, NEW text \in Seq(T), NEW n \in Notes, Note(n) \in T, NEW atTop \in BOOLEAN
  PROVE  LET more == IF atTop THEN <<Note(n)>> \o text ELSE Append(text, Note(n)) IN
         /\ more \in Seq(T)
         /\ NotesIn(text) \cup {n} \subseteq NotesIn(more)
         /\ Bodies(more) = Bodies(text)
         /\ \A exports : Healed(text, exports) => Healed(more, exports)
         /\ \A some : Placed(text, some) =>
              /\ Placed(more, some \ {n})
              /\ atTop \/ ~Contains(text, Start) \/ Contains(text, End) => Placed(more, some)
<1> DEFINE more == IF atTop THEN <<Note(n)>> \o text ELSE Append(text, Note(n))
           L == Len(text)
           d == IF atTop THEN 1 ELSE 0
           new == IF atTop THEN 1 ELSE L + 1
<1>1. L \in Nat /\ DOMAIN text = 1 .. L
  BY LenProperties
<1>2. /\ more \in Seq(T) /\ Len(more) = L + 1 /\ more[new] = Note(n)
      /\ \A k \in 1 .. L : more[k + d] = text[k]
  <2>1. CASE atTop
    <3>1. /\ <<Note(n)>> \in Seq(T) /\ Len(<<Note(n)>>) = 1 /\ <<Note(n)>>[1] = Note(n)
      OBVIOUS
    <3>2. /\ more \in Seq(T) /\ Len(more) = 1 + L
          /\ \A i \in 1 .. 1 + L :
               more[i] = IF i <= 1 THEN <<Note(n)>>[i] ELSE text[i - 1]
      <4>1. /\ <<Note(n)>> \o text \in Seq(T)
            /\ Len(<<Note(n)>> \o text) = Len(<<Note(n)>>) + Len(text)
            /\ \A i \in 1 .. Len(<<Note(n)>>) + Len(text) : (<<Note(n)>> \o text)[i] =
                 IF i <= Len(<<Note(n)>>) THEN <<Note(n)>>[i] ELSE text[i - Len(<<Note(n)>>)]
        BY <3>1, ConcatProperties
      <4> QED
        BY <2>1, <3>1, <4>1
    <3> HIDE DEF more
    <3>3. ASSUME NEW k \in 1 .. L PROVE more[k + 1] = text[k]
      <4>1. k + 1 \in 1 .. 1 + L /\ ~(k + 1 <= 1) /\ (k + 1) - 1 = k
        BY <1>1
      <4> QED
        BY <3>2, <4>1
    <3>4. more[1] = Note(n)
      BY <1>1, <3>1, <3>2
    <3> QED
      BY <1>1, <2>1, <3>2, <3>3, <3>4
  <2>2. CASE ~atTop
    <3>1. /\ more \in Seq(T) /\ Len(more) = L + 1 /\ more[L + 1] = Note(n)
          /\ \A i \in 1 .. L : more[i] = text[i]
      BY <2>2, AppendProperties
    <3> QED
      BY <1>1, <2>2, <3>1
  <2> QED
    BY <2>1, <2>2
<1>3. d \in {0, 1} /\ new \in 1 .. L + 1
  BY <1>1
<1>4. DOMAIN more = 1 .. L + 1
  BY <1>2, LenProperties
<1>5. ASSUME NEW k \in 1 .. L + 1, k # new
      PROVE  k - d \in 1 .. L /\ text[k - d] = more[k]
  <2>1. k - d \in 1 .. L /\ (k - d) + d = k
    BY <1>1, <1>5
  <2> HIDE DEF d, new, more
  <2> QED
    BY <1>2, <2>1
<1>6. ASSUME NEW k \in 1 .. L
      PROVE  k + d \in 1 .. L + 1 /\ k + d # new
  BY <1>1
<1>7. atTop => \A k \in 1 .. L : new < k + d
  BY <1>1
<1>8. ~atTop => \A k \in 1 .. L : k + d < new
  BY <1>1
<1> HIDE DEF more, d, new
<1>9. ASSUME NEW token, token # Note(n)
      PROVE  /\ \A k \in At(text, token) : k + d \in At(more, token)
             /\ \A k \in At(more, token) : k - d \in At(text, token) /\ k \in Int
  <2>1. ASSUME NEW k \in At(text, token) PROVE k + d \in At(more, token)
    BY <1>2, <1>6 DEF At
  <2>2. ASSUME NEW k \in At(more, token) PROVE k - d \in At(text, token) /\ k \in Int
    <3>1. k \in 1 .. L + 1 /\ more[k] = token
      BY <1>2 DEF At
    <3> QED
      BY <1>2, <1>5, <1>9, <3>1 DEF At
  <2> QED
    BY <2>1, <2>2
<1>10. /\ \A k \in At(text, Start) : k + d \in At(more, Start)
       /\ \A k \in At(more, Start) : k - d \in At(text, Start) /\ k \in Int
       /\ \A k \in At(text, End) : k + d \in At(more, End)
       /\ \A k \in At(more, End) : k - d \in At(text, End) /\ k \in Int
  BY <1>9, Kinds
<1>11. NotesIn(text) \cup {n} \subseteq NotesIn(more)
  <2>1. new \in At(more, Note(n))
    BY <1>2, <1>3 DEF At
  <2>2. ASSUME NEW m \in NotesIn(text) PROVE m \in NotesIn(more)
    <3>1. PICK p \in At(text, Note(m)) : TRUE
      BY ContainsAt DEF NotesIn
    <3>2. p + d \in At(more, Note(m))
      BY <1>2, <1>6, <3>1 DEF At
    <3> QED
      BY <3>2, ContainsAt DEF NotesIn
  <2> QED
    BY <2>1, <2>2, ContainsAt DEF NotesIn
<1>12. Bodies(more) = Bodies(text)
  <2>1. ASSUME NEW i \in DOMAIN more, more[i].kind = "body"
        PROVE  more[i].groups \in Bodies(text)
    <3>1. i # new
      BY <1>2, <2>1, Kinds
    <3>2. i - d \in DOMAIN text /\ text[i - d] = more[i]
      BY <1>1, <1>4, <1>5, <3>1
    <3> QED
      BY <2>1, <3>2 DEF Bodies
  <2>2. ASSUME NEW i \in DOMAIN text, text[i].kind = "body"
        PROVE  text[i].groups \in Bodies(more)
    <3>1. i + d \in DOMAIN more /\ more[i + d] = text[i]
      BY <1>1, <1>2, <1>4, <1>6
    <3> QED
      BY <2>2, <3>1 DEF Bodies
  <2>3. Bodies(more) \subseteq Bodies(text)
    BY <2>1 DEF Bodies
  <2>4. Bodies(text) \subseteq Bodies(more)
    BY <2>2 DEF Bodies
  <2> QED
    BY <2>3, <2>4
<1>13. ASSUME NEW exports, Healed(text, exports) PROVE Healed(more, exports)
  <2>1. Ordered(more)
    <3>1. ASSUME NEW i \in At(more, End), NEW j \in At(more, End) PROVE i = j
      <4>1. i - d = j - d /\ i \in Int /\ j \in Int
        BY <1>10, <1>13 DEF Healed, Ordered
      <4> QED
        BY <1>3, <4>1
    <3>2. ASSUME NEW j \in At(more, End)
          PROVE  At(more, Start) # {} /\ \A i \in At(more, Start) : i < j
      <4>1. j - d \in At(text, End) /\ j \in Int
        BY <1>10
      <4>2. At(text, Start) # {} /\ \A i \in At(text, Start) : i < j - d
        BY <1>13, <4>1 DEF Healed, Ordered
      <4>3. ASSUME NEW i \in At(more, Start) PROVE i < j
        <5>1. i - d < j - d /\ i \in Int
          BY <1>10, <4>2
        <5> QED
          BY <1>3, <4>1, <5>1
      <4> QED
        BY <1>10, <4>2, <4>3
    <3> QED
      BY <3>1, <3>2 DEF Ordered
  <2>2. ASSUME exports >= 1, At(more, Start) # {} PROVE At(more, End) # {}
    BY <1>10, <1>13, <2>2 DEF Healed
  <2>3. ASSUME exports >= 2, NEW i \in At(more, Start), NEW k \in At(more, Start) PROVE i = k
    <3>1. i - d = k - d /\ i \in Int /\ k \in Int
      BY <1>10, <1>13, <2>3 DEF Healed
    <3> QED
      BY <1>3, <3>1
  <2> QED
    BY <2>1, <2>2, <2>3 DEF Healed
<1>14. ASSUME NEW some, Placed(text, some)
       PROVE  /\ Placed(more, some \ {n})
              /\ atTop \/ ~Contains(text, Start) \/ Contains(text, End) => Placed(more, some)
  <2> DEFINE Out(p) == (\A i \in At(more, Start) : p < i) \/ (\E j \in At(more, End) : j < p)
  <2>1. ASSUME NEW m \in some, NEW p \in At(more, Note(m)), p # new PROVE Out(p)
    <3>1. p - d \in At(text, Note(m)) /\ p \in Int
      BY <1>2, <1>5, <2>1 DEF At
    <3>2. CASE \A i \in At(text, Start) : p - d < i
      <4>1. ASSUME NEW i \in At(more, Start) PROVE p < i
        <5>1. p - d < i - d /\ i \in Int
          BY <1>10, <3>2
        <5> QED
          BY <1>3, <3>1, <5>1
      <4> QED
        BY <4>1
    <3>3. CASE \E j \in At(text, End) : j < p - d
      <4>1. PICK j \in At(text, End) : j < p - d
        BY <3>3
      <4>2. j \in Int
        BY DEF At
      <4>3. j + d < p
        BY <1>3, <3>1, <4>1, <4>2
      <4> QED
        BY <1>10, <4>3
    <3> QED
      BY <1>14, <3>1, <3>2, <3>3 DEF Placed
  <2>2. ASSUME atTop \/ ~Contains(text, Start) \/ Contains(text, End) PROVE Out(new)
    <3>1. CASE atTop
      <4>1. ASSUME NEW i \in At(more, Start) PROVE new < i
        <5>1. i - d \in 1 .. L /\ i \in Int
          BY <1>10 DEF At
        <5>2. new < (i - d) + d
          BY <1>7, <3>1, <5>1
        <5> QED
          BY <1>3, <5>1, <5>2
      <4> QED
        BY <4>1
    <3>2. CASE ~Contains(text, Start)
      BY <1>10, <3>2, ContainsAt
    <3>3. CASE ~atTop /\ Contains(text, End)
      <4>1. PICK j \in At(text, End) : TRUE
        BY <3>3, ContainsAt
      <4>2. j \in 1 .. L
        BY <4>1 DEF At
      <4>3. j + d < new
        BY <1>8, <3>3, <4>2
      <4> QED
        BY <1>10, <4>1, <4>3
    <3> QED
      BY <2>2, <3>1, <3>2, <3>3
  <2>3. ASSUME NEW m \in some, m # n, NEW p \in At(more, Note(m)) PROVE p # new
    BY <1>2, <2>3, Kinds DEF At
  <2> QED
    BY <2>1, <2>2, <2>3 DEF Placed
<1> QED
  BY <1>2, <1>11, <1>12, <1>13, <1>14 DEF more

-----------------------------------------------------------------------------
(* The export of the lessons, for any number of exporters. *)

\* What an export that has read n analyses has to say, and what may be in the file.
Read(n) == SubSeq(post_trade_analyses, 1, n)
Known == {Groups(Read(n)) : n \in 0 .. Len(post_trade_analyses)}
Token == {Start, End} \cup Scraps \cup {Note(n) : n \in Notes} \cup {Body(g) : g \in Known}

TextsInv == file \in Seq(Token) /\ existing \in [Exporters -> Seq(Token)]

GroupsInv ==
  /\ groups \in [Exporters -> Known]
  /\ \A e \in Exporters : groups[e] = Groups(Read(covered[e]))

\* What the last completed export had to say is in the file.
TracedInv == ~Writing /\ exported > 0 => Groups(Read(exported)) \in Bodies(file)

LessonsInv == LessonsTypeOK /\ TextsInv /\ GroupsInv /\ TracedInv

LEMMA LessonsStepIsStep ==
  [LessonsNext]_<<analysis, export>> => [Next]_analysis
BY DEF LessonsNext, Export, ReadAnalyses, ReadFile, OpenFile, WriteFile, Die, DieWriting,
       AddNote, analysis, export

\* Nothing the exports do disturbs the analyses: what holds of them alone holds here.
LEMMA LessonsImplement == LessonsSpec => Spec
<1>1. LessonsInit => Init
  BY DEF LessonsInit
<1> QED
  BY <1>1, LessonsStepIsStep, PTL DEF LessonsSpec, Spec

\* An analysis more leaves what an earlier export has read.
LEMMA ReadStays ==
  ASSUME TypeOK, TypeOK', [Next]_analysis
  PROVE  /\ Len(post_trade_analyses) \in Nat
         /\ Len(post_trade_analyses') \in Nat
         /\ Len(post_trade_analyses) <= Len(post_trade_analyses')
         /\ \A n \in 0 .. Len(post_trade_analyses) : Read(n)' = Read(n)
         /\ Known \subseteq Known' /\ Token \subseteq Token'
<1>1. /\ post_trade_analyses \in Seq(Row) /\ post_trade_analyses' \in Seq(Row)
      /\ Len(post_trade_analyses) \in Nat /\ Len(post_trade_analyses') \in Nat
  <2>1. post_trade_analyses \in Seq(Row) /\ post_trade_analyses' \in Seq(Row)
    BY DEF TypeOK, Row, Days, Outcomes, Lessons
  <2> QED
    BY <2>1, LenProperties
<1>2. /\ Len(post_trade_analyses) <= Len(post_trade_analyses')
      /\ \A i \in 1 .. Len(post_trade_analyses) :
           post_trade_analyses'[i] = post_trade_analyses[i]
  <2>1. CASE UNCHANGED post_trade_analyses
    BY <1>1, <2>1
  <2>2. CASE \E a \in Analyzers : Insert(a)
    <3>1. PICK a \in Analyzers : Insert(a)
      BY <2>2
    <3>2. /\ post_trade_analyses' = Append(post_trade_analyses, RowOf(job[a], today))
      BY <3>1 DEF Insert
    <3> QED
      BY <1>1, <3>2
  <2> QED
    BY <2>1, <2>2 DEF Next, analysis, tables, ReadEvents, Take, Crash, Realize, Midnight
<1>3. ASSUME NEW n \in 0 .. Len(post_trade_analyses) PROVE Read(n)' = Read(n)
  <2> DEFINE old == SubSeq(post_trade_analyses, 1, n)
             new == SubSeq(post_trade_analyses', 1, n)
  <2>1. n \in Int /\ 1 \in Int /\ n <= Len(post_trade_analyses')
    BY <1>1, <1>2
  <2>2. \A i \in 1 .. n : post_trade_analyses[i] \in Row /\ post_trade_analyses'[i] \in Row
    BY <1>1, <1>2, <2>1, ElementOfSeq
  <2>3. /\ old \in Seq(Row) /\ Len(old) = n
        /\ \A i \in 1 .. n : old[i] = post_trade_analyses[i]
    BY <2>1, <2>2, SubSeqProperties
  <2>4. /\ new \in Seq(Row) /\ Len(new) = n
        /\ \A i \in 1 .. n : new[i] = post_trade_analyses'[i]
    BY <2>1, <2>2, SubSeqProperties
  <2> HIDE DEF old, new
  <2>5. new = old
    BY <1>1, <1>2, <2>3, <2>4, SeqEqual
  <2> QED
    BY <2>5 DEF Read, old, new
<1>4. Known \subseteq Known'
  <2> SUFFICES ASSUME NEW n \in 0 .. Len(post_trade_analyses) PROVE Groups(Read(n)) \in Known'
    BY DEF Known
  <2>1. n \in 0 .. Len(post_trade_analyses')
    BY <1>1, <1>2
  <2>2. Groups(Read(n)') = Groups(Read(n))
    BY <1>3
  <2> QED
    BY <2>1, <2>2 DEF Known
<1> QED
  BY <1>1, <1>2, <1>3, <1>4 DEF Token

LEMMA SameAnalyses ==
  ASSUME UNCHANGED analysis
  PROVE  /\ \A n : Read(n)' = Read(n)
         /\ Known' = Known /\ Token' = Token
         /\ post_trade_analyses' = post_trade_analyses
BY DEF analysis, Read, Known, Token

LEMMA TokenKinds ==
  ASSUME NEW text \in Seq(Token)
  PROVE  \A i \in DOMAIN text : text[i].kind \in {"start", "end", "scrap", "broken", "note", "body"}
<1>1. \A x \in Token : x.kind \in {"start", "end", "scrap", "broken", "note", "body"}
  BY Kinds DEF Token
<1> QED
  BY <1>1, LenProperties, ElementOfSeq

LEMMA NothingRead ==
  ASSUME LessonsInv
  PROVE  /\ Len(post_trade_analyses) \in Nat
         /\ Read(0) = <<>> /\ Groups(<<>>) \in Known
         /\ Read(Len(post_trade_analyses)) = post_trade_analyses
<1>1. post_trade_analyses \in Seq(Row)
  BY DEF LessonsInv, LessonsTypeOK, TypeOK
<1>2. Len(post_trade_analyses) \in Nat
  BY <1>1, LenProperties
<1>3. Read(0) = <<>>
  BY SubSeqEmpty DEF Read
<1>4. 0 \in 0 .. Len(post_trade_analyses)
  BY <1>2
<1>5. Read(Len(post_trade_analyses)) = post_trade_analyses
  BY <1>1, SubSeqFull DEF Read
<1>6. Groups(<<>>) \in Known
  BY <1>3, <1>4 DEF Known
<1> QED
  BY <1>2, <1>3, <1>5, <1>6

LEMMA LessonsInitInv == LessonsInit => LessonsInv
<1> SUFFICES ASSUME LessonsInit PROVE LessonsInv
  OBVIOUS
<1>1. TypeOK /\ post_trade_analyses = <<>>
  BY AnalysisInit DEF LessonsInit, Init, AnalysisInv
<1>2. Len(post_trade_analyses) = 0 /\ Read(0) = <<>>
  BY <1>1, SubSeqEmpty DEF Read
<1>3. Groups(<<>>) \in Known
  BY <1>2 DEF Known
<1>4. LessonsTypeOK
  BY <1>1, <1>2, LessonsAssumption DEF LessonsInit, LessonsTypeOK
<1>5. TextsInv
  BY DEF LessonsInit, TextsInv
<1>6. GroupsInv
  BY <1>2, <1>3 DEF LessonsInit, GroupsInv
<1>7. TracedInv
  BY DEF LessonsInit, TracedInv
<1> QED
  BY <1>4, <1>5, <1>6, <1>7 DEF LessonsInv

\* An exporter that ends has read nothing.
LEMMA ForgetInv ==
  ASSUME LessonsInv, UNCHANGED analysis, NEW e \in Exporters, Forget(e)
  PROVE  /\ epc' \in [Exporters -> {"idle", "file", "open", "write"}]
         /\ covered' \in [Exporters -> 0..Len(post_trade_analyses')]
         /\ existing' \in [Exporters -> Seq(Token')]
         /\ GroupsInv'
<1>1. /\ epc' = [epc EXCEPT ![e] = "idle"]
      /\ groups' = [groups EXCEPT ![e] = Groups(<<>>)]
      /\ existing' = [existing EXCEPT ![e] = <<>>]
      /\ covered' = [covered EXCEPT ![e] = 0]
  BY DEF Forget, EGoto
<1>2. /\ epc \in [Exporters -> {"idle", "file", "open", "write"}]
      /\ covered \in [Exporters -> 0..Len(post_trade_analyses)]
      /\ existing \in [Exporters -> Seq(Token)]
      /\ groups \in [Exporters -> Known]
      /\ \A x \in Exporters : groups[x] = Groups(Read(covered[x]))
  BY DEF LessonsInv, LessonsTypeOK, TextsInv, GroupsInv
<1>3. epc' \in [Exporters -> {"idle", "file", "open", "write"}]
  BY <1>1, <1>2
<1>4. covered' \in [Exporters -> 0..Len(post_trade_analyses')]
  BY <1>1, <1>2, NothingRead, SameAnalyses
<1>5. existing' \in [Exporters -> Seq(Token')]
  <2>1. <<>> \in Seq(Token) /\ Token' = Token
    BY SameAnalyses
  <2> QED
    BY <1>1, <1>2, <2>1
<1>6. GroupsInv'
  <2>1. groups' \in [Exporters -> Known']
    BY <1>1, <1>2, NothingRead, SameAnalyses
  <2>2. ASSUME NEW x \in Exporters PROVE (groups[x] = Groups(Read(covered[x])))'
    <3>1. Read(covered[x])' = Read(covered'[x])
      BY SameAnalyses DEF Read
    <3>2. CASE x = e
      BY <1>1, <1>2, <3>1, <3>2, NothingRead
    <3>3. CASE x # e
      <4>1. covered'[x] = covered[x] /\ groups'[x] = groups[x]
        BY <1>1, <1>2, <3>3
      <4> QED
        BY <1>2, <3>1, <4>1
    <3> QED
      BY <3>2, <3>3
  <2> QED
    BY <2>1, <2>2 DEF GroupsInv
<1> QED
  BY <1>3, <1>4, <1>5, <1>6

LEMMA ReadAnalysesInv ==
  ASSUME LessonsInv, TypeOK', NEW e \in Exporters, ReadAnalyses(e) PROVE LessonsInv'
<1> USE DEF ReadAnalyses
<1>1. UNCHANGED analysis /\ Known' = Known /\ Token' = Token
  BY SameAnalyses
<1>2. /\ epc \in [Exporters -> {"idle", "file", "open", "write"}]
      /\ covered \in [Exporters -> 0..Len(post_trade_analyses)]
      /\ groups \in [Exporters -> Known]
      /\ \A x \in Exporters : groups[x] = Groups(Read(covered[x]))
  BY DEF LessonsInv, LessonsTypeOK, GroupsInv
<1>3. LessonsTypeOK'
  BY <1>1, <1>2, NothingRead, SameAnalyses DEF LessonsInv, LessonsTypeOK, EGoto
<1>4. TextsInv'
  BY <1>1 DEF LessonsInv, TextsInv
<1>5. GroupsInv'
  <2>1. Len(post_trade_analyses) \in 0 .. Len(post_trade_analyses)
    BY NothingRead
  <2>2. groups' \in [Exporters -> Known']
    BY <1>1, <1>2, <2>1, NothingRead DEF Known
  <2>3. ASSUME NEW x \in Exporters PROVE (groups[x] = Groups(Read(covered[x])))'
    <3>1. Read(covered[x])' = Read(covered'[x])
      BY SameAnalyses DEF Read
    <3>2. CASE x = e
      BY <1>2, <3>1, <3>2, NothingRead
    <3>3. CASE x # e
      BY <1>2, <3>1, <3>3
    <3> QED
      BY <3>2, <3>3
  <2> QED
    BY <2>2, <2>3 DEF GroupsInv
<1>6. TracedInv'
  <2>1. Writing => Writing'
    BY <1>2 DEF Writing, EGoto
  <2>2. Groups(Read(exported))' = Groups(Read(exported))
    BY SameAnalyses DEF Read
  <2> QED
    BY <2>1, <2>2 DEF LessonsInv, TracedInv
<1> QED
  BY <1>3, <1>4, <1>5, <1>6 DEF LessonsInv

LEMMA ReadFileInv ==
  ASSUME LessonsInv, TypeOK', NEW e \in Exporters, ReadFile(e) PROVE LessonsInv'
<1> USE DEF ReadFile
<1>1. UNCHANGED analysis /\ Known' = Known /\ Token' = Token
  BY SameAnalyses
<1>2. epc \in [Exporters -> {"idle", "file", "open", "write"}]
  BY DEF LessonsInv, LessonsTypeOK
<1>3. LessonsTypeOK'
  BY <1>1, <1>2, SameAnalyses DEF LessonsInv, LessonsTypeOK, EGoto
<1>4. TextsInv'
  BY <1>1 DEF LessonsInv, TextsInv
<1>5. GroupsInv'
  <2>1. \A x : Read(covered[x])' = Read(covered[x])
    BY SameAnalyses DEF Read
  <2> QED
    BY <1>1, <2>1 DEF LessonsInv, GroupsInv
<1>6. TracedInv'
  <2>1. Writing => Writing'
    BY <1>2 DEF Writing, EGoto
  <2>2. Groups(Read(exported))' = Groups(Read(exported))
    BY SameAnalyses DEF Read
  <2> QED
    BY <2>1, <2>2 DEF LessonsInv, TracedInv
<1> QED
  BY <1>3, <1>4, <1>5, <1>6 DEF LessonsInv

LEMMA OpenFileInv ==
  ASSUME LessonsInv, TypeOK', NEW e \in Exporters, OpenFile(e) PROVE LessonsInv'
<1> USE DEF OpenFile
<1>1. UNCHANGED analysis /\ Known' = Known /\ Token' = Token
  BY SameAnalyses
<1>2. epc \in [Exporters -> {"idle", "file", "open", "write"}]
  BY DEF LessonsInv, LessonsTypeOK
<1>3. LessonsTypeOK'
  BY <1>1, <1>2, SameAnalyses DEF LessonsInv, LessonsTypeOK, EGoto
<1>4. TextsInv'
  BY <1>1 DEF LessonsInv, TextsInv
<1>5. GroupsInv'
  <2>1. \A x : Read(covered[x])' = Read(covered[x])
    BY SameAnalyses DEF Read
  <2> QED
    BY <1>1, <2>1 DEF LessonsInv, GroupsInv
<1>6. TracedInv'
  <2>1. Writing'
    BY <1>2 DEF Writing, EGoto
  <2> QED
    BY <2>1 DEF TracedInv
<1> QED
  BY <1>3, <1>4, <1>5, <1>6 DEF LessonsInv

LEMMA BlockTokens ==
  ASSUME LessonsInv, NEW e \in Exporters
  PROVE  /\ Block(groups[e]) \in Seq(Token) /\ Scraps \subseteq Token
         /\ file \in Seq(Token) /\ existing[e] \in Seq(Token)
<1>1. groups[e] \in Known
  BY DEF LessonsInv, GroupsInv
<1>2. Start \in Token /\ Body(groups[e]) \in Token /\ End \in Token /\ Scraps \subseteq Token
  BY <1>1 DEF Token
<1> HIDE DEF Token
<1>3. Block(groups[e]) \in Seq(Token)
  BY <1>2 DEF Block
<1> QED
  BY <1>2, <1>3 DEF LessonsInv, TextsInv

\* The least of some numbers up to a limit.
LEMMA MinUpTo ==
  ASSUME NEW i \in Nat, NEW k \in Nat
  PROVE  Min({i, k}) = IF i <= k THEN i ELSE k
<1>1. \E x \in {i, k} : \A y \in {i, k} : x <= y
  OBVIOUS
<1>2. Min({i, k}) \in {i, k} /\ \A y \in {i, k} : Min({i, k}) <= y
  BY <1>1 DEF Min
<1> QED
  BY <1>2

LEMMA WriteFileInv ==
  ASSUME LessonsInv, TypeOK', NEW e \in Exporters, WriteFile(e) PROVE LessonsInv'
<1>1. /\ UNCHANGED <<analysis, deaths, notes, excused>>
      /\ Known' = Known /\ Token' = Token /\ Forget(e)
      /\ file' = Merge(existing[e], groups[e])
      /\ clean' = Min({clean + 1, 2}) /\ exported' = covered[e]
  BY SameAnalyses DEF WriteFile
<1>2. file' \in Seq(Token) /\ groups[e] \in Bodies(file')
  BY <1>1, BlockTokens, MergeHasBody
<1>3. /\ epc' \in [Exporters -> {"idle", "file", "open", "write"}]
      /\ covered' \in [Exporters -> 0..Len(post_trade_analyses')]
      /\ existing' \in [Exporters -> Seq(Token')]
      /\ GroupsInv'
  BY <1>1, ForgetInv
<1>4. TextsInv'
  BY <1>1, <1>2, <1>3 DEF TextsInv
<1>5. LessonsTypeOK'
  <2>1. clean' \in 0 .. 2
    BY <1>1, MinUpTo DEF LessonsInv, LessonsTypeOK
  <2>2. exported' \in 0 .. Len(post_trade_analyses')
    BY <1>1, SameAnalyses DEF LessonsInv, LessonsTypeOK
  <2>3. \A i \in DOMAIN file' : file'[i].kind \in {"start", "end", "scrap", "broken", "note", "body"}
    BY <1>2, TokenKinds
  <2>4. notes' \subseteq Notes /\ excused' \subseteq notes' /\ deaths' \in 0 .. MaxDeaths
    BY <1>1 DEF LessonsInv, LessonsTypeOK
  <2> QED
    BY <1>3, <2>1, <2>2, <2>3, <2>4 DEF LessonsTypeOK
<1>6. TracedInv'
  <2>1. groups[e] = Groups(Read(covered[e]))
    BY DEF LessonsInv, GroupsInv
  <2>2. Read(exported)' = Read(covered[e])
    BY <1>1, SameAnalyses DEF Read
  <2> QED
    BY <1>2, <2>1, <2>2 DEF TracedInv
<1> QED
  BY <1>3, <1>4, <1>5, <1>6 DEF LessonsInv

\* The rest of a text is made of its tokens, in whichever order.
LEMMA RestIsText ==
  ASSUME NEW T, NEW text \in Seq(T), Scraps \subseteq T, NEW rest \in Cut(text)
  PROVE  rest \in Seq(T)
<1>1. Len(text) \in Nat /\ \A i \in 1 .. Len(text) : text[i] \in T
  BY LenProperties, ElementOfSeq
<1>2. PICK c \in 0 .. Len(text) - 1 :
        rest = SubSeq(text, 1, c) \/ \E x \in Scraps : rest = Append(SubSeq(text, 1, c), x)
  BY DEF Cut, Scraps
<1> DEFINE prefix == SubSeq(text, 1, c)
<1>3. prefix \in Seq(T)
  BY <1>1, SubSeqProperties
<1> HIDE DEF prefix
<1>4. \A x \in Scraps : Append(prefix, x) \in Seq(T)
  BY <1>3, AppendProperties
<1> QED
  BY <1>2, <1>3, <1>4 DEF prefix

LEMMA DieWritingInv ==
  ASSUME LessonsInv, TypeOK', NEW e \in Exporters,
         NEW rest \in Cut(Merge(existing[e], groups[e])), DieWriting(e, rest)
  PROVE  LessonsInv'
<1>1. /\ UNCHANGED <<analysis, notes>> /\ Known' = Known /\ Token' = Token /\ Forget(e)
      /\ file' = rest /\ clean' = 0 /\ exported' = 0
      /\ deaths < MaxDeaths /\ deaths' = deaths + 1
      /\ excused' = excused \cup (notes \ NotesIn(rest))
  BY SameAnalyses DEF DieWriting
<1>2. file' \in Seq(Token)
  <2>1. Merge(existing[e], groups[e]) \in Seq(Token) /\ Scraps \subseteq Token
    BY BlockTokens, MergeHasBody
  <2> QED
    BY <1>1, <2>1, RestIsText
<1>3. /\ epc' \in [Exporters -> {"idle", "file", "open", "write"}]
      /\ covered' \in [Exporters -> 0..Len(post_trade_analyses')]
      /\ existing' \in [Exporters -> Seq(Token')]
      /\ GroupsInv'
  BY <1>1, ForgetInv
<1>4. TextsInv'
  BY <1>1, <1>2, <1>3 DEF TextsInv
<1>5. LessonsTypeOK'
  <2>1. clean' \in 0 .. 2 /\ exported' \in 0 .. Len(post_trade_analyses')
    BY <1>1, NothingRead, SameAnalyses
  <2>2. \A i \in DOMAIN file' : file'[i].kind \in {"start", "end", "scrap", "broken", "note", "body"}
    BY <1>2, TokenKinds
  <2>3. notes' \subseteq Notes /\ excused' \subseteq notes' /\ deaths' \in 0 .. MaxDeaths
    BY <1>1, LessonsAssumption DEF LessonsInv, LessonsTypeOK
  <2> QED
    BY <1>3, <2>1, <2>2, <2>3 DEF LessonsTypeOK
<1>6. TracedInv'
  BY <1>1 DEF TracedInv
<1> QED
  BY <1>3, <1>4, <1>5, <1>6 DEF LessonsInv

LEMMA DieInv ==
  ASSUME LessonsInv, TypeOK', NEW e \in Exporters, Die(e) PROVE LessonsInv'
<1>1. /\ UNCHANGED <<analysis, file, deaths, notes, excused, clean, exported>>
      /\ Known' = Known /\ Token' = Token /\ Forget(e) /\ epc[e] # "write"
  BY SameAnalyses DEF Die
<1>2. /\ epc' \in [Exporters -> {"idle", "file", "open", "write"}]
      /\ covered' \in [Exporters -> 0..Len(post_trade_analyses')]
      /\ existing' \in [Exporters -> Seq(Token')]
      /\ GroupsInv'
  BY <1>1, ForgetInv
<1>3. TextsInv'
  BY <1>1, <1>2 DEF LessonsInv, TextsInv
<1>4. LessonsTypeOK'
  BY <1>1, <1>2, SameAnalyses DEF LessonsInv, LessonsTypeOK
<1>5. TracedInv'
  <2>1. Writing => Writing'
    BY <1>1 DEF LessonsInv, LessonsTypeOK, Writing, Forget, EGoto
  <2>2. Groups(Read(exported))' = Groups(Read(exported))
    BY <1>1, SameAnalyses DEF Read
  <2> QED
    BY <1>1, <2>1, <2>2 DEF LessonsInv, TracedInv
<1> QED
  BY <1>2, <1>3, <1>4, <1>5 DEF LessonsInv

LEMMA AddNoteInv ==
  ASSUME LessonsInv, TypeOK', NEW n \in Notes, NEW atTop \in BOOLEAN, AddNote(n, atTop)
  PROVE  LessonsInv'
<1>1. /\ UNCHANGED <<analysis, epc, groups, existing, deaths, clean, covered, exported>>
      /\ Known' = Known /\ Token' = Token
      /\ notes' = notes \cup {n} /\ (excused' = excused \/ excused' = excused \cup {n})
      /\ file' = IF atTop THEN <<Note(n)>> \o file ELSE Append(file, Note(n))
  BY SameAnalyses DEF AddNote
<1>2. file' \in Seq(Token) /\ Bodies(file') = Bodies(file)
  <2>1. file \in Seq(Token) /\ Note(n) \in Token
    BY DEF LessonsInv, TextsInv, Token
  <2> QED
    BY <1>1, <2>1, NoteKeeps
<1>3. TextsInv'
  BY <1>1, <1>2 DEF LessonsInv, TextsInv
<1>4. LessonsTypeOK'
  <2>1. \A i \in DOMAIN file' : file'[i].kind \in {"start", "end", "scrap", "broken", "note", "body"}
    BY <1>2, TokenKinds
  <2>2. notes' \subseteq Notes /\ excused' \subseteq notes'
    BY <1>1 DEF LessonsInv, LessonsTypeOK
  <2> QED
    BY <1>1, <2>1, <2>2, SameAnalyses DEF LessonsInv, LessonsTypeOK
<1>5. GroupsInv'
  <2>1. \A x : Read(covered[x])' = Read(covered[x])
    BY <1>1, SameAnalyses DEF Read
  <2> QED
    BY <1>1, <2>1 DEF LessonsInv, GroupsInv
<1>6. TracedInv'
  <2>1. Groups(Read(exported))' = Groups(Read(exported))
    BY <1>1, SameAnalyses DEF Read
  <2> QED
    BY <1>1, <1>2, <2>1 DEF LessonsInv, TracedInv, Writing
<1> QED
  BY <1>3, <1>4, <1>5, <1>6 DEF LessonsInv

\* A step of the analysis, or none.
LEMMA AnalysisStepInv ==
  ASSUME LessonsInv, TypeOK', [Next]_analysis, UNCHANGED export PROVE LessonsInv'
<1>1. TypeOK /\ UNCHANGED <<file, epc, groups, existing, deaths, notes, excused, clean,
                           covered, exported>>
  BY DEF LessonsInv, LessonsTypeOK, export
<1>2. /\ Len(post_trade_analyses) \in Nat /\ Len(post_trade_analyses') \in Nat
      /\ Len(post_trade_analyses) <= Len(post_trade_analyses')
      /\ \A k \in 0 .. Len(post_trade_analyses) : Read(k)' = Read(k)
      /\ Known \subseteq Known' /\ Token \subseteq Token'
  BY <1>1, ReadStays
<1>3. /\ covered \in [Exporters -> 0 .. Len(post_trade_analyses)]
      /\ exported \in 0 .. Len(post_trade_analyses)
  BY DEF LessonsInv, LessonsTypeOK
<1>4. LessonsTypeOK'
  <2>1. 0 .. Len(post_trade_analyses) \subseteq 0 .. Len(post_trade_analyses')
    BY <1>2
  <2>2. covered' \in [Exporters -> 0 .. Len(post_trade_analyses')]
    BY <1>1, <1>3, <2>1
  <2> QED
    BY <1>1, <1>3, <2>1, <2>2 DEF LessonsInv, LessonsTypeOK
<1>5. TextsInv'
  <2>1. file' \in Seq(Token')
    BY <1>1, <1>2, SeqMonotonic DEF LessonsInv, TextsInv
  <2>2. ASSUME NEW e \in Exporters PROVE existing'[e] \in Seq(Token')
    BY <1>1, <1>2, SeqMonotonic DEF LessonsInv, TextsInv
  <2>3. existing' \in [Exporters -> Seq(Token')]
    BY <1>1, <2>2 DEF LessonsInv, TextsInv
  <2> QED
    BY <2>1, <2>3 DEF TextsInv
<1>6. GroupsInv'
  <2>1. ASSUME NEW e \in Exporters PROVE Read(covered[e])' = Read(covered[e])
    <3>1. Read(covered[e])' = SubSeq(post_trade_analyses', 1, covered[e])
      BY <1>1 DEF Read
    <3>2. covered[e] \in 0 .. Len(post_trade_analyses)
      BY <1>3
    <3> QED
      BY <1>2, <3>1, <3>2 DEF Read
  <2>2. groups' \in [Exporters -> Known']
    BY <1>1, <1>2 DEF LessonsInv, GroupsInv
  <2> QED
    BY <1>1, <2>1, <2>2 DEF LessonsInv, GroupsInv
<1>7. TracedInv'
  <2>1. Read(exported)' = Read(exported)
    <3>1. Read(exported)' = SubSeq(post_trade_analyses', 1, exported)
      BY <1>1 DEF Read
    <3> QED
      BY <1>2, <1>3, <3>1 DEF Read
  <2>2. Groups(Read(exported))' = Groups(Read(exported))
    BY <2>1
  <2> QED
    BY <1>1, <2>2 DEF LessonsInv, TracedInv, Writing
<1> QED
  BY <1>4, <1>5, <1>6, <1>7 DEF LessonsInv

LEMMA LessonsNextInv ==
  LessonsInv /\ TypeOK' /\ [LessonsNext]_<<analysis, export>> => LessonsInv'
<1> SUFFICES ASSUME LessonsInv, TypeOK', [LessonsNext]_<<analysis, export>> PROVE LessonsInv'
  OBVIOUS
<1>1. CASE Next /\ UNCHANGED export
  BY <1>1, AnalysisStepInv
<1>2. CASE UNCHANGED <<analysis, export>>
  BY <1>2, AnalysisStepInv
<1>3. CASE \E e \in Exporters : Export(e)
  <2>1. PICK e \in Exporters : Export(e)
    BY <1>3
  <2>2. \/ ReadAnalyses(e) \/ ReadFile(e) \/ OpenFile(e) \/ WriteFile(e) \/ Die(e)
        \/ \E rest \in Cut(Merge(existing[e], groups[e])) : DieWriting(e, rest)
    BY <2>1 DEF Export
  <2> QED
    BY <2>2, ReadAnalysesInv, ReadFileInv, OpenFileInv, WriteFileInv, DieInv, DieWritingInv
<1>4. CASE \E n \in Notes, atTop \in BOOLEAN : AddNote(n, atTop)
  BY <1>4, AddNoteInv
<1> QED
  BY <1>1, <1>2, <1>3, <1>4 DEF LessonsNext

LEMMA LessonsInvariance == LessonsSpec => []LessonsInv
BY LessonsInitInv, LessonsNextInv, LessonsImplement, PostTradeTypeCorrect, PTL DEF LessonsSpec

\* The exporters and the file keep their types, whatever each exporter is cut off from.
THEOREM LessonsTypeCorrect == LessonsSpec => []LessonsTypeOK
BY LessonsInvariance, PTL DEF LessonsInv

-----------------------------------------------------------------------------
(* What the export has to say. *)

LEMMA SumOfGroups ==
  ASSUME NEW g, IsFiniteSet(DOMAIN g), \A key \in DOMAIN g : g[key].total \in Int
  PROVE  MapThenSumSet(LAMBDA key : g[key].total, DOMAIN g)
           = Sum([key \in DOMAIN g |-> g[key].total], DOMAIN g)
<1> DEFINE f == [key \in DOMAIN g |-> g[key].total]
           Table(k) == k = [s \in SUBSET DOMAIN g |->
             IF s = {} THEN 0 ELSE g[Choice(s)].total + k[s \ {Choice(s)}]]
<1>1. \A k : Table(k) <=> SumTable(k, f, DOMAIN g)
  <2>1. \A s \in SUBSET DOMAIN g : s # {} => f[Choice(s)] = g[Choice(s)].total
    BY DEF Choice
  <2> QED
    BY <2>1 DEF SumTable
<1>2. MapThenSumSet(LAMBDA key : g[key].total, DOMAIN g) = (CHOOSE k : Table(k))[DOMAIN g]
  BY DEF MapThenSumSet, MapThenFoldSet, Choice
<1>3. \A key \in DOMAIN g : f[key] \in Int
  OBVIOUS
<1> HIDE DEF f, Table
<1>4. Table(CHOOSE k : Table(k))
  BY <1>1, <1>3, TableExists
<1> QED
  BY <1>1, <1>2, <1>3, <1>4, TableSum DEF f

\* The groups add up to the rows they are made of, and lose no lesson of any of them.
LEMMA GroupsTrace ==
  ASSUME NEW table \in Seq(Row)
  PROVE  LET g == Groups(table) IN
         /\ MapThenSumSet(LAMBDA key : g[key].total, DOMAIN g) = Total(table, DOMAIN table)
         /\ \A i \in DOMAIN table : \A lesson \in table[i].lessons :
              /\ Key(table[i]) \in DOMAIN g
              /\ table[i].ticket \in g[Key(table[i])].lessons[lesson]
<1> DEFINE g == Groups(table)
           D == DOMAIN table
           Of(key) == {i \in D : Key(table[i]) = key}
           kind == [i \in D |-> Key(table[i])]
           f == [i \in D |-> table[i].pnl]
           h == [key \in DOMAIN g |-> g[key].total]
<1>1. IsFiniteSet(D) /\ \A i \in D : table[i].pnl \in Int
  <2>1. \A r \in Row : r.pnl \in Int
    BY DEF Row
  <2>2. Len(table) \in Nat /\ D = 1 .. Len(table) /\ \A i \in 1 .. Len(table) : table[i] \in Row
    BY LenProperties, ElementOfSeq
  <2> QED
    BY <2>1, <2>2, FS_Interval
<1>2. DOMAIN g = {kind[i] : i \in D}
  BY DEF Groups
<1>3. ASSUME NEW key \in DOMAIN g
      PROVE  /\ g[key].total = Total(table, Of(key))
             /\ g[key].lessons = [lesson \in UNION {table[i].lessons : i \in Of(key)} |->
                  {table[i].ticket : i \in {k \in Of(key) : lesson \in table[k].lessons}}]
  BY DEF Groups
<1>4. ASSUME NEW key \in DOMAIN g
      PROVE  Total(table, Of(key)) = Sum(f, Of(key)) /\ Sum(f, Of(key)) \in Int
  <2> DEFINE E == Of(key)
             fE == [i \in E |-> table[i].pnl]
  <2>1. /\ IsFiniteSet(E) /\ \A i \in E : table[i].pnl \in Int
        /\ \A i \in E : fE[i] \in Int /\ fE[i] = f[i] /\ f[i] \in Int
    BY <1>1, FS_Subset
  <2> HIDE DEF E, f
  <2>2. Total(table, E) = Sum(fE, E)
    BY <2>1, TotalIsSum
  <2> HIDE DEF fE
  <2>3. Sum(fE, E) = Sum(f, E) /\ Sum(f, E) \in Int
    BY <2>1, SumSame, SumType
  <2> QED
    BY <2>2, <2>3 DEF E
<1>5. \A i \in D : f[i] \in Int /\ kind[i] = Key(table[i])
  BY <1>1
<1>6. IsFiniteSet(DOMAIN g) /\ \A key \in DOMAIN g : g[key].total \in Int
  <2>1. IsFiniteSet({kind[i] : i \in D})
    <3> HIDE DEF kind, D
    <3> QED
      BY <1>1, ImageIsFinite
  <2> QED
    BY <1>2, <1>3, <1>4, <2>1
<1>7. Total(table, D) = Sum(f, D)
  BY <1>1, TotalIsSum
<1>8. MapThenSumSet(LAMBDA key : g[key].total, DOMAIN g) = Total(table, D)
  <2>1. MapThenSumSet(LAMBDA key : g[key].total, DOMAIN g) = Sum(h, DOMAIN g)
    <3> HIDE DEF g
    <3> QED
      BY <1>6, SumOfGroups
  <2>2. Sum(h, DOMAIN g) = Sum(f, D)
    <3> DEFINE K == DOMAIN g
               of == [key \in K |-> Of(key)]
    <3>1. IsFiniteSet(D) /\ \A i \in D : f[i] \in Int
      BY <1>1, <1>5
    <3>2. IsFiniteSet(K) /\ \A i \in D : kind[i] \in K
      BY <1>2, <1>6
    <3>3. \A key \in K : \A i : i \in of[key] <=> i \in D /\ kind[i] = key
      OBVIOUS
    <3>4. \A key \in K : h[key] = Sum(f, of[key])
      BY <1>3, <1>4
    <3> HIDE DEF h, f, kind, D, K, of
    <3>5. Sum(h, K) = Sum(f, D)
      BY <3>1, <3>2, <3>3, <3>4, SumOfParts
    <3> QED
      BY <3>5 DEF K
  <2> QED
    BY <1>7, <2>1, <2>2
<1>9. ASSUME NEW i \in D, NEW lesson \in table[i].lessons
       PROVE  /\ Key(table[i]) \in DOMAIN g
              /\ table[i].ticket \in g[Key(table[i])].lessons[lesson]
  <2> DEFINE key == Key(table[i])
  <2>1. i \in Of(key) /\ key \in DOMAIN g
    BY <1>2
  <2> HIDE DEF key, g
  <2>2. lesson \in UNION {table[k].lessons : k \in Of(key)}
    BY <2>1
  <2>3. g[key].lessons[lesson] = {table[k].ticket : k \in {k \in Of(key) : lesson \in table[k].lessons}}
    BY <1>3, <2>1, <2>2
  <2>4. table[i].ticket \in g[key].lessons[lesson]
    BY <2>1, <2>3
  <2> QED
    BY <2>1, <2>4 DEF key, g
<1> QED
  BY <1>8, <1>9

\* Each lesson of each analysis the last completed export has read can be traced to its
\* ticket in the file, and the groups add up to those analyses, for any number of exporters
\* that get in each other's way.
THEOREM LessonsAreTraced == LessonsSpec => []LessonsTraced
<1>1. LessonsInv => LessonsTraced
  <2> SUFFICES ASSUME LessonsInv, ~Writing, exported > 0
               PROVE  \E g \in Bodies(file) :
                        /\ MapThenSumSet(LAMBDA key : g[key].total, DOMAIN g)
                             = Total(post_trade_analyses, 1 .. exported)
                        /\ \A i \in 1 .. exported : LET row == post_trade_analyses[i] IN
                             \A lesson \in row.lessons :
                               Key(row) \in DOMAIN g /\ row.ticket \in g[Key(row)].lessons[lesson]
    BY DEF LessonsTraced
  <2> DEFINE table == Read(exported)
             all == post_trade_analyses
  <2>1. Groups(Read(exported)) \in Bodies(file)
    BY DEF LessonsInv, TracedInv
  <2>2. /\ all \in Seq(Row) /\ exported \in 0 .. Len(all) /\ Len(all) \in Nat
        /\ \A i \in 1 .. Len(all) : all[i] \in Row /\ all[i].pnl \in Int
    <3>1. all \in Seq(Row) /\ exported \in 0 .. Len(all)
      BY DEF LessonsInv, LessonsTypeOK, TypeOK
    <3>2. \A r \in Row : r.pnl \in Int
      BY DEF Row
    <3> QED
      BY <3>1, <3>2, LenProperties, ElementOfSeq
  <2>3. /\ table \in Seq(Row) /\ DOMAIN table = 1 .. exported
        /\ \A i \in 1 .. exported : table[i] = all[i]
    <3>1. /\ table \in Seq(Row) /\ Len(table) = exported
          /\ \A i \in 1 .. exported : table[i] = all[i]
      BY <2>2, SubSeqProperties DEF Read
    <3> QED
      BY <3>1, LenProperties
  <2>4. Total(table, 1 .. exported) = Total(all, 1 .. exported)
    <3>1. /\ IsFiniteSet(1 .. exported)
          /\ \A i \in 1 .. exported : all[i].pnl \in Int /\ table[i] = all[i]
      <4>1. exported \in Nat /\ \A i \in 1 .. exported : i \in 1 .. Len(all)
        BY <2>2
      <4>2. IsFiniteSet(1 .. exported)
        BY <4>1, FS_Interval
      <4>3. ASSUME NEW i \in 1 .. exported PROVE all[i].pnl \in Int /\ table[i] = all[i]
        <5>1. all[i].pnl \in Int
          BY <2>2, <4>1
        <5>2. table[i] = all[i]
          BY <2>3
        <5> QED
          BY <5>1, <5>2
      <4> QED
        BY <4>2, <4>3
    <3> HIDE DEF table, all
    <3> QED
      BY <3>1, TotalSame
  <2>5. /\ MapThenSumSet(LAMBDA key : Groups(Read(exported))[key].total,
                         DOMAIN Groups(Read(exported))) = Total(table, DOMAIN table)
        /\ \A i \in DOMAIN table : \A lesson \in table[i].lessons :
             /\ Key(table[i]) \in DOMAIN Groups(Read(exported))
             /\ table[i].ticket \in Groups(Read(exported))[Key(table[i])].lessons[lesson]
    BY <2>3, GroupsTrace
  <2> WITNESS Groups(Read(exported)) \in Bodies(file)
  <2>6. MapThenSumSet(LAMBDA key : Groups(Read(exported))[key].total,
                      DOMAIN Groups(Read(exported))) = Total(post_trade_analyses, 1 .. exported)
    BY <2>3, <2>4, <2>5
  <2>7. \A i \in 1 .. exported : \A lesson \in post_trade_analyses[i].lessons :
          /\ Key(post_trade_analyses[i]) \in DOMAIN Groups(Read(exported))
          /\ post_trade_analyses[i].ticket
               \in Groups(Read(exported))[Key(post_trade_analyses[i])].lessons[lesson]
    BY <2>3, <2>5
  <2> QED
    BY <2>6, <2>7
<1> QED
  BY <1>1, LessonsInvariance, PTL

-----------------------------------------------------------------------------
(* The file with one exporter.  With two, one may read what the other is writing, or *)
(* write what it read before the other did.                                          *)

OneExporter == \A e, f \in Exporters : e = f

\* A text between exports, or one that an exporter has read.
Good(text) ==
  /\ Healed(text, clean)
  /\ Placed(text, Notes \ excused)
  /\ notes \ excused \subseteq NotesIn(text)

FileInv ==
  /\ ~Writing => Good(file)
  /\ \A e \in Exporters : epc[e] \in {"open", "write"} => Good(existing[e])

LEMMA FileInit == LessonsInit => FileInv
<1> SUFFICES ASSUME LessonsInit PROVE FileInv
  OBVIOUS
<1>1. Len(file) = 0
  BY DEF LessonsInit
<1>2. \A token : At(file, token) = {}
  BY <1>1 DEF At
<1>3. Good(file)
  BY <1>2 DEF Good, Healed, Ordered, Placed, LessonsInit
<1> QED
  BY <1>3 DEF FileInv, LessonsInit

\* No other exporter is anywhere.
LEMMA Alone ==
  ASSUME OneExporter, LessonsInv, NEW e \in Exporters
  PROVE  /\ Writing <=> epc[e] = "write"
         /\ \A x \in Exporters : x = e
         /\ \A label : EGoto(e, label) => epc'[e] = label
BY DEF OneExporter, Writing, LessonsInv, LessonsTypeOK, EGoto

LEMMA ExportFileInv ==
  ASSUME OneExporter, LessonsInv, FileInv, NEW e \in Exporters, Export(e)
  PROVE  FileInv'
<1>1. /\ Writing <=> epc[e] = "write"
      /\ \A x \in Exporters : x = e
      /\ \A label : EGoto(e, label) => epc'[e] = label
  BY Alone
<1>2. Writing' <=> epc'[e] = "write"
  BY <1>1 DEF Writing
<1>3. /\ epc \in [Exporters -> {"idle", "file", "open", "write"}]
      /\ existing \in [Exporters -> Seq(Token)] /\ clean \in 0 .. 2
      /\ excused \subseteq notes /\ notes \subseteq Notes
  BY DEF LessonsInv, LessonsTypeOK, TextsInv
<1>4. ASSUME Forget(e), Good(file)' PROVE FileInv'
  <2>1. epc'[e] = "idle"
    BY <1>1, <1>4 DEF Forget
  <2> QED
    BY <1>1, <1>2, <1>4, <2>1 DEF FileInv
<1>5. CASE ReadAnalyses(e)
  <2>1. epc[e] = "idle" /\ epc'[e] = "file"
        /\ UNCHANGED <<file, clean, notes, excused>>
    BY <1>1, <1>5 DEF ReadAnalyses
  <2>2. Good(file)'
    BY <1>1, <2>1 DEF FileInv, Good
  <2> QED
    BY <1>1, <1>2, <2>1, <2>2 DEF FileInv
<1>6. CASE ReadFile(e)
  <2>1. /\ epc[e] = "file" /\ epc'[e] = "open" /\ existing'[e] = file
        /\ UNCHANGED <<file, clean, notes, excused>>
    BY <1>1, <1>3, <1>6 DEF ReadFile
  <2>2. Good(file) /\ Good(file)'
    BY <1>1, <2>1 DEF FileInv, Good
  <2>3. Good(existing[e])'
    BY <2>1, <2>2 DEF Good
  <2> QED
    BY <1>1, <1>2, <2>2, <2>3 DEF FileInv
<1>7. CASE OpenFile(e)
  <2>1. /\ epc[e] = "open" /\ epc'[e] = "write" /\ existing'[e] = existing[e]
        /\ UNCHANGED <<clean, notes, excused>>
    BY <1>1, <1>7 DEF OpenFile
  <2>2. Good(existing[e])'
    BY <2>1 DEF FileInv, Good
  <2> QED
    BY <1>1, <1>2, <2>1, <2>2 DEF FileInv
<1>8. CASE WriteFile(e)
  <2>1. /\ epc[e] = "write" /\ Forget(e) /\ file' = Merge(existing[e], groups[e])
        /\ clean' = Min({clean + 1, 2}) /\ UNCHANGED <<notes, excused>>
    BY <1>8 DEF WriteFile
  <2>2. Good(existing[e])
    BY <2>1 DEF FileInv
  <2>3. Block(groups[e]) \in Seq(Token) /\ existing[e] \in Seq(Token)
    BY BlockTokens
  <2>4. Healed(file', clean')
    BY <1>3, <2>1, <2>2, <2>3, MergeHeals DEF Good
  <2>5. /\ Placed(file', Notes \ excused)
        /\ (Notes \ excused) \cap NotesIn(existing[e]) \subseteq NotesIn(file')
    BY <2>1, <2>2, <2>3, MergePlaced DEF Good, Healed
  <2>6. Good(file)'
    BY <1>3, <2>1, <2>2, <2>4, <2>5 DEF Good
  <2> QED
    BY <1>4, <2>1, <2>6
<1>9. CASE Die(e)
  <2>1. /\ epc[e] \in {"file", "open"} /\ Forget(e)
        /\ UNCHANGED <<file, clean, notes, excused>>
    BY <1>9 DEF Die
  <2>2. Good(file)'
    BY <1>1, <2>1 DEF FileInv, Good
  <2> QED
    BY <1>4, <2>1, <2>2
<1>10. ASSUME NEW rest \in Cut(Merge(existing[e], groups[e])), DieWriting(e, rest)
       PROVE  FileInv'
  <2> DEFINE text == Merge(existing[e], groups[e])
  <2>1. /\ epc[e] = "write" /\ Forget(e) /\ file' = rest
        /\ clean' = 0 /\ notes' = notes /\ excused' = excused \cup (notes \ NotesIn(rest))
    BY <1>10 DEF DieWriting
  <2>2. Good(existing[e])
    BY <2>1 DEF FileInv
  <2>3. Block(groups[e]) \in Seq(Token) /\ existing[e] \in Seq(Token) /\ Scraps \subseteq Token
    BY BlockTokens
  <2>4. text \in Seq(Token) /\ Ordered(text) /\ Placed(text, Notes \ excused)
    <3>1. Healed(text, Min({clean + 1, 2}))
      BY <1>3, <2>2, <2>3, MergeHeals DEF Good
    <3> QED
      BY <2>2, <2>3, <3>1, MergePlaced, MergeHasBody DEF Good, Healed
  <2>5. Ordered(rest) /\ Placed(rest, Notes \ excused)
    BY <2>3, <2>4, CutKeeps
  <2>6. Placed(rest, Notes \ excused')
    BY <2>1, <2>5 DEF Placed
  <2>7. Good(file)'
    BY <2>1, <2>5, <2>6 DEF Good, Healed
  <2> QED
    BY <1>4, <2>1, <2>7
<1> QED
  BY <1>5, <1>6, <1>7, <1>8, <1>9, <1>10 DEF Export

LEMMA AddNoteFileInv ==
  ASSUME LessonsInv, FileInv, NEW n \in Notes, NEW atTop \in BOOLEAN, AddNote(n, atTop)
  PROVE  FileInv'
<1> DEFINE raced == \E e \in Exporters : epc[e] \in {"open", "write"}
           swallowed == ~atTop /\ Contains(file, Start) /\ ~Contains(file, End)
<1>1. /\ UNCHANGED <<epc, existing, clean>>
      /\ notes' = notes \cup {n}
      /\ excused' = IF raced \/ swallowed THEN excused \cup {n} ELSE excused
      /\ file' = IF atTop THEN <<Note(n)>> \o file ELSE Append(file, Note(n))
  BY DEF AddNote
<1>2. file \in Seq(Token) /\ Note(n) \in Token
  BY DEF LessonsInv, TextsInv, Token
<1>3. /\ NotesIn(file) \cup {n} \subseteq NotesIn(file')
      /\ \A exports : Healed(file, exports) => Healed(file', exports)
      /\ \A some : Placed(file, some) =>
           /\ Placed(file', some \ {n})
           /\ atTop \/ ~Contains(file, Start) \/ Contains(file, End) => Placed(file', some)
  BY <1>1, <1>2, NoteKeeps
<1>4. ASSUME ~Writing, Good(file) PROVE Good(file)'
  <2>1. Placed(file', Notes \ excused')
    <3>1. CASE raced \/ swallowed
      <4>1. Notes \ excused' = (Notes \ excused) \ {n}
        BY <1>1, <3>1
      <4> QED
        BY <1>3, <1>4, <4>1 DEF Good
    <3>2. CASE ~(raced \/ swallowed)
      BY <1>1, <1>3, <1>4, <3>2 DEF Good
    <3> QED
      BY <3>1, <3>2
  <2>2. notes' \ excused' \subseteq NotesIn(file')
    <3> HIDE DEF raced, swallowed
    <3> QED
      BY <1>1, <1>3, <1>4 DEF Good
  <2>3. Healed(file', clean')
    BY <1>1, <1>3, <1>4 DEF Good
  <2> QED
    BY <2>1, <2>2, <2>3 DEF Good
<1>5. ASSUME NEW e \in Exporters, epc[e] \in {"open", "write"} PROVE Good(existing[e])'
  <2>1. excused' = excused \cup {n} /\ existing'[e] = existing[e] /\ clean' = clean
    BY <1>1, <1>5
  <2>2. Good(existing[e])
    BY <1>5 DEF FileInv
  <2>3. Placed(existing[e], Notes \ excused')
    BY <2>1, <2>2 DEF Good, Placed
  <2> QED
    BY <1>1, <2>1, <2>2, <2>3 DEF Good
<1> QED
  BY <1>1, <1>4, <1>5 DEF FileInv, Writing

LEMMA FileStep ==
  OneExporter /\ LessonsInv /\ FileInv /\ [LessonsNext]_<<analysis, export>> => FileInv'
<1> SUFFICES ASSUME OneExporter, LessonsInv, FileInv, [LessonsNext]_<<analysis, export>>
             PROVE  FileInv'
  OBVIOUS
<1>1. CASE UNCHANGED export
  BY <1>1 DEF export, FileInv, Good, Writing
<1>2. CASE \E e \in Exporters : Export(e)
  BY <1>2, ExportFileInv
<1>3. CASE \E n \in Notes, atTop \in BOOLEAN : AddNote(n, atTop)
  BY <1>3, AddNoteFileInv
<1> QED
  BY <1>1, <1>2, <1>3 DEF LessonsNext

LEMMA FileInvariance == ASSUME OneExporter PROVE LessonsSpec => []FileInv
BY FileInit, FileStep, LessonsInvariance, OneExporter, PTL DEF LessonsSpec

\* Between exports the file has what it owes, the notes of the user and what the last
\* export had to say, if one exporter runs at a time: over any number of exports, deaths
\* of exports and edits, a note is lost only where AddNote and DieWriting account for it.
THEOREM FileStaysWhole ==
  ASSUME OneExporter PROVE LessonsSpec => []FileIsWhole
<1>1. FileInv => NotesKept
  BY DEF FileInv, Good, NotesKept
<1> QED
  BY <1>1, FileInvariance, LessonsAreTraced, OneExporter, PTL DEF FileIsWhole

\* Whatever the death of an export has left, two completed exports later the file has one
\* generated block, if any, with its markers in order.
THEOREM FileHealsInTwo ==
  ASSUME OneExporter PROVE LessonsSpec => []HealsInTwo
<1>1. FileInv /\ LessonsInv => HealsInTwo
  <2> SUFFICES ASSUME FileInv, LessonsInv, ~Writing, clean = 2
               PROVE  /\ Count(file, Start) <= 1 /\ Count(file, End) = Count(file, Start)
                      /\ Contains(file, Start) => First(file, Start) < First(file, End)
    BY DEF HealsInTwo
  <2>1. Healed(file, 2) /\ Ordered(file)
    BY DEF FileInv, Good, Healed
  <2>2. file \in Seq(Token) /\ DOMAIN file = 1 .. Len(file)
    <3>1. file \in Seq(Token)
      BY DEF LessonsInv, TextsInv
    <3> QED
      BY <3>1, LenProperties
  <2>3. /\ Count(file, Start) = Cardinality(At(file, Start))
        /\ Count(file, End) = Cardinality(At(file, End))
    BY <2>2 DEF Count, At
  <2>4. CASE At(file, Start) = {}
    <3>1. At(file, End) = {}
      BY <2>1, <2>4 DEF Ordered
    <3> QED
      BY <2>3, <2>4, <3>1, FS_EmptySet, ContainsAt
  <2>5. CASE At(file, Start) # {}
    <3>1. PICK i \in At(file, Start), j \in At(file, End) :
            At(file, Start) = {i} /\ At(file, End) = {j} /\ i < j
      <4>1. At(file, End) # {} /\ \A i, k \in At(file, Start) : i = k
        BY <2>1, <2>5 DEF Healed
      <4> QED
        BY <2>1, <2>5, <4>1 DEF Ordered
    <3>2. Cardinality({i}) = 1 /\ Cardinality({j}) = 1
      BY FS_Singleton
    <3>3. First(file, Start) = i /\ First(file, End) = j
      <4>1. Contains(file, Start) /\ Contains(file, End)
        BY <3>1, ContainsAt
      <4>2. First(file, Start) \in At(file, Start) /\ First(file, End) \in At(file, End)
        BY <2>2, <4>1, FirstIs DEF At
      <4> QED
        BY <3>1, <4>2
    <3> QED
      BY <2>3, <3>1, <3>2, <3>3
  <2> QED
    BY <2>4, <2>5
<1> QED
  BY <1>1, FileInvariance, LessonsInvariance, OneExporter, PTL

-----------------------------------------------------------------------------
(* What the digest picks: the best and the worst ticket of a day. *)

LEMMA RowNumbers ==
  ASSUME DigestTypeOK
  PROVE  /\ Len(rows) \in Nat /\ DOMAIN rows = 1 .. Len(rows)
         /\ rows # <<>> <=> Len(rows) >= 1
         /\ \A i \in 1 .. Len(rows) : rows[i] \in DayRow /\ rows[i].pnl \in Int
<1>1. rows \in Seq(DayRow)
  BY DEF DigestTypeOK
<1>2. \A r \in DayRow : r.pnl \in Int
  BY DigestAssumption DEF DayRow
<1> QED
  BY <1>1, <1>2, LenProperties, ElementOfSeq, EmptySeq

\* A scan that keeps the better ticket has the first of the best ones of what it has seen.
LEMMA BestIsFirst ==
  ASSUME DigestTypeOK, rows # <<>>
  PROVE  /\ Best \in 1 .. Len(rows)
         /\ \A i \in 1 .. Len(rows) :
              /\ rows[i].pnl <= rows[Best].pnl
              /\ rows[i].pnl = rows[Best].pnl => Best <= i
<1> DEFINE n == Len(rows)
           D == 1 .. n
           c == LastOf(D)
           V == 1 .. n
           step == [pair \in V \X D |-> Better(pair[1], Indices[pair[2]])]
           Table(k) == k = [s \in SUBSET D |->
             IF s = {} THEN 1 ELSE Better(k[s \ {Max(s)}], Indices[Max(s)])]
<1>1. /\ n \in Nat /\ n >= 1 /\ D = DOMAIN rows /\ DOMAIN Indices = D
      /\ \A i \in D : rows[i].pnl \in Int /\ Indices[i] = i
  BY RowNumbers DEF Indices
<1>2. IsFiniteSet(D) /\ Chooses(c, D)
  BY <1>1, LastChooses
<1>3. \A s \in SUBSET D : c[s] = Max(s)
  BY DEF LastOf
<1>4. ASSUME NEW s \in SUBSET D, s # {}
      PROVE  Max(s) \in s /\ \A i \in s : i <= Max(s)
  <2>1. n \in Nat /\ s \in SUBSET (0 .. n)
    BY <1>1
  <2> HIDE DEF n
  <2> QED
    BY <1>4, <2>1, MaxIsGreatest
<1>5. 1 \in V /\ \A b \in V, i \in D : Better(b, Indices[i]) \in V
  BY <1>1 DEF Better
<1>6. step \in [V \X D -> V]
  BY <1>5
<1>7. \E k : Table(k)
  <2> DEFINE base == 1
  <2>1. \E g \in [SUBSET D -> V] : FoldTable(g, D, base, step, c)
    <3>1. base \in V
      BY <1>5
    <3> HIDE DEF D, V, c, step, base
    <3> QED
      BY <1>2, <1>6, <3>1, Recursion
  <2>2. PICK g \in [SUBSET D -> V] : FoldTable(g, D, base, step, c)
    BY <2>1
  <2>3. ASSUME NEW s \in SUBSET D
        PROVE  g[s] = IF s = {} THEN 1 ELSE Better(g[s \ {Max(s)}], Indices[Max(s)])
    <3>1. CASE s = {}
      BY <2>2, <3>1 DEF FoldTable, Follows
    <3>2. CASE s # {}
      <4>1. g[s] = step[<<g[s \ {c[s]}], c[s]>>]
        BY <2>2, <3>2 DEF FoldTable, Follows
      <4>2. c[s] \in D /\ g[s \ {c[s]}] \in V
        BY <1>2, <3>2 DEF Chooses
      <4>3. step[<<g[s \ {c[s]}], c[s]>>] = Better(g[s \ {c[s]}], Indices[c[s]])
        BY <4>2
      <4> HIDE DEF step
      <4> QED
        BY <1>3, <3>2, <4>1, <4>3
    <3> QED
      BY <3>1, <3>2
  <2> HIDE DEF D, step
  <2>4. Table(g)
    BY <2>3
  <2> QED
    BY <2>4
<1>8. PICK k : Table(k) /\ Best = k[D]
  <2>1. FoldLeft(Better, 1, Indices) = (CHOOSE k : Table(k))[D]
    BY <1>1 DEF FoldLeft, MapThenFoldSet
  <2>2. Table(CHOOSE k : Table(k))
    <3> HIDE DEF Table
    <3> QED
      BY <1>7
  <2> QED
    BY <2>1, <2>2 DEF Best
<1> DEFINE First1(s, b) == /\ b \in s \cup {1}
                          /\ \A i \in s \cup {1} :
                               rows[i].pnl <= rows[b].pnl /\ (rows[i].pnl = rows[b].pnl => b <= i)
           W == [s \in SUBSET D |-> {b \in V : First1(s, b)}]
<1>9. k[D] \in W[D]
  <2>1. k[{}] \in W[{}]
    <3>1. k[{}] = 1 /\ First1({}, 1)
      BY <1>1, <1>8
    <3> QED
      BY <1>5, <3>1
  <2>2. ASSUME NEW s \in SUBSET D, s # {}, k[s \ {c[s]}] \in W[s \ {c[s]}]
        PROVE  k[s] \in W[s]
    <3> DEFINE m == Max(s)
               rest == s \ {m}
               b == k[rest]
    <3>1. /\ m \in s /\ m \in D /\ \A i \in s : i <= m
          /\ rest \in SUBSET D /\ s = rest \cup {m}
      BY <1>4, <2>2
    <3>2. b \in V /\ First1(rest, b)
      BY <1>3, <2>2, <3>1
    <3>3. k[s] = Better(b, Indices[m])
      BY <1>8, <2>2
    <3>4. k[s] = IF rows[m].pnl > rows[b].pnl THEN m ELSE b
      BY <1>1, <3>1, <3>3 DEF Better
    <3> HIDE DEF m, rest, b
    <3>5. b <= m
      BY <1>1, <3>1, <3>2
    <3>6. CASE rows[m].pnl > rows[b].pnl
      <4>1. First1(s, m)
        BY <1>1, <3>1, <3>2, <3>6
      <4> QED
        BY <3>1, <3>4, <3>6, <4>1
    <3>7. CASE ~(rows[m].pnl > rows[b].pnl)
      <4>1. First1(s, b)
        BY <1>1, <3>1, <3>2, <3>5, <3>7
      <4> QED
        BY <3>2, <3>4, <3>7, <4>1
    <3> QED
      BY <3>6, <3>7
  <2> HIDE DEF W, D, c, V
  <2> QED
    BY <1>2, <2>1, <2>2, FoldKeeps
<1>10. First1(D, Best) /\ Best \in V
  BY <1>8, <1>9
<1>11. D \cup {1} = D
  BY <1>1
<1> QED
  BY <1>10, <1>11

\* In the same way for the worst.
LEMMA WorstIsFirst ==
  ASSUME DigestTypeOK, rows # <<>>
  PROVE  /\ Worst \in 1 .. Len(rows)
         /\ \A i \in 1 .. Len(rows) :
              /\ rows[i].pnl >= rows[Worst].pnl
              /\ rows[i].pnl = rows[Worst].pnl => Worst <= i
<1> DEFINE n == Len(rows)
           D == 1 .. n
           c == LastOf(D)
           V == 1 .. n
           step == [pair \in V \X D |-> Worse(pair[1], Indices[pair[2]])]
           Table(k) == k = [s \in SUBSET D |->
             IF s = {} THEN 1 ELSE Worse(k[s \ {Max(s)}], Indices[Max(s)])]
<1>1. /\ n \in Nat /\ n >= 1 /\ D = DOMAIN rows /\ DOMAIN Indices = D
      /\ \A i \in D : rows[i].pnl \in Int /\ Indices[i] = i
  BY RowNumbers DEF Indices
<1>2. IsFiniteSet(D) /\ Chooses(c, D)
  BY <1>1, LastChooses
<1>3. \A s \in SUBSET D : c[s] = Max(s)
  BY DEF LastOf
<1>4. ASSUME NEW s \in SUBSET D, s # {}
      PROVE  Max(s) \in s /\ \A i \in s : i <= Max(s)
  <2>1. n \in Nat /\ s \in SUBSET (0 .. n)
    BY <1>1
  <2> HIDE DEF n
  <2> QED
    BY <1>4, <2>1, MaxIsGreatest
<1>5. 1 \in V /\ \A b \in V, i \in D : Worse(b, Indices[i]) \in V
  BY <1>1 DEF Worse
<1>6. step \in [V \X D -> V]
  BY <1>5
<1>7. \E k : Table(k)
  <2> DEFINE base == 1
  <2>1. \E g \in [SUBSET D -> V] : FoldTable(g, D, base, step, c)
    <3>1. base \in V
      BY <1>5
    <3> HIDE DEF D, V, c, step, base
    <3> QED
      BY <1>2, <1>6, <3>1, Recursion
  <2>2. PICK g \in [SUBSET D -> V] : FoldTable(g, D, base, step, c)
    BY <2>1
  <2>3. ASSUME NEW s \in SUBSET D
        PROVE  g[s] = IF s = {} THEN 1 ELSE Worse(g[s \ {Max(s)}], Indices[Max(s)])
    <3>1. CASE s = {}
      BY <2>2, <3>1 DEF FoldTable, Follows
    <3>2. CASE s # {}
      <4>1. g[s] = step[<<g[s \ {c[s]}], c[s]>>]
        BY <2>2, <3>2 DEF FoldTable, Follows
      <4>2. c[s] \in D /\ g[s \ {c[s]}] \in V
        BY <1>2, <3>2 DEF Chooses
      <4>3. step[<<g[s \ {c[s]}], c[s]>>] = Worse(g[s \ {c[s]}], Indices[c[s]])
        BY <4>2
      <4> HIDE DEF step
      <4> QED
        BY <1>3, <3>2, <4>1, <4>3
    <3> QED
      BY <3>1, <3>2
  <2> HIDE DEF D, step
  <2>4. Table(g)
    BY <2>3
  <2> QED
    BY <2>4
<1>8. PICK k : Table(k) /\ Worst = k[D]
  <2>1. FoldLeft(Worse, 1, Indices) = (CHOOSE k : Table(k))[D]
    BY <1>1 DEF FoldLeft, MapThenFoldSet
  <2>2. Table(CHOOSE k : Table(k))
    <3> HIDE DEF Table
    <3> QED
      BY <1>7
  <2> QED
    BY <2>1, <2>2 DEF Worst
<1> DEFINE First1(s, b) == /\ b \in s \cup {1}
                          /\ \A i \in s \cup {1} :
                               rows[i].pnl >= rows[b].pnl /\ (rows[i].pnl = rows[b].pnl => b <= i)
           W == [s \in SUBSET D |-> {b \in V : First1(s, b)}]
<1>9. k[D] \in W[D]
  <2>1. k[{}] \in W[{}]
    <3>1. k[{}] = 1 /\ First1({}, 1)
      BY <1>1, <1>8
    <3> QED
      BY <1>5, <3>1
  <2>2. ASSUME NEW s \in SUBSET D, s # {}, k[s \ {c[s]}] \in W[s \ {c[s]}]
        PROVE  k[s] \in W[s]
    <3> DEFINE m == Max(s)
               rest == s \ {m}
               b == k[rest]
    <3>1. /\ m \in s /\ m \in D /\ \A i \in s : i <= m
          /\ rest \in SUBSET D /\ s = rest \cup {m}
      BY <1>4, <2>2
    <3>2. b \in V /\ First1(rest, b)
      BY <1>3, <2>2, <3>1
    <3>3. k[s] = Worse(b, Indices[m])
      BY <1>8, <2>2
    <3>4. k[s] = IF rows[m].pnl < rows[b].pnl THEN m ELSE b
      BY <1>1, <3>1, <3>3 DEF Worse
    <3> HIDE DEF m, rest, b
    <3>5. b <= m
      BY <1>1, <3>1, <3>2
    <3>6. CASE rows[m].pnl < rows[b].pnl
      <4>1. First1(s, m)
        BY <1>1, <3>1, <3>2, <3>6
      <4> QED
        BY <3>1, <3>4, <3>6, <4>1
    <3>7. CASE ~(rows[m].pnl < rows[b].pnl)
      <4>1. First1(s, b)
        BY <1>1, <3>1, <3>2, <3>5, <3>7
      <4> QED
        BY <3>2, <3>4, <3>7, <4>1
    <3> QED
      BY <3>6, <3>7
  <2> HIDE DEF W, D, c, V
  <2> QED
    BY <1>2, <2>1, <2>2, FoldKeeps
<1>10. First1(D, Worst) /\ Worst \in V
  BY <1>8, <1>9
<1>11. D \cup {1} = D
  BY <1>1
<1> QED
  BY <1>10, <1>11

-----------------------------------------------------------------------------
(* What the digest picks: the lessons noted most often. *)

Tallies == [counter : [Texts -> Nat], first_seen : [Texts -> Nat], sequence : Nat]

\* The places of the lessons in some rows, those of one lesson, and what is there.
NotedAt(p) == rows[p[1]].lessons[p[2]]
PlacesIn(t) ==
  {p \in t \X (1 .. MaxLessons) :
     /\ rows[p[1]].lessons # Unreadable
     /\ p[2] \in DOMAIN rows[p[1]].lessons}
Noting(P, l) == {p \in P : NotedAt(p) = l}

\* A running state that has counted these places: of two lessons it saw first the one
\* that has the first place.
Counts(state, P) ==
  /\ P \in SUBSET (Nat \X Nat) /\ IsFiniteSet(P)
  /\ \A l \in Texts : state.counter[l] = Cardinality(Noting(P, l))
  /\ \A l \in Texts : state.counter[l] > 0 => state.first_seen[l] < state.sequence
  /\ \A l, m \in Texts : l # m /\ state.counter[l] > 0 /\ state.counter[m] > 0 =>
       /\ state.first_seen[l] # state.first_seen[m]
       /\ state.first_seen[l] < state.first_seen[m] =>
            \E p \in Noting(P, l) : \A q \in Noting(P, m) : Earlier(p, q)

LEMMA TallyType ==
  ASSUME NEW state \in Tallies, NEW l \in Texts \cup {Blank}
  PROVE  Tally(state, l) \in Tallies
BY DigestAssumption DEF Tally, Tallies

LEMMA NothingCounted == NoTally \in Tallies /\ Counts(NoTally, {})
<1>1. NoTally \in Tallies
  BY DEF NoTally, NoCount, Tallies
<1>2. \A l : Noting({}, l) = {}
  BY DEF Noting
<1>3. \A l \in Texts : NoTally.counter[l] = 0
  BY DEF NoTally, NoCount
<1> QED
  BY <1>1, <1>2, <1>3, FS_EmptySet DEF Counts

\* One place more, behind those that have been counted.
LEMMA CountPlace ==
  ASSUME NEW state \in Tallies, NEW P, Counts(state, P),
         NEW x \in Nat \X Nat, x \notin P, \A p \in P : Earlier(p, x),
         NotedAt(x) \in Texts \cup {Blank}
  PROVE  Counts(Tally(state, NotedAt(x)), P \cup {x})
<1> DEFINE a == NotedAt(x)
           new == Tally(state, a)
           Q == P \cup {x}
<1>1. /\ state.counter \in [Texts -> Nat] /\ state.first_seen \in [Texts -> Nat]
      /\ state.sequence \in Nat
  BY DEF Tallies
<1>2. Q \in SUBSET (Nat \X Nat) /\ IsFiniteSet(Q)
  BY FS_AddElement DEF Counts
<1>3. /\ \A l : l # a => Noting(Q, l) = Noting(P, l)
      /\ Noting(Q, a) = Noting(P, a) \cup {x} /\ x \notin Noting(P, a)
  BY DEF Noting
<1>4. \A l : IsFiniteSet(Noting(P, l)) /\ Cardinality(Noting(P, l)) \in Nat
  <2>1. \A l : Noting(P, l) \in SUBSET P
    BY DEF Noting
  <2> QED
    BY <2>1, FS_Subset, FS_CardinalityType DEF Counts
<1>5. CASE a = Blank
  <2>1. new = state
    BY <1>5 DEF Tally
  <2>2. \A l \in Texts : Noting(Q, l) = Noting(P, l)
    BY <1>3, <1>5, DigestAssumption
  <2> HIDE DEF new, Q, a
  <2> QED
    BY <1>2, <2>1, <2>2 DEF Counts, new, Q, a
<1>6. CASE a \in Texts
  <2>1. /\ new.counter = [state.counter EXCEPT ![a] = @ + 1]
        /\ new.first_seen = IF state.counter[a] = 0
                            THEN [state.first_seen EXCEPT ![a] = state.sequence]
                            ELSE state.first_seen
        /\ new.sequence = state.sequence + 1
    BY <1>6, DigestAssumption DEF Tally
  <2> HIDE DEF new, Q, a
  <2>2. /\ new.counter[a] = state.counter[a] + 1 /\ state.counter[a] \in Nat
        /\ \A l \in Texts : l # a => new.counter[l] = state.counter[l]
    BY <1>1, <1>6, <2>1
  <2>3. /\ state.counter[a] = 0 => new.first_seen[a] = state.sequence
        /\ state.counter[a] # 0 => new.first_seen[a] = state.first_seen[a]
        /\ \A l \in Texts : l # a => new.first_seen[l] = state.first_seen[l]
    BY <1>1, <1>6, <2>1
  <2>4. ASSUME NEW l \in Texts PROVE new.counter[l] = Cardinality(Noting(Q, l))
    <3>1. CASE l = a
      BY <1>3, <1>4, <2>2, <3>1, FS_AddElement DEF Counts
    <3>2. CASE l # a
      BY <1>3, <2>2, <3>2 DEF Counts
    <3> QED
      BY <3>1, <3>2
  <2>5. ASSUME NEW l \in Texts, new.counter[l] > 0
        PROVE  new.first_seen[l] < new.sequence
    <3>1. CASE l = a
      BY <1>1, <1>6, <2>1, <2>2, <2>3, <3>1 DEF Counts
    <3>2. CASE l # a
      BY <1>1, <2>1, <2>2, <2>3, <2>5, <3>2 DEF Counts
    <3> QED
      BY <3>1, <3>2
  <2>6. ASSUME NEW l \in Texts, state.counter[l] > 0 PROVE Noting(P, l) # {}
    <3>1. state.counter[l] = Cardinality(Noting(P, l)) /\ Cardinality({}) = 0
      BY FS_EmptySet DEF Counts
    <3> QED
      BY <2>6, <3>1
  <2>7. \A l \in Texts : state.counter[l] = 0 => Noting(P, l) = {}
    BY <1>4, FS_EmptySet DEF Counts
  <2>8. \A l : \A p \in Noting(P, l) : Earlier(p, x)
    BY DEF Noting
  <2>9. ASSUME NEW l \in Texts, NEW m \in Texts, l # m,
               new.counter[l] > 0, new.counter[m] > 0
        PROVE  /\ new.first_seen[l] # new.first_seen[m]
               /\ new.first_seen[l] < new.first_seen[m] =>
                    \E p \in Noting(Q, l) : \A q \in Noting(Q, m) : Earlier(p, q)
    <3>1. CASE l # a /\ m # a
      BY <1>3, <2>2, <2>3, <2>9, <3>1 DEF Counts
    <3>2. CASE l = a /\ state.counter[a] = 0
      <4>1. state.first_seen[m] < state.sequence
        BY <2>2, <2>9, <3>2 DEF Counts
      <4> QED
        BY <1>1, <2>3, <2>9, <3>2, <4>1
    <3>3. CASE m = a /\ state.counter[a] = 0
      <4>1. state.first_seen[l] < state.sequence /\ state.counter[l] > 0
        BY <2>2, <2>9, <3>3 DEF Counts
      <4>2. Noting(Q, m) = {x} /\ Noting(Q, l) = Noting(P, l)
        BY <1>3, <2>7, <2>9, <3>3
      <4>3. \E p \in Noting(Q, l) : \A q \in Noting(Q, m) : Earlier(p, q)
        BY <2>6, <2>8, <4>1, <4>2
      <4> QED
        BY <1>1, <2>3, <2>9, <3>3, <4>1, <4>3
    <3>4. CASE (l = a \/ m = a) /\ state.counter[a] # 0
      <4>1. /\ new.first_seen[l] = state.first_seen[l] /\ new.first_seen[m] = state.first_seen[m]
            /\ state.counter[l] > 0 /\ state.counter[m] > 0
        BY <2>2, <2>3, <2>9, <3>4
      <4>2. /\ state.first_seen[l] # state.first_seen[m]
            /\ state.first_seen[l] < state.first_seen[m] =>
                 \E p \in Noting(P, l) : \A q \in Noting(P, m) : Earlier(p, q)
        BY <2>9, <4>1 DEF Counts
      <4>3. Noting(P, l) \subseteq Noting(Q, l) /\ Noting(Q, m) \subseteq Noting(P, m) \cup {x}
        BY <1>3
      <4> QED
        BY <2>8, <4>1, <4>2, <4>3
    <3> QED
      BY <3>1, <3>2, <3>3, <3>4
  <2> QED
    BY <1>2, <2>4, <2>5, <2>9 DEF Counts, new, Q, a
<1> QED
  BY <1>5, <1>6

LEMMA RowLessons ==
  ASSUME DigestTypeOK, NEW m \in 1 .. Len(rows), rows[m].lessons # Unreadable
  PROVE  \E n \in 0 .. MaxLessons : rows[m].lessons \in [1 .. n -> Texts \cup {Blank}]
<1>1. rows[m] \in DayRow
  BY RowNumbers
<1>2. rows[m].lessons \in SeqOf(Texts \cup {Blank}, MaxLessons)
  BY <1>1 DEF DayRow
<1> QED
  BY <1>2 DEF SeqOf

\* The loop over the lessons of a row counts their places.
LEMMA ScanRow ==
  ASSUME DigestTypeOK, NEW m \in 1 .. Len(rows), rows[m].lessons # Unreadable,
         NEW state \in Tallies
  PROVE  LET end == FoldLeft(Tally, state, rows[m].lessons) IN
         /\ end \in Tallies
         /\ \A P : Counts(state, P) /\ (\A p \in P : p[1] < m) =>
              Counts(end, P \cup ({m} \X DOMAIN rows[m].lessons))
<1> DEFINE lessons == rows[m].lessons
<1>1. PICK n \in 0 .. MaxLessons : lessons \in [1 .. n -> Texts \cup {Blank}]
  BY RowLessons
<1> DEFINE D == 1 .. n
           c == LastOf(D)
           V == Tallies
           step == [pair \in V \X D |-> Tally(pair[1], lessons[pair[2]])]
           Table(k) == k = [s \in SUBSET D |->
             IF s = {} THEN state ELSE Tally(k[s \ {Max(s)}], lessons[Max(s)])]
<1>2. n \in Nat /\ D = DOMAIN lessons /\ \A i \in D : lessons[i] \in Texts \cup {Blank}
  BY <1>1, DigestAssumption
<1>3. IsFiniteSet(D) /\ Chooses(c, D) /\ \A s \in SUBSET D : c[s] = Max(s)
  BY <1>2, LastChooses DEF LastOf
<1>4. ASSUME NEW s \in SUBSET D, s # {}
      PROVE  Max(s) \in s /\ \A i \in s : i <= Max(s)
  <2>1. s \in SUBSET (0 .. n)
    OBVIOUS
  <2> QED
    BY <1>2, <1>4, <2>1, MaxIsGreatest
<1>5. \A v \in V, i \in D : Tally(v, lessons[i]) \in V
  BY <1>2, TallyType
<1>6. step \in [V \X D -> V]
  BY <1>5
<1> HIDE DEF lessons
<1>7. \E k : Table(k)
  <2>1. \E g \in [SUBSET D -> V] : FoldTable(g, D, state, step, c)
    <3> HIDE DEF D, V, c, step
    <3> QED
      BY <1>3, <1>6, Recursion DEF V
  <2>2. PICK g \in [SUBSET D -> V] : FoldTable(g, D, state, step, c)
    BY <2>1
  <2>3. ASSUME NEW s \in SUBSET D
        PROVE  g[s] = IF s = {} THEN state ELSE Tally(g[s \ {Max(s)}], lessons[Max(s)])
    <3>1. CASE s = {}
      BY <2>2, <3>1 DEF FoldTable, Follows
    <3>2. CASE s # {}
      <4>1. g[s] = step[<<g[s \ {c[s]}], c[s]>>]
        BY <2>2, <3>2 DEF FoldTable, Follows
      <4>2. c[s] \in D /\ g[s \ {c[s]}] \in V
        BY <1>3, <3>2 DEF Chooses
      <4>3. step[<<g[s \ {c[s]}], c[s]>>] = Tally(g[s \ {c[s]}], lessons[c[s]])
        BY <4>2
      <4> HIDE DEF step
      <4> QED
        BY <1>3, <3>2, <4>1, <4>3
    <3> QED
      BY <3>1, <3>2
  <2> HIDE DEF D, step
  <2>4. Table(g)
    BY <2>3
  <2> QED
    BY <2>4
<1>8. PICK k : Table(k) /\ FoldLeft(Tally, state, lessons) = k[D]
  <2>1. FoldLeft(Tally, state, lessons) = (CHOOSE k : Table(k))[D]
    BY <1>2 DEF FoldLeft, MapThenFoldSet
  <2>2. Table(CHOOSE k : Table(k))
    <3> HIDE DEF Table
    <3> QED
      BY <1>7
  <2> QED
    BY <2>1, <2>2
<1>9. k[{}] = state
  BY <1>8
<1>10. ASSUME NEW s \in SUBSET D, s # {}
       PROVE  k[s] = Tally(k[s \ {Max(s)}], lessons[Max(s)]) /\ c[s] = Max(s)
  BY <1>3, <1>8, <1>10
<1>11. k[D] \in V
  <2> DEFINE W == [s \in SUBSET D |-> V]
  <2>1. k[{}] \in W[{}]
    BY <1>9
  <2>2. ASSUME NEW s \in SUBSET D, s # {}, k[s \ {c[s]}] \in W[s \ {c[s]}]
        PROVE  k[s] \in W[s]
    <3>1. /\ Max(s) \in D /\ k[s \ {Max(s)}] \in V
          /\ k[s] = Tally(k[s \ {Max(s)}], lessons[Max(s)])
      BY <1>4, <1>10, <2>2
    <3> HIDE DEF V, D
    <3>2. k[s] \in V
      BY <1>5, <3>1
    <3> QED
      BY <3>2
  <2>3. W[D] = V
    OBVIOUS
  <2> HIDE DEF W, D, c, V
  <2>4. k[D] \in W[D]
    BY <1>3, <2>1, <2>2, FoldKeeps
  <2> QED
    BY <2>3, <2>4
<1>12. ASSUME NEW P, Counts(state, P), \A p \in P : p[1] < m
       PROVE  Counts(k[D], P \cup ({m} \X D))
  <2> DEFINE W == [s \in SUBSET D |-> {v \in V : Counts(v, P \cup ({m} \X s))}]
  <2>1. k[{}] \in W[{}]
    <3>1. P \cup ({m} \X {}) = P
      OBVIOUS
    <3> QED
      BY <1>9, <1>12, <3>1
  <2>2. ASSUME NEW s \in SUBSET D, s # {}, k[s \ {c[s]}] \in W[s \ {c[s]}]
        PROVE  k[s] \in W[s]
    <3> DEFINE j == Max(s)
               rest == s \ {j}
               Q == P \cup ({m} \X rest)
               x == <<m, j>>
    <3>1. /\ j \in s /\ j \in D /\ \A i \in s : i <= j
          /\ rest \in SUBSET D /\ s = rest \cup {j} /\ j \notin rest
      BY <1>4, <2>2
    <3>2. k[rest] \in V /\ Counts(k[rest], Q)
      BY <1>10, <2>2, <3>1
    <3>3. k[s] = Tally(k[rest], lessons[j])
      BY <1>10, <2>2
    <3>4. lessons[j] = NotedAt(x) /\ lessons[j] \in Texts \cup {Blank}
      BY <1>2, <3>1 DEF NotedAt, lessons
    <3>5. P \cup ({m} \X s) = Q \cup {x}
      BY <3>1
    <3>6. m \in Nat /\ j \in Nat
      BY <3>1, RowNumbers
    <3> HIDE DEF j, rest
    <3>7. x \in Nat \X Nat /\ x[1] = m /\ x[2] = j
      BY <3>6
    <3>8. ASSUME NEW p \in Q PROVE Earlier(p, x) /\ p # x
      <4>1. CASE p \in P
        <5>1. p[1] < m /\ p[1] \in Nat
          BY <1>12, <4>1 DEF Counts
        <5> QED
          BY <3>6, <3>7, <5>1 DEF Earlier
      <4>2. CASE p \in {m} \X rest
        <5>1. p[1] = m /\ p[2] \in rest
          BY <4>2
        <5>2. p[2] \in Nat /\ p[2] <= j /\ p[2] # j
          <6> DEFINE i == p[2]
          <6>1. i \in rest
            BY <5>1
          <6> HIDE DEF i
          <6>2. i \in D /\ i \in s /\ i # j
            BY <3>1, <6>1
          <6>3. i \in Nat /\ i <= j
            BY <3>1, <6>2
          <6> QED
            BY <6>2, <6>3 DEF i
        <5> QED
          BY <3>6, <3>7, <5>1, <5>2 DEF Earlier
      <4> QED
        BY <4>1, <4>2
    <3> HIDE DEF Q, x
    <3>9. Counts(k[s], Q \cup {x})
      BY <3>2, <3>3, <3>4, <3>7, <3>8, CountPlace
    <3> HIDE DEF V
    <3>10. k[s] \in V
      BY <1>5, <3>1, <3>2, <3>3
    <3> QED
      BY <3>5, <3>9, <3>10
  <2> HIDE DEF W, D, c, V
  <2>3. k[D] \in W[D]
    BY <1>3, <2>1, <2>2, FoldKeeps
  <2> QED
    BY <2>3 DEF W
<1> QED
  BY <1>2, <1>8, <1>11, <1>12 DEF lessons

\* The loop over the rows counts the places of the day.
LEMMA DayCounted ==
  ASSUME DigestTypeOK
  PROVE  Tallied \in Tallies /\ Counts(Tallied, PlacesIn(1 .. Len(rows)))
<1> DEFINE n == Len(rows)
           D == 1 .. n
           c == LastOf(D)
           V == Tallies
           step == [pair \in V \X D |-> TallyRow(pair[1], rows[pair[2]])]
           Table(k) == k = [s \in SUBSET D |->
             IF s = {} THEN NoTally ELSE TallyRow(k[s \ {Max(s)}], rows[Max(s)])]
<1>1. n \in Nat /\ D = DOMAIN rows
  BY RowNumbers
<1>2. IsFiniteSet(D) /\ Chooses(c, D) /\ \A s \in SUBSET D : c[s] = Max(s)
  BY <1>1, LastChooses DEF LastOf
<1>3. ASSUME NEW s \in SUBSET D, s # {}
      PROVE  Max(s) \in s /\ \A i \in s : i <= Max(s)
  <2>1. n \in Nat /\ s \in SUBSET (0 .. n)
    BY <1>1
  <2> HIDE DEF n
  <2> QED
    BY <1>3, <2>1, MaxIsGreatest
<1>4. ASSUME NEW v \in V, NEW i \in D PROVE TallyRow(v, rows[i]) \in V
  BY ScanRow DEF TallyRow
<1>5. step \in [V \X D -> V]
  <2> HIDE DEF V, D
  <2> QED
    BY <1>4
<1>6. NoTally \in V /\ Counts(NoTally, {})
  BY NothingCounted
<1>7. \E k : Table(k)
  <2>1. \E g \in [SUBSET D -> V] : FoldTable(g, D, NoTally, step, c)
    <3> HIDE DEF D, V, c, step
    <3> QED
      BY <1>2, <1>5, <1>6, Recursion
  <2>2. PICK g \in [SUBSET D -> V] : FoldTable(g, D, NoTally, step, c)
    BY <2>1
  <2>3. ASSUME NEW s \in SUBSET D
        PROVE  g[s] = IF s = {} THEN NoTally ELSE TallyRow(g[s \ {Max(s)}], rows[Max(s)])
    <3>1. CASE s = {}
      BY <2>2, <3>1 DEF FoldTable, Follows
    <3>2. CASE s # {}
      <4>1. g[s] = step[<<g[s \ {c[s]}], c[s]>>]
        BY <2>2, <3>2 DEF FoldTable, Follows
      <4>2. c[s] \in D /\ g[s \ {c[s]}] \in V
        BY <1>2, <3>2 DEF Chooses
      <4>3. step[<<g[s \ {c[s]}], c[s]>>] = TallyRow(g[s \ {c[s]}], rows[c[s]])
        BY <4>2
      <4> HIDE DEF step
      <4> QED
        BY <1>2, <3>2, <4>1, <4>3
    <3> QED
      BY <3>1, <3>2
  <2> HIDE DEF D, step
  <2>4. Table(g)
    BY <2>3
  <2> QED
    BY <2>4
<1>8. PICK k : Table(k) /\ Tallied = k[D]
  <2>1. FoldLeft(TallyRow, NoTally, rows) = (CHOOSE k : Table(k))[D]
    BY <1>1 DEF FoldLeft, MapThenFoldSet
  <2>2. Table(CHOOSE k : Table(k))
    <3> HIDE DEF Table
    <3> QED
      BY <1>7
  <2> QED
    BY <2>1, <2>2 DEF Tallied
<1>9. k[{}] = NoTally
  BY <1>8
<1>10. ASSUME NEW s \in SUBSET D, s # {}
       PROVE  k[s] = TallyRow(k[s \ {Max(s)}], rows[Max(s)]) /\ c[s] = Max(s)
  BY <1>2, <1>8, <1>10
<1>11. k[D] \in V /\ Counts(k[D], PlacesIn(D))
  <2> DEFINE W == [s \in SUBSET D |-> {v \in V : Counts(v, PlacesIn(s))}]
  <2>1. k[{}] \in W[{}]
    <3>1. PlacesIn({}) = {}
      BY DEF PlacesIn
    <3> QED
      BY <1>6, <1>9, <3>1
  <2>2. ASSUME NEW s \in SUBSET D, s # {}, k[s \ {c[s]}] \in W[s \ {c[s]}]
        PROVE  k[s] \in W[s]
    <3> DEFINE m == Max(s)
               rest == s \ {m}
               P == PlacesIn(rest)
    <3>1. /\ m \in s /\ m \in D /\ \A i \in s : i <= m
          /\ rest \in SUBSET D /\ s = rest \cup {m} /\ m \notin rest
      BY <1>3, <2>2
    <3>2. k[rest] \in V /\ Counts(k[rest], P)
      BY <1>10, <2>2, <3>1
    <3>3. k[s] = TallyRow(k[rest], rows[m])
      BY <1>10, <2>2
    <3> HIDE DEF m, rest
    <3>4. CASE rows[m].lessons = Unreadable
      <4>1. PlacesIn(s) = P
        BY <3>1, <3>4 DEF PlacesIn
      <4>2. k[s] = k[rest]
        BY <3>3, <3>4 DEF TallyRow
      <4> QED
        BY <3>2, <4>1, <4>2
    <3>5. CASE rows[m].lessons # Unreadable
      <4>1. k[s] = FoldLeft(Tally, k[rest], rows[m].lessons)
        BY <3>3, <3>5 DEF TallyRow
      <4>2. DOMAIN rows[m].lessons \subseteq 1 .. MaxLessons
        <5>1. PICK j \in 0 .. MaxLessons : rows[m].lessons \in [1 .. j -> Texts \cup {Blank}]
          BY <3>1, <3>5, RowLessons
        <5>2. DOMAIN rows[m].lessons = 1 .. j
          BY <5>1
        <5> QED
          BY <5>2, DigestAssumption
      <4>3. PlacesIn(s) = P \cup ({m} \X DOMAIN rows[m].lessons)
        <5>1. ASSUME NEW p \in PlacesIn(s) PROVE p \in P \cup ({m} \X DOMAIN rows[m].lessons)
          BY <3>1 DEF PlacesIn
        <5>2. ASSUME NEW p \in {m} \X DOMAIN rows[m].lessons PROVE p \in PlacesIn(s)
          BY <3>1, <3>5, <4>2 DEF PlacesIn
        <5>3. P \subseteq PlacesIn(s)
          BY <3>1 DEF PlacesIn
        <5> QED
          BY <5>1, <5>2, <5>3
      <4>4. \A p \in P : p[1] < m
        <5> SUFFICES ASSUME NEW p \in P PROVE p[1] < m
          OBVIOUS
        <5> DEFINE i == p[1]
        <5>1. i \in rest
          BY DEF PlacesIn
        <5> HIDE DEF i
        <5>2. i \in D /\ i \in s /\ i # m /\ m \in D
          BY <3>1, <5>1
        <5>3. i <= m
          BY <3>1, <5>2
        <5>4. i < m
          BY <5>2, <5>3
        <5> QED
          BY <5>4 DEF i
      <4> HIDE DEF P
      <4>5. k[s] \in Tallies /\ Counts(k[s], P \cup ({m} \X DOMAIN rows[m].lessons))
        BY <3>1, <3>2, <3>5, <4>1, <4>4, ScanRow
      <4> QED
        BY <4>3, <4>5
    <3> QED
      BY <3>4, <3>5
  <2> HIDE DEF W, D, c, V
  <2>3. k[D] \in W[D]
    BY <1>2, <2>1, <2>2, FoldKeeps
  <2> QED
    BY <2>3 DEF W
<1> QED
  BY <1>8, <1>11

\* A lesson that is ranked before another precedes it in the day.
LEMMA BeforePrecedes ==
  ASSUME NEW state \in Tallies, NEW P, Counts(state, P), NEW l \in Texts, NEW m \in Texts,
         state.counter[l] > 0, state.counter[m] > 0
  PROVE  /\ l # m => Before(state, l, m) \/ Before(state, m, l)
         /\ ~(Before(state, l, m) /\ Before(state, m, l))
         /\ Before(state, l, m) =>
              \/ Cardinality(Noting(P, l)) > Cardinality(Noting(P, m))
              \/ /\ Cardinality(Noting(P, l)) = Cardinality(Noting(P, m))
                 /\ \E p \in Noting(P, l) : \A q \in Noting(P, m) : Earlier(p, q)
<1>1. /\ state.counter[l] \in Nat /\ state.counter[m] \in Nat
      /\ state.first_seen[l] \in Nat /\ state.first_seen[m] \in Nat
  BY DEF Tallies
<1>2. l # m => state.first_seen[l] # state.first_seen[m]
  BY DEF Counts
<1>3. Before(state, l, m) => l # m
  BY <1>1 DEF Before
<1>4. Before(state, l, m) =>
              \/ Cardinality(Noting(P, l)) > Cardinality(Noting(P, m))
              \/ /\ Cardinality(Noting(P, l)) = Cardinality(Noting(P, m))
                 /\ \E p \in Noting(P, l) : \A q \in Noting(P, m) : Earlier(p, q)
  BY <1>3 DEF Counts, Before
<1> QED
  BY <1>1, <1>2, <1>4 DEF Before

\* Each counted lesson has a rank, the number of those before it, and no two have the same:
\* there is a sequence in this order, and it has all of them.
LEMMA RankedIs ==
  ASSUME NEW state \in Tallies, NEW P, Counts(state, P),
         NEW counted, counted = {l \in Texts : state.counter[l] > 0}
  PROVE  LET s == Ranked(state) IN
         /\ IsFiniteSet(counted) /\ Cardinality(counted) \in Nat
         /\ s \in [1 .. Cardinality(counted) -> counted]
         /\ \A i, j \in 1 .. Cardinality(counted) : i < j => Before(state, s[i], s[j])
         /\ \A l \in counted : \E i \in 1 .. Cardinality(counted) : s[i] = l
<1> DEFINE N == Cardinality(counted)
           Sorted(s) == \A i, j \in DOMAIN s : i < j => Before(state, s[i], s[j])
<1>1. IsFiniteSet(counted) /\ N \in Nat
  <2> DEFINE b == [p \in P |-> NotedAt(p)]
  <2>1. IsFiniteSet({b[p] : p \in P})
    <3>1. IsFiniteSet(P)
      BY DEF Counts
    <3> HIDE DEF b
    <3> QED
      BY <3>1, ImageIsFinite
  <2>2. ASSUME NEW l \in counted PROVE l \in {b[p] : p \in P}
    <3>1. state.counter[l] = Cardinality(Noting(P, l)) /\ state.counter[l] > 0
      BY DEF Counts
    <3>2. Noting(P, l) # {}
      BY <3>1, FS_EmptySet
    <3> QED
      BY <3>2 DEF Noting
  <2>3. IsFiniteSet(counted)
    BY <2>1, <2>2, FS_Subset
  <2> QED
    BY <2>3, FS_CardinalityType
<1>2. \A l, m \in counted :
        /\ l # m => Before(state, l, m) \/ Before(state, m, l)
        /\ ~(Before(state, l, m) /\ Before(state, m, l))
  BY BeforePrecedes
<1>3. \A l, m, k \in counted :
        Before(state, l, m) /\ Before(state, m, k) => Before(state, l, k)
  <2>1. \A l \in Texts : state.counter[l] \in Nat /\ state.first_seen[l] \in Nat
    BY DEF Tallies
  <2> QED
    BY <2>1 DEF Before
<1> DEFINE Ahead(l) == {m \in counted : Before(state, m, l)}
           f == [l \in counted |-> Cardinality(Ahead(l)) + 1]
<1>4. \A l \in counted : IsFiniteSet(Ahead(l)) /\ Cardinality(Ahead(l)) \in 0 .. N - 1
  <2> SUFFICES ASSUME NEW l \in counted
               PROVE  IsFiniteSet(Ahead(l)) /\ Cardinality(Ahead(l)) \in 0 .. N - 1
    OBVIOUS
  <2>1. Ahead(l) \in SUBSET (counted \ {l})
    BY <1>2
  <2>2. IsFiniteSet(counted \ {l}) /\ Cardinality(counted \ {l}) = N - 1
    BY <1>1, FS_RemoveElement
  <2> HIDE DEF Ahead, N
  <2>3. IsFiniteSet(Ahead(l)) /\ Cardinality(Ahead(l)) <= N - 1
    BY <2>1, <2>2, FS_Subset
  <2>4. Cardinality(Ahead(l)) \in Nat
    BY <2>3, FS_CardinalityType
  <2> QED
    BY <1>1, <2>3, <2>4
<1>5. ASSUME NEW l \in counted, NEW m \in counted, Before(state, l, m)
      PROVE  f[l] < f[m]
  <2>1. Ahead(l) \subseteq Ahead(m) /\ l \in Ahead(m) /\ l \notin Ahead(l)
    BY <1>2, <1>3, <1>5
  <2>2. IsFiniteSet(Ahead(m)) /\ Cardinality(Ahead(m)) \in Int /\ Cardinality(Ahead(l)) \in Int
    <3>1. /\ l \in counted /\ m \in counted
          /\ \A k \in counted : IsFiniteSet(Ahead(k)) /\ Cardinality(Ahead(k)) \in 0 .. N - 1
      BY <1>4
    <3> HIDE DEF Ahead, N
    <3>2. \A i \in 0 .. N - 1 : i \in Int
      OBVIOUS
    <3> QED
      BY <3>1, <3>2
  <2>3. f[l] = Cardinality(Ahead(l)) + 1 /\ f[m] = Cardinality(Ahead(m)) + 1
    OBVIOUS
  <2> HIDE DEF Ahead, f
  <2>4. Cardinality(Ahead(l)) <= Cardinality(Ahead(m)) /\ Cardinality(Ahead(l)) # Cardinality(Ahead(m))
    BY <2>1, <2>2, FS_Subset
  <2> QED
    BY <2>2, <2>3, <2>4
<1>6. f \in [counted -> 1 .. N]
  <2>1. ASSUME NEW l \in counted PROVE Cardinality(Ahead(l)) + 1 \in 1 .. N
    <3> DEFINE n == Cardinality(Ahead(l))
    <3>1. n \in 0 .. N - 1 /\ N \in Nat
      BY <1>1, <1>4
    <3> HIDE DEF n, N
    <3>2. n + 1 \in 1 .. N
      BY <3>1
    <3> QED
      BY <3>2 DEF n
  <2> QED
    BY <2>1
<1> HIDE DEF f
<1>7. \A i \in 1 .. N : \E l \in counted : f[l] = i
  <2>1. \A l, m \in counted : f[l] = f[m] => l = m
    <3>1. \A l \in counted : f[l] \in Int
      BY <1>6
    <3> QED
      BY <1>2, <1>5, <3>1
  <2>2. f \in Injection(counted, 1 .. N)
    BY <1>6, <2>1 DEF Injection, IsInjective
  <2>3. IsFiniteSet(1 .. N) /\ Cardinality(1 .. N) = N
    <3> HIDE DEF N
    <3> QED
      BY <1>1, FS_Interval
  <2>4. f \in Surjection(counted, 1 .. N)
    BY <2>2, <2>3, FS_Injection
  <2> QED
    BY <2>4 DEF Surjection
<1>8. \E s \in [1 .. N -> counted] : Sorted(s)
  <2> DEFINE s == [i \in 1 .. N |-> CHOOSE l \in counted : f[l] = i]
  <2>1. \A i \in 1 .. N : s[i] \in counted /\ f[s[i]] = i
    BY <1>7
  <2>2. s \in [1 .. N -> counted]
    BY <2>1
  <2>3. ASSUME NEW i \in DOMAIN s, NEW j \in DOMAIN s, i < j PROVE Before(state, s[i], s[j])
    <3>1. i \in 1 .. N /\ j \in 1 .. N
      OBVIOUS
    <3> HIDE DEF s
    <3>2. s[i] \in counted /\ s[j] \in counted /\ f[s[i]] = i /\ f[s[j]] = j
      BY <2>1, <3>1
    <3>3. s[i] # s[j] /\ ~(f[s[j]] < f[s[i]])
      BY <2>3, <3>1, <3>2
    <3>4. ~Before(state, s[j], s[i])
      BY <1>5, <3>2, <3>3
    <3> QED
      BY <1>2, <3>2, <3>3, <3>4
  <2> QED
    BY <2>2, <2>3
<1> DEFINE r == Ranked(state)
<1>9. r \in [1 .. N -> counted] /\ Sorted(r)
  <2>1. r = CHOOSE s \in [1 .. N -> counted] : Sorted(s)
    BY DEF Ranked
  <2> HIDE DEF Sorted, N, r
  <2> QED
    BY <1>8, <2>1
<1> HIDE DEF r
<1>10. \A i, j \in 1 .. N : i < j => Before(state, r[i], r[j])
  BY <1>9
<1>11. \A l \in counted : \E i \in 1 .. N : r[i] = l
  <2>1. \A i, j \in 1 .. N : r[i] = r[j] => i = j
    <3> SUFFICES ASSUME NEW i \in 1 .. N, NEW j \in 1 .. N, r[i] = r[j], i # j PROVE FALSE
      OBVIOUS
    <3>1. r[i] \in counted
      BY <1>9
    <3>2. i < j \/ j < i
      BY <1>1
    <3>3. Before(state, r[i], r[i])
      BY <1>10, <3>2
    <3> QED
      BY <1>2, <3>1, <3>3
  <2>2. r \in Injection(1 .. N, counted)
    BY <1>9, <2>1 DEF Injection, IsInjective
  <2>3. Cardinality(1 .. N) = Cardinality(counted)
    <3>1. N = Cardinality(counted)
      OBVIOUS
    <3> HIDE DEF N
    <3>2. Cardinality(1 .. N) = N
      BY <1>1, FS_Interval
    <3> QED
      BY <3>1, <3>2
  <2>4. r \in Surjection(1 .. N, counted)
    BY <1>1, <2>2, <2>3, FS_Injection
  <2> QED
    BY <2>4 DEF Surjection
<1> QED
  BY <1>1, <1>9, <1>10, <1>11 DEF r

\* Of two lessons that were noted, the one that is noted more often, or as often and
\* first: Precedes for the places of any rows.
Comes(P, a, b) ==
  \/ Cardinality(Noting(P, a)) > Cardinality(Noting(P, b))
  \/ /\ Cardinality(Noting(P, a)) = Cardinality(Noting(P, b))
     /\ \E p \in Noting(P, a) : \A q \in Noting(P, b) : Earlier(p, q)

\* The lessons that are shown, in terms of places in the day.
LEMMA TopLessonsShow ==
  ASSUME DigestTypeOK,
         NEW P, P = PlacesIn(1 .. Len(rows)),
         NEW noted, noted = {l \in Texts : Noting(P, l) # {}}
  PROVE  /\ TopLessons \in Seq(Texts) /\ Len(TopLessons) <= Limit
         /\ ToSet(TopLessons) \subseteq noted
         /\ Len(TopLessons) = Min({Limit, Cardinality(noted)})
         /\ \A i \in DOMAIN TopLessons :
              /\ \A j \in i + 1 .. Len(TopLessons) : Comes(P, TopLessons[i], TopLessons[j])
              /\ \A l \in noted \ ToSet(TopLessons) : Comes(P, TopLessons[i], l)
<1> DEFINE s == Ranked(Tallied)
           N == Cardinality(noted)
           k == Min({Limit, N})
           top == SubSeq(s, 1, k)
<1>1. Tallied \in Tallies /\ Counts(Tallied, P)
  BY DayCounted
<1>2. noted = {l \in Texts : Tallied.counter[l] > 0}
  <2> SUFFICES ASSUME NEW l \in Texts PROVE Noting(P, l) # {} <=> Tallied.counter[l] > 0
    OBVIOUS
  <2>1. Tallied.counter[l] = Cardinality(Noting(P, l)) /\ Tallied.counter[l] \in Nat
    BY <1>1 DEF Counts, Tallies
  <2>2. IsFiniteSet(Noting(P, l))
    <3>1. Noting(P, l) \in SUBSET P /\ IsFiniteSet(P)
      BY <1>1 DEF Counts, Noting
    <3> QED
      BY <3>1, FS_Subset
  <2> QED
    BY <2>1, <2>2, FS_EmptySet
<1>3. /\ N \in Nat /\ s \in [1 .. N -> noted]
      /\ \A i, j \in 1 .. N : i < j => Before(Tallied, s[i], s[j])
      /\ \A l \in noted : \E i \in 1 .. N : s[i] = l
  BY <1>1, <1>2, RankedIs
<1>4. \A a, b \in noted : Before(Tallied, a, b) => Comes(P, a, b)
  BY <1>1, <1>2, BeforePrecedes DEF Comes
<1>5. noted \subseteq Texts
  OBVIOUS
<1> HIDE DEF s, N
<1>6. /\ k \in Nat /\ k <= N /\ k <= Limit
      /\ k = Limit \/ k = N
  BY <1>3, MinUpTo, DigestAssumption
<1>7. s \in Seq(noted) /\ Len(s) = N
  BY <1>3, LenProperties
<1>8. TopLessons = top
  BY <1>7 DEF TopLessons, s
<1> HIDE DEF k
<1>9. /\ top \in Seq(noted) /\ Len(top) = k /\ DOMAIN top = 1 .. k
      /\ \A i \in 1 .. k : top[i] = s[i] /\ s[i] \in noted
  <2>1. \A i \in 1 .. k : s[i] \in noted
    BY <1>3, <1>6
  <2>2. /\ top \in Seq(noted) /\ Len(top) = k
        /\ \A i \in 1 .. k : top[i] = s[i]
    BY <1>6, <2>1, SubSeqProperties
  <2>3. DOMAIN top = 1 .. k
    BY <2>2, LenProperties
  <2> QED
    BY <2>1, <2>2, <2>3
<1>10. top \in Seq(Texts)
  BY <1>5, <1>9
<1> HIDE DEF top
<1>11. ToSet(top) \subseteq noted
  BY <1>9 DEF ToSet
<1>12. ASSUME NEW i \in 1 .. k, NEW j \in i + 1 .. k PROVE Comes(P, top[i], top[j])
  <2>1. i \in 1 .. N /\ j \in 1 .. N /\ i < j /\ j \in 1 .. k
    BY <1>3, <1>6
  <2> QED
    BY <1>3, <1>4, <1>9, <2>1
<1>13. ASSUME NEW i \in 1 .. k, NEW l \in noted \ ToSet(top) PROVE Comes(P, top[i], l)
  <2>1. PICK j \in 1 .. N : s[j] = l
    BY <1>3
  <2>2. j \notin 1 .. k
    BY <1>9, <1>13, <2>1 DEF ToSet
  <2>3. i \in 1 .. N /\ i < j
    BY <1>3, <1>6, <2>2
  <2> QED
    BY <1>3, <1>4, <1>9, <2>1, <2>3
<1> QED
  BY <1>6, <1>8, <1>9, <1>10, <1>11, <1>12, <1>13 DEF k, N

DigestInv == DigestTypeOK /\ PicksAreRight

LEMMA DigestInitInv == DigestInit => DigestInv
<1> SUFFICES ASSUME DigestInit PROVE DigestInv
  OBVIOUS
<1>1. rows = <<>> /\ digest = NoDigest /\ digest.of = 0 /\ digest.top = <<>>
  BY DEF DigestInit, NoDigest
<1>2. DigestTypeOK
  <2>1. <<>> \in Seq(DayRow) /\ <<>> \in Seq(Texts) /\ Len(<<>>) = 0
    BY EmptySeq
  <2> QED
    BY <1>1, <2>1, DigestAssumption DEF DigestTypeOK, NoDigest
<1>3. \A l : Places(l) = {}
  BY <1>1 DEF Places
<1>4. {l \in Texts : Places(l) # {}} = {}
  BY <1>3
<1>5. Min({Limit, 0}) = 0
  BY MinUpTo, DigestAssumption
<1>6. ToSet(digest.top) = {} /\ Len(digest.top) = 0 /\ DOMAIN digest.top = {}
  BY <1>1 DEF ToSet
<1>7. Cardinality({}) = 0
  BY FS_EmptySet
<1>8. TopLessonsAreTop
  BY <1>4, <1>5, <1>6, <1>7 DEF TopLessonsAreTop
<1> QED
  BY <1>1, <1>2, <1>8 DEF DigestInv, PicksAreRight, ExtremesAreFirst

\* The picks are right as long as the rows they were made of are the same.
LEMMA SamePicks ==
  ASSUME DigestInv, DigestTypeOK', UNCHANGED digest, SeenRows' = SeenRows PROVE DigestInv'
<1>1. ExtremesAreFirst'
  BY DEF DigestInv, PicksAreRight, ExtremesAreFirst
<1>2. \A l : Places(l)' = Places(l)
  BY DEF Places
<1>3. \A a, b : Precedes(a, b)' = Precedes(a, b)
  BY <1>2 DEF Precedes
<1>4. TopLessonsAreTop'
  <2>1. {l \in Texts : Places(l) # {}}' = {l \in Texts : Places(l) # {}}
    BY <1>2
  <2> QED
    BY <1>3, <2>1 DEF DigestInv, PicksAreRight, TopLessonsAreTop
<1> QED
  BY <1>1, <1>4 DEF DigestInv, PicksAreRight

\* A new row is no part of the last digest.
LEMMA AnalyseInv ==
  ASSUME DigestInv, NEW row \in DayRow, Analyse(row) PROVE DigestInv'
<1>1. rows' = Append(rows, row) /\ UNCHANGED digest
  BY DEF Analyse
<1>2. rows \in Seq(DayRow) /\ Len(rows) \in Nat /\ digest.of \in 0 .. Len(rows)
  BY LenProperties DEF DigestInv, DigestTypeOK
<1>3. rows' \in Seq(DayRow) /\ Len(rows') = Len(rows) + 1
  BY <1>1, <1>2
<1>4. DigestTypeOK'
  BY <1>1, <1>2, <1>3 DEF DigestInv, DigestTypeOK
<1>5. SeenRows' = SeenRows
  <2> DEFINE n == digest.of
             old == SubSeq(rows, 1, n)
             new == SubSeq(rows', 1, n)
  <2>1. n \in Int /\ \A i \in 1 .. n : rows'[i] = rows[i] /\ rows[i] \in DayRow
    BY <1>1, <1>2, ElementOfSeq
  <2>2. n \in 0 .. Len(rows) /\ Len(rows) \in Nat
    BY <1>2
  <2>3. SeenRows = old /\ SeenRows' = new
    BY <1>1 DEF SeenRows
  <2> HIDE DEF n
  <2>4. /\ old \in Seq(DayRow) /\ Len(old) = n
        /\ \A i \in 1 .. n : old[i] = rows[i]
    BY <2>1, <2>2, SubSeqProperties
  <2>5. /\ new \in Seq(DayRow) /\ Len(new) = n
        /\ \A i \in 1 .. n : new[i] = rows'[i]
    BY <2>1, <2>2, SubSeqProperties
  <2> HIDE DEF old, new
  <2>6. new = old
    BY <2>1, <2>4, <2>5, SeqEqual
  <2> QED
    BY <2>3, <2>6
<1> QED
  BY <1>1, <1>4, <1>5, SamePicks

\* A digest that is built from the rows of the day, whatever the last one said.
LEMMA BuildInv == ASSUME DigestTypeOK, Build PROVE DigestInv'
<1> DEFINE P == PlacesIn(1 .. Len(rows))
           noted == {l \in Texts : Noting(P, l) # {}}
<1>1. /\ rows' = rows
      /\ digest'.best = Best /\ digest'.worst = Worst
      /\ digest'.top = TopLessons /\ digest'.of = Len(rows)
  BY DEF Build
<1>2. rows \in Seq(DayRow) /\ Len(rows) \in Nat
  BY LenProperties DEF DigestTypeOK
<1>3. /\ TopLessons \in Seq(Texts) /\ Len(TopLessons) <= Limit
      /\ ToSet(TopLessons) \subseteq noted
      /\ Len(TopLessons) = Min({Limit, Cardinality(noted)})
      /\ \A i \in DOMAIN TopLessons :
           /\ \A j \in i + 1 .. Len(TopLessons) : Comes(P, TopLessons[i], TopLessons[j])
           /\ \A l \in noted \ ToSet(TopLessons) : Comes(P, TopLessons[i], l)
  BY TopLessonsShow
<1>4. SeenRows' = rows
  BY <1>1, <1>2, SubSeqFull DEF SeenRows
<1>5. Best \in 0 .. Len(rows) /\ Worst \in 0 .. Len(rows)
  <2>1. CASE rows = <<>>
    BY <1>2, <2>1 DEF Best, Worst
  <2>2. CASE rows # <<>>
    <3>1. Best \in 1 .. Len(rows) /\ Worst \in 1 .. Len(rows)
      BY <2>2, BestIsFirst, WorstIsFirst
    <3> QED
      BY <1>2, <3>1
  <2> QED
    BY <2>1, <2>2
<1>6. DigestTypeOK'
  BY <1>1, <1>2, <1>3, <1>5 DEF DigestTypeOK
<1>7. ExtremesAreFirst'
  <2> SUFFICES ASSUME Len(rows) > 0, NEW i \in 1 .. Len(rows)
               PROVE  /\ rows[i].pnl <= rows[Best].pnl /\ rows[i].pnl >= rows[Worst].pnl
                      /\ rows[i].pnl = rows[Best].pnl => Best <= i
                      /\ rows[i].pnl = rows[Worst].pnl => Worst <= i
    BY <1>1, <1>4 DEF ExtremesAreFirst
  <2>1. rows # <<>>
    BY <1>2, RowNumbers
  <2> QED
    BY <2>1, BestIsFirst, WorstIsFirst
<1>8. \A l : Places(l)' = Noting(P, l)
  BY <1>1, <1>4 DEF Places, Noting, NotedAt, PlacesIn
<1> HIDE DEF P
<1>9. \A a, b : Precedes(a, b)' = Comes(P, a, b)
  BY <1>8 DEF Precedes, Comes
<1>10. TopLessonsAreTop'
  <2>1. {l \in Texts : Places(l) # {}}' = noted
    BY <1>8
  <2> HIDE DEF noted
  <2> QED
    BY <1>1, <1>3, <1>9, <2>1 DEF TopLessonsAreTop
<1> QED
  BY <1>6, <1>7, <1>10 DEF DigestInv, PicksAreRight

LEMMA DigestInvariance == DigestSpec => []DigestInv
<1>1. DigestInv /\ [DigestNext]_digestVars => DigestInv'
  <2> SUFFICES ASSUME DigestInv, [DigestNext]_digestVars PROVE DigestInv'
    OBVIOUS
  <2>1. CASE \E row \in DayRow : Analyse(row)
    BY <2>1, AnalyseInv
  <2>2. CASE Build
    BY <2>2, BuildInv DEF DigestInv
  <2>3. CASE UNCHANGED digestVars
    <3>1. UNCHANGED digest /\ SeenRows' = SeenRows
      BY <2>3 DEF digestVars, SeenRows
    <3>2. DigestTypeOK'
      BY <2>3 DEF digestVars, DigestInv, DigestTypeOK
    <3> QED
      BY <3>1, <3>2, SamePicks
  <2> QED
    BY <2>1, <2>2, <2>3 DEF DigestNext
<1> QED
  BY <1>1, DigestInitInv, PTL DEF DigestSpec

\* The variables of the digest keep their types.
THEOREM DigestTypeCorrect == DigestSpec => []DigestTypeOK
BY DigestInvariance, PTL DEF DigestInv

\* For any results, lessons, number of rows and limit: the best and the worst ticket that
\* build_for_date names and the lessons that _top_lessons shows are those that a count of
\* the day's rows gives, and of equals the first.
THEOREM DigestPicksRight == DigestSpec => []PicksAreRight
BY DigestInvariance, PTL DEF DigestInv
=============================================================================
