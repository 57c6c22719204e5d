------------------------------ MODULE DigestLessons ------------------------------
(***************************************************************************)
(* What the daily digest picks out of the analyses of a day: the best and  *)
(* the worst ticket and the lessons noted most often (build_for_date and   *)
(* _top_lessons of app/analysis/post_trade_digest.py).  PostTrade says     *)
(* which rows these are; here they are rows of a P&L and a list of lessons *)
(* in the order of the query.                                              *)
(***************************************************************************)
EXTENDS Integers, SequencesExt

CONSTANTS
  Pnls,
  Texts,
  Blank,         \* a lesson of spaces
  MaxLessons,    \* bound: the lessons of a row
  MaxRows,       \* bound: the rows of a day
  Limit,         \* how many lessons the digest shows
  Unreadable     \* lessons_json is no JSON, or no list

ASSUME DigestAssumption ==
  /\ Pnls \subseteq Int /\ Pnls # {}
  /\ Blank \notin Texts
  /\ MaxLessons \in Nat /\ MaxRows \in Nat /\ Limit \in Nat

VARIABLES
  rows,          \* the analyses of the day
  digest         \* what the last digest picked

digestVars == <<rows, digest>>

DayRow == [pnl : Pnls,
           lessons : SeqOf(Texts \cup {Blank}, MaxLessons) \cup {Unreadable}]

NoDigest == [best |-> 0, worst |-> 0, top |-> <<>>, of |-> 0]

DigestTypeOK ==
  /\ rows \in Seq(DayRow)
  /\ digest.of \in 0 .. Len(rows)
  /\ {digest.best, digest.worst} \subseteq 0 .. digest.of
  /\ digest.top \in Seq(Texts) /\ Len(digest.top) <= Limit

DigestInit == rows = <<>> /\ digest = NoDigest

-----------------------------------------------------------------------------

\* One step of max(tickets, key=...): the first of equals is kept.
Better(i, j) == IF rows[j].pnl > rows[i].pnl THEN j ELSE i

\* Of min(tickets, key=...).
Worse(i, j)  == IF rows[j].pnl < rows[i].pnl THEN j ELSE i

\* Both run over the rows in their order, from the first.
Indices == [i \in DOMAIN rows |-> i]
Best  == IF rows = <<>> THEN 0 ELSE FoldLeft(Better, 1, Indices)
Worst == IF rows = <<>> THEN 0 ELSE FoldLeft(Worse, 1, Indices)

NoCount == [l \in Texts |-> 0]
NoTally == [counter |-> NoCount, first_seen |-> NoCount, sequence |-> 0]

\* Mutant: first_seen is set every time.
TallyAgain(state, l) ==
  IF l = Blank THEN state
  ELSE [counter    |-> [state.counter EXCEPT ![l] = @ + 1],
        first_seen |-> [state.first_seen EXCEPT ![l] = state.sequence],
        sequence   |-> state.sequence + 1]

\* One turn of the loop over the lessons of a row.
Tally(state, l) ==
  IF l = Blank THEN state
  ELSE [counter    |-> [state.counter EXCEPT ![l] = @ + 1],
        first_seen |-> IF state.counter[l] = 0
                       THEN [state.first_seen EXCEPT ![l] = state.sequence]
                       ELSE state.first_seen,
        sequence   |-> state.sequence + 1]

\* One turn of the loop over the rows: one that cannot be read has no lessons.
TallyRow(state, row) ==
  IF row.lessons = Unreadable THEN state ELSE FoldLeft(Tally, state, row.lessons)

Tallied == FoldLeft(TallyRow, NoTally, rows)

\* sorted(counter.items(), key=...): by (-count, first_seen).
Before(state, l, m) ==
  \/ state.counter[l] > state.counter[m]
  \/ state.counter[l] = state.counter[m] /\ state.first_seen[l] < state.first_seen[m]

Ranked(state) ==
  LET counted == {l \in Texts : state.counter[l] > 0} IN
  CHOOSE s \in [1 .. Cardinality(counted) -> counted] :
    \A i, j \in DOMAIN s : i < j => Before(state, s[i], s[j])

\* _top_lessons: cut off at the limit.
TopLessons == LET sorted == Ranked(Tallied) IN SubSeq(sorted, 1, Min({Limit, Len(sorted)}))

\* record_post_trade_analysis
Analyse(row) ==
  /\ Len(rows) < MaxRows
  /\ rows' = Append(rows, row)
  /\ UNCHANGED digest

\* build_for_date
Build ==
  /\ digest' = [best |-> Best, worst |-> Worst, top |-> TopLessons,
                of |-> Len(rows)]
  /\ UNCHANGED rows

DigestNext == (\E row \in DayRow : Analyse(row)) \/ Build

DigestSpec == DigestInit /\ [][DigestNext]_digestVars

-----------------------------------------------------------------------------

\* The rows the last digest was made of.
SeenRows == SubSeq(rows, 1, digest.of)

\* Of the last digest: no ticket of the day did better than the best or worse than the worst, and of
\* equals both are the earliest, so that a day of equal results names one ticket.
ExtremesAreFirst ==
  digest.of > 0 =>
    \A i \in 1 .. digest.of :
      /\ SeenRows[i].pnl <= SeenRows[digest.best].pnl /\ SeenRows[i].pnl >= SeenRows[digest.worst].pnl
      /\ SeenRows[i].pnl = SeenRows[digest.best].pnl  => digest.best <= i
      /\ SeenRows[i].pnl = SeenRows[digest.worst].pnl => digest.worst <= i

\* Where in the day a lesson was noted: pairs of a row and a place in its list.
Places(l) ==
  {p \in (1 .. digest.of) \X (1 .. MaxLessons) :
     LET lessons == SeenRows[p[1]].lessons IN
     lessons # Unreadable /\ p[2] \in DOMAIN lessons /\ lessons[p[2]] = l}

Earlier(p, q) == p[1] < q[1] \/ (p[1] = q[1] /\ p[2] < q[2])

\* Lesson a comes before b: noted more often, or as often and first.
Precedes(a, b) ==
  LET a_places == Places(a)  b_places == Places(b) IN
  \/ Cardinality(a_places) > Cardinality(b_places)
  \/ /\ Cardinality(a_places) = Cardinality(b_places)
     /\ \E p \in a_places : \A q \in b_places : Earlier(p, q)

\* The digest shows the lessons noted most often, each once, in that order, and as
\* many as there are and fit: a lesson it shows precedes those behind it and those
\* it leaves out, whatever rows cannot be read.
TopLessonsAreTop ==
  LET top == digest.top
      noted == {l \in Texts : Places(l) # {}}
  IN  /\ ToSet(top) \subseteq noted
      /\ Len(top) = Min({Limit, Cardinality(noted)})
      /\ \A i \in DOMAIN top :
           /\ \A j \in i + 1 .. Len(top) : Precedes(top[i], top[j])
           /\ \A l \in noted \ ToSet(top) : Precedes(top[i], l)

\* What the digest picks out of a day, its best and worst ticket and its lessons,
\* agrees with a definition that counts places and keeps no running state.
PicksAreRight == ExtremesAreFirst /\ TopLessonsAreTop
================================================================================
