----------------------------- MODULE BrokerProofs ----------------------------
(***************************************************************************)
(* What is read out of the broker's answers, for any answers: the fill     *)
(* sync loses no fill it has passed, counts none twice and implements the  *)
(* fill ledger; the review of a ticket keeps to the limits of the policy   *)
(* and of the account; and a run with broker data approves only what the   *)
(* answers pay for.                                                        *)
(***************************************************************************)
EXTENDS FillSync, FillRows, BrokerData, SequenceTheorems, FiniteSums, TLAPS

-----------------------------------------------------------------------------
(* The fill sync. *)

\* A row is in hand while it is worked on; it has a P&L and, once past its
\* first step, its snapshot.
HandInv ==
  \A s \in Syncs :
    /\ pc[s] \in {"idle", "next"} => row[s] = NoRow
    /\ pc[s] \in {"snapshot", "check", "insert"} => row[s] \in Derivable
    /\ pc[s] \in {"check", "insert"} => KeyInHand(s) \in snapshots

IInv == TypeOK /\ HandInv /\ PassedIsRecorded /\ EvidenceFirst

LEMMA InitInv == Init => IInv
  BY DEF Init, IInv, TypeOK, HandInv, PassedIsRecorded, EvidenceFirst

LEMMA NextInv == IInv /\ [Next]_vars => IInv'
<1> SUFFICES ASSUME IInv, [Next]_vars PROVE IInv'
  OBVIOUS
<1> USE FillSyncAssumption DEF Goto, NextRow, Stop, KeyInHand
<1>0. TypeOK /\ HandInv /\ PassedIsRecorded /\ EvidenceFirst
  BY DEF IInv
<1>1. ASSUME NEW s \in Syncs, NEW R \in SUBSET Rows, Begin(s, R)
      PROVE  IInv'
  BY <1>0, <1>1 DEF Begin, TypeOK, HandInv, PassedIsRecorded, EvidenceFirst,
                    IInv
<1>2. ASSUME NEW s \in Syncs, NEW r \in Rows, TakeRow(s, r)
      PROVE  IInv'
  <2>1. TypeOK' /\ HandInv' /\ EvidenceFirst'
    BY <1>0, <1>2 DEF TakeRow, TypeOK, HandInv, EvidenceFirst
  <2>2. PassedIsRecorded'
    BY <1>0, <1>2 DEF TakeRow, TypeOK, HandInv, PassedIsRecorded
  <2> QED
    BY <2>1, <2>2 DEF IInv
<1>3. ASSUME NEW s \in Syncs, StoreSnapshot(s)
      PROVE  IInv'
  <2>1. row[s] \in Rows
    BY <1>0, <1>3 DEF StoreSnapshot, HandInv
  <2>2. TypeOK' /\ HandInv' /\ EvidenceFirst'
    BY <1>0, <1>3, <2>1 DEF StoreSnapshot, TypeOK, HandInv, EvidenceFirst
  <2>3. PassedIsRecorded'
    BY <1>0, <1>3 DEF StoreSnapshot, TypeOK, PassedIsRecorded
  <2> QED
    BY <2>2, <2>3 DEF IInv
<1>4. ASSUME NEW s \in Syncs, CheckDuplicate(s)
      PROVE  IInv'
  <2>1. TypeOK' /\ HandInv' /\ EvidenceFirst'
    BY <1>0, <1>4 DEF CheckDuplicate, TypeOK, HandInv, EvidenceFirst
  <2>2. PassedIsRecorded'
    BY <1>0, <1>4 DEF CheckDuplicate, TypeOK, HandInv, PassedIsRecorded
  <2> QED
    BY <2>1, <2>2 DEF IInv
<1>5. ASSUME NEW s \in Syncs, InsertEvent(s)
      PROVE  IInv'
  <2>1. PICK k \in Keys : k = KeyInHand(s) /\ k \in snapshots
    BY <1>0, <1>5 DEF InsertEvent, HandInv
  <2>2. /\ events' = [events EXCEPT ![k] = @ + 1]
        /\ events[k] \in Nat
    BY <1>0, <1>5, <2>1 DEF InsertEvent, TypeOK
  <2>3. TypeOK' /\ HandInv'
    BY <1>0, <1>5, <2>2 DEF InsertEvent, TypeOK, HandInv
  <2>4. \A j \in Keys : events'[j] = IF j = k THEN events[k] + 1 ELSE events[j]
    BY <1>0, <2>2 DEF TypeOK
  <2>5. EvidenceFirst'
    BY <1>0, <1>5, <2>1, <2>4 DEF InsertEvent, EvidenceFirst
  <2>6. \A j \in Keys : events[j] > 0 => events'[j] > 0
    BY <1>0, <2>2, <2>4 DEF TypeOK
  <2>7. events'[k] > 0
    BY <2>2, <2>4
  <2>8. PassedIsRecorded'
    BY <1>0, <1>5, <2>1, <2>6, <2>7 DEF InsertEvent, TypeOK, PassedIsRecorded
  <2> QED
    BY <2>3, <2>5, <2>8 DEF IInv
<1>6. ASSUME NEW s \in Syncs, Finish(s) \/ Crash(s)
      PROVE  IInv'
  BY <1>0, <1>6 DEF Finish, Crash, TypeOK, HandInv, PassedIsRecorded,
                    EvidenceFirst, IInv
<1>7. CASE UNCHANGED vars
  BY <1>0, <1>7 DEF vars, TypeOK, HandInv, PassedIsRecorded, EvidenceFirst,
                    IInv
<1> QED
  BY <1>1, <1>2, <1>3, <1>4, <1>5, <1>6, <1>7 DEF Next, SyncStep

LEMMA Invariance == Spec => []IInv
  BY InitInv, NextInv, PTL DEF Spec

\* The variables keep their types in every run.
THEOREM TypeCorrect == Spec => []TypeOK
<1>1. IInv => TypeOK
  BY DEF IInv
<1> QED
  BY <1>1, Invariance, PTL

\* Whatever dies or overlaps, a row that a run has passed has its event.
THEOREM NoFillLost == Spec => []PassedIsRecorded
<1>1. IInv => PassedIsRecorded
  BY DEF IInv
<1> QED
  BY <1>1, Invariance, PTL

\* Every realized P&L event is backed by the broker row it came from.
THEOREM EvidenceIsFirst == Spec => []EvidenceFirst
<1>1. IInv => EvidenceFirst
  BY DEF IInv
<1> QED
  BY <1>1, Invariance, PTL

-----------------------------------------------------------------------------
(* One run at a time. *)

Serial == \A s, u \in Syncs : s = u

\* The duplicate check of the run is still valid when it inserts.
FreshInv == \A s \in Syncs : pc[s] = "insert" => events[KeyInHand(s)] = 0

LEMMA FreshInit == Init => FreshInv
  BY DEF Init, FreshInv

LEMMA FreshNext ==
  ASSUME Serial, IInv, FreshInv, [Next]_vars
  PROVE  FreshInv'
<1> USE DEF Goto, NextRow, Stop
<1>1. ASSUME NEW s \in Syncs, SyncStep(s)
      PROVE  FreshInv'
  BY <1>1 DEF SyncStep, TakeRow, StoreSnapshot, CheckDuplicate, InsertEvent,
              Finish, Serial, IInv, TypeOK, FreshInv, KeyInHand
<1>2. ASSUME NEW s \in Syncs, NEW R \in SUBSET Rows, Begin(s, R)
      PROVE  FreshInv'
  BY <1>2 DEF Begin, Serial, IInv, TypeOK, FreshInv
<1>3. ASSUME NEW s \in Syncs, Crash(s)
      PROVE  FreshInv'
  BY <1>3 DEF Crash, Serial, IInv, TypeOK, FreshInv
<1>4. CASE UNCHANGED vars
  BY <1>4 DEF vars, FreshInv, KeyInHand
<1> QED
  BY <1>1, <1>2, <1>3, <1>4 DEF Next

LEMMA LedgerStep ==
  ASSUME Serial, IInv, FreshInv, [Next]_vars
  PROVE  [Ledger!Next]_<<snapshots, events>>
<1> USE FillSyncAssumption DEF Ledger!Next, Ledger!Capture, Ledger!Record
<1>1. ASSUME NEW s \in Syncs, StoreSnapshot(s)
      PROVE  Ledger!Next
  <2>1. KeyInHand(s) \in Keys
    BY <1>1 DEF StoreSnapshot, IInv, HandInv, KeyInHand
  <2> QED
    BY <1>1, <2>1 DEF StoreSnapshot
<1>2. ASSUME NEW s \in Syncs, InsertEvent(s)
      PROVE  Ledger!Next
  <2>1. PICK k \in Keys : k = KeyInHand(s)
    BY <1>2 DEF InsertEvent, IInv, HandInv, KeyInHand
  <2>2. k \in snapshots /\ events[k] = 0
    BY <1>2, <2>1 DEF InsertEvent, IInv, HandInv, FreshInv
  <2>3. events' = [events EXCEPT ![k] = 1] /\ snapshots' = snapshots
    BY <1>2, <2>1, <2>2 DEF InsertEvent
  <2> QED
    BY <2>2, <2>3
<1>3. ASSUME NEW s \in Syncs,
             \/ \E R \in SUBSET Rows : Begin(s, R)
             \/ \E r \in Rows : TakeRow(s, r)
             \/ CheckDuplicate(s) \/ Finish(s) \/ Crash(s)
      PROVE  UNCHANGED <<snapshots, events>>
  BY <1>3 DEF Begin, TakeRow, CheckDuplicate, Finish, Crash
<1>4. CASE UNCHANGED vars
  BY <1>4 DEF vars
<1> QED
  BY <1>1, <1>2, <1>3, <1>4 DEF Next, SyncStep

\* Runs that do not overlap record each fill at most once, after its snapshot,
\* over any sequence of crashes and reruns.
THEOREM SerialImplementsLedger ==
  ASSUME Serial
  PROVE  Spec => ImplementsLedger
<1>1. Init => Ledger!Init
  BY DEF Init, Ledger!Init
<1>2. FreshInv /\ IInv /\ [Next]_vars => FreshInv'
  BY FreshNext
<1>3. FreshInv /\ IInv /\ [Next]_vars => [Ledger!Next]_<<snapshots, events>>
  BY LedgerStep
<1> QED
  BY <1>1, <1>2, <1>3, FreshInit, Invariance, PTL
  DEF Spec, ImplementsLedger, Ledger!Spec

-----------------------------------------------------------------------------
(* The risk review. *)

\* The review is made of the scan's own candidate and account.
ReviewInv ==
  /\ candidate \in Ticket \cup {NoTicket}
  /\ account \in Account \cup {NoAccount}
  /\ review \in {NoReview, Review(candidate, account)}

-----------------------------------------------------------------------------
(* Arithmetic of the review. *)

\* Division rounds down to the last multiple that is not above the dividend.
LEMMA Division ==
  ASSUME NEW cap \in Nat, NEW price \in Nat, price > 0
  PROVE  /\ cap \div price \in Nat
         /\ (cap \div price) * price <= cap
         /\ (cap \div price + 1) * price > cap
<1> DEFINE d == cap \div price
           r == cap % price
<1>1. d \in Nat /\ r \in 0 .. (price - 1) /\ cap = price * d + r
  OBVIOUS
<1>2. d * price = price * d /\ (d + 1) * price = price * d + price
  BY <1>1
<1> HIDE DEF d, r
<1>3. d * price <= cap /\ (d + 1) * price > cap
  BY <1>1, <1>2
<1> QED
  BY <1>1, <1>3 DEF d

\* A larger quantity never costs less.
LEMMA Monotone ==
  ASSUME NEW m \in Nat, NEW n \in Nat, NEW price \in Nat
  PROVE  /\ m * price \in Nat
         /\ m <= n => m * price <= n * price
<1>1. m * price \in Nat /\ n * price \in Nat
  OBVIOUS
<1>2. ASSUME m <= n PROVE m * price <= n * price
  <2>1. n - m \in Nat /\ (n - m) * price \in Nat
    BY <1>2
  <2>2. n * price = m * price + (n - m) * price
    BY <1>2
  <2> QED
    BY <2>1, <2>2, <1>1
<1> QED
  BY <1>1, <1>2

-----------------------------------------------------------------------------
(* One reduction. *)

LEMMA TicketFields ==
  ASSUME NEW t \in Ticket
  PROVE  /\ t.quantity \in Nat /\ t.limit_price \in Nat
         /\ t = [t EXCEPT !.quantity = t.quantity]
         /\ \A q \in Nat : LET u == [t EXCEPT !.quantity = q] IN
              /\ u \in Ticket
              /\ u.quantity = q /\ u.limit_price = t.limit_price
              /\ u.symbol = t.symbol /\ u.side = t.side
  BY DEF Ticket

\* What a reduction to a cap does to a ticket that can be fitted to it.
Reduced(t, s, cap) ==
  /\ s \in Ticket
  /\ s = [t EXCEPT !.quantity = s.quantity]
  /\ EstimatedAmount(s) <= cap
  /\ EstimatedAmount(s) <= EstimatedAmount(t)
  /\ s.quantity <= t.quantity
  /\ t.quantity > 0 => s.quantity > 0
  /\ s.quantity < t.quantity => (s.quantity + 1) * t.limit_price > cap

LEMMA ShrinkReduces ==
  ASSUME NEW t \in Ticket, NEW cap \in Nat, Fits(t, cap)
  PROVE  Reduced(t, ShrinkToCap(t, cap), cap)
<1>1. t.quantity \in Nat /\ t.limit_price \in Nat /\ t.limit_price > 0
  BY TicketFields DEF Fits
<1>2. CASE EstimatedAmount(t) <= cap
  <2>1. EstimatedAmount(t) \in Nat
    BY <1>1, Monotone DEF EstimatedAmount
  <2>2. ShrinkToCap(t, cap) = t
    BY <1>2, <2>1 DEF ShrinkToCap
  <2> QED
    BY <1>1, <1>2, <2>1, <2>2, TicketFields DEF Reduced
<1>3. CASE ~ (EstimatedAmount(t) <= cap)
  <2> DEFINE q == cap \div t.limit_price
             s == [t EXCEPT !.quantity = q]
  <2>1. EstimatedAmount(t) \in Nat /\ EstimatedAmount(t) > cap
    BY <1>1, <1>3, Monotone DEF EstimatedAmount
  <2>2. ShrinkToCap(t, cap) = s
    BY <2>1 DEF ShrinkToCap
  <2>3. /\ q \in Nat /\ q >= 1
        /\ q * t.limit_price <= cap /\ (q + 1) * t.limit_price > cap
    BY <1>1, <1>3, Division DEF Fits
  <2> HIDE DEF q
  <2>4. /\ s \in Ticket /\ s.quantity = q /\ s.limit_price = t.limit_price
    BY <2>3, TicketFields
  <2>5. q <= t.quantity
    <3>1. SUFFICES ASSUME q > t.quantity PROVE FALSE
      BY <1>1, <2>3
    <3>2. t.quantity * t.limit_price <= q * t.limit_price
      BY <1>1, <2>3, <3>1, Monotone
    <3>3. q * t.limit_price \in Nat /\ t.quantity * t.limit_price \in Nat
      BY <1>1, <2>3, Monotone
    <3> QED
      BY <2>1, <2>3, <3>2, <3>3 DEF EstimatedAmount
  <2>6. EstimatedAmount(s) = q * t.limit_price /\ EstimatedAmount(s) \in Nat
    BY <1>1, <2>3, <2>4, Monotone DEF EstimatedAmount
  <2>7. EstimatedAmount(s) <= EstimatedAmount(t)
    BY <2>1, <2>3, <2>6
  <2> QED
    BY <2>2, <2>3, <2>4, <2>5, <2>6, <2>7 DEF Reduced
<1> QED
  BY <1>2, <1>3

-----------------------------------------------------------------------------
(* The review. *)

\* 30% of the absolute value of a balance is a natural number.
LEMMA CashIsNat ==
  ASSUME NEW a \in Account
  PROVE  InvestableCash(a) \in Nat
<1>1. ParseInt(a.balance) \in Nat
  BY DEF ParseInt, Account
<1> QED
  BY <1>1 DEF InvestableCash

\* What an approval says of the ticket that goes on to the user.
LEMMA ApprovedTicket ==
  ASSUME NEW t \in Ticket, NEW a \in Account \cup {NoAccount}, Approved(t, a)
  PROVE  LET s == Adjusted(t, a) IN
         /\ s \in Ticket /\ s.symbol \in AllowedSymbols
         /\ s = [t EXCEPT !.quantity = s.quantity]
         /\ EstimatedAmount(s) <= MaxOrderAmount
         /\ CashBound(t, a) => EstimatedAmount(s) <= InvestableCash(a)
         /\ s.quantity <= t.quantity
         /\ t.quantity > 0 => s.quantity > 0
         /\ s.quantity < t.quantity =>
              \/ (s.quantity + 1) * t.limit_price > MaxOrderAmount
              \/ /\ CashBound(t, a)
                 /\ (s.quantity + 1) * t.limit_price > InvestableCash(a)
<1> DEFINE c == FitToCash(t, a)
           s == Adjusted(t, a)
<1>1. t.quantity \in Nat /\ t.limit_price \in Nat /\ MaxOrderAmount \in Nat
  BY TicketFields, RiskAssumption
<1>2. CashBound(t, a) => InvestableCash(a) \in Nat
  BY CashIsNat DEF CashBound
<1>3. /\ c \in Ticket /\ c = [t EXCEPT !.quantity = c.quantity]
      /\ CashBound(t, a) => Reduced(t, c, InvestableCash(a))
      /\ ~ CashBound(t, a) => c = t
  <2>1. CASE CashBound(t, a)
    BY <2>1, <1>2, ShrinkReduces DEF Approved, FitToCash, Reduced
  <2>2. CASE ~ CashBound(t, a)
    BY <2>2, TicketFields DEF FitToCash
  <2> QED
    BY <2>1, <2>2
<1> HIDE DEF c
<1>4. /\ c.quantity \in Nat /\ c.limit_price = t.limit_price
      /\ c.symbol = t.symbol /\ EstimatedAmount(c) \in Nat
  <2>1. c.quantity \in Nat /\ c.limit_price \in Nat
    BY <1>3, TicketFields
  <2>2. c.limit_price = t.limit_price /\ c.symbol = t.symbol
    BY <1>3 DEF Ticket
  <2> QED
    BY <2>1, <2>2, Monotone DEF EstimatedAmount
<1>5. /\ EstimatedAmount(c) > MaxOrderAmount =>
           Reduced(c, s, MaxOrderAmount)
      /\ ~ (EstimatedAmount(c) > MaxOrderAmount) => s = c
  <2>1. CASE EstimatedAmount(c) > MaxOrderAmount
    <3>1. a # NoAccount /\ Fits(c, MaxOrderAmount)
      BY <2>1 DEF Approved, c
    <3>2. s = ShrinkToCap(c, MaxOrderAmount)
      BY <2>1, <3>1 DEF Adjusted, FitToPolicy, c
    <3> QED
      BY <1>1, <1>3, <2>1, <3>1, <3>2, ShrinkReduces
  <2>2. CASE ~ (EstimatedAmount(c) > MaxOrderAmount)
    BY <2>2 DEF Adjusted, c
  <2> QED
    BY <2>1, <2>2
<1> HIDE DEF s
<1>6. /\ s \in Ticket /\ s = [c EXCEPT !.quantity = s.quantity]
      /\ s.quantity <= c.quantity
      /\ c.quantity > 0 => s.quantity > 0
      /\ EstimatedAmount(s) <= MaxOrderAmount
      /\ EstimatedAmount(s) <= EstimatedAmount(c)
      /\ s.quantity < c.quantity =>
           (s.quantity + 1) * c.limit_price > MaxOrderAmount
  BY <1>1, <1>3, <1>4, <1>5, TicketFields DEF Reduced
<1>7. /\ s.quantity \in Nat /\ s.symbol = t.symbol
      /\ EstimatedAmount(s) \in Nat
      /\ s = [t EXCEPT !.quantity = s.quantity]
  <2>1. s.quantity \in Nat /\ s.limit_price \in Nat
    BY <1>6, TicketFields
  <2>2. s = [t EXCEPT !.quantity = s.quantity]
    BY <1>3, <1>6 DEF Ticket
  <2>3. s.symbol = t.symbol
    BY <2>2 DEF Ticket
  <2> QED
    BY <2>1, <2>2, <2>3, Monotone DEF EstimatedAmount
<1>8. t.symbol \in AllowedSymbols
  BY DEF Approved
<1>9. CashBound(t, a) => EstimatedAmount(s) <= InvestableCash(a)
  BY <1>2, <1>3, <1>4, <1>6, <1>7 DEF Reduced
<1>10. s.quantity <= t.quantity /\ (t.quantity > 0 => s.quantity > 0)
  BY <1>1, <1>3, <1>4, <1>6, <1>7 DEF Reduced
<1>11. s.quantity < t.quantity =>
         \/ (s.quantity + 1) * t.limit_price > MaxOrderAmount
         \/ /\ CashBound(t, a)
            /\ (s.quantity + 1) * t.limit_price > InvestableCash(a)
  <2>1. CASE s.quantity < c.quantity
    BY <2>1, <1>4, <1>6
  <2>2. CASE s.quantity = c.quantity
    BY <2>2, <1>1, <1>3, <1>4 DEF Reduced
  <2> QED
    BY <2>1, <2>2, <1>4, <1>6, <1>7
<1> QED
  BY <1>6, <1>7, <1>8, <1>9, <1>10, <1>11 DEF s

\* An approved review is one of a ticket, approved for its account.
LEMMA PassedIsApproved ==
  ASSUME ReviewInv, Passed
  PROVE  /\ candidate \in Ticket /\ account \in Account \cup {NoAccount}
         /\ Approved(candidate, account)
         /\ review.ticket = Adjusted(candidate, account)
<1>1. review = Review(candidate, account) /\ review.approved
  BY DEF ReviewInv, Passed
<1>2. candidate # NoTicket
  BY <1>1 DEF Review
<1> QED
  BY <1>1, <1>2, RiskAssumption DEF ReviewInv, Review

-----------------------------------------------------------------------------
(* The rows of the broker. *)

LEMMA ColumnNumber ==
  ASSUME NEW r \in Row
  PROVE  /\ IsNumber(r.realized) <=> r.realized \in Int
         /\ IsNumber(r.evaluated) <=> r.evaluated \in Int
         /\ IsDerivable(r) => Pnl(r) \in Int
BY FillRowsAssumption DEF Row, Column, IsNumber, IsDerivable, Pnl

\* Fills that the broker tells apart have keys of their own: with a number, the key
\* holds the numbers and the P&L; without, they are not told apart.
LEMMA KeysDiffer ==
  ASSUME NEW f, NEW g, Distinguishable(f, g)
  PROVE  RowKey(rowOf[f]) # RowKey(rowOf[g])
BY DEF Distinguishable, RowKey, Numbered

\* The event of a fill.
Event(f) == [key |-> RowKey(rowOf[f]), amount |-> Pnl(rowOf[f])]

Apart(S) == \A f, g \in S : f # g => Distinguishable(f, g)

\* The fills that are told apart have one event each, and no other is recorded.
RecordedInv == revised = {} /\ Apart(passed) => recorded = {Event(f) : f \in passed}

RowsInv == RowsTypeOK /\ RecordedInv

LEMMA RowsInitInv == RowsInit => RowsInv
<1> SUFFICES ASSUME RowsInit PROVE RowsInv
  OBVIOUS
<1>1. ToSet(broker) = Fills /\ Len(broker) = 0 /\ Len(rowOf) = 0
  BY DEF RowsInit, Fills, ToSet
<1> QED
  BY <1>1 DEF RowsInit, RowsInv, RowsTypeOK, RecordedInv

\* The fills that the sync can get past.
Readable == {f \in Fills : IsDerivable(rowOf[f]) /\ ~ Raises(rowOf[f])}

\* What a run has at hand between two rows.
States ==
  [snapshots : SUBSET (kept \cup {RowKey(rowOf[f]) : f \in Fills}),
   events : SUBSET (recorded \cup {Event(f) : f \in Fills}),
   passed : SUBSET Readable, raised : BOOLEAN]

Sound(state) ==
  /\ state.snapshots = {e.key : e \in state.events}
  /\ {RowKey(rowOf[f]) : f \in state.passed \ revised} \subseteq state.snapshots
  /\ revised = {} /\ Apart(state.passed) =>
       state.events = {Event(f) : f \in state.passed}

SoundStates == {state \in States : Sound(state)}

LEMMA SyncRowKeeps ==
  ASSUME RowsInv, NEW state \in SoundStates, NEW f \in Fills
  PROVE  SyncRow(state, f) \in SoundStates
<1> DEFINE key == RowKey(rowOf[f])
           next == SyncRow(state, f)
<1>1. CASE state.raised \/ ~ IsDerivable(rowOf[f])
  BY <1>1 DEF SyncRow
<1>2. CASE ~ (state.raised \/ ~ IsDerivable(rowOf[f])) /\ Raises(rowOf[f])
  <2>1. next = [state EXCEPT !.raised = TRUE]
    BY <1>2 DEF SyncRow
  <2> QED
    BY <2>1 DEF SoundStates, States, Sound
<1>3. CASE ~ (state.raised \/ ~ IsDerivable(rowOf[f])) /\ ~ Raises(rowOf[f])
  <2> DEFINE known == \E e \in state.events : e.key = key
  <2>1. /\ next.snapshots = state.snapshots \cup {key}
        /\ next.events = IF known THEN state.events
                         ELSE state.events \cup {Event(f)}
        /\ next.passed = state.passed \cup {f}
        /\ next.raised = state.raised
        /\ next \in States
    <3>1. f \in Readable
      BY <1>3 DEF Readable
    <3>2. /\ state.snapshots \cup {key} \in
               SUBSET (kept \cup {RowKey(rowOf[g]) : g \in Fills})
          /\ (IF known THEN state.events ELSE state.events \cup {Event(f)}) \in
               SUBSET (recorded \cup {Event(g) : g \in Fills})
          /\ state.passed \cup {f} \in SUBSET Readable
      BY <3>1 DEF SoundStates, States
    <3>3. next = [state EXCEPT !.snapshots = @ \cup {key},
                    !.events = IF known THEN @ ELSE @ \cup {Event(f)},
                    !.passed = @ \cup {f}]
      BY <1>3 DEF SyncRow, Event
    <3> QED
      BY <3>2, <3>3 DEF SoundStates, States
  <2>2. Event(f).key = key
    BY DEF Event
  <2>3. next.snapshots = {e.key : e \in next.events}
    BY <2>1, <2>2 DEF SoundStates, Sound
  <2>4. {RowKey(rowOf[g]) : g \in next.passed \ revised} \subseteq next.snapshots
    BY <2>1 DEF SoundStates, Sound
  <2>5. ASSUME revised = {}, Apart(next.passed)
        PROVE  next.events = {Event(g) : g \in next.passed}
    <3>1. state.events = {Event(g) : g \in state.passed}
      BY <2>1, <2>5 DEF SoundStates, Sound, Apart
    <3>2. ASSUME f \notin state.passed PROVE ~ known
      <4>1. \A g \in state.passed : RowKey(rowOf[g]) # key
        BY <2>1, <2>5, <3>2, KeysDiffer DEF Apart
      <4> QED
        BY <3>1, <4>1 DEF Event
    <3>3. f \in state.passed => known
      BY <3>1, <2>2
    <3> QED
      BY <2>1, <3>1, <3>2, <3>3
  <2> QED
    BY <2>1, <2>3, <2>4, <2>5 DEF SoundStates, Sound
<1> QED
  BY <1>1, <1>2, <1>3

\* What a run begins with, and what it comes to.
Start == [snapshots |-> kept, events |-> recorded, passed |-> passed, raised |-> FALSE]

LEMMA SyncKeeps ==
  ASSUME RowsInv
  PROVE  FoldLeft(SyncRow, Start, broker) \in SoundStates
<1> DEFINE n == Len(broker)
           D == 1 .. n
           c == LastOf(D)
           V == SoundStates
           step == [pair \in V \X D |-> SyncRow(pair[1], broker[pair[2]])]
           Table(k) == k = [s \in SUBSET D |->
             IF s = {} THEN Start ELSE SyncRow(k[s \ {Max(s)}], broker[Max(s)])]
<1>1. n \in Nat /\ D = DOMAIN broker /\ \A i \in D : broker[i] \in Fills
  BY DEF RowsInv, RowsTypeOK, ToSet
<1>2. IsFiniteSet(D) /\ Chooses(c, D)
  BY <1>1, LastChooses
<1>3. \A s \in SUBSET D : c[s] = Max(s)
  BY DEF LastOf
<1>4. Start \in V
  BY DEF Start, SoundStates, States, Sound, RowsInv, RowsTypeOK, RecordedInv,
         Readable
<1>5. \A v \in V, i \in D : SyncRow(v, broker[i]) \in V
  BY <1>1, SyncRowKeeps
<1>6. step \in [V \X D -> V]
  BY <1>5
<1>7. \E k : Table(k)
  <2>1. \E g \in [SUBSET D -> V] : FoldTable(g, D, Start, step, c)
    <3> HIDE DEF D, V, c, step
    <3> QED
      BY <1>2, <1>4, <1>6, Recursion
  <2>2. PICK g \in [SUBSET D -> V] : FoldTable(g, D, Start, step, c)
    BY <2>1
  <2>3. ASSUME NEW s \in SUBSET D
        PROVE  g[s] = IF s = {} THEN Start
                      ELSE SyncRow(g[s \ {Max(s)}], broker[Max(s)])
    <3>1. CASE s = {}
      BY <2>2, <3>1 DEF FoldTable, Follows
    <3>2. CASE s # {}
      <4>1. g[s] = step[<<g[s \ {c[s]}], c[s]>>]
        BY <2>2, <3>2 DEF FoldTable, Follows
      <4>2. c[s] \in D /\ g[s \ {c[s]}] \in V
        BY <1>2, <3>2 DEF Chooses
      <4>3. step[<<g[s \ {c[s]}], c[s]>>] = SyncRow(g[s \ {c[s]}], broker[c[s]])
        BY <4>2
      <4> HIDE DEF step
      <4> QED
        BY <1>3, <3>2, <4>1, <4>3
    <3> QED
      BY <3>1, <3>2
  <2> HIDE DEF D, step
  <2>4. Table(g)
    BY <2>3
  <2> QED
    BY <2>4
<1>8. PICK k : Table(k) /\ FoldLeft(SyncRow, Start, broker) = k[D]
  <2>1. FoldLeft(SyncRow, Start, broker) = (CHOOSE k : Table(k))[D]
    BY <1>1 DEF FoldLeft, MapThenFoldSet
  <2>2. Table(CHOOSE k : Table(k))
    <3> HIDE DEF Table
    <3> QED
      BY <1>7
  <2> QED
    BY <2>1, <2>2
<1>9. k[D] \in V
  <2> DEFINE W == [s \in SUBSET D |-> V]
  <2>1. k[{}] \in W[{}]
    BY <1>4, <1>8
  <2>2. ASSUME NEW s \in SUBSET D, s # {}, k[s \ {c[s]}] \in W[s \ {c[s]}]
        PROVE  k[s] \in W[s]
    <3>1. c[s] \in D /\ k[s \ {c[s]}] \in V
      BY <1>2, <2>2 DEF Chooses
    <3>2. k[s] = SyncRow(k[s \ {c[s]}], broker[c[s]])
      BY <1>3, <1>8, <2>2
    <3> QED
      BY <1>5, <3>1, <3>2
  <2>3. W[D] = V
    OBVIOUS
  <2> HIDE DEF W, D, c, V
  <2>4. k[D] \in W[D]
    BY <1>2, <2>1, <2>2, FoldKeeps
  <2> QED
    BY <2>3, <2>4
<1> QED
  BY <1>8, <1>9

LEMMA SyncInv == ASSUME RowsInv, Sync PROVE RowsInv'
<1> DEFINE end == FoldLeft(SyncRow, Start, broker)
<1>1. end \in SoundStates
  BY SyncKeeps
<1>2. /\ kept' = end.snapshots /\ recorded' = end.events /\ passed' = end.passed
      /\ UNCHANGED <<broker, rowOf, revised>>
  BY DEF Sync, Start
<1> HIDE DEF end
<1>3. /\ passed' \subseteq Readable
      /\ kept' = {e.key : e \in recorded'}
      /\ {RowKey(rowOf[f]) : f \in passed' \ revised} \subseteq kept'
      /\ revised = {} /\ Apart(passed') => recorded' = {Event(f) : f \in passed'}
  BY <1>1, <1>2 DEF SoundStates, States, Sound
<1>4. RowsTypeOK'
  BY <1>2, <1>3 DEF RowsInv, RowsTypeOK, Fills, Readable, RowKey
<1>5. RecordedInv'
  <2>1. /\ Apart(passed)' = Apart(passed')
        /\ \A f : Event(f)' = Event(f)
    BY <1>2 DEF Apart, Distinguishable, Event
  <2> QED
    BY <1>2, <1>3, <2>1 DEF RecordedInv
<1> QED
  BY <1>4, <1>5 DEF RowsInv

LEMMA TradeInv ==
  ASSUME RowsInv, NEW r \in RowSet, Trade(r)
  PROVE  RowsInv'
<1> DEFINE n == Len(broker)
<1>1. /\ broker \in Seq(Nat) /\ rowOf \in Seq(Row) /\ n \in Nat /\ Len(rowOf) = n
      /\ ToSet(broker) = 1 .. n /\ passed \subseteq 1 .. n /\ revised \subseteq 1 .. n
  BY DEF RowsInv, RowsTypeOK, Fills
<1>2. r \in Row
  BY FillRowsAssumption
<1>3. /\ rowOf' = Append(rowOf, r)
      /\ broker' = <<n + 1>> \o broker \/ broker' = Append(broker, n + 1)
      /\ UNCHANGED <<recorded, kept, passed, revised>>
  BY DEF Trade
<1>4. /\ rowOf' \in Seq(Row) /\ Len(rowOf') = n + 1
      /\ \A f \in 1 .. n : rowOf'[f] = rowOf[f]
  BY <1>1, <1>2, <1>3, AppendProperties
<1>5. broker' \in Seq(Nat) /\ Len(broker') = n + 1 /\ ToSet(broker') = 1 .. (n + 1)
  <2>1. CASE broker' = Append(broker, n + 1)
    <3>1. /\ broker' \in Seq(Nat) /\ Len(broker') = n + 1
          /\ \A i \in 1 .. n : broker'[i] = broker[i]
          /\ broker'[n + 1] = n + 1
      BY <1>1, <2>1, AppendProperties
    <3>2. DOMAIN broker' = (1 .. n) \cup {n + 1}
      BY <1>1, <3>1
    <3>3. ToSet(broker') = ToSet(broker) \cup {n + 1}
      BY <1>1, <3>1, <3>2 DEF ToSet
    <3> QED
      BY <1>1, <3>1, <3>3
  <2>2. CASE broker' = <<n + 1>> \o broker
    <3>1. /\ broker' \in Seq(Nat) /\ Len(broker') = n + 1
          /\ broker'[1] = n + 1
          /\ \A i \in 1 .. n : broker'[i + 1] = broker[i]
      BY <1>1, <2>2
    <3>2. ToSet(broker') = ToSet(broker) \cup {n + 1}
      <4>1. \A x \in ToSet(broker) : x \in ToSet(broker')
        <5>1. SUFFICES ASSUME NEW i \in 1 .. n
                       PROVE  broker[i] \in ToSet(broker')
          BY <1>1 DEF ToSet
        <5>2. i + 1 \in DOMAIN broker' /\ broker'[i + 1] = broker[i]
          BY <1>1, <3>1
        <5> HIDE DEF n
        <5> QED
          BY <5>2 DEF ToSet
      <4>2. n + 1 \in ToSet(broker')
        BY <1>1, <3>1 DEF ToSet
      <4>3. \A x \in ToSet(broker') : x \in ToSet(broker) \cup {n + 1}
        <5>1. SUFFICES ASSUME NEW i \in 1 .. (n + 1)
                       PROVE  broker'[i] \in ToSet(broker) \cup {n + 1}
          BY <3>1 DEF ToSet
        <5>2. CASE i # 1
          <6>1. i - 1 \in 1 .. n /\ (i - 1) + 1 = i
            BY <1>1, <5>2
          <6>2. broker'[i] = broker[i - 1]
            BY <3>1, <6>1
          <6>3. i - 1 \in DOMAIN broker
            BY <1>1, <6>1
          <6> QED
            BY <6>2, <6>3 DEF ToSet
        <5> QED
          BY <3>1, <5>2
      <4> QED
        BY <4>1, <4>2, <4>3
    <3> QED
      BY <1>1, <3>1, <3>2
  <2> QED
    BY <1>3, <2>1, <2>2
<1>6. Fills \subseteq Fills' /\ \A f \in Fills : rowOf'[f] = rowOf[f]
  BY <1>1, <1>4, <1>5 DEF Fills
<1>7. passed \subseteq {f \in Fills : IsDerivable(rowOf[f]) /\ ~ Raises(rowOf[f])}
  BY DEF RowsInv, RowsTypeOK
<1>8. passed' \subseteq {f \in Fills' : IsDerivable(rowOf'[f]) /\ ~ Raises(rowOf'[f])}
  BY <1>3, <1>6, <1>7
<1>9. {RowKey(rowOf'[f]) : f \in passed \ revised} = {RowKey(rowOf[f]) : f \in passed \ revised}
  BY <1>6, <1>7
<1>10. RowsTypeOK'
  BY <1>1, <1>3, <1>4, <1>5, <1>6, <1>8, <1>9
  DEF RowsInv, RowsTypeOK, Fills, IsDerivable, Raises, RowKey
<1>11. RecordedInv'
  <2>1. ASSUME NEW f \in passed, NEW g \in passed
        PROVE  Distinguishable(f, g)' = Distinguishable(f, g)
    BY <1>6, <1>7 DEF Distinguishable
  <2>2. Apart(passed)' = Apart(passed)
    BY <1>3, <2>1 DEF Apart
  <2>3. \A f \in passed : Event(f)' = Event(f)
    BY <1>6, <1>7 DEF Event
  <2> QED
    BY <1>3, <2>2, <2>3 DEF RecordedInv, RowsInv
<1> QED
  BY <1>10, <1>11 DEF RowsInv

\* The evaluation of a numbered fill that has its realized P&L says nothing.
LEMMA ReviseInv ==
  ASSUME RowsInv, NEW f \in Fills, NEW amount \in Int, Revise(f, amount)
  PROVE  RowsInv'
<1>1. /\ rowOf \in Seq(Row) /\ Len(rowOf) = Len(broker) /\ f \in DOMAIN rowOf
      /\ rowOf[f] \in Row
      /\ passed \subseteq {g \in Fills : IsDerivable(rowOf[g]) /\ ~ Raises(rowOf[g])}
  BY DEF RowsInv, RowsTypeOK, Fills
<1>2. /\ rowOf' = [rowOf EXCEPT ![f].evaluated = amount]
      /\ UNCHANGED <<broker, recorded, kept, passed>>
      /\ revised' = revised \/ revised' = revised \cup {f}
      /\ f \in revised' \/ (IsNumber(rowOf[f].realized) /\ Numbered(rowOf[f]))
  <2>1. \/ IsNumber(rowOf[f].realized) /\ Numbered(rowOf[f]) /\ revised' = revised
        \/ revised' = revised \cup {f}
    BY DEF Revise
  <2>2. /\ rowOf' = [rowOf EXCEPT ![f].evaluated = amount]
        /\ UNCHANGED <<broker, recorded, kept, passed>>
    BY DEF Revise
  <2>3. revised' = revised \/ revised' = revised \cup {f}
    BY <2>1
  <2>4. f \in revised' \/ (IsNumber(rowOf[f].realized) /\ Numbered(rowOf[f]))
    BY <2>1
  <2> QED
    BY <2>2, <2>3, <2>4
<1>3. /\ rowOf' \in Seq(Row) /\ Len(rowOf') = Len(rowOf)
      /\ rowOf'[f] = [rowOf[f] EXCEPT !.evaluated = amount]
      /\ \A g \in Fills : g # f => rowOf'[g] = rowOf[g]
  <2>1. [rowOf[f] EXCEPT !.evaluated = amount] \in Row
    BY <1>1 DEF Row, Column
  <2>2. rowOf' = [rowOf EXCEPT ![f] = [rowOf[f] EXCEPT !.evaluated = amount]]
    BY <1>2
  <2> QED
    BY <1>1, <2>1, <2>2 DEF RowsInv, RowsTypeOK, Fills
<1>4. /\ rowOf'[f].realized = rowOf[f].realized /\ rowOf'[f].order = rowOf[f].order
      /\ rowOf'[f].fill = rowOf[f].fill /\ rowOf'[f].date = rowOf[f].date
      /\ rowOf'[f].time = rowOf[f].time /\ rowOf'[f].evaluated = amount
  BY <1>1, <1>3 DEF Row
<1>5. \A g \in Fills : /\ IsDerivable(rowOf[g]) => IsDerivable(rowOf'[g])
                       /\ Raises(rowOf'[g]) <=> Raises(rowOf[g])
  <2>1. IsNumber(amount)
    BY FillRowsAssumption DEF IsNumber
  <2> QED
    BY <1>3, <1>4, <2>1 DEF IsDerivable, Raises
<1>6. \A g \in Fills \ revised' :
        /\ RowKey(rowOf'[g]) = RowKey(rowOf[g]) /\ Pnl(rowOf'[g]) = Pnl(rowOf[g])
        /\ rowOf'[g].order = rowOf[g].order /\ rowOf'[g].fill = rowOf[g].fill
  <2>1. SUFFICES ASSUME f \notin revised'
                 PROVE  RowKey(rowOf'[f]) = RowKey(rowOf[f]) /\ Pnl(rowOf'[f]) = Pnl(rowOf[f])
    BY <1>3, <1>4
  <2>2. IsNumber(rowOf[f].realized) /\ Numbered(rowOf[f]) /\ Numbered(rowOf'[f])
    BY <1>2, <1>4, <2>1 DEF Numbered
  <2>3. Pnl(rowOf'[f]) = Pnl(rowOf[f])
    BY <1>4, <2>2 DEF Pnl
  <2> QED
    BY <1>4, <2>2, <2>3 DEF RowKey
<1>7. Fills' = Fills
  BY <1>2 DEF Fills
<1>8. RowsTypeOK'
  <2>1. passed' \subseteq {g \in Fills' : IsDerivable(rowOf'[g]) /\ ~ Raises(rowOf'[g])}
    BY <1>1, <1>2, <1>5, <1>7
  <2>2. {RowKey(rowOf'[g]) : g \in passed' \ revised'} \subseteq kept'
    BY <1>1, <1>2, <1>6 DEF RowsInv, RowsTypeOK
  <2> QED
    BY <1>2, <1>3, <1>7, <2>1, <2>2
    DEF RowsInv, RowsTypeOK, IsDerivable, Raises, RowKey
<1>9. RecordedInv'
  <2>1. SUFFICES ASSUME revised' = {}, Apart(passed)'
                 PROVE  recorded' = {Event(g)' : g \in passed'}
    BY DEF RecordedInv
  <2>2. ASSUME NEW g \in passed, NEW h \in passed
        PROVE  Distinguishable(g, h)' = Distinguishable(g, h)
    BY <1>1, <1>6, <2>1 DEF Distinguishable
  <2>3. Apart(passed)
    BY <1>2, <2>1, <2>2 DEF Apart
  <2>4. \A g \in passed : Event(g)' = Event(g)
    BY <1>1, <1>6, <2>1 DEF Event
  <2> QED
    BY <1>2, <2>1, <2>3, <2>4 DEF RecordedInv, RowsInv
<1> QED
  BY <1>8, <1>9 DEF RowsInv

LEMMA RowsNextInv == RowsInv /\ [RowsNext]_rowVars => RowsInv'
<1> SUFFICES ASSUME RowsInv, [RowsNext]_rowVars PROVE RowsInv'
  OBVIOUS
<1>1. ASSUME NEW f \in Fills,
             NEW amount \in {r.evaluated : r \in RowSet} \ {Blank, Text},
             Revise(f, amount)
      PROVE  RowsInv'
  <2>1. amount \in Int
    BY FillRowsAssumption DEF Row, Column
  <2> QED
    BY <1>1, <2>1, ReviseInv
<1>2. CASE UNCHANGED rowVars
  <2>1. UNCHANGED <<broker, rowOf, recorded, kept, passed, revised>>
    BY <1>2 DEF rowVars
  <2> QED
    BY <2>1 DEF RowsInv, RowsTypeOK, RecordedInv, Fills, Apart, Distinguishable,
                Event, RowKey, IsDerivable, Raises
<1> QED
  BY <1>1, <1>2, TradeInv, SyncInv DEF RowsNext

LEMMA RowsInvariance == RowsSpec => []RowsInv
BY RowsInitInv, RowsNextInv, PTL DEF RowsSpec

-----------------------------------------------------------------------------
(* The sums. *)

LEMMA SumOfEvents ==
  ASSUME IsFiniteSet(recorded), \A e \in recorded : e.amount \in Int
  PROVE  MapThenSumSet(LAMBDA e : e.amount, recorded)
           = Sum([e \in recorded |-> e.amount], recorded)
<1> DEFINE f == [e \in recorded |-> e.amount]
           Table(k) == k = [s \in SUBSET recorded |->
             IF s = {} THEN 0 ELSE Choice(s).amount + k[s \ {Choice(s)}]]
<1>1. \A k : Table(k) <=> SumTable(k, f, recorded)
  <2>1. \A s \in SUBSET recorded : s # {} => f[Choice(s)] = Choice(s).amount
    BY DEF Choice
  <2> QED
    BY <2>1 DEF SumTable
<1>2. MapThenSumSet(LAMBDA e : e.amount, recorded) = (CHOOSE k : Table(k))[recorded]
  BY DEF MapThenSumSet, MapThenFoldSet, Choice
<1>3. \A e \in recorded : f[e] \in Int
  OBVIOUS
<1> HIDE DEF f, Table
<1>4. Table(CHOOSE k : Table(k))
  BY <1>1, <1>3, TableExists
<1> QED
  BY <1>1, <1>2, <1>3, <1>4, TableSum DEF f

LEMMA SumOfFills ==
  ASSUME IsFiniteSet(passed), \A f \in passed : Pnl(rowOf[f]) \in Int
  PROVE  MapThenSumSet(LAMBDA f : Pnl(rowOf[f]), passed)
           = Sum([f \in passed |-> Pnl(rowOf[f])], passed)
<1> DEFINE h == [f \in passed |-> Pnl(rowOf[f])]
           Table(k) == k = [s \in SUBSET passed |->
             IF s = {} THEN 0 ELSE Pnl(rowOf[Choice(s)]) + k[s \ {Choice(s)}]]
<1>1. \A k : Table(k) <=> SumTable(k, h, passed)
  <2>1. \A s \in SUBSET passed : s # {} => h[Choice(s)] = Pnl(rowOf[Choice(s)])
    BY DEF Choice
  <2> QED
    BY <2>1 DEF SumTable
<1>2. MapThenSumSet(LAMBDA f : Pnl(rowOf[f]), passed) = (CHOOSE k : Table(k))[passed]
  BY DEF MapThenSumSet, MapThenFoldSet, Choice
<1>3. \A f \in passed : h[f] \in Int
  OBVIOUS
<1> HIDE DEF h, Table
<1>4. Table(CHOOSE k : Table(k))
  BY <1>1, <1>3, TableExists
<1> QED
  BY <1>1, <1>2, <1>3, <1>4, TableSum DEF h

\* What the events sum up to, which the guard and the breaker compare with the loss
\* limit, is the P&L of the fills that the sync has passed, as long as the broker
\* tells fills apart by their numbers.
THEOREM SumsAreExact == RowsSpec => []SumIsExact
<1>1. ASSUME RowsInv, revised = {}, Apart(passed)
      PROVE  MapThenSumSet(LAMBDA e : e.amount, recorded)
               = MapThenSumSet(LAMBDA f : Pnl(rowOf[f]), passed)
  <2> DEFINE b == [f \in passed |-> Event(f)]
             h == [e \in recorded |-> e.amount]
             p == [f \in passed |-> Pnl(rowOf[f])]
  <2>1. passed \subseteq Fills /\ IsFiniteSet(passed)
    <3>1. passed \subseteq Fills /\ Len(broker) \in Nat
      BY <1>1 DEF RowsInv, RowsTypeOK
    <3>2. IsFiniteSet(1 .. Len(broker))
      BY <3>1, FS_Interval
    <3> QED
      BY <3>1, <3>2, FS_Subset DEF Fills
  <2>2. \A f \in passed : Pnl(rowOf[f]) \in Int
    BY <1>1, ColumnNumber DEF RowsInv, RowsTypeOK, Fills
  <2>3. recorded = {b[f] : f \in passed}
    BY <1>1 DEF RowsInv, RecordedInv
  <2>4. \A f, g \in passed : b[f] = b[g] => f = g
    BY <1>1, KeysDiffer DEF Apart, Event
  <2>5. \A f \in passed : p[f] \in Int /\ h[b[f]] = p[f]
    BY <2>2, <2>3 DEF Event
  <2>6. \A e \in recorded : e.amount \in Int
    BY <2>2, <2>3 DEF Event
  <2>7. IsFiniteSet(recorded)
    BY <2>1, <2>3, ImageIsFinite
  <2> HIDE DEF b, h, p
  <2>8. Sum(h, recorded) = Sum(p, passed)
    BY <2>1, <2>3, <2>4, <2>5, SumImage
  <2> QED
    BY <2>1, <2>2, <2>6, <2>7, <2>8, SumOfEvents, SumOfFills DEF h, p
<1>2. RowsInv => SumIsExact
  BY <1>1 DEF SumIsExact, Apart
<1> QED
  BY <1>2, RowsInvariance, PTL

-----------------------------------------------------------------------------
(* Runs with broker data. *)

\* A cell that can be read is a number, or missing and read as zero.
LEMMA NumberRead ==
  ASSUME NEW numbers, numbers \subseteq Int, NEW cell \in Cell(numbers), cell # NoNumber
  PROVE  /\ Number(cell) \in Nat
         /\ Number(cell) # 0 => /\ cell \in numbers \ {0}
                                /\ Number(cell) = IF cell < 0 THEN -cell ELSE cell
<1>1. CASE cell = Missing
  BY <1>1 DEF Number
<1>2. CASE cell # Missing
  <2>1. cell \in numbers /\ cell \in Int
    BY <1>2 DEF Cell
  <2> QED
    BY <1>2, <2>1 DEF Number, ParseInt
<1> QED
  BY <1>1, <1>2

\* The cells that a run looks at are such cells.
LEMMA CellsRead ==
  /\ quote \in Quotes => PriceCell(quote) \in Cell(Prices)
  /\ balance \in Balances => BalanceCell(balance) \in Cell(Sums)
  /\ \A r \in Transfers : AmountCell(r) \in Cell(Sums)
<1>1. \A r \in Transfers : r.amount \in Cell(Sums) /\ r.exact \in Cell(Sums)
  BY BrokerDataAssumption
<1> QED
  BY <1>1 DEF Quotes, Balances, PriceCell, BalanceCell, AmountCell, Or

Numbers == Prices \subseteq Int /\ Sums \subseteq Int

LEMMA NumbersAre == Numbers
BY BrokerDataAssumption DEF Numbers

\* What a run concludes with is a review of what it has read.
BrokerInv ==
  /\ ReviewInv
  /\ symbol \in Symbols /\ quote \in Quotes /\ balance \in Balances
  /\ \E n \in Nat : history \in [1 .. n -> Transfers]
  /\ request = "done" => review = Review(candidate, account)
  /\ request = "done" /\ account # NoAccount =>
       /\ candidate = Candidate(quote) /\ account = AccountState(balance, history)
       /\ ~ Unreadable

LEMMA TicketAtPrice ==
  ASSUME NEW price \in Nat, symbol \in Symbols
  PROVE  TicketAt(price) \in Ticket \cup {NoTicket}
<1>1. symbol \in STRING
  BY BrokerDataAssumption
<1>2. CASE symbol = "498270"
  BY <1>1, <1>2 DEF TicketAt, Ticket
<1> QED
  BY <1>2 DEF TicketAt

LEMMA BrokerInitInv == BrokerInit => BrokerInv
<1> SUFFICES ASSUME BrokerInit PROVE BrokerInv
  OBVIOUS
<1>1. symbol \in Symbols /\ quote \in Quotes /\ balance \in Balances
  BY DEF BrokerInit, Quotes, Balances, Cell
<1>2. history \in [1 .. 0 -> Transfers]
  BY DEF BrokerInit
<1>3. ReviewInv /\ request # "done"
  BY RiskAssumption DEF BrokerInit, ReviewInit, ReviewInv
<1> QED
  BY <1>1, <1>2, <1>3 DEF BrokerInv

LEMMA BrokerNextInv == BrokerInv /\ [BrokerNext]_brokerVars => BrokerInv'
<1> SUFFICES ASSUME BrokerInv, [BrokerNext]_brokerVars PROVE BrokerInv'
  OBVIOUS
<1> USE DEF BrokerInv
<1>1. ASSUME NEW q \in Quotes, AskQuote(q) PROVE BrokerInv'
  BY <1>1 DEF AskQuote, Ask, reviewVars, ReviewInv
<1>2. ASSUME NEW b \in Balances, AskBalance(b) PROVE BrokerInv'
  BY <1>2 DEF AskBalance, Ask, reviewVars, ReviewInv
<1>3. ASSUME NEW today \in Todays, NEW h \in Histories, AskHistory(today, h)
      PROVE  BrokerInv'
  <2>1. \E n \in Nat : h \in [1 .. n -> Transfers]
    BY DEF Histories, SeqOf
  <2> QED
    BY <1>3, <2>1 DEF AskHistory, Ask, reviewVars, ReviewInv
<1>4. ASSUME NEW t \in Ticket \cup {NoTicket}, NEW a \in Account \cup {NoAccount},
             Conclude(t, a),
             a # NoAccount => /\ t = Candidate(quote) /\ ~ Unreadable
                              /\ a = AccountState(balance, history)
      PROVE  BrokerInv'
  <2>1. /\ candidate' = t /\ account' = a /\ review' = Review(t, a)
        /\ UNCHANGED <<symbol, range, quote, balance, history>>
    BY <1>4 DEF Conclude, answers
  <2>2. /\ Candidate(quote)' = Candidate(quote) /\ Unreadable' = Unreadable
        /\ AccountState(balance, history)' = AccountState(balance, history)
    BY <2>1 DEF Candidate, TicketAt, Unreadable, AccountState
  <2> QED
    BY <1>4, <2>1, <2>2 DEF ReviewInv
<1>5. CASE Analyze
  <2>1. ~ Unreadable /\ Conclude(Candidate(quote), AccountState(balance, history))
    BY <1>5 DEF Analyze
  <2>2. Number(PriceCell(quote)) \in Nat /\ Number(BalanceCell(balance)) \in Nat
    BY <2>1, CellsRead, NumbersAre, NumberRead DEF Unreadable, Numbers
  <2>3. Candidate(quote) \in Ticket \cup {NoTicket}
    BY <2>2, TicketAtPrice DEF Candidate
  <2>4. AccountState(balance, history) \in Account
    BY <2>2 DEF AccountState, Account
  <2> QED
    BY <1>4, <2>1, <2>3, <2>4
<1>6. CASE WithoutBroker
  <2>1. TicketAt(DefaultPrice) \in Ticket \cup {NoTicket}
    BY TicketAtPrice, BrokerDataAssumption
  <2> QED
    BY <1>4, <1>6, <2>1 DEF WithoutBroker
<1>7. CASE Raise
  BY <1>7 DEF Raise, reviewVars, answers, ReviewInv
<1>8. CASE request = "given" /\ MakeReview /\ UNCHANGED <<request, symbol, answers>>
  BY <1>8 DEF MakeReview, answers, ReviewInv
<1>9. CASE UNCHANGED brokerVars
  BY <1>9 DEF brokerVars, reviewVars, answers, ReviewInv, Candidate, TicketAt,
              AccountState, Unreadable
<1> QED
  BY <1>1, <1>2, <1>3, <1>5, <1>6, <1>7, <1>8, <1>9 DEF BrokerNext

LEMMA BrokerInvariance == BrokerSpec => []BrokerInv
BY BrokerInitInv, BrokerNextInv, PTL DEF BrokerSpec

\* A review by itself, or at the end of a run.
LEMMA ReviewInvariant == ReviewSpec \/ BrokerSpec => []ReviewInv
<1>1. ReviewInit => ReviewInv
  BY RiskAssumption DEF ReviewInit, ReviewInv
<1>2. ReviewInv /\ [MakeReview]_reviewVars => ReviewInv'
  BY DEF ReviewInv, MakeReview, reviewVars
<1>3. BrokerInv => ReviewInv
  BY DEF BrokerInv
<1> QED
  BY <1>1, <1>2, <1>3, BrokerInvariance, PTL DEF ReviewSpec

\* An approved ticket respects every limit of the policy and of the account
\* (RiskManagementAgent.review).
THEOREM ApprovedIsWithinLimits == ReviewSpec \/ BrokerSpec => []WithinLimits
<1>1. ReviewInv => WithinLimits
  BY PassedIsApproved, ApprovedTicket DEF WithinLimits
<1> QED
  BY <1>1, ReviewInvariant, PTL

\* The review cannot enlarge an order, nor change anything else of it.
THEOREM ReviewOnlyReduces == ReviewSpec \/ BrokerSpec => []OnlyReduces
<1>1. ReviewInv => OnlyReduces
  BY PassedIsApproved, ApprovedTicket DEF OnlyReduces
<1> QED
  BY <1>1, ReviewInvariant, PTL

\* It takes away no share that the limits would have allowed.
THEOREM ReviewReducesLeast == ReviewSpec \/ BrokerSpec => []ReducesLeast
<1>1. ReviewInv => ReducesLeast
  BY PassedIsApproved, ApprovedTicket DEF ReducesLeast
<1> QED
  BY <1>1, ReviewInvariant, PTL

-----------------------------------------------------------------------------
(* Approvals are backed. *)

\* The amounts that the summary of the history adds up, and the rows it adds them for.
Amount == [i \in DOMAIN history |-> Number(AmountCell(history[i]))]
RowsOf(kinds) == {i \in DOMAIN history : history[i].kind \in kinds}

\* The sums over the rows of a part of the history.
Totals(s) == [deposit |-> Sum(Amount, s \cap RowsOf({"in", "both"})),
              withdraw |-> Sum(Amount, s \cap RowsOf({"out"}))]

LEMMA AmountsRead ==
  ASSUME BrokerInv, ~ Unreadable
  PROVE  /\ IsFiniteSet(DOMAIN history)
         /\ \A i \in DOMAIN history : Amount[i] \in Int
<1>1. PICK n \in Nat : history \in [1 .. n -> Transfers]
  BY DEF BrokerInv
<1>2. ASSUME NEW i \in DOMAIN history PROVE Amount[i] \in Int
  <2>1. AmountCell(history[i]) \in Cell(Sums) /\ AmountCell(history[i]) # NoNumber
    BY <1>1, <1>2, CellsRead DEF Unreadable
  <2>2. Number(AmountCell(history[i])) \in Nat
    BY <2>1, NumbersAre, NumberRead DEF Numbers
  <2> QED
    BY <2>2 DEF Amount
<1> QED
  BY <1>1, <1>2, FS_Interval

\* An outflow leaves the total of the deposits alone.
LEMMA AddsToOne ==
  ASSUME NEW in, NEW out, NEW amount
  PROVE  [[deposit |-> in, withdraw |-> out] EXCEPT !.withdraw = @ + amount]
           = [deposit |-> in, withdraw |-> out + amount]
  OBVIOUS

\* A row adds its amount to the total of its kind.
LEMMA AddRow ==
  ASSUME BrokerInv, ~ Unreadable, NEW s \in SUBSET DOMAIN history,
         NEW i \in DOMAIN history \ s
  PROVE  Add(Totals(s), history[i]) = Totals(s \cup {i})
<1> DEFINE in == RowsOf({"in", "both"})
           out == RowsOf({"out"})
           next == Add(Totals(s), history[i])
<1>1. /\ IsFiniteSet(s \cap in) /\ IsFiniteSet(s \cap out)
      /\ \A j \in DOMAIN history : Amount[j] \in Int
  BY AmountsRead, FS_Subset
<1>2. Amount[i] = Number(AmountCell(history[i])) /\ Amount[i] \in Int
  BY <1>1 DEF Amount
<1>3. /\ i \in in <=> history[i].kind \in {"in", "both"}
      /\ i \in out <=> history[i].kind = "out"
  BY DEF RowsOf
<1>4. /\ i \in in => Sum(Amount, (s \cup {i}) \cap in) = Amount[i] + Sum(Amount, s \cap in)
      /\ i \notin in => Sum(Amount, (s \cup {i}) \cap in) = Sum(Amount, s \cap in)
  <2>1. CASE i \in in
    <3>1. (s \cup {i}) \cap in = (s \cap in) \cup {i}
      BY <2>1
    <3>2. Sum(Amount, (s \cap in) \cup {i}) = Amount[i] + Sum(Amount, s \cap in)
      BY <1>1, SumInsert
    <3> QED
      BY <2>1, <3>1, <3>2
  <2>2. CASE i \notin in
    <3>1. (s \cup {i}) \cap in = s \cap in
      BY <2>2
    <3> QED
      BY <2>2, <3>1
  <2> QED
    BY <2>1, <2>2
<1>5. /\ i \in out => Sum(Amount, (s \cup {i}) \cap out) = Amount[i] + Sum(Amount, s \cap out)
      /\ i \notin out => Sum(Amount, (s \cup {i}) \cap out) = Sum(Amount, s \cap out)
  <2>1. CASE i \in out
    <3>1. (s \cup {i}) \cap out = (s \cap out) \cup {i}
      BY <2>1
    <3>2. Sum(Amount, (s \cap out) \cup {i}) = Amount[i] + Sum(Amount, s \cap out)
      BY <1>1, SumInsert
    <3> QED
      BY <2>1, <3>1, <3>2
  <2>2. CASE i \notin out
    <3>1. (s \cup {i}) \cap out = s \cap out
      BY <2>2
    <3> QED
      BY <2>2, <3>1
  <2> QED
    BY <2>1, <2>2
<1>6. Sum(Amount, s \cap in) \in Int /\ Sum(Amount, s \cap out) \in Int
  BY <1>1, SumType
<1>7. /\ Totals(s) = [deposit |-> Sum(Amount, s \cap in), withdraw |-> Sum(Amount, s \cap out)]
      /\ Totals(s \cup {i}) = [deposit |-> Sum(Amount, (s \cup {i}) \cap in),
                               withdraw |-> Sum(Amount, (s \cup {i}) \cap out)]
  BY DEF Totals
<1> HIDE DEF in, out
<1>8. CASE i \in out
  <2>1. next = [Totals(s) EXCEPT !.withdraw = @ + Amount[i]] /\ i \notin in
    BY <1>2, <1>3, <1>8 DEF Add
  <2>2. next = [deposit |-> Sum(Amount, s \cap in),
                withdraw |-> Sum(Amount, s \cap out) + Amount[i]]
    BY <1>7, <2>1, AddsToOne
  <2>3. Sum(Amount, s \cap out) + Amount[i] = Amount[i] + Sum(Amount, s \cap out)
    BY <1>2, <1>6
  <2> QED
    BY <1>4, <1>5, <1>7, <1>8, <2>1, <2>2, <2>3
<1>9. CASE i \in in
  <2>1. next = [Totals(s) EXCEPT !.deposit = @ + Amount[i]] /\ i \notin out
    BY <1>2, <1>3, <1>9 DEF Add
  <2>2. next = [deposit |-> Sum(Amount, s \cap in) + Amount[i],
                withdraw |-> Sum(Amount, s \cap out)]
    BY <1>7, <2>1
  <2>3. Sum(Amount, s \cap in) + Amount[i] = Amount[i] + Sum(Amount, s \cap in)
    BY <1>2, <1>6
  <2> QED
    BY <1>4, <1>5, <1>7, <1>9, <2>1, <2>2, <2>3
<1>10. CASE i \notin in /\ i \notin out
  <2>1. next = Totals(s)
    BY <1>3, <1>10 DEF Add
  <2> QED
    BY <1>4, <1>5, <1>7, <1>10, <2>1
<1> QED
  BY <1>8, <1>9, <1>10

\* The turns of summarize_transactions come to the sums.
LEMMA SummaryIsTotals ==
  ASSUME BrokerInv, ~ Unreadable
  PROVE  Summary(history) = Totals(DOMAIN history)
<1>1. PICK n \in Nat : history \in [1 .. n -> Transfers]
  BY DEF BrokerInv
<1> DEFINE D == DOMAIN history
           c == LastOf(D)
           zero == [deposit |-> 0, withdraw |-> 0]
           Table(k) == k = [s \in SUBSET D |->
             IF s = {} THEN zero ELSE Add(k[s \ {Max(s)}], history[Max(s)])]
           total == [s \in SUBSET D |-> Totals(s)]
<1>2. IsFiniteSet(D) /\ Chooses(c, D)
  BY <1>1, LastChooses
<1>3. \A s \in SUBSET D : c[s] = Max(s)
  BY DEF LastOf
<1>4. Totals({}) = zero
  BY SumEmpty DEF Totals
<1>5. Table(total)
  <2>1. ASSUME NEW s \in SUBSET D, s # {}
        PROVE  total[s] = Add(total[s \ {Max(s)}], history[Max(s)])
    <3>1. Max(s) \in s /\ s \ {Max(s)} \in SUBSET D /\ (s \ {Max(s)}) \cup {Max(s)} = s
      BY <1>2, <1>3, <2>1 DEF Chooses
    <3>2. Add(Totals(s \ {Max(s)}), history[Max(s)]) = Totals((s \ {Max(s)}) \cup {Max(s)})
      BY <3>1, AddRow
    <3> QED
      BY <3>1, <3>2
  <2>2. total[{}] = zero
    BY <1>4
  <2>3. \A s \in SUBSET D : total[s] = IF s = {} THEN zero
          ELSE Add(total[s \ {Max(s)}], history[Max(s)])
    BY <2>1, <2>2
  <2>4. total = [s \in SUBSET D |-> total[s]]
    OBVIOUS
  <2> HIDE DEF total
  <2> QED
    BY <2>3, <2>4
<1>6. Summary(history) = (CHOOSE k : Table(k))[D]
  BY DEF Summary, FoldLeft, MapThenFoldSet
<1>7. PICK k : Table(k) /\ Summary(history) = k[D]
  <2> HIDE DEF Table
  <2> QED
    BY <1>5, <1>6
<1>8. k[D] \in {Totals(D)}
  <2> DEFINE W == [s \in SUBSET D |-> {Totals(s)}]
  <2>1. k[{}] \in W[{}]
    BY <1>4, <1>7
  <2>2. ASSUME NEW s \in SUBSET D, s # {}, k[s \ {c[s]}] \in W[s \ {c[s]}]
        PROVE  k[s] \in W[s]
    <3>1. Max(s) \in s /\ s \ {Max(s)} \in SUBSET D /\ (s \ {Max(s)}) \cup {Max(s)} = s
      BY <1>2, <1>3, <2>2 DEF Chooses
    <3>2. k[s] = Add(Totals(s \ {Max(s)}), history[Max(s)])
      BY <1>3, <1>7, <2>2, <3>1
    <3>3. Add(Totals(s \ {Max(s)}), history[Max(s)]) = Totals((s \ {Max(s)}) \cup {Max(s)})
      BY <3>1, AddRow
    <3> QED
      BY <3>1, <3>2, <3>3
  <2>3. W[D] = {Totals(D)}
    OBVIOUS
  <2> HIDE DEF W, D, c
  <2>4. k[D] \in W[D]
    BY <1>2, <2>1, <2>2, FoldKeeps
  <2> QED
    BY <2>3, <2>4
<1> QED
  BY <1>7, <1>8

\* And so does the sum that OutflowIsMarked compares.
LEMMA SumOfRows ==
  ASSUME BrokerInv, ~ Unreadable, NEW S \in SUBSET DOMAIN history
  PROVE  MapThenSumSet(LAMBDA i : Number(AmountCell(history[i])), S) = Sum(Amount, S)
<1> DEFINE Table(k) == k = [s \in SUBSET S |->
             IF s = {} THEN 0
             ELSE Number(AmountCell(history[Choice(s)])) + k[s \ {Choice(s)}]]
<1>1. \A k : Table(k) <=> SumTable(k, Amount, S)
  <2>1. \A s \in SUBSET S : s # {} =>
          Amount[Choice(s)] = Number(AmountCell(history[Choice(s)]))
    BY DEF Choice, Amount
  <2> QED
    BY <2>1 DEF SumTable
<1>2. MapThenSumSet(LAMBDA i : Number(AmountCell(history[i])), S) = (CHOOSE k : Table(k))[S]
  BY DEF MapThenSumSet, MapThenFoldSet, Choice
<1>3. IsFiniteSet(S) /\ \A i \in S : Amount[i] \in Int
  BY AmountsRead, FS_Subset
<1> HIDE DEF Table
<1>4. Table(CHOOSE k : Table(k))
  BY <1>1, <1>3, TableExists
<1> QED
  BY <1>1, <1>2, <1>3, <1>4, TableSum

\* An approval with broker data, and what it is based on.
LEMMA LiveIsApproved ==
  ASSUME BrokerInv, ApprovedLive
  PROVE  /\ ~ Unreadable
         /\ candidate = TicketAt(Number(PriceCell(quote))) /\ candidate \in Ticket
         /\ account = AccountState(balance, history) /\ account \in Account
         /\ account # NoAccount
         /\ Approved(candidate, account)
         /\ review = Review(candidate, account) /\ candidate # NoTicket
<1>1. /\ review = Review(candidate, account) /\ review.approved /\ account # NoAccount
      /\ ~ Unreadable
      /\ candidate = TicketAt(Number(PriceCell(quote)))
      /\ account = AccountState(balance, history)
  BY DEF BrokerInv, ApprovedLive, Candidate
<1>2. candidate # NoTicket
  BY <1>1 DEF Review
<1> QED
  BY <1>1, <1>2 DEF Review, BrokerInv, ReviewInv

LEMMA LiveIsPaidFor ==
  ASSUME BrokerInv, ApprovedLive
  PROVE  IsPaidFor
<1> DEFINE price == PriceCell(quote)
           cash == BalanceCell(balance)
           amount == EstimatedAmount(review.ticket)
<1>1. /\ price \in Cell(Prices) /\ price # NoNumber
      /\ cash \in Cell(Sums) /\ cash # NoNumber
  BY LiveIsApproved, CellsRead DEF BrokerInv, Unreadable
<1>2. Number(price) \in Nat /\ Number(cash) \in Nat
  BY <1>1, NumbersAre, NumberRead DEF Numbers
<1>3. /\ candidate.limit_price = Number(price) /\ candidate.side = "buy"
      /\ candidate.quantity = 3
  BY LiveIsApproved DEF TicketAt
<1>4. account.balance = Number(cash)
  BY LiveIsApproved DEF AccountState
<1>5. InvestableCash(account) = (3 * Number(cash)) \div 10
  BY <1>2, <1>4 DEF InvestableCash, ParseInt
<1>6. /\ Fits(candidate, InvestableCash(account)) /\ CashBound(candidate, account)
      /\ review.ticket = Adjusted(candidate, account)
  BY <1>3, LiveIsApproved DEF Approved, CashBound, Review
<1>7. /\ amount <= InvestableCash(account)
      /\ review.ticket.limit_price = Number(price)
      /\ review.ticket.quantity > 0 /\ review.ticket \in Ticket
  <2>1. /\ review.ticket \in Ticket
        /\ review.ticket = [candidate EXCEPT !.quantity = review.ticket.quantity]
        /\ amount <= InvestableCash(account)
        /\ candidate.quantity > 0 => review.ticket.quantity > 0
    BY <1>6, LiveIsApproved, ApprovedTicket
  <2>2. review.ticket.limit_price = candidate.limit_price
    BY <2>1, LiveIsApproved DEF Ticket
  <2> QED
    BY <1>3, <2>1, <2>2
<1>8. Number(price) > 0
  BY <1>2, <1>3, <1>6 DEF Fits
<1>9. amount \in Nat /\ amount > 0
  <2>1. review.ticket.quantity \in Nat /\ review.ticket.limit_price \in Nat
    BY <1>7, TicketFields
  <2>2. amount = review.ticket.quantity * Number(price) /\ amount \in Nat
    BY <1>7, <2>1, Monotone DEF EstimatedAmount
  <2>3. 1 * Number(price) <= review.ticket.quantity * Number(price)
    BY <1>2, <1>7, <2>1, Monotone
  <2> QED
    BY <1>2, <1>8, <2>2, <2>3
<1> HIDE DEF amount
<1>10. 10 * amount <= 3 * Number(cash)
  BY <1>2, <1>5, <1>7, <1>9
<1>11. Number(cash) # 0
  BY <1>2, <1>9, <1>10
<1>12. /\ price \in Prices \ {0}
       /\ Number(price) = IF price < 0 THEN -price ELSE price
       /\ cash \in Sums \ {0}
       /\ Number(cash) = IF cash < 0 THEN -cash ELSE cash
  <2>1. Number(price) # 0 /\ Number(cash) # 0
    BY <1>2, <1>8, <1>11
  <2>2. /\ price \in Prices \ {0}
        /\ Number(price) = IF price < 0 THEN -price ELSE price
    BY <1>1, <2>1, NumbersAre, NumberRead DEF Numbers
  <2>3. /\ cash \in Sums \ {0}
        /\ Number(cash) = IF cash < 0 THEN -cash ELSE cash
    BY <1>1, <2>1, NumbersAre, NumberRead DEF Numbers
  <2> QED
    BY <2>2, <2>3
<1>13. review.ticket.limit_price \in {price, -price}
  BY <1>7, <1>12
<1>14. 10 * amount <= 3 * (IF cash < 0 THEN -cash ELSE cash)
  BY <1>10, <1>12
<1> QED
  BY <1>12, <1>13, <1>14 DEF IsPaidFor, amount

LEMMA LiveIsMarked ==
  ASSUME BrokerInv, ApprovedLive
  PROVE  OutflowIsMarked
<1>1. ~ Unreadable
  BY LiveIsApproved
<1>2. /\ RowsOf({"out"}) \in SUBSET DOMAIN history
      /\ RowsOf({"in", "both"}) \in SUBSET DOMAIN history
  BY DEF RowsOf
<1>3. /\ Summary(history).withdraw = Sum(Amount, RowsOf({"out"}))
      /\ Summary(history).deposit = Sum(Amount, RowsOf({"in", "both"}))
  <2>1. /\ DOMAIN history \cap RowsOf({"out"}) = RowsOf({"out"})
        /\ DOMAIN history \cap RowsOf({"in", "both"}) = RowsOf({"in", "both"})
    BY <1>2
  <2>2. Summary(history) = Totals(DOMAIN history)
    BY <1>1, SummaryIsTotals
  <2>3. Summary(history) = [deposit |-> Sum(Amount, RowsOf({"in", "both"})),
                            withdraw |-> Sum(Amount, RowsOf({"out"}))]
    BY <2>1, <2>2 DEF Totals
  <2> QED
    BY <2>3
<1>4. account.withdrew_more <=> Summary(history).withdraw > Summary(history).deposit
  <2>1. account.withdrew_more = (Summary(history).withdraw > Summary(history).deposit)
    BY LiveIsApproved DEF AccountState
  <2> QED
    BY <2>1
<1>5. review.level = "medium" <=> account.withdrew_more
  BY LiveIsApproved DEF Review, RiskLevel
<1>6. /\ MapThenSumSet(LAMBDA i : Number(AmountCell(history[i])), RowsOf({"out"}))
           = Sum(Amount, RowsOf({"out"}))
      /\ MapThenSumSet(LAMBDA i : Number(AmountCell(history[i])), RowsOf({"in", "both"}))
           = Sum(Amount, RowsOf({"in", "both"}))
  BY <1>1, <1>2, SumOfRows
<1> QED
  BY <1>3, <1>4, <1>5, <1>6 DEF OutflowIsMarked, RowsOf

\* Whatever the broker answers, a run approves no ticket but at a price and on a
\* balance that were sent, that pays for it, and marked by the sums of its history.
THEOREM LiveApprovalsAreBacked == BrokerSpec => []ApprovedIsBacked
<1>1. BrokerInv => ApprovedIsBacked
  BY LiveIsPaidFor, LiveIsMarked DEF ApprovedIsBacked
<1> QED
  BY <1>1, BrokerInvariance, PTL

-----------------------------------------------------------------------------
(* The history is of one year. *)

\* A year that is a multiple has one more of them before it than the year before.
LEMMA MultiplesBefore ==
  ASSUME NEW k \in Int
  PROVE  /\ k \div 4 = (k - 1) \div 4 + (IF k % 4 = 0 THEN 1 ELSE 0)
         /\ k \div 100 = (k - 1) \div 100 + (IF k % 100 = 0 THEN 1 ELSE 0)
         /\ k \div 400 = (k - 1) \div 400 + (IF k % 400 = 0 THEN 1 ELSE 0)
<1>1. k \div 4 = (k - 1) \div 4 + (IF k % 4 = 0 THEN 1 ELSE 0)
  OBVIOUS
<1>2. k \div 100 = (k - 1) \div 100 + (IF k % 100 = 0 THEN 1 ELSE 0)
  OBVIOUS
<1>3. k \div 400 = (k - 1) \div 400 + (IF k % 400 = 0 THEN 1 ELSE 0)
  OBVIOUS
<1> QED
  BY <1>1, <1>2, <1>3

\* A year adds its own leap day.
LEMMA LeapDaysStep ==
  ASSUME NEW k \in Int
  PROVE  /\ LeapDays(k) \in Int /\ LeapDays(k - 1) \in Int
         /\ LeapDays(k) = LeapDays(k - 1) + (IF Leap(k) THEN 1 ELSE 0)
<1>1. /\ k % 400 = 0 => k % 100 = 0
      /\ k % 100 = 0 => k % 4 = 0
  OBVIOUS
<1>2. /\ k \div 4 \in Int /\ k \div 100 \in Int /\ k \div 400 \in Int
      /\ (k - 1) \div 4 \in Int /\ (k - 1) \div 100 \in Int /\ (k - 1) \div 400 \in Int
  OBVIOUS
<1> QED
  BY <1>1, <1>2, MultiplesBefore DEF LeapDays, Leap

\* No leap year follows another.
LEMMA LeapYearsApart ==
  ASSUME NEW k \in Int, Leap(k)
  PROVE  ~ Leap(k - 1)
  BY DEF Leap

\* What is used of the table of the months.
LEMMA MonthsAdd ==
  ASSUME NEW m \in 1 .. 12
  PROVE  /\ DaysBefore[m] \in 0 .. 334
         /\ m = 1 => DaysBefore[m] = 0
         /\ m = 2 => DaysBefore[m] = 31
         /\ m > 2 => DaysBefore[m] >= 59
         /\ m = 12 => DaysBefore[m] = 334
<1>1. m \in {1, 2, 3, 4, 5, 6, 7, 8, 9, 10, 11, 12}
  OBVIOUS
<1> QED
  BY <1>1 DEF DaysBefore

\* The leap day of a date's year, if it is past.
LeapDayBefore(y, m) == IF Leap(y) /\ m > 2 THEN 1 ELSE 0

\* A month adds its days.
LEMMA NextMonth ==
  ASSUME NEW m \in 1 .. 11, NEW y \in Int
  PROVE  DaysBefore[m + 1] + LeapDayBefore(y, m + 1)
           = DaysBefore[m] + DaysIn(m, y) + LeapDayBefore(y, m)
<1>1. m \in {1, 2, 3, 4, 5, 6, 7, 8, 9, 10, 11}
  OBVIOUS
<1>2. CASE m \in {1, 3, 5, 7, 8, 10}
  BY <1>2 DEF DaysBefore, DaysIn, LeapDayBefore
<1>3. CASE m \in {4, 6, 9, 11}
  BY <1>3 DEF DaysBefore, DaysIn, LeapDayBefore
<1>4. CASE m = 2
  BY <1>4 DEF DaysBefore, DaysIn, LeapDayBefore
<1> QED
  BY <1>1, <1>2, <1>3, <1>4

LEMMA DaysInMonth ==
  ASSUME NEW m \in 1 .. 12, NEW y \in Int
  PROVE  /\ DaysIn(m, y) \in 28 .. 31
         /\ m = 2 => DaysIn(m, y) = (IF Leap(y) THEN 29 ELSE 28)
         /\ m = 12 => DaysIn(m, y) = 31
  BY DEF DaysIn

\* A date, by its fields.
DateOf(y, m, d) == [year |-> y, month |-> m, day |-> d]

\* The number of a date, by its fields.
Days(y, m, d) ==
  365 * (y - 1) + LeapDays(y - 1) + DaysBefore[m] + d + LeapDayBefore(y, m)

LEMMA NumberOf ==
  ASSUME NEW y \in Int, NEW m \in 1 .. 12, NEW d \in Int
  PROVE  DayNumber(DateOf(y, m, d)) = Days(y, m, d)
  BY DEF DayNumber, LeapDayBefore, DateOf, Days

LEMMA DaysAreNumbers ==
  ASSUME NEW y \in Int, NEW m \in 1 .. 12
  PROVE  /\ LeapDayBefore(y, m) \in 0 .. 1
         /\ LeapDays(y - 1) \in Int
         /\ DaysBefore[m] \in Int
<1>1. LeapDayBefore(y, m) \in 0 .. 1
  BY DEF LeapDayBefore
<1>2. LeapDays(y - 1) \in Int
  BY LeapDaysStep
<1>3. DaysBefore[m] \in Int
  <2>1. DaysBefore[m] \in 0 .. 334
    BY MonthsAdd
  <2> QED
    BY <2>1
<1> QED
  BY <1>1, <1>2, <1>3

\* The day after counts one more.
LEMMA DayAfterCounts ==
  ASSUME NEW y \in Int, NEW m \in 1 .. 12, NEW d \in 1 .. DaysIn(m, y)
  PROVE  /\ DayNumber(DayAfter(DateOf(y, m, d))) = DayNumber(DateOf(y, m, d)) + 1
         /\ DayAfter(DateOf(y, m, d)).year = IF m = 12 /\ d = 31 THEN y + 1 ELSE y
<1> DEFINE next == DayAfter(DateOf(y, m, d))
<1>1. /\ DaysIn(m, y) \in 28 .. 31
      /\ m = 12 => DaysIn(m, y) = 31
      /\ d \in 1 .. 31 /\ d \in Int
  BY DaysInMonth
<1>2. LeapDayBefore(y, m) \in 0 .. 1 /\ LeapDays(y - 1) \in Int /\ DaysBefore[m] \in Int
  BY DaysAreNumbers
<1>3. DayNumber(DateOf(y, m, d)) = Days(y, m, d)
  BY <1>1, NumberOf
<1>4. CASE d < DaysIn(m, y)
  <2>1. next = DateOf(y, m, d + 1) /\ ~ (m = 12 /\ d = 31)
    BY <1>1, <1>4 DEF DayAfter, DateOf
  <2>2. d + 1 \in Int
    BY <1>1
  <2>3. DayNumber(DateOf(y, m, d + 1)) = Days(y, m, d + 1)
    BY <2>2, NumberOf
  <2>4. Days(y, m, d + 1) = Days(y, m, d) + 1
    BY <1>1, <1>2 DEF Days
  <2>5. DateOf(y, m, d + 1).year = y
    BY DEF DateOf
  <2> QED
    BY <1>3, <2>1, <2>3, <2>4, <2>5
<1>5. CASE d = DaysIn(m, y) /\ m < 12
  <2>1. m + 1 \in 1 .. 12 /\ m \in 1 .. 11 /\ 1 \in Int
    BY <1>5
  <2>2. next = DateOf(y, m + 1, 1)
    <3>1. DateOf(y, m, d).year = y /\ DateOf(y, m, d).month = m /\ DateOf(y, m, d).day = d
      BY DEF DateOf
    <3> QED
      BY <1>5, <2>1, <3>1 DEF DayAfter, DateOf
  <2>3. DayNumber(DateOf(y, m + 1, 1)) = Days(y, m + 1, 1)
    BY <2>1, NumberOf
  <2>4. DaysBefore[m + 1] + LeapDayBefore(y, m + 1) = DaysBefore[m] + d + LeapDayBefore(y, m)
    BY <1>5, <2>1, NextMonth
  <2>5. LeapDayBefore(y, m + 1) \in 0 .. 1 /\ DaysBefore[m + 1] \in Int
    BY <2>1, DaysAreNumbers
  <2>6. Days(y, m + 1, 1) = Days(y, m, d) + 1
    BY <1>1, <1>2, <2>4, <2>5 DEF Days
  <2>7. DateOf(y, m + 1, 1).year = y
    BY DEF DateOf
  <2> QED
    BY <1>3, <1>5, <2>2, <2>3, <2>6, <2>7
<1>6. CASE d = DaysIn(m, y) /\ m = 12
  <2>1. next = DateOf(y + 1, 1, 1) /\ d = 31
    BY <1>1, <1>6 DEF DayAfter, DateOf
  <2>2. y + 1 \in Int /\ (y + 1) - 1 = y /\ 1 \in Int /\ 1 \in 1 .. 12
    OBVIOUS
  <2>3. DayNumber(DateOf(y + 1, 1, 1)) = Days(y + 1, 1, 1)
    BY <2>2, NumberOf
  <2>4. /\ LeapDays(y) \in Int
        /\ LeapDays(y) = LeapDays(y - 1) + (IF Leap(y) THEN 1 ELSE 0)
    BY LeapDaysStep
  <2>5. /\ DaysBefore[1] = 0 /\ DaysBefore[12] = 334
        /\ LeapDayBefore(y + 1, 1) = 0
        /\ LeapDayBefore(y, 12) = (IF Leap(y) THEN 1 ELSE 0)
    BY DEF LeapDayBefore, DaysBefore
  <2>6. Days(y + 1, 1, 1) = 365 * y + LeapDays(y) + 1
    BY <2>2, <2>4, <2>5 DEF Days
  <2>7. Days(y, m, d) = 365 * (y - 1) + LeapDays(y - 1) + 334 + 31 + LeapDayBefore(y, 12)
    BY <1>6, <2>1, <2>5 DEF Days
  <2>8. Days(y + 1, 1, 1) = Days(y, m, d) + 1
    BY <1>2, <2>4, <2>5, <2>6, <2>7
  <2>9. DateOf(y + 1, 1, 1).year = y + 1
    BY DEF DateOf
  <2> QED
    BY <1>3, <1>6, <2>1, <2>3, <2>8, <2>9
<1> QED
  BY <1>1, <1>4, <1>5, <1>6

\* The range of a run is a whole year.
LEMMA OneYearIsWhole ==
  ASSUME NEW y \in Int, NEW x \in Int, x = y - 1,
         NEW m \in 1 .. 12, NEW d \in 1 .. DaysIn(m, y), d <= DaysIn(m, x)
  PROVE  WholeYear(DayAfter(DateOf(x, m, d)), DateOf(y, m, d))
<1> DEFINE first == DayAfter(DateOf(x, m, d))
           last == DateOf(y, m, d)
           leapDay(k) == DayNumber([year |-> k, month |-> 2, day |-> 29])
           years == {z \in {first.year, last.year} : Leap(z)}
           leapDays == {leapDay(k) : k \in years}
           days == DayNumber(first) .. DayNumber(last)
           before == DaysBefore[m]
           old == 365 * (x - 1) + LeapDays(x - 1)
           new == 365 * (y - 1) + LeapDays(y - 1)
           hadOld == LeapDayBefore(x, m)
           hadNew == LeapDayBefore(y, m)
<1>1. /\ d \in 1 .. 31 /\ d \in Int /\ d \in 1 .. DaysIn(m, x)
      /\ m = 2 => d <= 28
      /\ Leap(y) => ~ Leap(x)
  BY DaysInMonth, LeapYearsApart
<1>2. /\ before \in 0 .. 334
      /\ m = 1 => before = 0
      /\ m = 2 => before = 31
      /\ m > 2 => before >= 59
      /\ m = 12 => before = 334
  BY MonthsAdd
<1>3. /\ old \in Int /\ new \in Int
      /\ new = old + 365 + (IF Leap(x) THEN 1 ELSE 0)
  <2>1. /\ LeapDays(x - 1) \in Int /\ LeapDays(x) \in Int
        /\ LeapDays(x) = LeapDays(x - 1) + (IF Leap(x) THEN 1 ELSE 0)
    BY LeapDaysStep
  <2>2. new = 365 * x + LeapDays(x)
    OBVIOUS
  <2> QED
    BY <2>1, <2>2
<1>4. /\ hadOld \in 0 .. 1 /\ (hadOld = 1 <=> Leap(x) /\ m > 2)
      /\ hadNew \in 0 .. 1 /\ (hadNew = 1 <=> Leap(y) /\ m > 2)
  BY DEF LeapDayBefore
<1>5. DayNumber(last) = new + before + d + hadNew
  <2>1. DayNumber(last) = Days(y, m, d)
    BY <1>1, NumberOf
  <2> QED
    BY <2>1 DEF Days
<1>6. DayNumber(DateOf(x, m, d)) = old + before + d + hadOld
  <2>1. DayNumber(DateOf(x, m, d)) = Days(x, m, d)
    BY <1>1, NumberOf
  <2> QED
    BY <2>1 DEF Days
<1>7. /\ DayNumber(first) = DayNumber(DateOf(x, m, d)) + 1
      /\ first.year = IF m = 12 /\ d = 31 THEN x + 1 ELSE x
  BY <1>1, DayAfterCounts
<1>8. last.year = y /\ x + 1 = y
  BY DEF DateOf
<1>9. leapDay(y) = new + 60 /\ leapDay(x) = old + 60
  <2>1. DaysBefore[2] = 31 /\ LeapDayBefore(y, 2) = 0 /\ LeapDayBefore(x, 2) = 0
    BY DEF LeapDayBefore, DaysBefore
  <2>2. 2 \in 1 .. 12 /\ 29 \in Int
    OBVIOUS
  <2>3. DayNumber(DateOf(y, 2, 29)) = Days(y, 2, 29) /\ DayNumber(DateOf(x, 2, 29)) = Days(x, 2, 29)
    BY <2>2, NumberOf
  <2>4. Days(y, 2, 29) = new + 31 + 29 + 0 /\ Days(x, 2, 29) = old + 31 + 29 + 0
    BY <2>1 DEF Days
  <2>5. leapDay(y) = DayNumber(DateOf(y, 2, 29)) /\ leapDay(x) = DayNumber(DateOf(x, 2, 29))
    BY DEF DateOf
  <2> HIDE DEF leapDay, old, new
  <2> QED
    BY <1>3, <2>3, <2>4, <2>5
<1>10. WholeYear(first, last) <=>
         DayNumber(last) - DayNumber(first) + 1 = IF leapDays \cap days = {} THEN 365 ELSE 366
  BY DEF WholeYear
<1>11. leapDays \cap days # {} <=> \E k \in years : leapDay(k) \in days
  <2> HIDE DEF years, days, leapDay
  <2> QED
    OBVIOUS
<1>12. years = {z \in {first.year, y} : Leap(z)} /\ days = DayNumber(first) .. DayNumber(last)
  BY <1>8
<1> HIDE DEF first, last, before, leapDay, old, new, hadOld, hadNew, years, days, leapDays
<1>13. DayNumber(first) = old + before + d + hadOld + 1
  BY <1>6, <1>7
<1>14. DayNumber(last) - DayNumber(first) + 1
         = IF (Leap(x) /\ m <= 2) \/ (Leap(y) /\ m > 2) THEN 366 ELSE 365
  BY <1>1, <1>2, <1>3, <1>4, <1>5, <1>13
<1>15. Leap(y) => (leapDay(y) \in days <=> m > 2)
  BY <1>1, <1>2, <1>3, <1>4, <1>5, <1>9, <1>12, <1>13
<1>16. Leap(x) => (leapDay(x) \in days <=> m <= 2)
  BY <1>1, <1>2, <1>3, <1>4, <1>5, <1>9, <1>12, <1>13
<1>17. (first.year = x \/ (first.year = y /\ m > 2))
  BY <1>7, <1>8
<1>18. leapDays \cap days # {} <=> (Leap(x) /\ m <= 2) \/ (Leap(y) /\ m > 2)
  <2>1. CASE first.year = x
    BY <1>1, <1>11, <1>12, <1>15, <1>16, <2>1
  <2>2. CASE first.year = y /\ m > 2
    BY <1>11, <1>12, <1>15, <2>2
  <2> QED
    BY <1>17, <2>1, <2>2
<1>19. WholeYear(first, last)
  BY <1>10, <1>14, <1>18
<1> QED
  BY <1>19 DEF first, last

\* The range, once asked for, is that of one day, which the year before has too.
RangeInv ==
  range # <<>> => \E today \in Todays : Exists(YearBefore(today)) /\ range = OneYear(today)

LEMMA RangeIsWhole == RangeInv => CoversOneYear
<1> SUFFICES ASSUME RangeInv, range # <<>>
             PROVE  range[2] \in Todays /\ WholeYear(range[1], range[2])
  BY DEF CoversOneYear
<1>1. PICK today \in Todays : Exists(YearBefore(today)) /\ range = OneYear(today)
  BY DEF RangeInv
<1> DEFINE y == today.year
           m == today.month
           d == today.day
<1>2. today \in Dates /\ Exists(today)
  BY BrokerDataAssumption
<1>3. /\ y \in Int /\ y - 1 \in Int
      /\ m \in 1 .. 12 /\ d \in 1 .. DaysIn(m, y)
      /\ today = DateOf(y, m, d)
  BY <1>2 DEF Dates, Exists, DateOf
<1>4. YearBefore(today) = DateOf(y - 1, m, d)
  BY <1>2 DEF Dates, YearBefore, DateOf
<1>5. d <= DaysIn(m, y - 1)
  <2>1. /\ YearBefore(today).year = y - 1
        /\ YearBefore(today).month = m /\ YearBefore(today).day = d
    BY <1>4 DEF DateOf
  <2> QED
    BY <1>1, <1>3, <2>1 DEF Exists
<1>6. range[1] = DayAfter(DateOf(y - 1, m, d)) /\ range[2] = today
  BY <1>1, <1>4 DEF OneYear
<1>7. WholeYear(DayAfter(DateOf(y - 1, m, d)), DateOf(y, m, d))
  <2> HIDE DEF y, m, d
  <2> QED
    BY <1>3, <1>5, OneYearIsWhole
<1> QED
  BY <1>3, <1>6, <1>7

\* On whatever day a run asks for the history, around leap days, at the ends of months
\* and at the turn of the year, what it asks for is one whole year that ends then.
THEOREM HistoryIsOfOneYear == BrokerSpec => []CoversOneYear
<1>1. BrokerInit => RangeInv
  BY DEF BrokerInit, RangeInv
<1>2. RangeInv /\ [BrokerNext]_brokerVars => RangeInv'
  <2> SUFFICES ASSUME RangeInv, [BrokerNext]_brokerVars PROVE RangeInv'
    OBVIOUS
  <2> USE DEF RangeInv
  <2>1. ASSUME UNCHANGED range PROVE RangeInv'
    BY <2>1
  <2>2. ASSUME NEW today \in Todays, NEW h \in Histories, AskHistory(today, h)
        PROVE  RangeInv'
    BY <2>2 DEF AskHistory
  <2> HIDE DEF RangeInv
  <2> QED
    BY <2>1, <2>2 DEF BrokerNext, AskQuote, AskBalance, Analyze, WithoutBroker, Conclude,
       Raise, answers, brokerVars
<1> QED
  BY <1>1, <1>2, RangeIsWhole, PTL DEF BrokerSpec
=============================================================================
