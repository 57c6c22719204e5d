------------------------------- MODULE BrokerData -------------------------------
(***************************************************************************)
(* From the broker's answers to a reviewed ticket: the quote, the balance  *)
(* and the deposits and withdrawals that a run asks for one after another  *)
(* (scripts/run_kiwoom_intraday_workflow.py), the snapshots and sums that  *)
(* are read out of them (app/kiwoom/snapshots.py, transactions.py), the    *)
(* candidate of the strategy, and the review of RiskReview.  A review may  *)
(* also be given any candidate and account, as RiskReview has it.          *)
(*                                                                         *)
(* A request that fails raises.  An answer that reports an error in its    *)
(* body does not: the client returns it, and the fields are not there.     *)
(***************************************************************************)
EXTENDS RiskReview, OneYearRange, SequencesExt

CONSTANTS
  Symbols,       \* the symbols a run may be given
  Prices, Sums,  \* the numbers the broker may send, with a sign
  Transfers,     \* the rows of the history it may send
  MaxTransfers,  \* bound: how many
  Todays,        \* the days on which a run may come to the history
  DefaultPrice,  \* the price the strategy takes without a quote
  Missing,       \* a missing or empty field
  NoNumber       \* a field that is no number

Cell(numbers) == numbers \cup {Missing, NoNumber}
Quotes   == [latest : Cell(Prices), top : Cell(Prices)]
Balances == [estimated : Cell(Sums), cash : Cell(Sums)]
Histories == SeqOf(Transfers, MaxTransfers)
Dates     == [year : Int, month : 1 .. 12, day : 1 .. 31]

ASSUME BrokerDataAssumption ==
  /\ Symbols \subseteq STRING
  /\ Prices \cup Sums \subseteq Int
  /\ Transfers \subseteq [amount : Cell(Sums), exact : Cell(Sums),
                         kind : {"in", "out", "both", "other"}]
  /\ DefaultPrice \in Nat /\ MaxTransfers \in Nat
  /\ Todays \subseteq Dates /\ \A date \in Todays : Exists(date)

VARIABLES
  request,       \* the next request
  symbol,        \* of the run
  range,         \* the first and the last day of the history it asks for
  quote, balance, history   \* the answers so far

answers == <<range, quote, balance, history>>
brokerVars == <<reviewVars, request, symbol, answers>>

\* RiskReview's inputs are all that a run can come to.
BrokerTypeOK ==
  /\ request \in {"given", "quote", "balance", "history", "analyze", "done", "raised"}
  /\ symbol \in Symbols
  /\ quote \in Quotes /\ balance \in Balances /\ history \in Histories
  /\ candidate \in Candidates \cup {NoTicket}
  /\ account \in Accounts \cup {NoAccount}
  /\ request # "given" => (review # NoReview <=> request = "done")

BrokerInit ==
  /\ \/ request = "given" /\ ReviewInit
     \/ /\ request = "quote"
        /\ candidate = NoTicket /\ account = NoAccount /\ review = NoReview
  /\ symbol \in Symbols
  /\ range = <<>>
  /\ quote = [latest |-> Missing, top |-> Missing]
  /\ balance = [estimated |-> Missing, cash |-> Missing]
  /\ history = <<>>

-----------------------------------------------------------------------------
(* Reading the answers. *)

\* first.get(...) or second.get(...)
Or(first, second) == IF first = Missing THEN second ELSE first

\* _parse_int: a blank counts as zero, a text raises.
Number(cell) == IF cell = Missing THEN 0 ELSE ParseInt(cell)

PriceCell(q)   == Or(q.latest, q.top)
BalanceCell(b) == Or(b.estimated, b.cash)
AmountCell(r)  == Or(r.amount, r.exact)

\* One turn of summarize_transactions, by the name of the kind.
Add(totals, r) ==
  IF r.kind = "out" THEN [totals EXCEPT !.withdraw = @ + Number(AmountCell(r))]
  ELSE IF r.kind \in {"in", "both"}
    THEN [totals EXCEPT !.deposit = @ + Number(AmountCell(r))]
  ELSE totals

Summary(rows) == FoldLeft(Add, [deposit |-> 0, withdraw |-> 0], rows)

\* AccountStateAgent.analyze; its warning is taken up by the review.
AccountState(b, rows) ==
  [balance |-> Number(BalanceCell(b)),
   withdrew_more |-> Summary(rows).withdraw > Summary(rows).deposit]

\* create_ticket_candidate, of a neutral market, for the recommended symbol.
TicketAt(price) ==
  IF symbol # "498270" THEN NoTicket
  ELSE [symbol |-> symbol, side |-> "buy", quantity |-> 3, limit_price |-> price]

\* Mutant: no price is as good as no quote.
CandidateOrDefault(q) ==
  TicketAt(IF Number(PriceCell(q)) = 0 THEN DefaultPrice ELSE Number(PriceCell(q)))

Candidate(q) == TicketAt(Number(PriceCell(q)))

-----------------------------------------------------------------------------
(* The run. *)

Ask(for, next) ==
  /\ request = for /\ request' = next
  /\ UNCHANGED <<reviewVars, symbol>>

AskQuote(q) ==
  Ask("quote", "balance") /\ quote' = q /\ UNCHANGED <<range, balance, history>>

AskBalance(b) ==
  Ask("balance", "history") /\ balance' = b /\ UNCHANGED <<range, quote, history>>

\* For the year that ends today, unless there is none.
AskHistory(today, h) ==
  /\ Exists(YearBefore(today))
  /\ Ask("history", "analyze")
  /\ range' = OneYear(today) /\ history' = h /\ UNCHANGED <<quote, balance>>

\* A number that is none.
Unreadable ==
  \/ PriceCell(quote) = NoNumber \/ BalanceCell(balance) = NoNumber
  \/ \E i \in DOMAIN history : AmountCell(history[i]) = NoNumber

Conclude(t, a) ==
  /\ candidate' = t /\ account' = a /\ review' = Review(t, a)
  /\ request' = "done"
  /\ UNCHANGED <<symbol, answers>>

Analyze ==
  /\ request = "analyze" /\ ~ Unreadable
  /\ Conclude(Candidate(quote), AccountState(balance, history))

\* app/workflows/intraday_signal_scan.py: no broker is asked.
WithoutBroker ==
  /\ request = "quote"
  /\ Conclude(TicketAt(DefaultPrice), NoAccount)

\* A token is refused, a request fails, today is 29 February, an answer cannot be
\* read: the run ends.
Raise ==
  /\ \/ request \in {"quote", "balance", "history"}
     \/ request = "analyze" /\ Unreadable
  /\ request' = "raised"
  /\ UNCHANGED <<reviewVars, symbol, answers>>

BrokerNext ==
  \/ \E q \in Quotes : AskQuote(q)
  \/ \E b \in Balances : AskBalance(b)
  \/ \E today \in Todays : \E h \in Histories : AskHistory(today, h)
  \/ Analyze \/ WithoutBroker \/ Raise
  \/ request = "given" /\ MakeReview /\ UNCHANGED <<request, symbol, answers>>

BrokerSpec == BrokerInit /\ [][BrokerNext]_brokerVars

-----------------------------------------------------------------------------

ApprovedLive == request = "done" /\ review.approved /\ account # NoAccount

\* The price is that of the quote but for its sign, which says whether it has risen
\* or fallen, and three tenths of the balance pay for the ticket.
IsPaidFor ==
  LET price == PriceCell(quote)  cash == BalanceCell(balance) IN
  /\ price \in Prices \ {0} /\ review.ticket.limit_price \in {price, -price}
  /\ cash \in Sums \ {0}
  /\ 10 * EstimatedAmount(review.ticket) <= 3 * (IF cash < 0 THEN -cash ELSE cash)

\* The level is medium exactly if more was withdrawn than deposited (README.md); a
\* row that is called both a deposit and a withdrawal is a deposit.
OutflowIsMarked ==
  LET rowsOf(kinds) == {i \in DOMAIN history : history[i].kind \in kinds}
      total(kinds) == MapThenSumSet(LAMBDA i : Number(AmountCell(history[i])),
                                    rowsOf(kinds))
  IN  review.level = "medium" <=> total({"out"}) > total({"in", "both"})

\* A run with broker data fails closed: though a missing number is read as zero and
\* an error in the body of an answer as missing numbers, a ticket is approved only
\* at a price and on a balance that the broker did send, that pays for it, and
\* with the mark that its history calls for.
ApprovedIsBacked == ApprovedLive => IsPaidFor /\ OutflowIsMarked

\* The history that a run asks for is that of a whole year, not a day more or less,
\* which ends on the day of the run, whatever leap days, ends of months and turns
\* of the year there are between.
CoversOneYear ==
  range # <<>> => range[2] \in Todays /\ WholeYear(range[1], range[2])
=============================================================================
