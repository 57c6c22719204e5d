----------------------------- MODULE RiskReview -----------------------------
(***************************************************************************)
(* The risk review of a ticket candidate: RiskManagementAgent.review       *)
(* (app/agents/risk_management.py), on the account state that              *)
(* AccountStateAgent.analyze (app/agents/account_state.py) derives from    *)
(* the balance the broker reports (app/kiwoom/snapshots.py).               *)
(*                                                                         *)
(* A missing limit price and the price 0 are treated alike by the code and *)
(* are both 0 here.                                                        *)
(***************************************************************************)
EXTENDS Integers

CONSTANTS
  Candidates,       \* the tickets the review may be given
  Accounts,         \* the account data it may be given
  AllowedSymbols,   \* RiskPolicy.allowed_symbols
  MaxOrderAmount,   \* RiskPolicy.max_order_amount_krw
  NoTicket,         \* the strategy proposed nothing
  NoAccount,        \* the scan runs without account data
  NoReview          \* the review has not been made yet

Ticket == [symbol : STRING, side : {"buy", "sell"}, quantity : Nat,
           limit_price : Nat]

\* balance is what the broker sends, which carries a sign.
Account == [balance : Int, withdrew_more : BOOLEAN]

ASSUME RiskAssumption ==
  /\ Candidates \subseteq Ticket
  /\ Accounts \subseteq Account
  /\ MaxOrderAmount \in Nat
  /\ NoTicket \notin Ticket
  /\ NoAccount \notin Account

-----------------------------------------------------------------------------
(* Account data. *)

\* _parse_int drops the sign of every number it reads.
ParseInt(n) == IF n < 0 THEN -n ELSE n

\* int(deposit_asset_amount * 0.30); in binary floating point the product of an
\* amount below 2^53 and 0.30 rounds to the exact multiple where there is one.
InvestableCash(account) == (3 * ParseInt(account.balance)) \div 10

-----------------------------------------------------------------------------
(* The review. *)

EstimatedAmount(t) == t.quantity * t.limit_price

\* _shrink_to_amount_cap leaves a hard reason unless this holds ...
Fits(t, cap) ==
  /\ t.limit_price > 0
  /\ EstimatedAmount(t) <= cap \/ cap \div t.limit_price >= 1

\* Mutant: the reduced amount stays below the cap.
ShrinkBelowCap(t, cap) ==
  IF Fits(t, cap) /\ EstimatedAmount(t) > cap
    THEN [t EXCEPT !.quantity = (cap - 1) \div t.limit_price]
    ELSE t

\* ... and reduces the quantity if the amount is above the cap.
ShrinkToCap(t, cap) ==
  IF Fits(t, cap) /\ EstimatedAmount(t) > cap
    THEN [t EXCEPT !.quantity = cap \div t.limit_price]
    ELSE t

\* _fit_to_account_state concerns purchases for a known account only.
CashBound(t, account) == account # NoAccount /\ t.side = "buy"

FitToCash(t, account) ==
  IF CashBound(t, account) THEN ShrinkToCap(t, InvestableCash(account)) ELSE t

\* Mutant: the order limit is not applied to an account's purchase.
FitToPolicyNot(t, account) == t

FitToPolicy(t, account) ==
  IF account = NoAccount THEN t ELSE ShrinkToCap(t, MaxOrderAmount)

\* No hard reason is left by the three checks, made in this order.
Approved(t, account) ==
  LET cash == FitToCash(t, account) IN
  /\ t.symbol \in AllowedSymbols
  /\ CashBound(t, account) => Fits(t, InvestableCash(account))
  /\ EstimatedAmount(cash) > MaxOrderAmount =>
       account # NoAccount /\ Fits(cash, MaxOrderAmount)

Adjusted(t, account) ==
  LET cash == FitToCash(t, account) IN
  IF EstimatedAmount(cash) > MaxOrderAmount
    THEN FitToPolicy(cash, account) ELSE cash

RiskLevel(t, account) ==
  CASE ~ Approved(t, account)                            -> "high"
    [] account # NoAccount /\ account.withdrew_more      -> "medium"
    [] OTHER                                             -> "low"

Review(t, account) ==
  IF t = NoTicket
    THEN [approved |-> FALSE, level |-> "none", ticket |-> NoTicket]
    ELSE [approved |-> Approved(t, account),
          level    |-> RiskLevel(t, account),
          ticket   |-> Adjusted(t, account)]

-----------------------------------------------------------------------------
(* One scan makes one review. *)

VARIABLES
  candidate, account, review

reviewVars == <<candidate, account, review>>

ReviewInit ==
  /\ candidate \in Candidates \cup {NoTicket}
  /\ account \in Accounts \cup {NoAccount}
  /\ review = NoReview

MakeReview ==
  /\ review = NoReview
  /\ review' = Review(candidate, account)
  /\ UNCHANGED <<candidate, account>>

ReviewSpec == ReviewInit /\ [][MakeReview]_reviewVars

-----------------------------------------------------------------------------

Passed == review # NoReview /\ review.approved

\* An approved ticket is for an allowed symbol and within the order limit, and
\* a purchase for a known account is within the investable cash, also after it
\* was reduced twice.
WithinLimits ==
  Passed =>
    /\ review.ticket.symbol \in AllowedSymbols
    /\ EstimatedAmount(review.ticket) <= MaxOrderAmount
    /\ CashBound(candidate, account) =>
         EstimatedAmount(review.ticket) <= InvestableCash(account)

\* The review only ever reduces the quantity, never to nothing, and changes
\* nothing else of the order (docs/agent-architecture.md: it cannot enlarge).
OnlyReduces ==
  Passed =>
    /\ review.ticket.quantity <= candidate.quantity
    /\ candidate.quantity > 0 => review.ticket.quantity > 0
    /\ review.ticket = [candidate EXCEPT !.quantity = review.ticket.quantity]

\* The review reduces no more than the limits require: one share more would
\* be above the order limit or the investable cash.
ReducesLeast ==
  Passed /\ review.ticket.quantity < candidate.quantity =>
    LET more == (review.ticket.quantity + 1) * candidate.limit_price IN
    \/ more > MaxOrderAmount
    \/ CashBound(candidate, account) /\ more > InvestableCash(account)
=============================================================================
