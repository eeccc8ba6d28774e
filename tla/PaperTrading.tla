---------------------------- MODULE PaperTrading ----------------------------
(***************************************************************************)
(* The simulated account and its gate, as operators that the state machines *)
(* of the callers share: the PaperBroker (execution/paper_broker.py), the   *)
(* RiskEngine (risk/engine.py) and the OrderManager between them            *)
(* (execution/order_manager.py).  They run in one thread: a call is a       *)
(* function from the account and the engine's record to the next ones.      *)
(*                                                                         *)
(* Prices, quantities and limits are integers, rates are percentages, and   *)
(* amounts of cash and equity are in hundredths, so that a commission of a  *)
(* whole percentage is exact, as the code's Decimal arithmetic is.  The     *)
(* average price of a position, which decides nothing, is left out.         *)
(***************************************************************************)
EXTENDS Integers, FiniteSetsExt, Functions

CONSTANTS
  Instruments,
  Ids,              \* client order ids
  Capital,          \* initial cash, and the capital the limits refer to
  CommissionPct,
  DeployedLimit,    \* RiskLimits.max_deployed_capital
  RiskPerTrade,     \* RiskLimits.risk_per_trade
  SinglePct,        \* RiskLimits.max_single_position_fraction
  DailyLoss,
  MonthlyLoss,
  DrawdownPct,      \* RiskLimits.hard_drawdown_fraction
  MaxPositions,
  DaysPerMonth      \* bound: a calendar month is this many days long

ASSUME HoldingsAssumption == IsFiniteSet(Instruments)
ASSUME AccountAssumption == Capital \in Nat /\ CommissionPct \in 0 .. 100
\* What RiskLimits.__post_init__ enforces.
ASSUME LimitsAssumption ==
  /\ {DeployedLimit, RiskPerTrade, DailyLoss, MonthlyLoss} \subseteq Nat \ {0}
  /\ {SinglePct, DrawdownPct} \subseteq 1 .. 100
  /\ MaxPositions \in Nat \ {0}
ASSUME CalendarAssumption == DaysPerMonth \in Nat \ {0}

-----------------------------------------------------------------------------
(* PaperBroker *)

Order == [side : {"BUY", "SELL"}, instrument : Instruments, qty : Nat \ {0},
          price : Nat \ {0}, status : {"FILLED", "REJECTED"}]
NoOrder == [side |-> "NONE"]

Account == [cash : Nat, held : [Instruments -> Nat], orders : [Ids -> Order \cup {NoOrder}]]

NewAccount ==
  [cash |-> 100 * Capital,
   held |-> [i \in Instruments |-> 0],
   orders |-> [id \in Ids |-> NoOrder]]

Known(account, id) == account.orders[id] # NoOrder
OpenCount(account) == Cardinality({i \in Instruments : account.held[i] > 0})

\* The mark-to-market value the callers compute.
Equity(account, prices) ==
  account.cash + 100 * SumFunction([i \in Instruments |-> account.held[i] * prices[i]])

Gross(qty, price) == 100 * qty * price
Commission(qty, price) == CommissionPct * qty * price

Recorded(account, id, side, i, qty, price, status) ==
  [account EXCEPT !.orders[id] =
     [side |-> side, instrument |-> i, qty |-> qty, price |-> price, status |-> status]]

\* _fill_buy
FillBuy(account, id, i, qty, price) ==
  LET cost == Gross(qty, price) + Commission(qty, price)
  IN IF cost > account.cash
     THEN Recorded(account, id, "BUY", i, qty, price, "REJECTED")
     ELSE [Recorded(account, id, "BUY", i, qty, price, "FILLED") EXCEPT
             !.cash = @ - cost, !.held[i] = @ + qty]

\* Broken variant: the commission is added to the proceeds.
FillSell_CommissionPaid(account, id, i, qty, price) ==
  IF qty > account.held[i]
  THEN Recorded(account, id, "SELL", i, qty, price, "REJECTED")
  ELSE [Recorded(account, id, "SELL", i, qty, price, "FILLED") EXCEPT
          !.cash = @ + Gross(qty, price) + Commission(qty, price), !.held[i] = @ - qty]

\* _fill_sell
FillSell(account, id, i, qty, price) ==
  IF qty > account.held[i]
  THEN Recorded(account, id, "SELL", i, qty, price, "REJECTED")
  ELSE [Recorded(account, id, "SELL", i, qty, price, "FILLED") EXCEPT
          !.cash = @ + Gross(qty, price) - Commission(qty, price), !.held[i] = @ - qty]

-----------------------------------------------------------------------------
(* RiskEngine *)

MonthOf(day) == ((day - 1) \div DaysPerMonth) + 1

\* day = 0: the engine has not been marked yet, and the fields are None.
Risk == [peak : Int, current : Int, day : Nat, month : Nat, dayStart : Int,
         monthStart : Int, kill : BOOLEAN]
NewRisk == [peak |-> 0, current |-> 0, day |-> 0, month |-> 0, dayStart |-> 0,
            monthStart |-> 0, kill |-> FALSE]

\* The drawdown of an equity below a high reaches the hard limit.
Breached(high, equity) == high > 0 /\ 100 * (high - equity) >= DrawdownPct * high

\* Broken variant: the kill switch follows the drawdown instead of latching.
Marked_Unlatched(risk, equity, day) ==
  LET peak == IF equity > risk.peak THEN equity ELSE risk.peak
  IN [peak |-> peak, current |-> equity, day |-> day, month |-> MonthOf(day),
      dayStart |-> IF risk.day = day THEN risk.dayStart ELSE equity,
      monthStart |-> IF risk.month = MonthOf(day) THEN risk.monthStart ELSE equity,
      kill |-> Breached(peak, equity)]

\* Broken variant: every mark restarts the day's baseline.
Marked_NoBaseline(risk, equity, day) ==
  LET peak == IF equity > risk.peak THEN equity ELSE risk.peak
  IN [peak |-> peak, current |-> equity, day |-> day, month |-> MonthOf(day),
      dayStart |-> equity,
      monthStart |-> IF risk.month = MonthOf(day) THEN risk.monthStart ELSE equity,
      kill |-> risk.kill \/ Breached(peak, equity)]

\* mark_to_market
Marked(risk, equity, day) ==
  LET peak == IF equity > risk.peak THEN equity ELSE risk.peak
  IN [peak |-> peak, current |-> equity, day |-> day, month |-> MonthOf(day),
      dayStart |-> IF risk.day = day THEN risk.dayStart ELSE equity,
      monthStart |-> IF risk.month = MonthOf(day) THEN risk.monthStart ELSE equity,
      kill |-> risk.kill \/ Breached(peak, equity)]

\* reset_kill_switch: the peak restarts from the current equity.
Reset(risk) ==
  [risk EXCEPT !.kill = FALSE, !.peak = IF risk.day = 0 THEN @ ELSE risk.current]

\* evaluate_new_position
Approved(risk, equity, openPositions) ==
  /\ ~risk.kill
  /\ risk.day # 0 => risk.dayStart - equity < 100 * DailyLoss
  /\ risk.month # 0 => risk.monthStart - equity < 100 * MonthlyLoss
  /\ openPositions < MaxPositions

\* size_new_position: the smallest of the risk, value, deployment and cash
\* quantities.  RiskLimits keeps risk_per_trade below the open-risk limit, so
\* that their minimum is the former.
Smallest(S) == CHOOSE x \in S : \A y \in S : x <= y

\* Broken variant: the cash quantity leaves no room for the commission.
SizedByWeight_NoCommission(cash, price) ==
  Smallest({(SinglePct * Capital) \div (100 * price), DeployedLimit \div price,
            cash \div (100 * price)})

\* size_new_position_by_weight
SizedByWeight(cash, price) ==
  Smallest({(SinglePct * Capital) \div (100 * price), DeployedLimit \div price,
            cash \div ((100 + CommissionPct) * price)})

\* The stop distance is the fraction of/all of the price.
SizedAt(cash, price, of, all) ==
  Smallest({(all * RiskPerTrade) \div (of * price), SizedByWeight(cash, price)})

Sized(cash, price, stopPct) == SizedAt(cash, price, stopPct, 100)

-----------------------------------------------------------------------------
(* OrderManager *)

\* submit_buy: nothing for a known id, an engine that does not approve, or a
\* quantity of zero.
SubmitBuy(account, risk, id, i, equity, price, qty) ==
  IF ~Known(account, id) /\ Approved(risk, equity, OpenCount(account)) /\ qty > 0
  THEN FillBuy(account, id, i, qty, price)
  ELSE account

\* submit_sell: never gated, nothing for a known id.
SubmitSell(account, risk, id, i, qty, price) ==
  IF Known(account, id) THEN account ELSE FillSell(account, id, i, qty, price)

\* A caller's loop over the positions it closes, in any order: each is sold whole.
SellEach(account, risk, exits, id, price) ==
  FoldSet(LAMBDA i, acc : SubmitSell(acc, risk, id[i], i, acc.held[i], price[i]),
          account, exits)

\* What submit_buy and submit_sell report, from the account before and after:
\* an order that was known before the call counts as submitted.
Submitted(before, after, id) ==
  Known(before, id) \/ (Known(after, id) /\ after.orders[id].status # "REJECTED")
=============================================================================
