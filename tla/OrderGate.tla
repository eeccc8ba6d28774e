------------------------------ MODULE OrderGate ------------------------------
(***************************************************************************)
(* The OrderManager used by a caller that trades several instruments: bars  *)
(* arrive, the engine is marked to market, orders are submitted and         *)
(* repeated, and an operator resets the kill switch, in any order the code  *)
(* allows.  The history of marks is kept beside the engine, which only      *)
(* remembers a peak and two baselines, so that what the engine should have  *)
(* decided can be said from the whole history.                              *)
(***************************************************************************)
EXTENDS PaperTrading, Sequences

CONSTANTS
  Prices,     \* prices a bar may show
  StopPcts,   \* stop distances of the strategies, in percent
  MaxDays,    \* bound: days of a behaviour
  MaxMarks    \* bound: calls of mark_to_market

ASSUME PricesAssumption == Prices \subseteq Nat \ {0} /\ StopPcts \subseteq Nat \ {0}
ASSUME BoundsAssumption == MaxDays \in Nat \ {0} /\ MaxMarks \in Nat

VARIABLES
  account,
  risk,
  day,
  prices,
  marks,    \* history: the day and equity of every mark, oldest first
  since     \* history: the mark in force at the last reset (0: none)

vars == <<account, risk, day, prices, marks, since>>

TypeOK ==
  /\ account \in Account
  /\ risk \in Risk
  /\ day \in 1 .. MaxDays
  /\ prices \in [Instruments -> Prices]
  /\ marks \in Seq([day : 1 .. MaxDays, equity : Int])
  /\ since \in 0 .. Len(marks)

Init ==
  /\ account = NewAccount
  /\ risk = NewRisk
  /\ day = 1
  /\ prices \in [Instruments -> Prices]
  /\ marks = <<>>
  /\ since = 0

\* The next bar, of the same day or the next one.
Bar ==
  /\ day' \in {day, day + 1} \cap 1 .. MaxDays
  /\ prices' \in [Instruments -> Prices]
  /\ UNCHANGED <<account, risk, marks, since>>

Mark ==
  /\ Len(marks) < MaxMarks
  /\ LET equity == Equity(account, prices)
     IN /\ risk' = Marked(risk, equity, day)
        /\ marks' = Append(marks, [day |-> day, equity |-> equity])
  /\ UNCHANGED <<account, day, prices, since>>

Buy(id, i, stopPct) ==
  /\ account' = SubmitBuy(account, risk, id, i, Equity(account, prices), prices[i],
                          Sized(account.cash, prices[i], stopPct))
  /\ UNCHANGED <<risk, day, prices, marks, since>>

\* A caller closes all it holds; with nothing held the broker rejects.
Sell(id, i, qty) ==
  /\ account' = SubmitSell(account, risk, id, i, qty, prices[i])
  /\ UNCHANGED <<risk, day, prices, marks, since>>

ResetKillSwitch ==
  /\ risk' = Reset(risk)
  /\ since' = Len(marks)
  /\ UNCHANGED <<account, day, prices, marks>>

Next ==
  \/ Bar
  \/ Mark
  \/ \E id \in Ids, i \in Instruments, stopPct \in StopPcts : Buy(id, i, stopPct)
  \/ \E id \in Ids, i \in Instruments :
       Sell(id, i, IF account.held[i] > 0 THEN account.held[i] ELSE 1)
  \/ ResetKillSwitch

Spec == Init /\ [][Next]_vars

-----------------------------------------------------------------------------
(* Properties *)

Filled(side) == {id \in Ids : Known(account, id) /\ account.orders[id].side = side
                                                 /\ account.orders[id].status = "FILLED"}
\* What each filled order of a side took or brought, at a percentage of its
\* value, and the shares it moved of an instrument.
Amounts(side, pct) ==
  [id \in Filled(side) |-> pct * account.orders[id].qty * account.orders[id].price]
Moved(side, i) ==
  [id \in {x \in Filled(side) : account.orders[x].instrument = i} |-> account.orders[id].qty]

\* The books balance: cash and positions are what the filled orders say, each
\* counted once however often its id was submitted, and neither is negative
\* (PaperBroker's "rejects orders that would produce negative cash or a short
\* position").
BooksBalance ==
  /\ account.cash >= 0 /\ \A i \in Instruments : account.held[i] >= 0
  /\ account.cash = 100 * Capital - SumFunction(Amounts("BUY", 100 + CommissionPct))
                                  + SumFunction(Amounts("SELL", 100 - CommissionPct))
  /\ \A i \in Instruments :
       account.held[i] = SumFunction(Moved("BUY", i)) - SumFunction(Moved("SELL", i))

\* The sizing leaves room for the commission: the broker never rejects a buy
\* the manager sized, and no order is larger than the single-position limit.
SizedBuysFill ==
  \A id \in Ids : Known(account, id) /\ account.orders[id].side = "BUY" =>
    /\ account.orders[id].status = "FILLED"
    /\ 100 * account.orders[id].qty * account.orders[id].price <= SinglePct * Capital

\* The kill switch is on exactly if, since the last reset, some mark fell the
\* hard drawdown below an earlier one, counting the mark in force at the reset.
KillSwitchLatches ==
  risk.kill <=>
    \E n \in since + 1 .. Len(marks) :
      \E m \in since .. n :
        m > 0 /\ Breached(marks[m].equity, marks[n].equity)

\* The first mark of the last mark's day, and of its month.
FirstOfDay(n) ==
  /\ marks[n].day = marks[Len(marks)].day
  /\ \A m \in 1 .. n - 1 : marks[m].day # marks[n].day
FirstOfMonth(n) ==
  /\ MonthOf(marks[n].day) = MonthOf(marks[Len(marks)].day)
  /\ \A m \in 1 .. n - 1 : MonthOf(marks[m].day) # MonthOf(marks[n].day)

Bought == {id \in Ids : Known(account, id) /\ account.orders[id].side = "BUY"}

\* No entry against the charter's limits: when a buy is placed, no mark since
\* the last reset had breached the drawdown, the account stands above the
\* daily and monthly loss limits measured from the first mark of the day and
\* of the month, and a position is left.
EntriesRespectLimits ==
  [][Bought' # Bought =>
       LET equity == Equity(account, prices)
       IN /\ \A n \in since + 1 .. Len(marks), m \in since .. Len(marks) :
               0 < m /\ m <= n => ~Breached(marks[m].equity, marks[n].equity)
          /\ \A n \in DOMAIN marks :
               /\ FirstOfDay(n) => marks[n].equity - equity < 100 * DailyLoss
               /\ FirstOfMonth(n) => marks[n].equity - equity < 100 * MonthlyLoss
          /\ OpenCount(account)' <= MaxPositions]_vars
=============================================================================
