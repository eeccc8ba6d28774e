-------------------------- MODULE ScreenedPortfolio --------------------------
(***************************************************************************)
(* The portfolio backtester (portfolio/backtest.py) and the decisions of its *)
(* screener (portfolio/screener.py): aligned bars, stops and targets first,   *)
(* then the decisions made on the previous bar, executed at the open.        *)
(*                                                                         *)
(* Whether an instrument passes the screen on a bar, and how candidates rank, *)
(* is data: a bar says the first, and any ranking is possible.  Instruments  *)
(* without fundamentals are never bought and are left out.                   *)
(***************************************************************************)
EXTENDS BarLevels, PaperTrading, SequencesExt

\* The default stop of the other engines, StopLossPct, is not used here.
CONSTANTS
  Slots,     \* ScreeningConfig.max_positions
  StopAtr,   \* ScreeningConfig.stop_atr_multiple
  Bars,      \* bars the data may hold: [open, low, high, close, atr, passes]
  MaxDays    \* bound: days of the data

Days == 1 .. MaxDays
Kinds == {"buy", "sell", "stop", "target", "final"}
StopPct == 5  \* the stop distance of every size, 0.05

ASSUME DataAssumption ==
  \A bar \in Bars : /\ {bar.open, bar.low, bar.high, bar.close, bar.atr} \subseteq Nat \ {0}
                    /\ {bar.open, bar.close} \subseteq bar.low .. bar.high
                    /\ bar.passes \in BOOLEAN
                    \* a candidate's stop is positive
                    /\ bar.passes => bar.close > StopAtr * bar.atr
ASSUME ConfigAssumption == {Slots, StopAtr, MaxDays} \subseteq Nat \ {0}

\* Slippage never takes a whole price away: a fill has a positive price.
ASSUME WholePricesAssumption == \A bar \in Bars : SellPrice(100 * bar.low) > 0
ASSUME IdsAssumption == Ids = Days \X Instruments \X Kinds

VARIABLES
  account,
  risk,
  day,        \* index + 1; the bars are aligned and one day apart
  bars,       \* the bars of the day
  before,     \* the bars of the day before
  phase,
  decisions,  \* what is left of the day's decisions, in order
  plans

vars == <<account, risk, day, bars, before, phase, decisions, plans>>

NoBar == [passes |-> FALSE]
\* Levels are in hundredths of a price.
Plan == [stop : Nat \ {0}, target : Nat \ {0}]
NoPlan == [stop |-> None]
Decision == [instrument : Instruments, action : {"BUY", "SELL"}]

TypeOK ==
  /\ account \in Account
  /\ risk \in Risk
  /\ day \in 0 .. MaxDays
  /\ {bars, before} \subseteq [Instruments -> Bars \cup {NoBar}]
  /\ phase \in {"ready", "decide", "done"}
  /\ decisions \in Seq(Decision)
  /\ plans \in [Instruments -> Plan \cup {NoPlan}]

Init ==
  /\ account = NewAccount
  /\ risk = NewRisk
  /\ day = 0
  /\ bars = [i \in Instruments |-> NoBar] /\ before = bars
  /\ phase = "ready"
  /\ decisions = <<>>
  /\ plans = [i \in Instruments |-> NoPlan]

Held == {i \in Instruments : account.held[i] > 0}
Opens(quotes) == [i \in Instruments |-> quotes[i].open]

\* _sell for each of the exits, on day d.
SoldOut(d, exits, price, kind) ==
  SellEach(account, risk, exits, [i \in exits |-> <<d, i, kind[i]>>], price)

Cleared(exits) == [i \in Instruments |-> IF i \in exits THEN NoPlan ELSE plans[i]]

-----------------------------------------------------------------------------
(* run: the bars of one index, the mark, and the stops and targets *)

Stopped(b) == {i \in Held : plans[i] # NoPlan /\ Crossed(b[i], plans[i].stop)}
Reaching(b) ==
  {i \in Held \ Stopped(b) : plans[i] # NoPlan /\ Reached(b[i], plans[i].target)}

\* Broken variant: the plan outlives the position that its target closed.
Ending_Stopped(b) == Stopped(b)

\* The plans that end on the bars.
Ending(b) == Stopped(b) \cup Reaching(b)

Bar(b) ==
  LET exits == Stopped(b) \cup Reaching(b)
      price == [i \in exits |-> IF i \in Stopped(b) THEN StopFill(b[i], plans[i].stop)
                                ELSE TargetFill(b[i], plans[i].target)]
  IN /\ phase = "ready" /\ decisions = <<>> /\ day < MaxDays
     /\ day' = day + 1
     /\ bars' = b /\ before' = bars
     /\ risk' = Marked(risk, Equity(account, Opens(b)), day')
     /\ account' = SoldOut(day', exits, price,
                           [i \in exits |-> IF i \in Stopped(b) THEN "stop" ELSE "target"])
     /\ plans' = Cleared(Ending(b))
     /\ phase' = IF day = 0 THEN "ready" ELSE "decide"
     /\ UNCHANGED decisions

-----------------------------------------------------------------------------
(* build_portfolio_decisions, on the bars of the day before *)

\* Broken variant: the screen looks at the bars of the day.
Passing_Today == {i \in Instruments : bars[i].passes}

Passing == {i \in Instruments : before[i].passes}

Decided(action, instruments) ==
  {[n \in DOMAIN order |-> [instrument |-> order[n], action |-> action]] :
     order \in SetToSeqs(instruments)}

\* Broken variant: the holdings are not taken out of the selected.
Entering_All(selected) == selected

Entering(selected) == selected \ Held

\* A position whose instrument does not pass any more is sold; the best that
\* pass are selected, those held included, and bought unless they are held.
Decide ==
  /\ phase = "decide"
  /\ \E selected \in kSubset(Lower(Slots, Cardinality(Passing)), Passing) :
     \E sells \in Decided("SELL", Held \ Passing), buys \in Decided("BUY", Entering(selected)) :
       decisions' = sells \o buys
  /\ phase' = "ready"
  /\ UNCHANGED <<account, risk, day, bars, before, plans>>

-----------------------------------------------------------------------------
(* _execute_decisions *)

Current == Head(decisions)

TakeDecision ==
  /\ decisions # <<>>
  /\ decisions' = Tail(decisions)
  /\ UNCHANGED <<risk, day, bars, before, phase>>

ExecuteSell ==
  LET i == Current.instrument
  IN /\ TakeDecision
     /\ Current.action = "SELL" /\ i \in Held
     /\ account' = SoldOut(day, {i}, [j \in {i} |-> SellPrice(100 * bars[i].open)],
                           [j \in {i} |-> "sell"])
     /\ plans' = Cleared({i})

\* The stop is the candidate's, an ATR multiple below the close before.
PlanOf(bar) ==
  LET stop == bar.close - StopAtr * bar.atr
  IN [stop |-> 100 * stop, target |-> 100 * bar.close + RewardPct * (bar.close - stop)]

\* What the manager is told the equity is: the cash, without the positions.
ToldEquity == account.cash

ExecuteBuy ==
  LET i == Current.instrument
      id == <<day, i, "buy">>
      price == BuyPrice(bars[i])
  IN /\ TakeDecision
     /\ Current.action = "BUY" /\ i \notin Held
     /\ account' = SubmitBuy(account, risk, id, i, ToldEquity, price,
                             Sized(account.cash, price, StopPct))
     /\ plans' = IF Submitted(account, account', id)
                 THEN [plans EXCEPT ![i] = PlanOf(before[i])] ELSE plans

\* The end of the data: every position is sold at its last close.
Finish ==
  /\ phase = "ready" /\ decisions = <<>> /\ day = MaxDays
  /\ account' = SoldOut(day, Held, [i \in Held |-> SellPrice(100 * bars[i].close)],
                        [i \in Held |-> "final"])
  /\ phase' = "done"
  /\ UNCHANGED <<risk, day, bars, before, decisions, plans>>

Next ==
  \/ \E b \in [Instruments -> Bars] : Bar(b)
  \/ Decide
  \/ ExecuteSell
  \/ ExecuteBuy
  \/ Finish

Spec == Init /\ [][Next]_vars

-----------------------------------------------------------------------------
(* Properties *)

\* Every open position is watched: it has a plan, a closed one has none, and no
\* processed bar has reached a level of the plan without closing the position,
\* however stops, targets, screen exits and re-entries follow one another.
PositionsAreWatched ==
  phase # "done" =>
    \A i \in Instruments :
      /\ i \in Held <=> plans[i] # NoPlan
      /\ phase = "decide" /\ i \in Held =>
           plans[i].stop < 100 * bars[i].low /\ 100 * bars[i].high < plans[i].target

\* A decision still fits when its turn comes: the exits and entries before it
\* on the list have not changed what it was decided for.
DecisionsFit ==
  \A n \in DOMAIN decisions :
    decisions[n].action = "BUY" <=> decisions[n].instrument \notin Held

\* What passes is kept: a position is only closed by its stop, its target, the
\* end of the data, or a screen it did not pass on the bar before, and never
\* reduced.
PassingIsKept ==
  [][\A i \in Instruments : account'.held[i] < account.held[i] =>
       /\ account'.held[i] = 0
       /\ (phase = "ready" /\ decisions = <<>>) \/ ~before[i].passes]_vars

\* docs/risk-charter.md: the daily loss limit blocks new orders.  A buy that a
\* position and cash are left for is refused only if the account lost the daily
\* or the monthly limit, at the day's opens, or was stopped by a drawdown.
RefusalsAreLosses ==
  [][decisions # <<>> /\ decisions' = Tail(decisions)
       /\ Current.action = "BUY" /\ account' = account
       /\ OpenCount(account) < MaxPositions
       /\ Sized(account.cash, BuyPrice(bars[Current.instrument]), StopPct) > 0 =>
       \/ risk.kill
       \/ risk.dayStart - Equity(account, Opens(bars)) >= 100 * DailyLoss
       \/ risk.monthStart - Equity(account, Opens(bars)) >= 100 * MonthlyLoss]_vars
=============================================================================
