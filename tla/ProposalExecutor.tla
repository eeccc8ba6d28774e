-------------------------- MODULE ProposalExecutor --------------------------
(***************************************************************************)
(* The agent's only way to the broker: submit_trade_proposal of the toolkit *)
(* (agent/tools.py), which marks the latest local bar to market - enforcing *)
(* the tracked stop and target - and then executes the proposal             *)
(* (agent/executor.py) through the order manager and the paper broker.  One *)
(* executor trades one instrument.  The agent may submit any number of      *)
(* proposals on a bar, or none; order ids are derived from the bar, so that *)
(* a second order of a kind on the same bar is a repetition of the first.   *)
(* The trade journal is on disk and may fail to record an entry; the        *)
(* account is in memory and is lost when the process restarts.              *)
(*                                                                         *)
(* The executor's configuration is its default: stop and target enforced.   *)
(***************************************************************************)
EXTENDS BarLevels, PaperTrading

CONSTANTS
  StopPct,        \* stop_distance_fraction: sizing only
  Bars,           \* bars the data may show: [open, low, high]
  Advice,         \* levels an agent may suggest: [stop, target], 0 for none
  MaxDays         \* bound: bars of a behaviour, one a day

ASSUME BarsAssumption ==
  \A bar \in Bars : {bar.open, bar.low, bar.high} \subseteq Nat \ {0}
                    /\ bar.low <= bar.open /\ bar.open <= bar.high
\* Slippage never takes a whole price away: a fill has a positive price.
ASSUME WholePricesAssumption == \A bar \in Bars : SellPrice(100 * bar.low) > 0
ASSUME AdviceAssumption == \A advice \in Advice : advice.stop \in Nat /\ advice.target \in Nat
ASSUME BoundsAssumption == StopPct \in 1 .. 99 /\ MaxDays \in Nat \ {0}

Instrument == "instrument"
Kinds == {"buy", "sell", "stoploss", "target"}
Days == 1 .. MaxDays

ASSUME AccountOfOneAssumption == Instruments = {Instrument} /\ Ids = Days \X Kinds

NoPlan == [stop |-> None, target |-> None]

VARIABLES
  account,
  risk,
  stop,     \* _stop_price, None when there is none
  target,   \* _target_price
  plan,     \* the levels of the journal's daily plan
  day,      \* the latest local bar's date
  bar       \* the latest local bar

vars == <<account, risk, stop, target, plan, day, bar>>

Held == account.held[Instrument]

TypeOK ==
  /\ account \in Account
  /\ risk \in Risk
  /\ stop \in Nat /\ target \in Nat
  /\ plan \in [stop : Nat, target : Nat]
  /\ day \in Days
  /\ bar \in Bars

Init ==
  /\ account = NewAccount
  /\ risk = NewRisk
  /\ stop = None /\ target = None
  /\ plan = NoPlan
  /\ day = 1
  /\ bar \in Bars

-----------------------------------------------------------------------------
(* The levels of an entry *)

\* Broken variant: the agent's levels are taken as they are.
StopFor_Trusting(advised, price) == IF advised # None THEN advised ELSE DefaultStop(price)

\* The agent's levels are used only where they are tighter than the default.
StopFor(advised, price) ==
  IF advised # None THEN Higher(advised, DefaultStop(price)) ELSE DefaultStop(price)
TargetFor(advised, price) ==
  IF advised # None THEN Lower(advised, DefaultTarget(price)) ELSE DefaultTarget(price)

-----------------------------------------------------------------------------
(* mark_to_market *)

StopHit == Held > 0 /\ stop # None /\ Crossed(bar, stop)
TargetHit == Held > 0 /\ target # None /\ Reached(bar, target) /\ ~StopHit

MarkedRisk == Marked(risk, account.cash + 100 * Held * bar.open, day)

\* Broken variant: the exit sells one share.
Exited_OneShare ==
  IF StopHit
  THEN SubmitSell(account, risk, <<day, "stoploss">>, Instrument, 1,
                  StopFill(bar, stop))
  ELSE IF TargetHit
  THEN SubmitSell(account, risk, <<day, "target">>, Instrument, 1,
                  TargetFill(bar, target))
  ELSE account

\* The account after the stop and target checks.
Exited ==
  IF StopHit
  THEN SubmitSell(account, risk, <<day, "stoploss">>, Instrument, Held,
                  StopFill(bar, stop))
  ELSE IF TargetHit
  THEN SubmitSell(account, risk, <<day, "target">>, Instrument, Held,
                  TargetFill(bar, target))
  ELSE account

\* Both levels are cleared after either exit, whatever its outcome.
Kept(level) == IF StopHit \/ TargetHit THEN None ELSE level

-----------------------------------------------------------------------------
(* submit_trade_proposal *)

\* The mark alone: a HOLD, or a proposal whose journal entry fails.
Hold ==
  /\ account' = Exited
  /\ risk' = MarkedRisk
  /\ stop' = Kept(stop) /\ target' = Kept(target)
  /\ UNCHANGED <<plan, day, bar>>

\* The exit went through and its journal entry fails: the call ends there,
\* with the levels still set.
ExitUnrecorded ==
  /\ StopHit \/ TargetHit
  /\ account' = Exited
  /\ risk' = MarkedRisk
  /\ UNCHANGED <<stop, target, plan, day, bar>>

\* The position is read after the mark.  A submitted order - repeated or new -
\* sets both levels and then the plan, unless the journal fails.
Buy(advice) ==
  /\ Exited.held[Instrument] = 0
  /\ risk' = MarkedRisk
  /\ account' = SubmitBuy(Exited, MarkedRisk, <<day, "buy">>, Instrument, Exited.cash,
                          BuyPrice(bar), Sized(Exited.cash, BuyPrice(bar), StopPct))
  /\ IF Submitted(Exited, account', <<day, "buy">>)
     THEN /\ stop' = StopFor(advice.stop, BuyPrice(bar))
          /\ target' = TargetFor(advice.target, BuyPrice(bar))
          /\ plan' \in {plan, [stop |-> stop', target |-> target']}
     ELSE /\ stop' = Kept(stop) /\ target' = Kept(target)
          /\ UNCHANGED plan
  /\ UNCHANGED <<day, bar>>

\* The levels are cleared whether the order was new or repeated.
Sell ==
  /\ Exited.held[Instrument] > 0
  /\ risk' = MarkedRisk
  /\ account' = SubmitSell(Exited, MarkedRisk, <<day, "sell">>, Instrument,
                           Exited.held[Instrument], SellPrice(100 * bar.open))
  /\ stop' = None /\ target' = None
  /\ UNCHANGED <<plan, day, bar>>

-----------------------------------------------------------------------------
(* The data and the process *)

NewBar ==
  /\ day < MaxDays
  /\ day' = day + 1
  /\ bar' \in Bars
  /\ UNCHANGED <<account, risk, stop, target, plan>>

\* A new process: a new toolkit makes a new executor; the journal stays.
Restart ==
  /\ account' = NewAccount
  /\ risk' = NewRisk
  /\ stop' = None /\ target' = None
  /\ UNCHANGED <<plan, day, bar>>

\* A BUY while holding and a SELL with no position change nothing but the
\* mark, like a HOLD.
Next ==
  \/ Hold
  \/ ExitUnrecorded
  \/ \E advice \in Advice : Buy(advice)
  \/ Sell
  \/ NewBar
  \/ Restart

Spec == Init /\ [][Next]_vars

-----------------------------------------------------------------------------
(* Properties *)

Filled(kinds) == {id \in Days \X kinds : Known(account, id) /\ account.orders[id].status = "FILLED"}
\* The day the position was entered: that of the last filled buy.
EntryDay == CHOOSE d \in Days : /\ <<d, "buy">> \in Filled({"buy"})
                                /\ \A e \in Days : <<e, "buy">> \in Filled({"buy"}) => e <= d
EntryPrice == account.orders[<<EntryDay, "buy">>].price

\* The position is exactly one entry: no share is left behind by an exit, no
\* entry is added to another, and no exit is rejected, however proposals,
\* stops, targets and repetitions on one bar interleave.
PositionIsOneEntry ==
  /\ Cardinality(Filled({"buy"})) =
       Cardinality(Filled(Kinds \ {"buy"})) + (IF Held > 0 THEN 1 ELSE 0)
  /\ Held > 0 => Held = account.orders[<<EntryDay, "buy">>].qty
  /\ \A id \in Days \X Kinds : Known(account, id) => account.orders[id].status = "FILLED"

\* An agent never widens its own stop: the levels of a held position are at
\* least as tight as the defaults of its entry price (execute's comment:
\* "prevents an agent from ever widening its own stop").
LevelsNeverWiden ==
  Held > 0 =>
    /\ stop # None => stop >= DefaultStop(EntryPrice)
    /\ target # None => target <= DefaultTarget(EntryPrice)

\* Stops are enforced: a position carried into the bar and still held after a
\* proposal on it has no level the bar has crossed.
StopsAreEnforced ==
  risk.day = day /\ Held > 0 /\ EntryDay < day =>
    /\ stop # None => stop < 100 * bar.low
    /\ target # None => 100 * bar.high < target

\* mark_to_market's docstring: an agent that goes silent "must never leave a
\* position with no enforced downside cap".  A held position has a stop.
NoNakedPosition == Held > 0 => stop # None
=============================================================================
