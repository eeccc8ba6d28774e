------------------------------ MODULE BarLevels ------------------------------
(***************************************************************************)
(* Fills and exit levels on a bar, computed alike by the proposal executor  *)
(* (agent/executor.py), the shadow session (shadow/session.py) and the      *)
(* backtester (backtesting/engine.py).                                       *)
(*                                                                         *)
(* Prices are whole numbers; levels are in hundredths of a price.  Fill      *)
(* prices are rounded down to a whole price, where the code keeps the        *)
(* fraction.                                                                 *)
(***************************************************************************)
EXTENDS Integers

CONSTANTS
  SlippagePct,
  StopLossPct,    \* stop_loss_distance_fraction: the default stop
  RewardPct       \* minimum_reward_risk of the default target

ASSUME RatesAssumption ==
  SlippagePct \in 0 .. 99 /\ StopLossPct \in 1 .. 99 /\ RewardPct \in Nat /\ RewardPct >= 100

None == 0

Lower(x, y) == IF x < y THEN x ELSE y
Higher(x, y) == IF x < y THEN y ELSE x

\* An entry at the open, an exit at a trigger given in hundredths.
BuyPrice(bar) == (bar.open * (100 + SlippagePct)) \div 100
SellPrice(trigger) == (trigger * (100 - SlippagePct)) \div 10000

DefaultStop(price) == price * (100 - StopLossPct)
DefaultTarget(price) == price * 100 + (price * StopLossPct * RewardPct) \div 100

\* Broken variant: the level is compared with the open, not the low.
Crossed_AtOpen(bar, stop) == 100 * bar.open <= stop

Crossed(bar, stop) == 100 * bar.low <= stop
Reached(bar, target) == 100 * bar.high >= target

\* The stop fills at its level or at a worse open, the target at its level or
\* at a better open.
StopFill(bar, stop) == SellPrice(Lower(100 * bar.open, stop))
TargetFill(bar, target) == SellPrice(Higher(100 * bar.open, target))
=============================================================================
