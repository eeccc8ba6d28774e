----------------------------- MODULE Backtester -----------------------------
(***************************************************************************)
(* The single-instrument backtester (backtesting/engine.py): its own cash    *)
(* and position, the risk engine, and one pass over the bars.  It keeps no   *)
(* broker: a buy it sized is filled, and a position is closed by its stop,   *)
(* its target, a signal, or the end of the data.                             *)
(***************************************************************************)
EXTENDS BarLevels, PaperTrading

CONSTANT StopPct    \* stop_distance_fraction: sizing only

VARIABLES
  cash,
  position,
  engine,     \* the run's RiskEngine
  bars,       \* how many bars have been processed
  realized,   \* the sum of the trades' net_pnl
  equity      \* the last point of the equity curve

\* cost is the commission paid at the entry.
Position == [qty : Nat \ {0}, price : Nat \ {0}, cost : Nat, stop : Nat, target : Nat]
NoPosition == [qty |-> 0, price |-> 0, cost |-> 0, stop |-> None, target |-> None]

RunTypeOK ==
  /\ cash \in Nat
  /\ position \in Position \cup {NoPosition}
  /\ engine \in Risk
  /\ bars \in Nat
  /\ realized \in Int
  /\ equity \in Nat

RunInit ==
  /\ cash = 100 * Capital
  /\ position = NoPosition
  /\ engine = NewRisk
  /\ bars = 0
  /\ realized = 0
  /\ equity = 100 * Capital

Value(held, price) == 100 * held.qty * price

\* A buy at the open, if the engine approves it and its size is not zero.
Bought(b, marked) ==
  LET price == BuyPrice(b)
      qty == Sized(cash, price, StopPct)
  IN IF Approved(marked, cash, 0) /\ qty > 0
     THEN [qty |-> qty, price |-> price, cost |-> Commission(qty, price),
           stop |-> DefaultStop(price), target |-> DefaultTarget(price)]
     ELSE NoPosition

\* The position after the entry and before the exits of the bar: the strategy
\* was asked on the previous bar, while the run was flat.
Opened(b, marked, trend) ==
  IF position = NoPosition /\ bars > 0 /\ trend = "up" THEN Bought(b, marked) ELSE position

\* What the entry took out of the cash.
Paid(held) == IF position = NoPosition THEN Value(held, held.price) + held.cost ELSE 0

StopOf(held, b) == held.qty > 0 /\ Crossed(b, held.stop)
TargetOf(held, b) == held.qty > 0 /\ ~StopOf(held, b) /\ Reached(b, held.target)

\* Broken variant: the trade does not count the commission of its entry.
Close_ExitCostOnly(held, price) ==
  LET cost == Commission(held.qty, price)
  IN /\ cash' = cash - Paid(held) + Value(held, price) - cost
     /\ realized' = realized + Value(held, price) - Value(held, held.price) - cost
     /\ position' = NoPosition

\* _close_position
Close(held, price) ==
  LET cost == Commission(held.qty, price)
  IN /\ cash' = cash - Paid(held) + Value(held, price) - cost
     /\ realized' = realized + Value(held, price) - Value(held, held.price)
                             - held.cost - cost
     /\ position' = NoPosition

Keep(held) ==
  /\ cash' = cash - Paid(held)
  /\ position' = held
  /\ UNCHANGED realized

\* One iteration of run: mark, entry, then stop, target or SELL signal.  The
\* signal is the one decided before the entry, so that a bar never enters and
\* leaves on signals.
Process(d, b, trend) ==
  LET marked == Marked(engine, cash + Value(position, b.open), d)
      held == Opened(b, marked, trend)
  IN /\ engine' = marked
     /\ bars' = bars + 1
     /\ \/ StopOf(held, b) /\ Close(held, StopFill(b, held.stop))
        \/ TargetOf(held, b) /\ Close(held, TargetFill(b, held.target))
        \/ /\ ~StopOf(held, b) /\ ~TargetOf(held, b)
           /\ IF position # NoPosition /\ bars > 0 /\ trend = "down"
              THEN Close(held, SellPrice(100 * b.open))
              ELSE Keep(held)
     /\ equity' = cash' + Value(position', b.close)

\* The end of the data: an open position is closed at the last close, and the
\* last point of the curve becomes the cash.
Liquidate(b) ==
  /\ IF position # NoPosition THEN Close(position, SellPrice(100 * b.close)) ELSE Keep(position)
  /\ equity' = cash'
  /\ UNCHANGED <<engine, bars>>
=============================================================================
