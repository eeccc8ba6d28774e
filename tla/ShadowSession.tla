---------------------------- MODULE ShadowSession ----------------------------
(***************************************************************************)
(* The shadow session (shadow/session.py): one bar at a time it detects a    *)
(* gap, marks the risk engine, executes the stop or the target of a carried  *)
(* position and otherwise acts on the signal decided on the previous bar.    *)
(* While the feed is stale - a gap, or an explicit mark - entries are        *)
(* suppressed and exits are not.                                             *)
(*                                                                         *)
(* A strategy (strategies/sma_crossover.py, donchian_breakout.py) answers    *)
(* BUY only when flat and SELL only when holding; the trend it sees on the   *)
(* closed bars is any.  Bars arrive in chronological order, as on_bar asks.  *)
(***************************************************************************)
EXTENDS BarLevels, PaperTrading

CONSTANTS
  StopPct,        \* stop_distance_fraction: sizing only
  Bars,           \* bars the feed may show: [open, low, high, close]
  MaxGap,         \* max_bar_gap, in days
  MaxDays         \* bound: days of a behaviour

ASSUME BarsAssumption ==
  \A bar \in Bars : /\ {bar.open, bar.low, bar.high, bar.close} \subseteq Nat \ {0}
                    /\ {bar.open, bar.close} \subseteq bar.low .. bar.high
\* Slippage never takes a whole price away: a fill has a positive price.
ASSUME WholePricesAssumption == \A bar \in Bars : SellPrice(100 * bar.low) > 0
ASSUME FeedAssumption == {StopPct} \subseteq 1 .. 99 /\ {MaxGap, MaxDays} \subseteq Nat \ {0}

Instrument == "instrument"
Kinds == {"buy", "sell", "stoploss", "target"}
Days == 1 .. MaxDays
Trends == {"up", "down", "none"}

ASSUME AccountOfOneAssumption == Instruments = {Instrument} /\ Ids = Days \X Kinds

VARIABLES
  account,
  risk,
  stop,    \* _stop_price, None when there is none
  target,  \* _target_price
  stale,   \* _explicit_stale
  day,     \* the day of the last bar, 0 before the first
  bar      \* the last bar

session == <<account, risk, stop, target, stale, day, bar>>

Held == account.held[Instrument]

SessionTypeOK ==
  /\ account \in Account
  /\ risk \in Risk
  /\ stop \in Nat /\ target \in Nat
  /\ stale \in BOOLEAN
  /\ day \in 0 .. MaxDays
  /\ bar \in Bars

SessionInit ==
  /\ account = NewAccount
  /\ risk = NewRisk
  /\ stop = None /\ target = None
  /\ stale = FALSE
  /\ day = 0
  /\ bar \in Bars

-----------------------------------------------------------------------------
(* on_bar *)

GapBefore(d) == day # 0 /\ d - day > MaxGap

\* Broken variant: only the explicit mark suppresses.
Suppressed_MarkOnly(d) == stale

Suppressed(d) == stale \/ GapBefore(d)

EquityAt(b) == account.cash + 100 * Held * b.open
StopHit(b) == Held > 0 /\ stop # None /\ Crossed(b, stop)
TargetHit(b) == Held > 0 /\ target # None /\ Reached(b, target)

\* The bar is taken up: its mark, and the explicit stale flag it clears.
Arrive(d, b) ==
  /\ d > day
  /\ day' = d
  /\ bar' = b
  /\ stale' = FALSE
  /\ risk' = Marked(risk, EquityAt(b), d)

ClearLevels == stop' = None /\ target' = None

SellAll(d, b, kind, price) ==
  account' = SubmitSell(account, risk', <<d, kind>>, Instrument, Held, price)

\* Broken variant: the target goes first.
ExitOnLevel_TargetFirst(d, b) ==
  /\ Arrive(d, b)
  /\ \/ TargetHit(b) /\ SellAll(d, b, "target", TargetFill(b, target))
     \/ ~TargetHit(b) /\ StopHit(b) /\ SellAll(d, b, "stoploss", StopFill(b, stop))
  /\ ClearLevels

\* A level was crossed: the stop first, and no signal is asked for.
ExitOnLevel(d, b) ==
  /\ Arrive(d, b)
  /\ \/ StopHit(b) /\ SellAll(d, b, "stoploss", StopFill(b, stop))
     \/ ~StopHit(b) /\ TargetHit(b) /\ SellAll(d, b, "target", TargetFill(b, target))
  /\ ClearLevels

\* No level was crossed, and there is a closed bar to decide on.
Asked(b) == ~StopHit(b) /\ ~TargetHit(b) /\ day # 0

\* A BUY signal: suppressed, or submitted and its levels set if it went through.
EnterOnSignal(d, b, trend) ==
  /\ Arrive(d, b)
  /\ Asked(b) /\ trend = "up" /\ Held = 0
  /\ account' = IF Suppressed(d) THEN account
                ELSE SubmitBuy(account, risk', <<d, "buy">>, Instrument, EquityAt(b),
                               BuyPrice(b), Sized(account.cash, BuyPrice(b), StopPct))
  /\ IF ~Suppressed(d) /\ Submitted(account, account', <<d, "buy">>)
     THEN stop' = DefaultStop(BuyPrice(b)) /\ target' = DefaultTarget(BuyPrice(b))
     ELSE UNCHANGED <<stop, target>>

\* Broken variant: the levels outlive the position.
ExitOnSignal_KeepLevels(d, b, trend) ==
  /\ Arrive(d, b)
  /\ Asked(b) /\ trend = "down" /\ Held > 0
  /\ SellAll(d, b, "sell", SellPrice(100 * b.open))
  /\ UNCHANGED <<stop, target>>

ExitOnSignal(d, b, trend) ==
  /\ Arrive(d, b)
  /\ Asked(b) /\ trend = "down" /\ Held > 0
  /\ SellAll(d, b, "sell", SellPrice(100 * b.open))
  /\ ClearLevels

NoSignal(d, b, trend) ==
  /\ Arrive(d, b)
  /\ ~StopHit(b) /\ ~TargetHit(b)
  /\ \/ day = 0
     \/ trend = "none"
     \/ trend = "up" /\ Held > 0
     \/ trend = "down" /\ Held = 0
  /\ UNCHANGED <<account, stop, target>>

OnBar(d, b, trend) ==
  \/ ExitOnLevel(d, b)
  \/ EnterOnSignal(d, b, trend)
  \/ ExitOnSignal(d, b, trend)
  \/ NoSignal(d, b, trend)

MarkStale ==
  /\ stale' = TRUE
  /\ UNCHANGED <<account, risk, stop, target, day, bar>>
=============================================================================
