--------------------------- MODULE ShadowBacktest ---------------------------
(***************************************************************************)
(* A shadow session and a backtest of the same configuration fed the same    *)
(* bars and the same strategy.  The session's configuration is "kept         *)
(* identical between backtest and shadow session so results are comparable": *)
(* the module says when they are.                                            *)
(***************************************************************************)
EXTENDS ShadowSession

VARIABLES
  cash, position, engine, bars, realized, equity,  \* the backtest
  ended,     \* the backtest's data has ended
  parted     \* history: a bar on which the two may differ has passed

B == INSTANCE Backtester

backtest == <<cash, position, engine, bars, realized, equity>>
vars == <<session, backtest, ended, parted>>

TypeOK ==
  /\ SessionTypeOK
  /\ B!RunTypeOK
  /\ {ended, parted} \subseteq BOOLEAN

Init ==
  /\ SessionInit
  /\ B!RunInit
  /\ ended = FALSE /\ parted = FALSE

\* The bars on which they may differ: the session suppresses an entry, or the
\* backtest enters and leaves on one bar.
Parts(d, b, trend) ==
  /\ Held = 0 /\ day # 0 /\ trend = "up"
  /\ \/ Suppressed(d)
     \/ Crossed(b, DefaultStop(BuyPrice(b)))
     \/ Reached(b, DefaultTarget(BuyPrice(b)))

Feed(d, b, trend) ==
  /\ ~ended
  /\ OnBar(d, b, trend)
  /\ B!Process(d, b, trend)
  /\ parted' = (parted \/ Parts(d, b, trend))
  /\ UNCHANGED ended

Stale ==
  /\ ~ended /\ ~stale
  /\ MarkStale
  /\ UNCHANGED <<backtest, ended, parted>>

End ==
  /\ ~ended /\ day # 0
  /\ B!Liquidate(bar)
  /\ ended' = TRUE
  /\ UNCHANGED <<session, parted>>

Next ==
  \/ \E d \in Days, b \in Bars, trend \in Trends : Feed(d, b, trend)
  \/ Stale
  \/ End

Spec == Init /\ [][Next]_vars

-----------------------------------------------------------------------------
(* Properties *)

\* The session follows the backtest: until a bar on which it suppressed an
\* entry, or the backtest entered and left, both have the same cash, position,
\* levels and risk record.
SessionFollowsBacktest ==
  ~parted /\ ~ended =>
    /\ account.cash = cash
    /\ Held = position.qty
    /\ stop = position.stop /\ target = position.target
    /\ risk = engine

\* The session's levels live exactly as long as its position, and are those of
\* the price it was bought at.
LevelsFollowPosition ==
  /\ Held = 0 => stop = None /\ target = None
  /\ Held > 0 =>
       \E d \in Days :
         /\ Known(account, <<d, "buy">>)
         /\ \A e \in d + 1 .. MaxDays : ~Known(account, <<e, "buy">>)
         /\ Held = account.orders[<<d, "buy">>].qty
         /\ stop = DefaultStop(account.orders[<<d, "buy">>].price)
         /\ target = DefaultTarget(account.orders[<<d, "buy">>].price)

\* A stale feed never enters and never traps: on a bar after a gap or a mark
\* the session places no buy, and a carried position whose level the bar
\* crosses is closed all the same.
StaleOnlyExits ==
  [][(stale \/ day' - day > MaxGap) /\ day # 0 /\ day' # day =>
       /\ Held' <= Held
       /\ Held > 0 /\ (100 * bar'.low <= stop \/ 100 * bar'.high >= target) => Held' = 0]_vars

\* The trades explain the backtest's result: with nothing held, the cash is the
\* capital and the trades' net profits; with a position, it is short of that by
\* what the position cost; and the curve ends on the final capital.
TradesExplainCash ==
  /\ cash = 100 * Capital + realized - 100 * position.qty * position.price - position.cost
  /\ ended => position = B!NoPosition /\ equity = cash
=============================================================================
