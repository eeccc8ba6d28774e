------------------------- MODULE ShadowBacktestProofs -------------------------
(***************************************************************************)
(* The shadow session follows the backtest, for every feed and every        *)
(* configuration: ShadowBacktest's invariants and its action property.      *)
(*                                                                         *)
(* The invariant Inv has three parts.  SessionInv: the session's orders are  *)
(* named after bars that have passed, so that an id is never taken, and its *)
(* levels are those of its last entry.  RunInv: the backtest's cash is       *)
(* explained by its trades and its position, and it has processed a bar     *)
(* exactly when the session has.  And the property itself.  A step is proved *)
(* from what each side does on a bar (SessionResult, RunResult), and the    *)
(* two compared with a position carried and with none.                      *)
(***************************************************************************)
EXTENDS ShadowBacktest, PaperTradingProofs

-----------------------------------------------------------------------------
(* The backtest's instance of the shared operators is the session's *)

LEMMA SameLevels ==
  /\ B!None = None
  /\ \A b : B!BuyPrice(b) = BuyPrice(b)
  /\ \A t : B!SellPrice(t) = SellPrice(t)
  /\ \A p : B!DefaultStop(p) = DefaultStop(p) /\ B!DefaultTarget(p) = DefaultTarget(p)
  /\ \A b, s : B!Crossed(b, s) <=> Crossed(b, s)
  /\ \A b, t : B!Reached(b, t) <=> Reached(b, t)
  /\ \A b, s : B!StopFill(b, s) = StopFill(b, s) /\ B!TargetFill(b, s) = TargetFill(b, s)
BY DEF B!None, None, B!BuyPrice, BuyPrice, B!SellPrice, SellPrice, B!DefaultStop, DefaultStop,
  B!DefaultTarget, DefaultTarget, B!Crossed, Crossed, B!Reached, Reached, B!StopFill, StopFill,
  B!TargetFill, TargetFill, B!Lower, Lower, B!Higher, Higher

LEMMA SameEngine ==
  /\ B!NewRisk = NewRisk /\ B!Risk = Risk
  /\ \A r, e, d : B!Marked(r, e, d) = Marked(r, e, d)
  /\ \A r, e, n : B!Approved(r, e, n) <=> Approved(r, e, n)
  /\ \A q, p : B!Commission(q, p) = Commission(q, p)
<1>1. \A h, e : B!Breached(h, e) <=> Breached(h, e)
  BY DEF B!Breached, Breached
<1>2. \A d : B!MonthOf(d) = MonthOf(d)
  BY DEF B!MonthOf, MonthOf
<1>3. \A r, e, d : B!Marked(r, e, d) = Marked(r, e, d)
  BY <1>1, <1>2 DEF B!Marked, Marked
<1>4. \A r, e, n : B!Approved(r, e, n) <=> Approved(r, e, n)
  BY DEF B!Approved, Approved
<1>. QED
  BY <1>3, <1>4 DEF B!NewRisk, NewRisk, B!Risk, Risk, B!Commission, Commission

LEMMA SameSize == \A c, p, s : B!Sized(c, p, s) = Sized(c, p, s)
BY DEF B!Sized, Sized, B!SizedAt, SizedAt, B!SizedByWeight, SizedByWeight, B!Smallest, Smallest

-----------------------------------------------------------------------------
(* Prices *)

LEMMA BarTypes ==
  ASSUME NEW b \in Bars
  PROVE  /\ b.open \in Nat \ {0} /\ b.low \in Nat \ {0} /\ b.high \in Nat \ {0} /\ b.close \in Nat \ {0}
         /\ b.low <= b.open /\ b.low <= b.close
<1>1. /\ b.open \in Nat \ {0} /\ b.low \in Nat \ {0} /\ b.high \in Nat \ {0} /\ b.close \in Nat \ {0}
      /\ b.open \in b.low .. b.high /\ b.close \in b.low .. b.high
  BY BarsAssumption
<1>. QED
  BY <1>1

LEMMA BuyPriceType == ASSUME NEW b \in Bars PROVE BuyPrice(b) \in Nat \ {0}
<1>1. b.open \in Nat \ {0} /\ SlippagePct \in Nat
  BY BarTypes, RatesAssumption
<1>. QED
  BY <1>1, MarkedUp DEF BuyPrice

LEMMA SellPriceType ==
  ASSUME NEW b \in Bars, NEW trigger \in Nat, 100 * b.low <= trigger
  PROVE  SellPrice(trigger) \in Nat \ {0}
<1>1. 100 * b.low \in Nat /\ 100 - SlippagePct \in Nat
  BY BarTypes, RatesAssumption
<1>2. /\ SellPrice(100 * b.low) \in Nat /\ SellPrice(trigger) \in Nat
      /\ SellPrice(100 * b.low) <= SellPrice(trigger)
  <2>1. PICK p \in Nat, q \in Nat : /\ p = (100 * b.low) * (100 - SlippagePct)
                                    /\ q = trigger * (100 - SlippagePct)
    BY <1>1
  <2>2. p <= q
    BY <1>1, <2>1, Times
  <2>3. p \div 10000 <= q \div 10000 /\ p \div 10000 \in Nat /\ q \div 10000 \in Nat
    BY <2>2, DivMonotone
  <2>. QED
    BY <2>1, <2>3 DEF SellPrice
<1>. QED
  BY <1>2, WholePricesAssumption

LEMMA FillTypes ==
  ASSUME NEW b \in Bars, NEW level \in Nat
  PROVE  /\ Crossed(b, level) => StopFill(b, level) \in Nat \ {0}
         /\ TargetFill(b, level) \in Nat \ {0}
         /\ SellPrice(100 * b.open) \in Nat \ {0}
         /\ SellPrice(100 * b.close) \in Nat \ {0}
<1>1. /\ 100 * b.open \in Nat /\ 100 * b.low \in Nat /\ 100 * b.close \in Nat
      /\ 100 * b.low <= 100 * b.open /\ 100 * b.low <= 100 * b.close
  BY BarTypes
<1>2. ASSUME Crossed(b, level) PROVE StopFill(b, level) \in Nat \ {0}
  <2>1. Lower(100 * b.open, level) \in Nat /\ 100 * b.low <= Lower(100 * b.open, level)
    BY <1>1, <1>2 DEF Lower, Crossed
  <2>. QED
    BY <2>1, SellPriceType DEF StopFill
<1>3. TargetFill(b, level) \in Nat \ {0}
  <2>1. Higher(100 * b.open, level) \in Nat /\ 100 * b.low <= Higher(100 * b.open, level)
    BY <1>1 DEF Higher
  <2>. QED
    BY <2>1, SellPriceType DEF TargetFill
<1>4. SellPrice(100 * b.open) \in Nat \ {0} /\ SellPrice(100 * b.close) \in Nat \ {0}
  BY <1>1, SellPriceType
<1>. QED
  BY <1>2, <1>3, <1>4

LEMMA DefaultTypes ==
  ASSUME NEW price \in Nat \ {0}
  PROVE  DefaultStop(price) \in Nat \ {0} /\ DefaultTarget(price) \in Nat \ {0}
<1>1. 100 - StopLossPct \in Nat \ {0} /\ StopLossPct \in Nat /\ RewardPct \in Nat
  BY RatesAssumption
<1>2. \A k \in Nat \ {0} : price * k \in Nat \ {0}
  OBVIOUS
<1>3. price * (100 - StopLossPct) \in Nat \ {0} /\ price * StopLossPct * RewardPct \in Nat
  BY <1>1, <1>2
<1>4. PICK p \in Nat : p = price * StopLossPct * RewardPct
  BY <1>3
<1>5. p \div 100 \in Nat
  OBVIOUS
<1>. QED
  BY <1>3, <1>4, <1>5 DEF DefaultStop, DefaultTarget

-----------------------------------------------------------------------------
(* The session *)

LEMMA IdsOfOne ==
  Instrument \in Instruments /\ \A e \in Days, k \in Kinds : <<e, k>> \in Ids
BY AccountOfOneAssumption

LEMMA HeldType ==
  ASSUME NEW acc \in Account
  PROVE  /\ acc.held[Instrument] \in Nat /\ acc.cash \in Nat
         /\ acc.orders \in [Ids -> Order \cup {NoOrder}] /\ acc.held \in [Instruments -> Nat]
BY IdsOfOne DEF Account

\* The session names its orders after the bar: none is dated later.
Dated(acc, d) == \A e \in Days, k \in Kinds : Known(acc, <<e, k>>) => e <= d

SessionInv ==
  /\ SessionTypeOK
  /\ Dated(account, day)
  /\ LevelsFollowPosition

\* A held position has both levels.
LEMMA LevelsAreSet ==
  ASSUME SessionInv, Held > 0
  PROVE  stop \in Nat \ {0} /\ target \in Nat \ {0}
<1>1. PICK e \in Days : /\ Known(account, <<e, "buy">>)
                        /\ stop = DefaultStop(account.orders[<<e, "buy">>].price)
                        /\ target = DefaultTarget(account.orders[<<e, "buy">>].price)
  BY DEF SessionInv, LevelsFollowPosition
<1>2. account.orders[<<e, "buy">>] \in Order
  <2>1. "buy" \in Kinds /\ account \in Account
    BY DEF Kinds, SessionInv, SessionTypeOK
  <2>. QED
    BY <1>1, <2>1, HeldType, IdsOfOne DEF Known
<1>3. account.orders[<<e, "buy">>].price \in Nat \ {0}
  BY <1>2 DEF Order
<1>. QED
  BY <1>1, <1>3, DefaultTypes

LEMMA ArriveTypes ==
  ASSUME SessionInv, NEW d \in Days, NEW b \in Bars, Arrive(d, b)
  PROVE  /\ risk' = Marked(risk, EquityAt(b), d) /\ risk' \in Risk
         /\ day' = d /\ bar' = b /\ stale' = FALSE /\ d \in Nat \ {0} /\ d > day
         /\ day' \in 0 .. MaxDays /\ EquityAt(b) \in Nat
<1>1. /\ risk' = Marked(risk, EquityAt(b), d) /\ day' = d /\ bar' = b /\ stale' = FALSE /\ d > day
  BY DEF Arrive
<1>2. d \in Nat \ {0} /\ d \in 0 .. MaxDays
  BY FeedAssumption DEF Days
<1>3. EquityAt(b) \in Nat
  <2>1. account.cash \in Nat /\ Held \in Nat /\ b.open \in Nat
    BY HeldType, BarTypes DEF SessionInv, SessionTypeOK, Held
  <2>2. 100 * Held * b.open \in Nat
    BY <2>1
  <2>. QED
    BY <2>1, <2>2 DEF EquityAt
<1>4. risk' \in Risk
  BY <1>1, <1>2, <1>3, MarkedRecord DEF SessionInv, SessionTypeOK
<1>. QED
  BY <1>1, <1>2, <1>3, <1>4

\* An id of a later bar is new.
LEMMA NewId ==
  ASSUME SessionInv, NEW d \in Days, d > day, NEW k \in Kinds
  PROVE  ~Known(account, <<d, k>>)
BY FeedAssumption DEF SessionInv, SessionTypeOK, Dated, Days

\* Placing it leaves the others.
Grown(acc, new, d, kind, order) ==
  /\ new.orders[<<d, kind>>] = order /\ Known(new, <<d, kind>>)
  /\ \A e \in Days, k \in Kinds : e # d \/ k # kind =>
       (Known(new, <<e, k>>) <=> Known(acc, <<e, k>>))

LEMMA OneMore ==
  ASSUME NEW acc \in Account, NEW new, NEW d \in Days, NEW kind \in Kinds, NEW order \in Order,
         new.orders = [acc.orders EXCEPT ![<<d, kind>>] = order]
  PROVE  Grown(acc, new, d, kind, order)
<1>1. acc.orders \in [Ids -> Order \cup {NoOrder}] /\ <<d, kind>> \in Ids
  BY HeldType, IdsOfOne
<1>2. order # NoOrder
  BY DEF Order, NoOrder
<1>3. \A x \in Ids : new.orders[x] = IF x = <<d, kind>> THEN order ELSE acc.orders[x]
  BY <1>1
<1>4. ASSUME NEW e \in Days, NEW k \in Kinds, e # d \/ k # kind
      PROVE  Known(new, <<e, k>>) <=> Known(acc, <<e, k>>)
  <2>1. <<e, k>> \in Ids /\ <<e, k>> # <<d, kind>>
    BY <1>4, IdsOfOne
  <2>. QED
    BY <1>3, <2>1 DEF Known
<1>. QED
  BY <1>1, <1>2, <1>3, <1>4 DEF Known, Grown

\* The position is closed at a price.
Closed(price) ==
  /\ Held' = 0 /\ account'.cash = account.cash + Proceeds(Held, price)
  /\ stop' = None /\ target' = None

LEMMA Sold ==
  ASSUME SessionInv, NEW d \in Days, d > day, day' = d, Held > 0,
         NEW b, NEW kind \in Kinds, kind # "buy", NEW price \in Nat \ {0},
         SellAll(d, b, kind, price), ClearLevels
  PROVE  account' \in Account /\ Closed(price) /\ Dated(account, day)' /\ LevelsFollowPosition'
<1> DEFINE id == <<d, kind>>
           qty == account.held[Instrument]
           order == Made("SELL", Instrument, qty, price, "FILLED")
<1>1. /\ account \in Account /\ qty \in Nat \ {0} /\ id \in Ids /\ Instrument \in Instruments
      /\ account.held \in [Instruments -> Nat] /\ qty <= account.held[Instrument]
  BY HeldType, IdsOfOne DEF SessionInv, SessionTypeOK, Held
<1>2. ~Known(account, id)
  BY NewId
<1>3. account' = FillSell(account, id, Instrument, qty, price)
  BY <1>2 DEF SellAll, SubmitSell, Held
<1> HIDE DEF qty, id
<1>4. /\ account' \in Account
      /\ account'.orders = [account.orders EXCEPT ![id] = order]
      /\ account'.cash = account.cash + Proceeds(qty, price)
      /\ account'.held = [account.held EXCEPT ![Instrument] = @ - qty]
  BY <1>1, <1>3, SellFilled
<1>5. order \in Order
  BY <1>1 DEF Made, Order
<1> HIDE DEF order
<1>6. Held' = 0
  BY <1>1, <1>4 DEF qty, Held
<1>7. Dated(account, day)'
  <2>1. \A e \in Days, k \in Kinds : e # d \/ k # kind =>
          (Known(account', <<e, k>>) <=> Known(account, <<e, k>>))
    <3>1. account'.orders = [account.orders EXCEPT ![<<d, kind>>] = order]
      BY <1>4 DEF id
    <3>2. Grown(account, account', d, kind, order)
      BY <1>1, <1>5, <3>1, OneMore
    <3>. QED
      BY <3>2 DEF Grown
  <2>2. ASSUME NEW e \in Days, NEW k \in Kinds, Known(account', <<e, k>>) PROVE e <= d
    <3>1. CASE e = d
      BY <3>1 DEF Days
    <3>2. CASE e # d
      <4>1. e <= day
        BY <2>1, <2>2, <3>2 DEF SessionInv, Dated
      <4>. QED
        BY <4>1, FeedAssumption DEF Days, SessionInv, SessionTypeOK
    <3>. QED
      BY <3>1, <3>2
  <2>. QED
    BY <2>2 DEF Dated
<1>8. LevelsFollowPosition'
  BY <1>6 DEF LevelsFollowPosition, ClearLevels
<1>. QED
  BY <1>4, <1>6, <1>7, <1>8 DEF qty, Held, Closed, ClearLevels

\* Nothing was traded.
LEMMA Carried ==
  ASSUME SessionInv, NEW d \in Days, d > day, day' = d, UNCHANGED <<account, stop, target>>
  PROVE  Dated(account, day)' /\ LevelsFollowPosition'
<1>1. Dated(account', d)
  <2>1. \A e \in Days : e <= day => e <= d
    BY FeedAssumption DEF Days, SessionInv, SessionTypeOK
  <2>. QED
    BY <2>1 DEF SessionInv, Dated
<1>2. LevelsFollowPosition'
  BY DEF SessionInv, LevelsFollowPosition, Held, Known
<1>. QED
  BY <1>1, <1>2

\* A buy on a signal, with nothing held: filled, or not placed at all.
Entered(b) ==
  LET price == BuyPrice(b)
      qty == Sized(account.cash, price, StopPct)
  IN /\ Approved(risk', account.cash, 0) /\ qty > 0 =>
          /\ Held' = qty /\ account'.cash = account.cash - Cost(qty, price)
          /\ stop' = DefaultStop(price) /\ target' = DefaultTarget(price)
     /\ ~(Approved(risk', account.cash, 0) /\ qty > 0) => UNCHANGED <<account, stop, target>>

LEMMA Bought ==
  ASSUME SessionInv, NEW d \in Days, d > day, day' = d, NEW b \in Bars, Held = 0,
         account' = SubmitBuy(account, risk', <<d, "buy">>, Instrument, EquityAt(b),
                              BuyPrice(b), Sized(account.cash, BuyPrice(b), StopPct)),
         IF Submitted(account, account', <<d, "buy">>)
         THEN stop' = DefaultStop(BuyPrice(b)) /\ target' = DefaultTarget(BuyPrice(b))
         ELSE UNCHANGED <<stop, target>>
  PROVE  account' \in Account /\ Entered(b) /\ Dated(account, day)' /\ LevelsFollowPosition'
<1> DEFINE id == <<d, "buy">>
           price == BuyPrice(b)
           qty == Sized(account.cash, price, StopPct)
           order == Made("BUY", Instrument, qty, price, "FILLED")
<1>1. /\ account \in Account /\ account.cash \in Nat /\ account.held \in [Instruments -> Nat]
      /\ "buy" \in Kinds /\ id \in Ids /\ Instrument \in Instruments /\ price \in Nat \ {0}
      /\ account.held[Instrument] = 0 /\ b.open \in Nat
  BY HeldType, IdsOfOne, BuyPriceType, BarTypes DEF SessionInv, SessionTypeOK, Held, Kinds
<1>2. qty \in Nat /\ Cost(qty, price) <= account.cash
  <2>1. StopPct \in Nat \ {0}
    BY FeedAssumption
  <2>. QED
    BY <1>1, <2>1, SizedFits
<1>3. ~Known(account, id)
  BY <1>1, NewId
<1>4. EquityAt(b) = account.cash /\ OpenCount(account) = 0
  <2>1. {i \in Instruments : account.held[i] > 0} = {}
    BY <1>1, AccountOfOneAssumption
  <2>2. OpenCount(account) = 0
    BY <2>1, FS_EmptySet DEF OpenCount
  <2>. QED
    BY <1>1, <2>2 DEF EquityAt, Held
<1>5. account' = IF Approved(risk', account.cash, 0) /\ qty > 0
                 THEN FillBuy(account, id, Instrument, qty, price) ELSE account
  BY <1>3, <1>4 DEF SubmitBuy
<1>6. IF Submitted(account, account', id)
      THEN stop' = DefaultStop(price) /\ target' = DefaultTarget(price)
      ELSE UNCHANGED <<stop, target>>
  OBVIOUS
<1> HIDE DEF id, price, qty
<1>7. CASE Approved(risk', account.cash, 0) /\ qty > 0
  <2>1. qty \in Nat \ {0} /\ account' = FillBuy(account, id, Instrument, qty, price)
    BY <1>2, <1>5, <1>7
  <2>2. /\ account' \in Account
        /\ account'.orders = [account.orders EXCEPT ![id] = order]
        /\ account'.cash = account.cash - Cost(qty, price)
        /\ account'.held = [account.held EXCEPT ![Instrument] = @ + qty]
    BY <1>1, <1>2, <2>1, BuyFilled
  <2>3. order \in Order /\ order.status = "FILLED" /\ order.qty = qty /\ order.price = price
    BY <1>1, <2>1 DEF Made, Order
  <2> HIDE DEF order
  <2>4. Held' = qty
    BY <1>1, <2>1, <2>2 DEF Held
  <2>5. /\ account'.orders[<<d, "buy">>] = order /\ Known(account', <<d, "buy">>)
        /\ \A e \in Days, k \in Kinds : e # d \/ k # "buy" =>
             (Known(account', <<e, k>>) <=> Known(account, <<e, k>>))
    <3>1. account'.orders = [account.orders EXCEPT ![<<d, "buy">>] = order]
      BY <2>2 DEF id
    <3>2. Grown(account, account', d, "buy", order)
      BY <1>1, <2>3, <3>1, OneMore
    <3>. QED
      BY <3>2 DEF Grown
  <2>6. ASSUME NEW e \in Days, NEW k \in Kinds, Known(account', <<e, k>>) PROVE e <= d
    <3>1. CASE e = d
      BY <3>1 DEF Days
    <3>2. CASE e # d
      <4>1. e <= day
        BY <2>5, <2>6, <3>2 DEF SessionInv, Dated
      <4>. QED
        BY <4>1, FeedAssumption DEF Days, SessionInv, SessionTypeOK
    <3>. QED
      BY <3>1, <3>2
  <2>7. Submitted(account, account', id)
    BY <2>3, <2>5 DEF Submitted, id
  <2>8. LevelsFollowPosition'
    <3>1. \A f \in d + 1 .. MaxDays : ~Known(account', <<f, "buy">>)
      <4>1. \A f \in d + 1 .. MaxDays : f \in Days /\ ~(f <= d)
        BY FeedAssumption DEF Days
      <4>. QED
        BY <1>1, <2>6, <4>1
    <3>2. /\ Held' = account'.orders[<<d, "buy">>].qty
          /\ stop' = DefaultStop(account'.orders[<<d, "buy">>].price)
          /\ target' = DefaultTarget(account'.orders[<<d, "buy">>].price)
      BY <1>6, <2>3, <2>4, <2>5, <2>7
    <3>. QED
      BY <2>1, <2>4, <2>5, <3>1, <3>2 DEF LevelsFollowPosition
  <2>9. Dated(account, day)'
    BY <2>6 DEF Dated
  <2>. QED
    BY <1>6, <1>7, <2>2, <2>4, <2>7, <2>8, <2>9 DEF price, qty, Entered
<1>8. CASE ~(Approved(risk', account.cash, 0) /\ qty > 0)
  <2>1. account' = account
    BY <1>5, <1>8
  <2>2. UNCHANGED <<account, stop, target>>
    BY <1>3, <1>6, <2>1 DEF Submitted
  <2>. QED
    BY <1>1, <1>8, <2>2, Carried DEF price, qty, Entered
<1>. QED
  BY <1>7, <1>8

-----------------------------------------------------------------------------
(* The backtest *)

Holdings == B!Position \cup {B!NoPosition}

\* What a position took out of the cash.
Basis(p) == 100 * p.qty * p.price + p.cost

RunInv ==
  /\ B!RunTypeOK
  /\ TradesExplainCash
  /\ bars > 0 <=> day # 0

LEMMA HoldingTypes ==
  ASSUME NEW p \in Holdings
  PROVE  /\ p.qty \in Nat /\ p.price \in Nat /\ p.cost \in Nat /\ p.stop \in Nat /\ p.target \in Nat
         /\ 100 * p.qty * p.price \in Nat /\ Basis(p) \in Nat
         /\ p \in B!Position => p.qty # 0 /\ p.price # 0
         /\ p.qty = 0 => p = B!NoPosition
         /\ p = B!NoPosition => Basis(p) = 0 /\ p.qty = 0
<1>1. /\ p.qty \in Nat /\ p.price \in Nat /\ p.cost \in Nat /\ p.stop \in Nat /\ p.target \in Nat
      /\ p \in B!Position => p.qty # 0 /\ p.price # 0
      /\ p = B!NoPosition => p.qty = 0 /\ p.price = 0 /\ p.cost = 0
  BY DEF Holdings, B!Position, B!NoPosition, B!None
<1>2. PICK v \in Nat : v = 100 * p.qty * p.price
  BY <1>1
<1>3. p = B!NoPosition => v = 0
  BY <1>1, <1>2
<1>. QED
  BY <1>1, <1>2, <1>3 DEF Basis, Holdings

\* A buy that the run made, or none.
LEMMA RunBought ==
  ASSUME B!RunTypeOK, NEW b \in Bars, NEW m
  PROVE  LET price == BuyPrice(b)
             qty == Sized(cash, price, StopPct)
             h == B!Bought(b, m)
         IN /\ h \in Holdings /\ Basis(h) <= cash
            /\ Approved(m, cash, 0) /\ qty > 0 =>
                 /\ h.qty = qty /\ Basis(h) = Cost(qty, price)
                 /\ h.stop = DefaultStop(price) /\ h.target = DefaultTarget(price)
            /\ ~(Approved(m, cash, 0) /\ qty > 0) => h = B!NoPosition
<1> DEFINE price == BuyPrice(b)
           qty == Sized(cash, price, StopPct)
           h == B!Bought(b, m)
<1>1. cash \in Nat /\ price \in Nat \ {0} /\ StopPct \in Nat \ {0}
  BY BuyPriceType, FeedAssumption DEF B!RunTypeOK
<1>2. qty \in Nat /\ Cost(qty, price) <= cash
  BY <1>1, SizedFits
<1>3. h = IF Approved(m, cash, 0) /\ qty > 0
          THEN [qty |-> qty, price |-> price, cost |-> Commission(qty, price),
                stop |-> DefaultStop(price), target |-> DefaultTarget(price)]
          ELSE B!NoPosition
  <2>1. B!BuyPrice(b) = price /\ B!Sized(cash, price, StopPct) = qty
    BY SameLevels, SameSize
  <2>2. /\ B!Approved(m, cash, 0) <=> Approved(m, cash, 0)
        /\ B!Commission(qty, price) = Commission(qty, price)
        /\ B!DefaultStop(price) = DefaultStop(price) /\ B!DefaultTarget(price) = DefaultTarget(price)
    BY SameLevels, SameEngine
  <2>. QED
    BY <2>1, <2>2 DEF B!Bought
<1>4. DefaultStop(price) \in Nat \ {0} /\ DefaultTarget(price) \in Nat \ {0}
  BY <1>1, DefaultTypes
<1> HIDE DEF price, qty, h
<1>5. CASE Approved(m, cash, 0) /\ qty > 0
  <2>1. /\ Gross(qty, price) + Commission(qty, price) = Cost(qty, price)
        /\ Commission(qty, price) \in Nat
    <3>1. qty \in Nat \ {0} /\ CommissionPct \in Nat
      BY <1>2, <1>5, AccountAssumption
    <3>2. Commission(qty, price) \in Nat
      BY <1>1, <3>1 DEF Commission
    <3>. QED
      BY <1>1, <3>1, <3>2, Amounts100
  <2>2. /\ h.qty = qty /\ h.price = price /\ h.cost = Commission(qty, price)
        /\ h.stop = DefaultStop(price) /\ h.target = DefaultTarget(price)
    BY <1>3, <1>5
  <2>3. h \in Holdings
    BY <1>1, <1>2, <1>3, <1>4, <1>5, <2>1 DEF Holdings, B!Position
  <2>4. Basis(h) = Cost(qty, price)
    BY <2>1, <2>2 DEF Basis, Gross
  <2>. QED
    BY <1>2, <1>5, <2>2, <2>3, <2>4 DEF price, qty, h
<1>6. CASE ~(Approved(m, cash, 0) /\ qty > 0)
  <2>1. h = B!NoPosition
    BY <1>3, <1>6
  <2>2. h \in Holdings /\ Basis(h) = 0
    BY <2>1, HoldingTypes DEF Holdings
  <2>. QED
    BY <1>1, <1>6, <2>1, <2>2 DEF price, qty, h
<1>. QED
  BY <1>5, <1>6

\* The position after the entry, and what it took.
LEMMA RunOpened ==
  ASSUME B!RunTypeOK, NEW b \in Bars, NEW m, NEW trend, NEW h, h = B!Opened(b, m, trend)
  PROVE  /\ h \in Holdings /\ B!Paid(h) \in Nat /\ B!Paid(h) <= cash
         /\ Basis(h) = Basis(position) + B!Paid(h)
<1>1. cash \in Nat /\ position \in Holdings
  BY DEF B!RunTypeOK, Holdings
<1>2. CASE position = B!NoPosition
  <2>1. h \in Holdings /\ Basis(h) <= cash
    <3>1. h = B!Bought(b, m) \/ h = position
      BY DEF B!Opened
    <3>2. Basis(position) <= cash
      BY <1>1, <1>2, HoldingTypes
    <3>. QED
      BY <1>1, <3>1, <3>2, RunBought
  <2>2. B!Paid(h) = Basis(h)
    BY <1>2 DEF B!Paid, B!Value, Basis
  <2>3. Basis(h) \in Nat /\ Basis(position) = 0
    BY <1>1, <1>2, <2>1, HoldingTypes
  <2>. QED
    BY <2>1, <2>2, <2>3
<1>3. CASE position # B!NoPosition
  <2>1. h = position
    BY <1>3 DEF B!Opened
  <2>2. B!Paid(h) = 0
    BY <1>3 DEF B!Paid
  <2>3. Basis(h) \in Nat
    BY <1>1, <2>1, HoldingTypes
  <2>. QED
    BY <1>1, <2>1, <2>2, <2>3
<1>. QED
  BY <1>2, <1>3

\* A position is closed: its basis comes back with the profit.
LEMMA RunClosed ==
  ASSUME B!RunTypeOK, TradesExplainCash, NEW h \in B!Position, NEW price \in Nat \ {0},
         B!Paid(h) \in Nat, B!Paid(h) <= cash, Basis(h) = Basis(position) + B!Paid(h),
         B!Close(h, price)
  PROVE  /\ cash' = cash - B!Paid(h) + Proceeds(h.qty, price)
         /\ cash' \in Nat /\ realized' \in Int /\ position' = B!NoPosition
         /\ cash' = 100 * Capital + realized'
<1>1. /\ h.qty \in Nat \ {0} /\ h.price \in Nat /\ h.cost \in Nat /\ Basis(h) \in Nat
      /\ cash \in Nat /\ realized \in Int /\ position \in Holdings
  <2>1. h \in Holdings
    BY DEF Holdings
  <2>. QED
    BY <2>1, HoldingTypes DEF B!RunTypeOK, Holdings
<1>2. /\ Gross(h.qty, price) - Commission(h.qty, price) = Proceeds(h.qty, price)
      /\ Proceeds(h.qty, price) \in Nat
      /\ Gross(h.qty, price) \in Int /\ Commission(h.qty, price) \in Int
  <2>1. Gross(h.qty, price) \in Int /\ Commission(h.qty, price) \in Int
    BY <1>1, AccountAssumption DEF Gross, Commission
  <2>. QED
    BY <1>1, <2>1, Amounts100
<1>3. /\ cash' = cash - B!Paid(h) + Gross(h.qty, price) - Commission(h.qty, price)
      /\ realized' = realized + Gross(h.qty, price) - B!Value(h, h.price)
                       - h.cost - Commission(h.qty, price)
      /\ position' = B!NoPosition
  <2>1. B!Value(h, price) = Gross(h.qty, price)
    BY DEF B!Value, Gross
  <2>2. B!Commission(h.qty, price) = Commission(h.qty, price)
    BY SameEngine
  <2>. QED
    BY <2>1, <2>2 DEF B!Close
<1>4. /\ B!Value(h, h.price) \in Nat /\ Basis(h) = B!Value(h, h.price) + h.cost
  BY <1>1 DEF B!Value, Basis
<1>5. cash = 100 * Capital + realized - Basis(position)
  <2>1. /\ cash = 100 * Capital + realized - 100 * position.qty * position.price - position.cost
        /\ 100 * position.qty * position.price \in Nat /\ position.cost \in Nat
        /\ 100 * Capital \in Nat
    BY <1>1, HoldingTypes, AccountAssumption DEF TradesExplainCash
  <2>2. PICK v \in Nat, c \in Nat : v = 100 * position.qty * position.price /\ c = 100 * Capital
    BY <2>1
  <2>3. Basis(position) = v + position.cost
    BY <2>2 DEF Basis
  <2>. QED
    BY <1>1, <2>1, <2>2, <2>3
<1>6. Basis(position) \in Nat /\ 100 * Capital \in Nat
  BY <1>1, HoldingTypes, AccountAssumption
<1>7. PICK g \in Int, x \in Int, v \in Nat, p \in Nat, bp \in Nat, k \in Nat :
        /\ g = Gross(h.qty, price) /\ x = Commission(h.qty, price) /\ v = B!Value(h, h.price)
        /\ p = B!Paid(h) /\ bp = Basis(position) /\ k = 100 * Capital
  BY <1>2, <1>4, <1>6
<1>8. cash' = cash - p + (g - x) /\ g - x \in Nat /\ v + h.cost = bp + p
  BY <1>1, <1>2, <1>3, <1>4, <1>7
<1>9. cash' \in Nat
  BY <1>1, <1>7, <1>8
<1>10. realized' = realized + g - v - h.cost - x
  BY <1>3, <1>7
<1>11. cash' = k + realized' /\ realized' \in Int
  BY <1>1, <1>5, <1>7, <1>8, <1>10
<1>. QED
  BY <1>1, <1>2, <1>3, <1>7, <1>8, <1>9, <1>11

LEMMA RunKept ==
  ASSUME B!RunTypeOK, TradesExplainCash, NEW h \in Holdings,
         B!Paid(h) \in Nat, B!Paid(h) <= cash, Basis(h) = Basis(position) + B!Paid(h),
         B!Keep(h)
  PROVE  /\ cash' = cash - B!Paid(h) /\ cash' \in Nat /\ position' = h
         /\ realized' = realized /\ realized' \in Int
         /\ cash' = 100 * Capital + realized' - 100 * h.qty * h.price - h.cost
<1>1. cash' = cash - B!Paid(h) /\ position' = h /\ realized' = realized
  BY DEF B!Keep
<1>2. cash \in Nat /\ realized \in Int /\ position \in Holdings
  BY DEF B!RunTypeOK, Holdings
<1>3. /\ 100 * h.qty * h.price \in Nat /\ h.cost \in Nat /\ 100 * Capital \in Nat
      /\ 100 * position.qty * position.price \in Nat /\ position.cost \in Nat
      /\ Basis(position) = 100 * position.qty * position.price + position.cost
      /\ Basis(h) = 100 * h.qty * h.price + h.cost
      /\ cash = 100 * Capital + realized - 100 * position.qty * position.price - position.cost
  BY <1>2, HoldingTypes, AccountAssumption DEF TradesExplainCash, Basis
<1>4. PICK v \in Nat, w \in Nat, k \in Nat, p \in Nat :
        /\ v = 100 * h.qty * h.price /\ w = 100 * position.qty * position.price
        /\ k = 100 * Capital /\ p = B!Paid(h)
  BY <1>3
<1>5. cash' = cash - p /\ p <= cash /\ v + h.cost = w + position.cost + p /\ cash = k + realized - w - position.cost
  BY <1>1, <1>3, <1>4
<1>6. cash' \in Nat /\ cash' = k + realized' - v - h.cost
  BY <1>1, <1>2, <1>3, <1>4, <1>5
<1>. QED
  BY <1>1, <1>2, <1>4, <1>6

\* One iteration: which exit, at which price.
RunMove(h, b, trend) ==
  \/ /\ B!StopOf(h, b) /\ B!Close(h, StopFill(b, h.stop))
  \/ /\ B!TargetOf(h, b) /\ B!Close(h, TargetFill(b, h.target))
  \/ /\ ~B!StopOf(h, b) /\ ~B!TargetOf(h, b)
     /\ position # B!NoPosition /\ bars > 0 /\ trend = "down"
     /\ B!Close(h, SellPrice(100 * b.open))
  \/ /\ ~B!StopOf(h, b) /\ ~B!TargetOf(h, b)
     /\ ~(position # B!NoPosition /\ bars > 0 /\ trend = "down")
     /\ B!Keep(h)

LEMMA RunStep ==
  ASSUME NEW d, NEW b, NEW trend, B!Process(d, b, trend)
  PROVE  \E m, h : /\ m = Marked(engine, cash + B!Value(position, b.open), d)
                   /\ h = B!Opened(b, m, trend)
                   /\ engine' = m /\ bars' = bars + 1
                   /\ equity' = cash' + B!Value(position', b.close)
                   /\ RunMove(h, b, trend)
<1>1. /\ B!Marked(engine, cash + B!Value(position, b.open), d)
           = Marked(engine, cash + B!Value(position, b.open), d)
  BY SameEngine
<1>2. PICK m : m = Marked(engine, cash + B!Value(position, b.open), d)
  OBVIOUS
<1>3. PICK h : h = B!Opened(b, m, trend)
  OBVIOUS
<1>4. /\ B!StopFill(b, h.stop) = StopFill(b, h.stop)
      /\ B!TargetFill(b, h.target) = TargetFill(b, h.target)
      /\ B!SellPrice(100 * b.open) = SellPrice(100 * b.open)
  BY SameLevels
<1>5. /\ engine' = m /\ bars' = bars + 1 /\ equity' = cash' + B!Value(position', b.close)
  BY <1>1, <1>2 DEF B!Process
<1>6. \/ B!StopOf(h, b) /\ B!Close(h, StopFill(b, h.stop))
      \/ B!TargetOf(h, b) /\ B!Close(h, TargetFill(b, h.target))
      \/ /\ ~B!StopOf(h, b) /\ ~B!TargetOf(h, b)
         /\ IF position # B!NoPosition /\ bars > 0 /\ trend = "down"
            THEN B!Close(h, SellPrice(100 * b.open))
            ELSE B!Keep(h)
  BY <1>1, <1>2, <1>3, <1>4 DEF B!Process
<1>7. RunMove(h, b, trend)
  BY <1>6 DEF RunMove
<1>. QED
  BY <1>2, <1>3, <1>5, <1>7

\* What each exit leaves: sold says at which price.
Sale(h, price) ==
  /\ h \in B!Position /\ price \in Nat \ {0}
  /\ cash' = cash - B!Paid(h) + Proceeds(h.qty, price)
  /\ cash' \in Nat /\ realized' \in Int /\ position' = B!NoPosition
  /\ cash' = 100 * Capital + realized'

RunResult(h, b, trend) ==
  \/ B!StopOf(h, b) /\ Sale(h, StopFill(b, h.stop))
  \/ B!TargetOf(h, b) /\ Sale(h, TargetFill(b, h.target))
  \/ /\ ~B!StopOf(h, b) /\ ~B!TargetOf(h, b)
     /\ position # B!NoPosition /\ bars > 0 /\ trend = "down"
     /\ Sale(h, SellPrice(100 * b.open))
  \/ /\ ~B!StopOf(h, b) /\ ~B!TargetOf(h, b)
     /\ ~(position # B!NoPosition /\ bars > 0 /\ trend = "down")
     /\ cash' = cash - B!Paid(h) /\ cash' \in Nat /\ position' = h /\ realized' \in Int
     /\ cash' = 100 * Capital + realized' - 100 * h.qty * h.price - h.cost

LEMMA RunMoved ==
  ASSUME B!RunTypeOK, TradesExplainCash, NEW b \in Bars, NEW m, NEW trend,
         NEW h, h = B!Opened(b, m, trend), RunMove(h, b, trend)
  PROVE  RunResult(h, b, trend)
<1>1. /\ h \in Holdings /\ B!Paid(h) \in Nat /\ B!Paid(h) <= cash
      /\ Basis(h) = Basis(position) + B!Paid(h)
  BY RunOpened
<1>2. h.qty \in Nat /\ h.stop \in Nat /\ h.target \in Nat /\ (h.qty > 0 => h \in B!Position)
  <2>1. h = B!NoPosition => ~(h.qty > 0)
    BY <1>1, HoldingTypes
  <2>. QED
    BY <1>1, <2>1, HoldingTypes DEF Holdings
<1>3. /\ B!StopOf(h, b) => h.qty > 0 /\ StopFill(b, h.stop) \in Nat \ {0}
      /\ TargetFill(b, h.target) \in Nat \ {0} /\ SellPrice(100 * b.open) \in Nat \ {0}
      /\ B!TargetOf(h, b) => h.qty > 0
  <2>1. B!Crossed(b, h.stop) <=> Crossed(b, h.stop)
    BY SameLevels
  <2>. QED
    BY <1>2, <2>1, FillTypes DEF B!StopOf, B!TargetOf
<1>4. ASSUME NEW price \in Nat \ {0}, h \in B!Position, B!Close(h, price) PROVE Sale(h, price)
  BY <1>1, <1>4, RunClosed DEF Sale
<1>5. CASE B!StopOf(h, b) /\ B!Close(h, StopFill(b, h.stop))
  <2>1. Sale(h, StopFill(b, h.stop))
    BY <1>2, <1>3, <1>4, <1>5
  <2>. QED
    BY <1>5, <2>1 DEF RunResult
<1>6. CASE B!TargetOf(h, b) /\ B!Close(h, TargetFill(b, h.target))
  <2>1. Sale(h, TargetFill(b, h.target))
    BY <1>2, <1>3, <1>4, <1>6
  <2>. QED
    BY <1>6, <2>1 DEF RunResult
<1>7. CASE /\ ~B!StopOf(h, b) /\ ~B!TargetOf(h, b)
           /\ position # B!NoPosition /\ bars > 0 /\ trend = "down"
           /\ B!Close(h, SellPrice(100 * b.open))
  <2>1. h \in B!Position
    BY <1>7 DEF B!Opened, B!RunTypeOK
  <2>2. Sale(h, SellPrice(100 * b.open))
    BY <1>3, <1>4, <1>7, <2>1
  <2>. QED
    BY <1>7, <2>2 DEF RunResult
<1>8. CASE /\ ~B!StopOf(h, b) /\ ~B!TargetOf(h, b)
           /\ ~(position # B!NoPosition /\ bars > 0 /\ trend = "down")
           /\ B!Keep(h)
  <2>1. /\ cash' = cash - B!Paid(h) /\ cash' \in Nat /\ position' = h /\ realized' \in Int
        /\ cash' = 100 * Capital + realized' - 100 * h.qty * h.price - h.cost
    BY <1>1, <1>8, RunKept
  <2>. QED
    BY <1>8, <2>1 DEF RunResult
<1>. QED
  BY <1>5, <1>6, <1>7, <1>8 DEF RunMove

\* The books after an iteration.
LEMMA RunBooks ==
  ASSUME NEW b \in Bars, NEW trend, NEW h \in Holdings, RunResult(h, b, trend)
  PROVE  /\ cash' \in Nat /\ realized' \in Int /\ position' \in Holdings
         /\ cash' = 100 * Capital + realized' - 100 * position'.qty * position'.price - position'.cost
<1>1. CASE \E price : Sale(h, price)
  <2>1. /\ position' = B!NoPosition /\ cash' \in Nat /\ realized' \in Int
        /\ cash' = 100 * Capital + realized'
    BY <1>1 DEF Sale
  <2>2. 100 * position'.qty * position'.price = 0 /\ position'.cost = 0
    BY <2>1 DEF B!NoPosition
  <2>3. 100 * Capital \in Nat
    BY AccountAssumption
  <2>. QED
    BY <2>1, <2>2, <2>3 DEF Holdings
<1>2. CASE ~\E price : Sale(h, price)
  BY <1>2 DEF RunResult
<1>. QED
  BY <1>1, <1>2

LEMMA RunFed ==
  ASSUME RunInv, SessionTypeOK, NEW d \in Days, NEW b \in Bars, NEW trend,
         d > day, day' = d, ~ended, ended' = ended, B!Process(d, b, trend)
  PROVE  RunInv'
<1>1. PICK m, h : /\ m = Marked(engine, cash + B!Value(position, b.open), d)
                  /\ h = B!Opened(b, m, trend)
                  /\ engine' = m /\ bars' = bars + 1
                  /\ equity' = cash' + B!Value(position', b.close)
                  /\ RunMove(h, b, trend)
  BY RunStep
<1>2. h \in Holdings /\ RunResult(h, b, trend)
  BY <1>1, RunOpened, RunMoved DEF RunInv
<1>3. /\ cash' \in Nat /\ realized' \in Int /\ position' \in Holdings
      /\ cash' = 100 * Capital + realized' - 100 * position'.qty * position'.price - position'.cost
  BY <1>2, RunBooks
<1>4. engine' \in Risk
  <2>1. cash \in Nat /\ position.qty \in Nat /\ b.open \in Nat /\ engine \in Risk
    <3>1. position \in Holdings
      BY DEF RunInv, B!RunTypeOK, Holdings
    <3>2. engine \in Risk
      <4>1. B!Risk = Risk
        BY SameEngine
      <4>. QED
        BY <4>1 DEF RunInv, B!RunTypeOK
    <3>. QED
      BY <3>1, <3>2, HoldingTypes, BarTypes DEF RunInv, B!RunTypeOK
  <2>2. 100 * position.qty * b.open \in Nat
    BY <2>1
  <2>3. cash + B!Value(position, b.open) \in Int /\ d \in Nat \ {0}
    BY <2>1, <2>2, FeedAssumption DEF B!Value, Days
  <2>. QED
    BY <1>1, <2>1, <2>3, MarkedRecord
<1>5. equity' \in Nat
  <2>1. position'.qty \in Nat /\ b.close \in Nat
    BY <1>3, HoldingTypes, BarTypes
  <2>2. 100 * position'.qty * b.close \in Nat
    BY <2>1
  <2>. QED
    BY <1>1, <1>3, <2>2 DEF B!Value
<1>6. bars' \in Nat /\ (bars' > 0 <=> day' # 0)
  BY <1>1, FeedAssumption DEF RunInv, B!RunTypeOK, Days
<1>7. B!RunTypeOK'
  <2>1. B!Risk = Risk
    BY SameEngine
  <2>. QED
    BY <1>3, <1>4, <1>5, <1>6, <2>1 DEF B!RunTypeOK, Holdings
<1>8. TradesExplainCash'
  BY <1>3 DEF TradesExplainCash
<1>. QED
  BY <1>6, <1>7, <1>8 DEF RunInv

LEMMA RunEnded ==
  ASSUME RunInv, SessionTypeOK, day' = day, ~ended, B!Liquidate(bar)
  PROVE  RunInv'
<1>1. /\ equity' = cash' /\ engine' = engine /\ bars' = bars
  BY DEF B!Liquidate
<1>2. bar \in Bars /\ bar.close \in Nat
  BY BarTypes DEF SessionTypeOK
<1>3. cash \in Nat /\ position \in Holdings /\ B!RunTypeOK /\ TradesExplainCash
  BY DEF RunInv, B!RunTypeOK, Holdings
<1>4. position # B!NoPosition => B!Paid(position) = 0
  BY DEF B!Paid
<1>5. position = B!NoPosition => B!Paid(position) = 0
  <2>1. ASSUME position = B!NoPosition PROVE B!Value(position, position.price) + position.cost = 0
    BY <2>1 DEF B!Value, B!NoPosition
  <2>. QED
    BY <2>1 DEF B!Paid
<1>6. B!Paid(position) \in Nat /\ B!Paid(position) <= cash /\ Basis(position) = Basis(position) + B!Paid(position)
  BY <1>3, <1>4, <1>5, HoldingTypes
<1>7. /\ cash' \in Nat /\ realized' \in Int /\ position' = B!NoPosition
      /\ cash' = 100 * Capital + realized'
  <2>1. CASE position # B!NoPosition
    <3>1. B!Close(position, SellPrice(100 * bar.close))
      <4>1. B!SellPrice(100 * bar.close) = SellPrice(100 * bar.close)
        BY SameLevels
      <4>. QED
        BY <2>1, <4>1 DEF B!Liquidate
    <3>2. SellPrice(100 * bar.close) \in Nat \ {0} /\ position \in B!Position
      <4>1. SellPrice(100 * bar.close) \in Nat \ {0}
        <5>1. 0 \in Nat
          OBVIOUS
        <5>. QED
          BY <1>2, <5>1, FillTypes
      <4>. QED
        BY <1>3, <2>1, <4>1 DEF Holdings
    <3>. QED
      BY <1>3, <1>6, <3>1, <3>2, RunClosed
  <2>2. CASE position = B!NoPosition
    <3>1. B!Keep(position)
      BY <2>2 DEF B!Liquidate
    <3>2. /\ cash' \in Nat /\ position' = position /\ realized' \in Int
          /\ cash' = 100 * Capital + realized' - 100 * position.qty * position.price - position.cost
      BY <1>3, <1>6, <3>1, RunKept
    <3>3. 100 * position.qty * position.price = 0 /\ position.cost = 0 /\ 100 * Capital \in Nat
      BY <2>2, AccountAssumption DEF B!NoPosition
    <3>. QED
      BY <2>2, <3>2, <3>3
  <2>. QED
    BY <2>1, <2>2
<1>8. B!RunTypeOK'
  BY <1>1, <1>3, <1>7 DEF B!RunTypeOK
<1>9. TradesExplainCash'
  <2>1. /\ 100 * position'.qty * position'.price = 0 /\ position'.cost = 0 /\ 100 * Capital \in Nat
    BY <1>7, AccountAssumption DEF B!NoPosition
  <2>. QED
    BY <1>1, <1>7, <2>1 DEF TradesExplainCash
<1>. QED
  BY <1>1, <1>8, <1>9 DEF RunInv

-----------------------------------------------------------------------------
(* A bar of the session *)

SessionResult(d, b, trend) ==
  \/ StopHit(b) /\ Closed(StopFill(b, stop))
  \/ ~StopHit(b) /\ TargetHit(b) /\ Closed(TargetFill(b, target))
  \/ /\ Asked(b) /\ trend = "down" /\ Held > 0
     /\ Closed(SellPrice(100 * b.open))
  \/ Asked(b) /\ trend = "up" /\ Held = 0 /\ ~Suppressed(d) /\ Entered(b)
  \/ Asked(b) /\ trend = "up" /\ Held = 0 /\ Suppressed(d) /\ UNCHANGED <<account, stop, target>>
  \/ /\ ~StopHit(b) /\ ~TargetHit(b)
     /\ \/ day = 0
        \/ trend = "none"
        \/ trend = "up" /\ Held > 0
        \/ trend = "down" /\ Held = 0
     /\ UNCHANGED <<account, stop, target>>

LEMMA SessionStep ==
  ASSUME SessionInv, NEW d \in Days, NEW b \in Bars, NEW trend, OnBar(d, b, trend)
  PROVE  SessionInv' /\ SessionResult(d, b, trend)
<1>1. /\ Arrive(d, b) /\ d > day /\ day' = d /\ account \in Account
      /\ stop \in Nat /\ target \in Nat
  BY DEF OnBar, ExitOnLevel, EnterOnSignal, ExitOnSignal, NoSignal, Arrive, SessionInv, SessionTypeOK
<1>2. /\ risk' \in Risk /\ bar' = b /\ stale' = FALSE /\ day' \in 0 .. MaxDays
  BY <1>1, ArriveTypes
<1>3. SUFFICES /\ account' \in Account /\ stop' \in Nat /\ target' \in Nat
               /\ Dated(account, day)' /\ LevelsFollowPosition' /\ SessionResult(d, b, trend)
  BY <1>2 DEF SessionInv, SessionTypeOK
<1>4. "buy" \in Kinds /\ "sell" \in Kinds /\ "stoploss" \in Kinds /\ "target" \in Kinds
  BY DEF Kinds
<1>5. /\ StopHit(b) => Held > 0 /\ StopFill(b, stop) \in Nat \ {0}
      /\ TargetHit(b) => Held > 0
      /\ TargetFill(b, target) \in Nat \ {0} /\ SellPrice(100 * b.open) \in Nat \ {0}
  BY <1>1, FillTypes DEF StopHit, TargetHit
<1>6. ASSUME NEW kind \in Kinds, kind # "buy", NEW price \in Nat \ {0}, Held > 0,
             SellAll(d, b, kind, price), ClearLevels
      PROVE  /\ account' \in Account /\ Closed(price) /\ Dated(account, day)' /\ LevelsFollowPosition'
             /\ stop' \in Nat /\ target' \in Nat
  <2>1. account' \in Account /\ Closed(price) /\ Dated(account, day)' /\ LevelsFollowPosition'
    BY <1>1, <1>6, Sold
  <2>. QED
    BY <2>1 DEF Closed, None
<1>7. CASE StopHit(b) /\ SellAll(d, b, "stoploss", StopFill(b, stop)) /\ ClearLevels
  BY <1>4, <1>5, <1>6, <1>7 DEF SessionResult
<1>8. CASE ~StopHit(b) /\ TargetHit(b) /\ SellAll(d, b, "target", TargetFill(b, target)) /\ ClearLevels
  BY <1>4, <1>5, <1>6, <1>8 DEF SessionResult
<1>9. CASE ExitOnSignal(d, b, trend)
  BY <1>4, <1>5, <1>6, <1>9 DEF SessionResult, ExitOnSignal
<1>10. ASSUME UNCHANGED <<account, stop, target>>
       PROVE  /\ account' \in Account /\ stop' \in Nat /\ target' \in Nat
              /\ Dated(account, day)' /\ LevelsFollowPosition'
  BY <1>1, <1>10, Carried
<1>11. CASE NoSignal(d, b, trend)
  BY <1>10, <1>11 DEF NoSignal, SessionResult
<1>12. CASE EnterOnSignal(d, b, trend) /\ Suppressed(d)
  <2>1. Asked(b) /\ trend = "up" /\ Held = 0 /\ UNCHANGED <<account, stop, target>>
    BY <1>12 DEF EnterOnSignal
  <2>. QED
    BY <1>10, <1>12, <2>1 DEF SessionResult
<1>13. CASE EnterOnSignal(d, b, trend) /\ ~Suppressed(d)
  <2>1. /\ Asked(b) /\ trend = "up" /\ Held = 0
        /\ account' = SubmitBuy(account, risk', <<d, "buy">>, Instrument, EquityAt(b),
                                BuyPrice(b), Sized(account.cash, BuyPrice(b), StopPct))
        /\ IF Submitted(account, account', <<d, "buy">>)
           THEN stop' = DefaultStop(BuyPrice(b)) /\ target' = DefaultTarget(BuyPrice(b))
           ELSE UNCHANGED <<stop, target>>
    BY <1>13 DEF EnterOnSignal
  <2>2. account' \in Account /\ Entered(b) /\ Dated(account, day)' /\ LevelsFollowPosition'
    BY <1>1, <2>1, Bought
  <2>3. stop' \in Nat /\ target' \in Nat
    <3>1. DefaultStop(BuyPrice(b)) \in Nat /\ DefaultTarget(BuyPrice(b)) \in Nat
      BY BuyPriceType, DefaultTypes
    <3>. QED
      BY <1>1, <2>1, <3>1
  <2>. QED
    BY <1>13, <2>1, <2>2, <2>3 DEF SessionResult
<1>14. \/ StopHit(b) /\ SellAll(d, b, "stoploss", StopFill(b, stop)) /\ ClearLevels
       \/ ~StopHit(b) /\ TargetHit(b) /\ SellAll(d, b, "target", TargetFill(b, target)) /\ ClearLevels
       \/ ExitOnSignal(d, b, trend)
       \/ NoSignal(d, b, trend)
       \/ EnterOnSignal(d, b, trend)
  BY DEF OnBar, ExitOnLevel
<1>. QED
  BY <1>7, <1>8, <1>9, <1>11, <1>12, <1>13, <1>14

-----------------------------------------------------------------------------
(* The session beside the backtest *)

Same ==
  /\ account.cash = cash
  /\ Held = position.qty
  /\ stop = position.stop /\ target = position.target
  /\ risk = engine

\* With a position carried, the same level or signal closes both.
LEMMA FollowCarried ==
  ASSUME SessionInv, RunInv, Same, Held > 0, NEW d, NEW b, NEW trend, NEW h,
         NEW m, h = B!Opened(b, m, trend),
         SessionResult(d, b, trend), RunResult(h, b, trend), risk' = engine'
  PROVE  Same'
<1>1. h = position /\ position # B!NoPosition /\ B!Paid(h) = 0
  <2>1. position # B!NoPosition
    BY DEF Same, B!NoPosition
  <2>. QED
    BY <2>1 DEF B!Opened, B!Paid
<1>2. /\ B!StopOf(h, b) <=> StopHit(b)
      /\ B!TargetOf(h, b) <=> ~StopHit(b) /\ TargetHit(b)
  <2>1. stop # None /\ target # None
    BY LevelsAreSet DEF None
  <2>2. /\ B!Crossed(b, h.stop) <=> Crossed(b, h.stop)
        /\ B!Reached(b, h.target) <=> Reached(b, h.target)
    BY SameLevels
  <2>3. h.qty = Held /\ h.stop = stop /\ h.target = target
    BY <1>1 DEF Same
  <2>4. B!StopOf(h, b) <=> StopHit(b)
    BY <2>1, <2>2, <2>3 DEF StopHit, B!StopOf
  <2>5. B!TargetOf(h, b) <=> ~B!StopOf(h, b) /\ TargetHit(b)
    BY <2>1, <2>2, <2>3 DEF TargetHit, B!TargetOf
  <2>. QED
    BY <2>4, <2>5
<1>3. h.qty = Held /\ h.stop = stop /\ h.target = target /\ account.cash = cash /\ cash \in Nat
  BY <1>1 DEF Same, RunInv, B!RunTypeOK
<1>4. bars > 0 <=> day # 0
  BY DEF RunInv
<1>5. ASSUME NEW price, Closed(price), Sale(h, price) PROVE Same'
  <2>1. Held' = 0 /\ stop' = 0 /\ target' = 0 /\ account'.cash = account.cash + Proceeds(Held, price)
    BY <1>5 DEF Closed, None
  <2>2. position'.qty = 0 /\ position'.stop = 0 /\ position'.target = 0
    BY <1>5 DEF Sale, B!NoPosition, B!None
  <2>3. cash' = account.cash + Proceeds(Held, price)
    BY <1>1, <1>3, <1>5 DEF Sale
  <2>. QED
    BY <2>1, <2>2, <2>3 DEF Same
<1>6. CASE StopHit(b)
  <2>1. Closed(StopFill(b, stop)) /\ Sale(h, StopFill(b, stop))
    BY <1>2, <1>3, <1>6 DEF SessionResult, RunResult, Asked
  <2>. QED
    BY <1>5, <2>1
<1>7. CASE ~StopHit(b) /\ TargetHit(b)
  <2>1. Closed(TargetFill(b, target)) /\ Sale(h, TargetFill(b, target))
    BY <1>2, <1>3, <1>7 DEF SessionResult, RunResult, Asked
  <2>. QED
    BY <1>5, <2>1
<1>8. CASE ~StopHit(b) /\ ~TargetHit(b) /\ day # 0 /\ trend = "down"
  <2>1. Closed(SellPrice(100 * b.open)) /\ Sale(h, SellPrice(100 * b.open))
    BY <1>1, <1>2, <1>4, <1>8 DEF SessionResult, RunResult, Asked
  <2>. QED
    BY <1>5, <2>1
<1>9. CASE ~StopHit(b) /\ ~TargetHit(b) /\ ~(day # 0 /\ trend = "down")
  <2>1. UNCHANGED <<account, stop, target>>
    <3>1. ~(Held = 0)
      OBVIOUS
    <3>. QED
      BY <1>9, <3>1 DEF SessionResult, Asked
  <2>2. cash' = cash - B!Paid(h) /\ position' = h
    BY <1>2, <1>4, <1>9 DEF RunResult
  <2>3. cash' = cash /\ position' = position
    BY <1>1, <1>3, <2>2
  <2>. QED
    BY <2>1, <2>3 DEF Same, Held
<1>. QED
  BY <1>6, <1>7, <1>8, <1>9

\* With none, the same signal opens both, unless the bar parts them.
LEMMA FollowFlat ==
  ASSUME SessionInv, RunInv, Same, Held = 0, NEW d, NEW b \in Bars, NEW trend \in Trends, NEW h,
         NEW m, h = B!Opened(b, m, trend), m = risk', ~Parts(d, b, trend),
         SessionResult(d, b, trend), RunResult(h, b, trend), risk' = engine'
  PROVE  Same'
<1>1. /\ position = B!NoPosition /\ position.qty = 0 /\ cash \in Nat /\ account.cash = cash
      /\ B!RunTypeOK /\ stop = 0 /\ target = 0
  <2>1. position \in Holdings /\ position.qty = 0 /\ cash \in Nat /\ account.cash = cash
    BY DEF Same, RunInv, B!RunTypeOK, Holdings
  <2>. QED
    BY <2>1, HoldingTypes DEF SessionInv, LevelsFollowPosition, None, RunInv
<1>2. ~StopHit(b) /\ ~TargetHit(b)
  BY DEF StopHit, TargetHit
<1>3. bars > 0 <=> day # 0
  BY DEF RunInv
<1>4. ASSUME h = B!NoPosition, UNCHANGED <<account, stop, target>> PROVE Same'
  <2>1. ~B!StopOf(h, b) /\ ~B!TargetOf(h, b)
    BY <1>4 DEF B!StopOf, B!TargetOf, B!NoPosition
  <2>2. cash' = cash - B!Paid(h) /\ position' = h
    BY <1>1, <2>1 DEF RunResult
  <2>3. B!Paid(h) = 0
    <3>1. B!Value(h, h.price) + h.cost = 0
      BY <1>4 DEF B!Value, B!NoPosition
    <3>. QED
      BY <1>1, <3>1 DEF B!Paid
  <2>4. cash' = cash /\ position' = position
    BY <1>1, <1>4, <2>2, <2>3
  <2>. QED
    BY <1>4, <2>4 DEF Same, Held
<1>5. CASE day # 0 /\ trend = "up"
  <2>1. Entered(b)
    BY <1>2, <1>5 DEF SessionResult, Parts
  <2>2. h = B!Bought(b, m)
    BY <1>1, <1>3, <1>5 DEF B!Opened
  <2> DEFINE price == BuyPrice(b)
             qty == Sized(cash, price, StopPct)
  <2>3. /\ h \in Holdings /\ Basis(h) <= cash
        /\ Approved(m, cash, 0) /\ qty > 0 =>
                 /\ h.qty = qty /\ Basis(h) = Cost(qty, price)
                 /\ h.stop = DefaultStop(price) /\ h.target = DefaultTarget(price)
        /\ ~(Approved(m, cash, 0) /\ qty > 0) => h = B!NoPosition
    BY <1>1, <2>2, RunBought
  <2>4. /\ Approved(m, cash, 0) /\ qty > 0 =>
             /\ Held' = qty /\ account'.cash = cash - Cost(qty, price)
             /\ stop' = DefaultStop(price) /\ target' = DefaultTarget(price)
        /\ ~(Approved(m, cash, 0) /\ qty > 0) => UNCHANGED <<account, stop, target>>
    BY <1>1, <2>1 DEF Entered
  <2>5. ~Crossed(b, DefaultStop(price)) /\ ~Reached(b, DefaultTarget(price))
    BY <1>5 DEF Parts
  <2> HIDE DEF price, qty
  <2>6. CASE Approved(m, cash, 0) /\ qty > 0
    <3>1. ~B!StopOf(h, b) /\ ~B!TargetOf(h, b)
      <4>1. /\ B!Crossed(b, h.stop) <=> Crossed(b, h.stop)
            /\ B!Reached(b, h.target) <=> Reached(b, h.target)
        BY SameLevels
      <4>. QED
        BY <2>3, <2>5, <2>6, <4>1 DEF B!StopOf, B!TargetOf
    <3>2. cash' = cash - B!Paid(h) /\ position' = h
      BY <1>1, <3>1 DEF RunResult
    <3>3. B!Paid(h) = Cost(qty, price)
      BY <1>1, <2>3, <2>6 DEF B!Paid, B!Value, Basis
    <3>. QED
      BY <2>3, <2>4, <2>6, <3>2, <3>3 DEF Same
  <2>7. CASE ~(Approved(m, cash, 0) /\ qty > 0)
    BY <1>4, <2>3, <2>4, <2>7
  <2>. QED
    BY <2>6, <2>7
<1>6. CASE ~(day # 0 /\ trend = "up")
  <2>1. h = B!NoPosition
    BY <1>1, <1>3, <1>6 DEF B!Opened
  <2>2. UNCHANGED <<account, stop, target>>
    BY <1>2, <1>6 DEF SessionResult, Asked
  <2>. QED
    BY <1>4, <2>1, <2>2
<1>. QED
  BY <1>5, <1>6

-----------------------------------------------------------------------------
(* The inductive invariant *)

Inv ==
  /\ SessionInv
  /\ RunInv
  /\ SessionFollowsBacktest
  /\ {ended, parted} \subseteq BOOLEAN

LEMMA InvInit == Init => Inv
<1> SUFFICES ASSUME Init PROVE Inv
  OBVIOUS
<1>1. /\ account = NewAccount /\ risk = NewRisk /\ stop = 0 /\ target = 0 /\ stale = FALSE
      /\ day = 0 /\ bar \in Bars /\ ended = FALSE /\ parted = FALSE
      /\ cash = 100 * Capital /\ position = B!NoPosition /\ engine = NewRisk /\ bars = 0
      /\ realized = 0 /\ equity = 100 * Capital
  BY SameEngine DEF Init, SessionInit, B!RunInit, None
<1>2. account \in Account /\ account.cash = 100 * Capital /\ Held = 0
      /\ \A e \in Days, k \in Kinds : ~Known(account, <<e, k>>)
  <2>1. 100 * Capital \in Nat
    BY AccountAssumption
  <2>. QED
    BY <1>1, <2>1, IdsOfOne DEF NewAccount, Account, Held, Known
<1>3. risk \in Risk /\ engine \in B!Risk
  BY <1>1, SameEngine DEF NewRisk, Risk
<1>4. SessionInv
  <2>1. day \in 0 .. MaxDays
    BY <1>1, FeedAssumption
  <2>2. SessionTypeOK
    BY <1>1, <1>2, <1>3, <2>1 DEF SessionTypeOK
  <2>3. Dated(account, day) /\ LevelsFollowPosition
    BY <1>1, <1>2 DEF Dated, LevelsFollowPosition, None
  <2>. QED
    BY <2>2, <2>3 DEF SessionInv
<1>5. RunInv
  <2>1. 100 * Capital \in Nat
    BY AccountAssumption
  <2>2. B!RunTypeOK
    BY <1>1, <1>3, <2>1 DEF B!RunTypeOK
  <2>3. 100 * position.qty * position.price = 0 /\ position.cost = 0
    BY <1>1 DEF B!NoPosition
  <2>4. TradesExplainCash
    BY <1>1, <2>1, <2>3 DEF TradesExplainCash
  <2>. QED
    BY <1>1, <2>2, <2>4 DEF RunInv
<1>6. SessionFollowsBacktest
  BY <1>1, <1>2 DEF SessionFollowsBacktest, B!NoPosition, B!None
<1>. QED
  BY <1>1, <1>4, <1>5, <1>6 DEF Inv

LEMMA InvFeed ==
  ASSUME Inv, NEW d \in Days, NEW b \in Bars, NEW trend \in Trends, Feed(d, b, trend)
  PROVE  Inv'
<1>1. /\ ~ended /\ ended' = ended /\ OnBar(d, b, trend) /\ B!Process(d, b, trend)
      /\ parted' = (parted \/ Parts(d, b, trend))
  BY DEF Feed
<1>2. SessionInv' /\ SessionResult(d, b, trend)
  BY <1>1, SessionStep DEF Inv
<1>3. Arrive(d, b) /\ d > day /\ day' = d
  BY <1>1 DEF OnBar, ExitOnLevel, EnterOnSignal, ExitOnSignal, NoSignal, Arrive
<1>4. RunInv'
  <2>1. RunInv /\ SessionTypeOK
    BY DEF Inv, SessionInv
  <2>. QED
    BY <1>1, <1>3, <2>1, RunFed
<1>5. SessionFollowsBacktest'
  <2> SUFFICES ASSUME ~parted', ~ended' PROVE Same'
    BY DEF SessionFollowsBacktest, Same
  <2>1. ~Parts(d, b, trend) /\ Same
    BY <1>1 DEF Inv, SessionFollowsBacktest, Same
  <2>2. PICK m, h : /\ m = Marked(engine, cash + B!Value(position, b.open), d)
                    /\ h = B!Opened(b, m, trend)
                    /\ engine' = m
                    /\ RunMove(h, b, trend)
    BY <1>1, RunStep
  <2>3. RunResult(h, b, trend)
    BY <2>2, RunMoved DEF Inv, RunInv
  <2>4. risk' = m
    <3>1. EquityAt(b) = cash + B!Value(position, b.open)
      BY <2>1 DEF Same, EquityAt, B!Value
    <3>2. risk' = Marked(risk, EquityAt(b), d) /\ risk = engine
      BY <1>3, <2>1 DEF Arrive, Same
    <3>. QED
      BY <2>2, <3>1, <3>2
  <2>5. CASE Held > 0
    BY <1>2, <2>1, <2>2, <2>3, <2>4, <2>5, FollowCarried DEF Inv
  <2>6. CASE Held = 0
    BY <1>2, <2>1, <2>2, <2>3, <2>4, <2>6, FollowFlat DEF Inv
  <2>7. Held \in Nat
    BY HeldType DEF Inv, SessionInv, SessionTypeOK, Held
  <2>. QED
    BY <2>5, <2>6, <2>7
<1>6. {ended, parted}' \subseteq BOOLEAN
  <2>1. ended \in BOOLEAN /\ parted \in BOOLEAN
    BY DEF Inv
  <2>2. parted' \in BOOLEAN
    BY <1>1, <2>1, Zenon DEF Parts
  <2>. QED
    BY <1>1, <2>1, <2>2
<1>. QED
  BY <1>2, <1>4, <1>5, <1>6 DEF Inv

LEMMA InvStale == ASSUME Inv, Stale PROVE Inv'
<1>1. /\ UNCHANGED <<account, risk, stop, target, day, bar, backtest, ended, parted>> /\ stale' = TRUE
  BY DEF Stale, MarkStale
<1>2. SessionInv'
  BY <1>1 DEF Inv, SessionInv, SessionTypeOK, Dated, Known, LevelsFollowPosition, Held
<1>3. RunInv'
  BY <1>1 DEF Inv, RunInv, B!RunTypeOK, TradesExplainCash, backtest
<1>4. SessionFollowsBacktest'
  BY <1>1 DEF Inv, SessionFollowsBacktest, Held, backtest
<1>. QED
  BY <1>1, <1>2, <1>3, <1>4 DEF Inv

LEMMA InvEnd == ASSUME Inv, End PROVE Inv'
<1>1. ~ended /\ UNCHANGED session /\ UNCHANGED parted /\ B!Liquidate(bar) /\ ended' = TRUE
  BY DEF End
<1>2. SessionInv'
  BY <1>1 DEF Inv, SessionInv, SessionTypeOK, Dated, Known, LevelsFollowPosition, Held, session
<1>3. RunInv'
  <2>1. RunInv /\ SessionTypeOK /\ day' = day
    BY <1>1 DEF Inv, SessionInv, session
  <2>. QED
    BY <1>1, <2>1, RunEnded
<1>4. SessionFollowsBacktest'
  BY <1>1 DEF SessionFollowsBacktest
<1>. QED
  BY <1>1, <1>2, <1>3, <1>4 DEF Inv

LEMMA InvNext == Inv /\ [Next]_vars => Inv'
<1> SUFFICES ASSUME Inv, [Next]_vars PROVE Inv'
  OBVIOUS
<1>1. CASE UNCHANGED vars
  <2>1. UNCHANGED <<account, risk, stop, target, stale, day, bar, cash, position, engine, bars,
                    realized, equity, ended, parted>>
    BY <1>1 DEF vars, session, backtest
  <2>2. SessionInv'
    BY <2>1 DEF Inv, SessionInv, SessionTypeOK, Dated, Known, LevelsFollowPosition, Held
  <2>3. RunInv'
    BY <2>1 DEF Inv, RunInv, B!RunTypeOK, TradesExplainCash
  <2>4. SessionFollowsBacktest'
    BY <2>1 DEF Inv, SessionFollowsBacktest, Held
  <2>. QED
    BY <2>1, <2>2, <2>3, <2>4 DEF Inv
<1>. QED
  BY <1>1, InvFeed, InvStale, InvEnd DEF Next

LEMMA InductiveInvariant == Spec => []Inv
BY InvInit, InvNext, PTL DEF Spec

\* The session's account, levels and record, and the backtest's, keep their types.
THEOREM TypeCorrect == Spec => []TypeOK
<1>1. Inv => TypeOK
  BY DEF Inv, SessionInv, RunInv, TypeOK
<1>. QED
  BY <1>1, InductiveInvariant, PTL

\* Until a bar that parts them, the session has the cash, the position, the
\* levels and the risk record of the backtest.
THEOREM SessionIsTheBacktest == Spec => []SessionFollowsBacktest
<1>1. Inv => SessionFollowsBacktest
  BY DEF Inv
<1>. QED
  BY <1>1, InductiveInvariant, PTL

\* The session's levels are those of its last entry, and are gone with it.
THEOREM LevelsAreThePositions == Spec => []LevelsFollowPosition
<1>1. Inv => LevelsFollowPosition
  BY DEF Inv, SessionInv
<1>. QED
  BY <1>1, InductiveInvariant, PTL

\* The backtest's cash is its capital, its trades and what it holds.
THEOREM CashIsExplained == Spec => []TradesExplainCash
<1>1. Inv => TradesExplainCash
  BY DEF Inv, RunInv
<1>. QED
  BY <1>1, InductiveInvariant, PTL

\* On a stale feed no bar enters, and a crossed level closes the position.
THEOREM StaleFeedOnlyExits == Spec => StaleOnlyExits
<1> DEFINE Exits == (stale \/ day' - day > MaxGap) /\ day # 0 /\ day' # day =>
                      /\ Held' <= Held
                      /\ Held > 0 /\ (100 * bar'.low <= stop \/ 100 * bar'.high >= target) => Held' = 0
<1>1. ASSUME Inv, [Next]_vars PROVE [Exits]_vars
  <2>1. CASE UNCHANGED vars
    BY <2>1
  <2>2. CASE Stale \/ End
    <3>1. day' = day
      BY <2>2 DEF Stale, MarkStale, End, session
    <3>. QED
      BY <3>1
  <2>3. ASSUME NEW d \in Days, NEW b \in Bars, NEW trend \in Trends, Feed(d, b, trend) PROVE Exits
    <3>1. OnBar(d, b, trend) /\ SessionInv
      BY <1>1, <2>3 DEF Feed, Inv
    <3>2. SessionInv' /\ SessionResult(d, b, trend)
      BY <3>1, SessionStep
    <3>3. day' = d /\ bar' = b
      BY <3>1 DEF OnBar, ExitOnLevel, EnterOnSignal, ExitOnSignal, NoSignal, Arrive
    <3>4. Held \in Nat
      BY <3>1, HeldType DEF SessionInv, SessionTypeOK, Held
    <3> SUFFICES ASSUME stale \/ day' - day > MaxGap, day # 0
                 PROVE  /\ Held' <= Held
                        /\ Held > 0 /\ (100 * b.low <= stop \/ 100 * b.high >= target) => Held' = 0
      BY <3>3
    <3>5. Suppressed(d)
      BY <3>3 DEF Suppressed, GapBefore
    <3>6. \/ Held' = 0
          \/ Held' = Held /\ ~StopHit(b) /\ ~TargetHit(b)
      BY <3>2, <3>5 DEF SessionResult, Closed, Asked, Held
    <3>7. Held > 0 => stop # None /\ target # None
      BY <3>1, LevelsAreSet DEF None
    <3>. QED
      BY <3>4, <3>6, <3>7 DEF StopHit, TargetHit, Crossed, Reached
  <2>. QED
    BY <1>1, <2>1, <2>2, <2>3 DEF Next
<1>2. Inv /\ [Next]_vars => [Exits]_vars
  BY <1>1
<1>. QED
  BY <1>2, InductiveInvariant, PTL DEF Spec, StaleOnlyExits
=============================================================================
