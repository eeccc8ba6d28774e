------------------------ MODULE ProposalExecutorProofs ------------------------
(***************************************************************************)
(* Theorems of ProposalExecutor.  What the properties say of the position   *)
(* rests on the books: the orders are dated no later than the bar, all are  *)
(* filled, exits are as many as entries but for the one that is held, and   *)
(* no order is dated after the entry of a held position.  The last makes    *)
(* the case work in which an exit is a repetition: a stop that is hit again *)
(* on its own day sells nothing, but then the position was entered on that  *)
(* day, and was not carried into the bar.                                   *)
(***************************************************************************)
EXTENDS ProposalExecutor, PaperTradingProofs

FilledIn(acc, kinds) ==
  {id \in Days \X kinds : Known(acc, id) /\ acc.orders[id].status = "FILLED"}

Exits == Kinds \ {"buy"}

\* The held position is the entry of day e, and nothing was ordered later.
EnteredOn(acc, e) ==
  /\ Known(acc, <<e, "buy">>)
  /\ acc.held[Instrument] = acc.orders[<<e, "buy">>].qty
  /\ \A f \in Days, k \in Kinds : Known(acc, <<f, k>>) => f <= e

\* The books of an account on day d.
Sound(acc, d) ==
  /\ acc \in Account
  /\ \A e \in Days, k \in Kinds :
       Known(acc, <<e, k>>) => e <= d /\ acc.orders[<<e, k>>].status = "FILLED"
  /\ Cardinality(FilledIn(acc, {"buy"})) =
       Cardinality(FilledIn(acc, Exits)) + (IF acc.held[Instrument] > 0 THEN 1 ELSE 0)
  /\ acc.held[Instrument] > 0 => \E e \in Days : EnteredOn(acc, e)

-----------------------------------------------------------------------------
(* One order *)

LEMMA IdsOfOne ==
  /\ Instrument \in Instruments
  /\ \A e \in Days, k \in Kinds : <<e, k>> \in Ids
  /\ IsFiniteSet(Ids)
<1>1. IsFiniteSet(Days)
  BY FS_Interval, BoundsAssumption DEF Days
<1>2. IsFiniteSet(Kinds)
  <2>1. IsFiniteSet({"buy"} \cup {"sell"} \cup {"stoploss"} \cup {"target"})
    BY FS_Singleton, FS_Union
  <2>2. Kinds = {"buy"} \cup {"sell"} \cup {"stoploss"} \cup {"target"}
    BY DEF Kinds
  <2>. QED
    BY <2>1, <2>2
<1>3. IsFiniteSet(Days \X Kinds)
  BY <1>1, <1>2, FS_Product
<1>. QED
  BY <1>3, AccountOfOneAssumption

LEMMA HeldType ==
  ASSUME NEW acc \in Account
  PROVE  acc.held[Instrument] \in Nat /\ acc.cash \in Nat /\ acc.orders \in [Ids -> Order \cup {NoOrder}]
BY IdsOfOne DEF Account

LEMMA FilledFinite ==
  ASSUME NEW acc, NEW kinds \in SUBSET Kinds
  PROVE  /\ FilledIn(acc, kinds) \subseteq Ids /\ IsFiniteSet(FilledIn(acc, kinds))
         /\ Cardinality(FilledIn(acc, kinds)) \in Nat
<1>1. FilledIn(acc, kinds) \subseteq Ids
  BY AccountOfOneAssumption DEF FilledIn
<1>. QED
  BY <1>1, IdsOfOne, FS_Subset, FS_CardinalityType

\* A new id joins the known ones, and the filled ones of its kind.
Grown(acc, new, d, kind, order) ==
  /\ new.orders[<<d, kind>>] = order /\ Known(new, <<d, kind>>)
  /\ \A e \in Days, k \in Kinds : e # d \/ k # kind =>
       /\ new.orders[<<e, k>>] = acc.orders[<<e, k>>]
       /\ Known(new, <<e, k>>) <=> Known(acc, <<e, k>>)
  /\ \A kinds \in SUBSET Kinds :
       /\ kind \in kinds => Cardinality(FilledIn(new, kinds)) = Cardinality(FilledIn(acc, kinds)) + 1
       /\ kind \notin kinds => FilledIn(new, kinds) = FilledIn(acc, kinds)

LEMMA OneMore ==
  ASSUME NEW acc \in Account, NEW new \in Account, NEW d \in Days, NEW kind \in Kinds,
         NEW order \in Order, ~Known(acc, <<d, kind>>), order.status = "FILLED",
         new.orders = [acc.orders EXCEPT ![<<d, kind>>] = order]
  PROVE  Grown(acc, new, d, kind, order)
<1>1. acc.orders \in [Ids -> Order \cup {NoOrder}] /\ <<d, kind>> \in Ids
  BY HeldType, IdsOfOne
<1>2. order # NoOrder
  BY DEF Order, NoOrder
<1>3. \A x \in Ids : new.orders[x] = IF x = <<d, kind>> THEN order ELSE acc.orders[x]
  BY <1>1
<1>4. new.orders[<<d, kind>>] = order /\ Known(new, <<d, kind>>)
  BY <1>1, <1>2, <1>3 DEF Known
<1>5. ASSUME NEW e \in Days, NEW k \in Kinds, e # d \/ k # kind
      PROVE  /\ new.orders[<<e, k>>] = acc.orders[<<e, k>>]
             /\ Known(new, <<e, k>>) <=> Known(acc, <<e, k>>)
  <2>1. <<e, k>> \in Ids /\ <<e, k>> # <<d, kind>>
    BY <1>5, IdsOfOne
  <2>. QED
    BY <1>3, <2>1 DEF Known
<1>6. ASSUME NEW kinds \in SUBSET Kinds
      PROVE  /\ kind \in kinds => Cardinality(FilledIn(new, kinds)) = Cardinality(FilledIn(acc, kinds)) + 1
             /\ kind \notin kinds => FilledIn(new, kinds) = FilledIn(acc, kinds)
  <2> DEFINE S == FilledIn(acc, kinds)
             T == FilledIn(new, kinds)
             id == <<d, kind>>
  <2>1. Days \X kinds \subseteq Ids
    BY AccountOfOneAssumption
  <2>2. \A x \in Days \X kinds : x # id => (x \in T <=> x \in S)
    BY <1>3, <2>1 DEF FilledIn, Known
  <2>3. id \notin S /\ (id \in T <=> kind \in kinds)
    BY <1>2, <1>4 DEF FilledIn
  <2>4. S \subseteq Days \X kinds /\ T \subseteq Days \X kinds
    BY DEF FilledIn
  <2>5. IsFiniteSet(S)
    BY FilledFinite
  <2> HIDE DEF S, T, id
  <2>6. kind \in kinds => T = S \cup {id}
    BY <2>2, <2>3, <2>4
  <2>7. kind \notin kinds => T = S
    BY <2>2, <2>3, <2>4
  <2>8. Cardinality(S \cup {id}) = Cardinality(S) + 1
    BY <2>3, <2>5, FS_AddElement
  <2>. QED
    BY <2>6, <2>7, <2>8 DEF S, T
<1>. QED
  BY <1>4, <1>5, <1>6 DEF Grown

\* A sale of all that is held, or its repetition.
LEMMA SoldSound ==
  ASSUME NEW acc \in Account, NEW d \in Days, Sound(acc, d), acc.held[Instrument] > 0,
         NEW kind \in Kinds, kind # "buy", NEW price \in Nat \ {0}, NEW r
  PROVE  LET new == SubmitSell(acc, r, <<d, kind>>, Instrument, acc.held[Instrument], price)
         IN /\ Sound(new, d)
            /\ ~Known(acc, <<d, kind>>) => new.held[Instrument] = 0
            /\ Known(acc, <<d, kind>>) => new = acc /\ EnteredOn(acc, d)
<1> DEFINE id == <<d, kind>>
           qty == acc.held[Instrument]
           order == Made("SELL", Instrument, qty, price, "FILLED")
           new == SubmitSell(acc, r, <<d, kind>>, Instrument, acc.held[Instrument], price)
<1>1. /\ kind \in Kinds /\ kind # "buy" /\ id \in Ids /\ Instrument \in Instruments
      /\ qty \in Nat \ {0} /\ acc.held \in [Instruments -> Nat]
  BY IdsOfOne, HeldType DEF Exits, Account
<1>2. CASE Known(acc, id)
  <2>1. new = acc
    BY <1>2 DEF SubmitSell
  <2>2. PICK e \in Days : EnteredOn(acc, e)
    BY DEF Sound
  <2>3. d <= e /\ e <= d
    BY <1>1, <1>2, <2>2 DEF EnteredOn, Sound, Kinds
  <2>4. d = e
    BY <2>3 DEF Days
  <2>. QED
    BY <1>2, <2>1, <2>2, <2>4
<1>3. CASE ~Known(acc, id)
  <2>1. new = FillSell(acc, id, Instrument, qty, price)
    BY <1>3 DEF SubmitSell
  <2>2. qty <= acc.held[Instrument]
    BY <1>1
  <2> HIDE DEF new, qty, id
  <2>3. /\ new \in Account
        /\ new.orders = [acc.orders EXCEPT ![id] = order]
        /\ new.cash = acc.cash + Proceeds(qty, price)
        /\ new.held = [acc.held EXCEPT ![Instrument] = @ - qty]
    BY <1>1, <2>1, <2>2, SellFilled
  <2>4. order \in Order /\ order.status = "FILLED"
    BY <1>1 DEF Made, Order
  <2> HIDE DEF order
  <2>5. new.held[Instrument] = 0
    BY <1>1, <2>3 DEF qty
  <2>6. Grown(acc, new, d, kind, order)
    <3>1. ~Known(acc, <<d, kind>>) /\ new.orders = [acc.orders EXCEPT ![<<d, kind>>] = order]
      BY <1>3, <2>3 DEF id
    <3>. QED
      BY <1>1, <2>3, <2>4, <3>1, OneMore
  <2>7. ASSUME NEW e \in Days, NEW k \in Kinds, Known(new, <<e, k>>)
        PROVE  e <= d /\ new.orders[<<e, k>>].status = "FILLED"
    <3>1. CASE e = d /\ k = kind
      BY <2>4, <2>6, <3>1 DEF Days, Grown
    <3>2. CASE e # d \/ k # kind
      BY <2>6, <2>7, <3>2 DEF Sound, Grown
    <3>. QED
      BY <3>1, <3>2
  <2>8. Cardinality(FilledIn(new, {"buy"})) = Cardinality(FilledIn(new, Exits))
    <3>1. {"buy"} \in SUBSET Kinds /\ Exits \in SUBSET Kinds /\ kind \notin {"buy"} /\ kind \in Exits
      BY <1>1 DEF Kinds, Exits
    <3>2. /\ FilledIn(new, {"buy"}) = FilledIn(acc, {"buy"})
          /\ Cardinality(FilledIn(new, Exits)) = Cardinality(FilledIn(acc, Exits)) + 1
      BY <2>6, <3>1 DEF Grown
    <3>. QED
      BY <3>2 DEF Sound
  <2>9. Cardinality(FilledIn(new, Exits)) \in Nat
    BY FilledFinite DEF Exits
  <2>10. Sound(new, d)
    BY <2>3, <2>5, <2>7, <2>8, <2>9 DEF Sound
  <2>. QED
    BY <1>3, <2>5, <2>10 DEF new, qty, id
<1>. QED
  BY <1>2, <1>3

\* A buy of the size the manager computed, with nothing held.
LEMMA BoughtSound ==
  ASSUME NEW acc \in Account, NEW d \in Days, Sound(acc, d), acc.held[Instrument] = 0,
         NEW price \in Nat \ {0}, NEW r, NEW equity
  PROVE  LET new == SubmitBuy(acc, r, <<d, "buy">>, Instrument, equity, price,
                              Sized(acc.cash, price, StopPct))
         IN /\ Sound(new, d)
            /\ \/ new = acc
               \/ /\ EnteredOn(new, d) /\ new.orders[<<d, "buy">>].price = price
                  /\ Submitted(acc, new, <<d, "buy">>)
<1> DEFINE id == <<d, "buy">>
           qty == Sized(acc.cash, price, StopPct)
           order == Made("BUY", Instrument, qty, price, "FILLED")
           new == SubmitBuy(acc, r, id, Instrument, equity, price, qty)
<1>1. /\ "buy" \in Kinds /\ id \in Ids /\ Instrument \in Instruments /\ acc.cash \in Nat
      /\ acc.held \in [Instruments -> Nat]
  BY IdsOfOne, HeldType DEF Kinds, Account
<1>2. qty \in Nat /\ Cost(qty, price) <= acc.cash
  <2>1. StopPct \in Nat \ {0}
    BY BoundsAssumption
  <2>. QED
    BY <1>1, <2>1, SizedFits
<1>3. \/ new = acc
      \/ ~Known(acc, id) /\ qty > 0 /\ new = FillBuy(acc, id, Instrument, qty, price)
  BY DEF SubmitBuy
<1> HIDE DEF new, qty, id
<1>4. CASE new = acc
  BY <1>4 DEF new, qty, id
<1>5. CASE ~Known(acc, id) /\ qty > 0 /\ new = FillBuy(acc, id, Instrument, qty, price)
  <2>1. qty \in Nat \ {0}
    BY <1>2, <1>5
  <2>2. /\ new \in Account
        /\ new.orders = [acc.orders EXCEPT ![id] = order]
        /\ new.cash = acc.cash - Cost(qty, price)
        /\ new.held = [acc.held EXCEPT ![Instrument] = @ + qty]
    BY <1>1, <1>2, <1>5, <2>1, BuyFilled
  <2>3. order \in Order /\ order.status = "FILLED" /\ order.qty = qty /\ order.price = price
    BY <1>1, <2>1 DEF Made, Order
  <2> HIDE DEF order
  <2>4. new.held[Instrument] = qty
    BY <1>1, <2>1, <2>2
  <2>5. Grown(acc, new, d, "buy", order) /\ new.orders[id] = order /\ Known(new, id)
    <3>1. ~Known(acc, <<d, "buy">>) /\ new.orders = [acc.orders EXCEPT ![<<d, "buy">>] = order]
      BY <1>5, <2>2 DEF id
    <3>2. Grown(acc, new, d, "buy", order)
      BY <1>1, <2>2, <2>3, <3>1, OneMore
    <3>. QED
      BY <3>2 DEF id, Grown
  <2>6. ASSUME NEW e \in Days, NEW k \in Kinds, Known(new, <<e, k>>)
        PROVE  e <= d /\ new.orders[<<e, k>>].status = "FILLED"
    <3>1. CASE e = d /\ k = "buy"
      BY <2>3, <2>5, <3>1 DEF Days, Grown
    <3>2. CASE e # d \/ k # "buy"
      BY <2>5, <2>6, <3>2 DEF Sound, Grown
    <3>. QED
      BY <3>1, <3>2
  <2>7. Cardinality(FilledIn(new, {"buy"})) = Cardinality(FilledIn(new, Exits)) + 1
    <3>1. {"buy"} \in SUBSET Kinds /\ Exits \in SUBSET Kinds /\ "buy" \in {"buy"} /\ "buy" \notin Exits
      BY DEF Kinds, Exits
    <3>2. /\ FilledIn(new, Exits) = FilledIn(acc, Exits)
          /\ Cardinality(FilledIn(new, {"buy"})) = Cardinality(FilledIn(acc, {"buy"})) + 1
      BY <2>5, <3>1 DEF Grown
    <3>3. Cardinality(FilledIn(acc, {"buy"})) = Cardinality(FilledIn(acc, Exits)) + 0
      BY DEF Sound
    <3>4. Cardinality(FilledIn(acc, Exits)) \in Nat
      BY FilledFinite DEF Exits
    <3>. QED
      BY <3>2, <3>3, <3>4
  <2>8. EnteredOn(new, d)
    BY <2>3, <2>4, <2>5, <2>6 DEF EnteredOn, id
  <2>9. Sound(new, d)
    BY <2>1, <2>2, <2>4, <2>6, <2>7, <2>8 DEF Sound
  <2>10. Submitted(acc, new, id)
    BY <2>3, <2>5 DEF Submitted
  <2>. QED
    BY <2>3, <2>5, <2>8, <2>9, <2>10 DEF new, qty, id
<1>. QED
  BY <1>3, <1>4, <1>5

-----------------------------------------------------------------------------
(* Prices *)

LEMMA BarTypes ==
  ASSUME NEW b \in Bars
  PROVE  /\ b.open \in Nat \ {0} /\ b.low \in Nat \ {0} /\ b.high \in Nat \ {0}
         /\ b.low <= b.open /\ b.open <= b.high
BY BarsAssumption

LEMMA BuyPriceType == ASSUME NEW b \in Bars PROVE BuyPrice(b) \in Nat \ {0}
<1>1. b.open \in Nat \ {0} /\ SlippagePct \in Nat
  BY BarTypes, RatesAssumption
<1>. QED
  BY <1>1, MarkedUp DEF BuyPrice

LEMMA SellPriceType ==
  ASSUME NEW b \in Bars, NEW trigger \in Nat, 100 * b.low <= trigger
  PROVE  SellPrice(trigger) \in Nat \ {0}
<1>1. 100 * b.low \in Nat /\ 100 - SlippagePct \in Nat
  BY BarTypes, RatesAssumption
<1>2. /\ SellPrice(100 * b.low) \in Nat /\ SellPrice(trigger) \in Nat
      /\ SellPrice(100 * b.low) <= SellPrice(trigger)
  <2>1. PICK p \in Nat, q \in Nat : /\ p = (100 * b.low) * (100 - SlippagePct)
                                    /\ q = trigger * (100 - SlippagePct)
    BY <1>1
  <2>2. p <= q
    BY <1>1, <2>1, Times
  <2>3. p \div 10000 <= q \div 10000 /\ p \div 10000 \in Nat /\ q \div 10000 \in Nat
    BY <2>2, DivMonotone
  <2>. QED
    BY <2>1, <2>3 DEF SellPrice
<1>. QED
  BY <1>2, WholePricesAssumption

LEMMA FillTypes ==
  ASSUME NEW b \in Bars, NEW level \in Nat
  PROVE  /\ Crossed(b, level) => StopFill(b, level) \in Nat \ {0}
         /\ TargetFill(b, level) \in Nat \ {0}
         /\ SellPrice(100 * b.open) \in Nat \ {0}
<1>1. 100 * b.open \in Nat /\ 100 * b.low \in Nat /\ 100 * b.low <= 100 * b.open
  BY BarTypes
<1>2. ASSUME Crossed(b, level) PROVE StopFill(b, level) \in Nat \ {0}
  <2>1. Lower(100 * b.open, level) \in Nat /\ 100 * b.low <= Lower(100 * b.open, level)
    BY <1>1, <1>2 DEF Lower, Crossed
  <2>. QED
    BY <2>1, SellPriceType DEF StopFill
<1>3. TargetFill(b, level) \in Nat \ {0}
  <2>1. Higher(100 * b.open, level) \in Nat /\ 100 * b.low <= Higher(100 * b.open, level)
    BY <1>1 DEF Higher
  <2>. QED
    BY <2>1, SellPriceType DEF TargetFill
<1>4. SellPrice(100 * b.open) \in Nat \ {0}
  BY <1>1, SellPriceType
<1>. QED
  BY <1>2, <1>3, <1>4

LEMMA DefaultTypes ==
  ASSUME NEW price \in Nat
  PROVE  DefaultStop(price) \in Nat /\ DefaultTarget(price) \in Nat
<1>1. 100 - StopLossPct \in Nat /\ StopLossPct \in Nat /\ RewardPct \in Nat
  BY RatesAssumption
<1>2. price * (100 - StopLossPct) \in Nat /\ price * StopLossPct * RewardPct \in Nat
  BY <1>1
<1>3. PICK p \in Nat : p = price * StopLossPct * RewardPct
  BY <1>2
<1>4. p \div 100 \in Nat
  OBVIOUS
<1>. QED
  BY <1>2, <1>3, <1>4 DEF DefaultStop, DefaultTarget

\* The levels of an entry are as tight as the defaults.
LEMMA LevelTypes ==
  ASSUME NEW advised \in Nat, NEW price \in Nat
  PROVE  /\ StopFor(advised, price) \in Nat /\ DefaultStop(price) <= StopFor(advised, price)
         /\ TargetFor(advised, price) \in Nat /\ TargetFor(advised, price) <= DefaultTarget(price)
BY DefaultTypes DEF StopFor, TargetFor, Higher, Lower

-----------------------------------------------------------------------------
(* The invariant *)

Types ==
  /\ risk \in Risk /\ risk.day <= day
  /\ stop \in Nat /\ target \in Nat
  /\ plan \in [stop : Nat, target : Nat]
  /\ day \in Days
  /\ bar \in Bars

LevelsOfEntry ==
  \A e \in Days : Held > 0 /\ EnteredOn(account, e) =>
    /\ stop # None => stop >= DefaultStop(account.orders[<<e, "buy">>].price)
    /\ target # None => target <= DefaultTarget(account.orders[<<e, "buy">>].price)

LevelsOfBar ==
  \A e \in Days : risk.day = day /\ Held > 0 /\ EnteredOn(account, e) /\ e < day =>
    /\ stop # None => stop < 100 * bar.low
    /\ target # None => 100 * bar.high < target

Inv ==
  /\ Types
  /\ Sound(account, day)
  /\ LevelsOfEntry
  /\ LevelsOfBar

LEMMA NewAccountSound == ASSUME NEW d \in Days PROVE Sound(NewAccount, d)
<1>1. NewAccount \in Account
  BY AccountAssumption DEF NewAccount, Account
<1>2. NewAccount.held[Instrument] = 0
  BY IdsOfOne DEF NewAccount
<1>3. \A id \in Ids : ~Known(NewAccount, id)
  BY DEF NewAccount, Known
<1>4. \A kinds \in SUBSET Kinds : FilledIn(NewAccount, kinds) = {}
  BY <1>3, AccountOfOneAssumption DEF FilledIn
<1>5. {"buy"} \in SUBSET Kinds /\ Exits \in SUBSET Kinds
  BY DEF Kinds, Exits
<1>6. Cardinality({}) = 0
  BY FS_EmptySet
<1>7. \A e \in Days, k \in Kinds : ~Known(NewAccount, <<e, k>>)
  BY <1>3, IdsOfOne
<1>. QED
  BY <1>1, <1>2, <1>4, <1>5, <1>6, <1>7 DEF Sound

LEMMA OneEntry ==
  ASSUME NEW acc, NEW e \in Days, NEW f \in Days, EnteredOn(acc, e), EnteredOn(acc, f)
  PROVE  e = f
<1>1. e <= f /\ f <= e
  BY DEF EnteredOn, Kinds
<1>. QED
  BY <1>1 DEF Days

LEMMA InitInv == Init => Inv
<1> SUFFICES ASSUME Init PROVE Inv
  OBVIOUS
<1>1. 1 \in Days /\ NewRisk \in Risk
  BY BoundsAssumption DEF Days, NewRisk, Risk
<1>2. Types
  BY <1>1 DEF Init, Types, NewRisk, NoPlan, None
<1>3. Sound(account, day)
  BY <1>1, NewAccountSound DEF Init
<1>4. Held = 0
  BY IdsOfOne DEF Init, Held, NewAccount
<1>. QED
  BY <1>2, <1>3, <1>4 DEF Inv, LevelsOfEntry, LevelsOfBar

LEMMA MarkedRiskType == ASSUME Inv PROVE MarkedRisk \in Risk /\ MarkedRisk.day = day
<1>1. account.cash \in Nat /\ Held \in Nat /\ bar.open \in Nat
  BY HeldType, BarTypes DEF Inv, Types, Sound, Held
<1>2. account.cash + 100 * Held * bar.open \in Int
  BY <1>1
<1>3. day \in Nat \ {0} /\ risk \in Risk
  BY BoundsAssumption DEF Inv, Types, Days
<1>. QED
  BY <1>2, <1>3, MarkedRecord DEF MarkedRisk

\* After the stop and target checks nothing is held, or nothing has changed;
\* and if a level was hit, the position is of this very day.
LEMMA ExitedSound ==
  ASSUME Inv
  PROVE  /\ Sound(Exited, day)
         /\ Exited.held[Instrument] > 0 =>
              Exited = account /\ (StopHit \/ TargetHit => EnteredOn(account, day))
<1>1. Sound(account, day) /\ day \in Days /\ bar \in Bars /\ stop \in Nat /\ target \in Nat
  BY DEF Inv, Types
<1>2. account \in Account
  BY <1>1 DEF Sound
<1>3. CASE StopHit
  <2>1. Held > 0 /\ StopFill(bar, stop) \in Nat \ {0}
    BY <1>1, <1>3, FillTypes DEF StopHit
  <2>2. Exited = SubmitSell(account, risk, <<day, "stoploss">>, Instrument,
                            account.held[Instrument], StopFill(bar, stop))
    BY <1>3 DEF Exited, Held
  <2>3. "stoploss" \in Kinds /\ "stoploss" # "buy"
    BY DEF Kinds
  <2>4. /\ Sound(Exited, day)
        /\ ~Known(account, <<day, "stoploss">>) => Exited.held[Instrument] = 0
        /\ Known(account, <<day, "stoploss">>) => Exited = account /\ EnteredOn(account, day)
    BY <1>1, <1>2, <2>1, <2>2, <2>3, SoldSound DEF Held
  <2>. QED
    BY <2>4
<1>4. CASE ~StopHit /\ TargetHit
  <2>1. Held > 0 /\ TargetFill(bar, target) \in Nat \ {0}
    BY <1>1, <1>4, FillTypes DEF TargetHit
  <2>2. Exited = SubmitSell(account, risk, <<day, "target">>, Instrument,
                            account.held[Instrument], TargetFill(bar, target))
    BY <1>4 DEF Exited, Held
  <2>3. "target" \in Kinds /\ "target" # "buy"
    BY DEF Kinds
  <2>4. /\ Sound(Exited, day)
        /\ ~Known(account, <<day, "target">>) => Exited.held[Instrument] = 0
        /\ Known(account, <<day, "target">>) => Exited = account /\ EnteredOn(account, day)
    BY <1>1, <1>2, <2>1, <2>2, <2>3, SoldSound DEF Held
  <2>. QED
    BY <2>4
<1>5. CASE ~StopHit /\ ~TargetHit
  BY <1>1, <1>5 DEF Exited
<1>. QED
  BY <1>3, <1>4, <1>5

\* What a proposal may leave: nothing held; the position as it was, with no
\* level that was hit unless it is of this day; or a new entry at its levels.
LEMMA ProposalInv ==
  ASSUME Inv, UNCHANGED <<day, bar>>, risk' = MarkedRisk, stop' \in Nat, target' \in Nat,
         plan' \in [stop : Nat, target : Nat], Sound(account', day),
         \/ Held' = 0
         \/ /\ account' = account /\ stop' \in {stop, None} /\ target' \in {target, None}
            /\ StopHit \/ TargetHit => EnteredOn(account, day)
         \/ /\ EnteredOn(account', day)
            /\ stop' >= DefaultStop(account'.orders[<<day, "buy">>].price)
            /\ target' <= DefaultTarget(account'.orders[<<day, "buy">>].price)
  PROVE  Inv'
<1>1. Types /\ day \in Days /\ bar \in Bars /\ MarkedRisk \in Risk /\ MarkedRisk.day = day
  BY MarkedRiskType DEF Inv, Types
<1>2. Types'
  BY <1>1 DEF Types, Days
<1>3. Sound(account, day)'
  OBVIOUS
<1>4. CASE Held' = 0
  <2>1. LevelsOfEntry' /\ LevelsOfBar'
    BY <1>4 DEF LevelsOfEntry, LevelsOfBar
  <2>. QED
    BY <1>2, <1>3, <2>1 DEF Inv
<1>5. CASE /\ account' = account /\ stop' \in {stop, None} /\ target' \in {target, None}
           /\ StopHit \/ TargetHit => EnteredOn(account, day)
  <2>1. Held' = Held /\ \A e : EnteredOn(account, e)' <=> EnteredOn(account, e)
    BY <1>5 DEF Held, EnteredOn, Known
  <2>2. LevelsOfEntry'
    BY <1>5, <2>1 DEF Inv, LevelsOfEntry
  <2>3. LevelsOfBar'
    <3> SUFFICES ASSUME NEW e \in Days, Held > 0, EnteredOn(account, e), e < day
                 PROVE  /\ stop' # None => stop' < 100 * bar.low
                        /\ target' # None => 100 * bar.high < target'
      BY <2>1 DEF LevelsOfBar
    <3>1. ~EnteredOn(account, day)
      BY <1>1, OneEntry DEF Days
    <3>2. ~StopHit /\ ~TargetHit
      BY <1>5, <3>1
    <3>3. /\ stop # None => ~(100 * bar.low <= stop)
          /\ target # None => ~(100 * bar.high >= target)
      BY <3>2 DEF StopHit, TargetHit, Crossed, Reached
    <3>4. 100 * bar.low \in Int /\ 100 * bar.high \in Int /\ stop \in Int /\ target \in Int
      BY <1>1, BarTypes DEF Types
    <3>. QED
      BY <1>5, <3>3, <3>4
  <2>. QED
    BY <1>2, <1>3, <2>2, <2>3 DEF Inv
<1>6. CASE /\ EnteredOn(account', day)
           /\ stop' >= DefaultStop(account'.orders[<<day, "buy">>].price)
           /\ target' <= DefaultTarget(account'.orders[<<day, "buy">>].price)
  <2>1. \A e \in Days : EnteredOn(account', e) => e = day
    BY <1>1, <1>6, OneEntry
  <2>2. LevelsOfEntry'
    BY <1>6, <2>1 DEF LevelsOfEntry
  <2>3. LevelsOfBar'
    BY <1>1, <2>1 DEF LevelsOfBar, Days
  <2>. QED
    BY <1>2, <1>3, <2>2, <2>3 DEF Inv
<1>. QED
  BY <1>4, <1>5, <1>6

LEMMA HoldInv == ASSUME Inv, Hold \/ ExitUnrecorded PROVE Inv'
<1>1. /\ account' = Exited /\ risk' = MarkedRisk /\ UNCHANGED <<plan, day, bar>>
      /\ stop' \in {stop, None} /\ target' \in {target, None}
  BY DEF Hold, ExitUnrecorded, Kept
<1>2. stop' \in Nat /\ target' \in Nat /\ plan' \in [stop : Nat, target : Nat]
  BY <1>1 DEF Inv, Types, None
<1>3. Sound(account', day)
  BY <1>1, ExitedSound
<1>4. \/ Held' = 0
      \/ account' = account /\ (StopHit \/ TargetHit => EnteredOn(account, day))
  <2>1. Held' \in Nat
    BY <1>3, HeldType DEF Sound, Held
  <2>. QED
    BY <1>1, <2>1, ExitedSound DEF Held
<1>. QED
  BY <1>1, <1>2, <1>3, <1>4, ProposalInv

LEMMA BuyInv == ASSUME Inv, NEW advice \in Advice, Buy(advice) PROVE Inv'
<1> DEFINE price == BuyPrice(bar)
<1>1. /\ Exited.held[Instrument] = 0 /\ risk' = MarkedRisk /\ UNCHANGED <<day, bar>>
      /\ account' = SubmitBuy(Exited, MarkedRisk, <<day, "buy">>, Instrument, Exited.cash, price,
                              Sized(Exited.cash, price, StopPct))
  BY DEF Buy
<1>2. Sound(Exited, day) /\ Exited \in Account /\ day \in Days /\ price \in Nat \ {0} /\ price \in Nat
  BY ExitedSound, BuyPriceType DEF Inv, Types, Sound
<1>3. /\ StopFor(advice.stop, price) \in Nat /\ TargetFor(advice.target, price) \in Nat
      /\ DefaultStop(price) <= StopFor(advice.stop, price)
      /\ TargetFor(advice.target, price) <= DefaultTarget(price)
      /\ DefaultStop(price) \in Nat /\ DefaultTarget(price) \in Nat
  BY <1>2, LevelTypes, DefaultTypes, AdviceAssumption
<1>4. \/ Submitted(Exited, account', <<day, "buy">>) /\ stop' = StopFor(advice.stop, price)
                                                     /\ target' = TargetFor(advice.target, price)
                                                     /\ plan' \in {plan, [stop |-> stop', target |-> target']}
      \/ ~Submitted(Exited, account', <<day, "buy">>) /\ stop' = Kept(stop) /\ target' = Kept(target)
                                                      /\ plan' = plan
  BY DEF Buy
<1> HIDE DEF price
<1>5. stop' \in Nat /\ target' \in Nat /\ plan' \in [stop : Nat, target : Nat]
  BY <1>3, <1>4 DEF Inv, Types, Kept, None
<1>6. /\ Sound(account', day)
      /\ \/ account' = Exited
         \/ /\ EnteredOn(account', day) /\ account'.orders[<<day, "buy">>].price = price
            /\ Submitted(Exited, account', <<day, "buy">>)
  BY <1>1, <1>2, BoughtSound
<1>7. CASE account' = Exited
  <2>1. Held' = 0
    BY <1>1, <1>7 DEF Held
  <2>. QED
    BY <1>1, <1>5, <1>6, <2>1, ProposalInv
<1>8. CASE /\ EnteredOn(account', day) /\ account'.orders[<<day, "buy">>].price = price
           /\ Submitted(Exited, account', <<day, "buy">>)
  <2>1. /\ stop' >= DefaultStop(account'.orders[<<day, "buy">>].price)
        /\ target' <= DefaultTarget(account'.orders[<<day, "buy">>].price)
    BY <1>3, <1>4, <1>8
  <2>. QED
    BY <1>1, <1>5, <1>6, <1>8, <2>1, ProposalInv
<1>. QED
  BY <1>6, <1>7, <1>8

LEMMA SellInv == ASSUME Inv, Sell PROVE Inv'
<1>1. /\ Exited.held[Instrument] > 0 /\ risk' = MarkedRisk /\ UNCHANGED <<plan, day, bar>>
      /\ account' = SubmitSell(Exited, MarkedRisk, <<day, "sell">>, Instrument,
                               Exited.held[Instrument], SellPrice(100 * bar.open))
      /\ stop' = None /\ target' = None
  BY DEF Sell
<1>2. /\ Sound(Exited, day) /\ Exited \in Account /\ day \in Days
      /\ SellPrice(100 * bar.open) \in Nat \ {0}
      /\ Exited = account /\ (StopHit \/ TargetHit => EnteredOn(account, day))
  <2>1. bar \in Bars /\ stop \in Nat
    BY DEF Inv, Types
  <2>. QED
    BY <1>1, <2>1, ExitedSound, FillTypes DEF Inv, Types, Sound
<1>3. "sell" \in Kinds /\ "sell" # "buy"
  BY DEF Kinds
<1>4. /\ Sound(account', day)
      /\ ~Known(Exited, <<day, "sell">>) => account'.held[Instrument] = 0
      /\ Known(Exited, <<day, "sell">>) => account' = Exited /\ EnteredOn(Exited, day)
  BY <1>1, <1>2, <1>3, SoldSound
<1>5. stop' \in Nat /\ target' \in Nat /\ plan' \in [stop : Nat, target : Nat]
  BY <1>1 DEF Inv, Types, None
<1>6. Held' = 0 \/ account' = account
  BY <1>2, <1>4 DEF Held
<1>. QED
  BY <1>1, <1>2, <1>4, <1>5, <1>6, ProposalInv

LEMMA NewBarInv == ASSUME Inv, NewBar PROVE Inv'
<1>1. /\ day' = day + 1 /\ day \in Days /\ day' \in Days /\ bar' \in Bars
      /\ UNCHANGED <<account, risk, stop, target, plan>>
  BY BoundsAssumption DEF NewBar, Inv, Types, Days
<1>2. Types' /\ risk'.day # day'
  <2>1. risk.day \in Nat /\ day \in Nat /\ risk.day <= day
    BY <1>1 DEF Inv, Types, Risk, Days
  <2>. QED
    BY <1>1, <2>1 DEF Inv, Types
<1>3. Sound(account, day)'
  <2>1. \A e \in Days : e <= day => e <= day'
    BY <1>1 DEF Days
  <2>. QED
    BY <1>1, <2>1 DEF Inv, Sound
<1>4. LevelsOfEntry'
  BY <1>1 DEF Inv, LevelsOfEntry, EnteredOn, Held, Known
<1>5. LevelsOfBar'
  BY <1>2 DEF LevelsOfBar
<1>. QED
  BY <1>2, <1>3, <1>4, <1>5 DEF Inv

LEMMA RestartInv == ASSUME Inv, Restart PROVE Inv'
<1>1. /\ account' = NewAccount /\ risk' = NewRisk /\ stop' = None /\ target' = None
      /\ UNCHANGED <<plan, day, bar>> /\ day \in Days
  BY DEF Restart, Inv, Types
<1>2. NewRisk \in Risk /\ NewRisk.day <= day
  BY <1>1 DEF NewRisk, Risk, Days
<1>3. Types'
  BY <1>1, <1>2 DEF Inv, Types, None
<1>4. Sound(account, day)'
  BY <1>1, NewAccountSound
<1>5. Held' = 0
  BY <1>1, IdsOfOne DEF Held, NewAccount
<1>. QED
  BY <1>3, <1>4, <1>5 DEF Inv, LevelsOfEntry, LevelsOfBar

LEMMA StutterInv == ASSUME Inv, UNCHANGED vars PROVE Inv'
<1>1. UNCHANGED <<account, risk, stop, target, plan, day, bar>>
  BY DEF vars
<1>2. Types' /\ Sound(account, day)'
  BY <1>1 DEF Inv, Types, Sound
<1>3. LevelsOfEntry'
  BY <1>1 DEF Inv, LevelsOfEntry, EnteredOn, Held, Known
<1>4. LevelsOfBar'
  BY <1>1 DEF Inv, LevelsOfBar, EnteredOn, Held, Known
<1>. QED
  BY <1>2, <1>3, <1>4 DEF Inv

-----------------------------------------------------------------------------
(* The theorems *)

\* The strengthening of the three properties: every proposal, bar and restart
\* preserves it.
LEMMA InductiveInvariant == Spec => []Inv
<1>1. Inv /\ [Next]_vars => Inv'
  BY HoldInv, BuyInv, SellInv, NewBarInv, RestartInv, StutterInv DEF Next
<1>. QED
  BY <1>1, InitInv, PTL DEF Spec

\* The account, the levels and the plan keep their types: slippage and sizing
\* never leave a price of nothing or a negative amount.
THEOREM TypeCorrect == Spec => []TypeOK
<1>1. Inv => TypeOK
  BY DEF Inv, Types, Sound, TypeOK
<1>. QED
  BY <1>1, InductiveInvariant, PTL

\* The day the property looks up is the day of the entry.
LEMMA EntryDayIs ==
  ASSUME Inv, Held > 0
  PROVE  EntryDay \in Days /\ EnteredOn(account, EntryDay)
<1>1. PICK e \in Days : EnteredOn(account, e)
  BY DEF Inv, Sound, Held
<1>2. \A f \in Days : <<f, "buy">> \in Filled({"buy"}) <=> Known(account, <<f, "buy">>)
  <2>1. "buy" \in Kinds
    BY DEF Kinds
  <2>. QED
    BY <2>1 DEF Inv, Sound, Filled
<1>3. <<e, "buy">> \in Filled({"buy"}) /\ \A f \in Days : <<f, "buy">> \in Filled({"buy"}) => f <= e
  BY <1>1, <1>2 DEF EnteredOn, Kinds
<1>4. /\ EntryDay \in Days /\ <<EntryDay, "buy">> \in Filled({"buy"})
      /\ \A f \in Days : <<f, "buy">> \in Filled({"buy"}) => f <= EntryDay
  BY <1>3 DEF EntryDay
<1>5. e <= EntryDay /\ EntryDay <= e
  BY <1>3, <1>4
<1>6. EntryDay = e
  BY <1>4, <1>5 DEF Days
<1>. QED
  BY <1>1, <1>6

\* The position is one entry, whatever proposals, stops, targets, repetitions
\* and restarts come in which order (execute, mark_to_market).
THEOREM OneEntryIsHeld == Spec => []PositionIsOneEntry
<1>1. Inv => PositionIsOneEntry
  <2> SUFFICES ASSUME Inv PROVE PositionIsOneEntry
    OBVIOUS
  <2>1. Sound(account, day)
    BY DEF Inv
  <2>2. \A kinds : Filled(kinds) = FilledIn(account, kinds)
    BY DEF Filled, FilledIn
  <2>3. Cardinality(Filled({"buy"})) =
          Cardinality(Filled(Kinds \ {"buy"})) + (IF Held > 0 THEN 1 ELSE 0)
    BY <2>1, <2>2 DEF Sound, Exits, Held
  <2>4. Held > 0 => Held = account.orders[<<EntryDay, "buy">>].qty
    BY EntryDayIs DEF EnteredOn, Held
  <2>5. \A id \in Days \X Kinds : Known(account, id) => account.orders[id].status = "FILLED"
    BY <2>1 DEF Sound
  <2>. QED
    BY <2>3, <2>4, <2>5 DEF PositionIsOneEntry
<1>. QED
  BY <1>1, InductiveInvariant, PTL

\* The levels of a held position are at least as tight as the defaults of its
\* entry price, whatever levels the agent suggests (execute).
THEOREM LevelsAreTight == Spec => []LevelsNeverWiden
<1>1. Inv => LevelsNeverWiden
  <2> SUFFICES ASSUME Inv, Held > 0
               PROVE  /\ stop # None => stop >= DefaultStop(EntryPrice)
                      /\ target # None => target <= DefaultTarget(EntryPrice)
    BY DEF LevelsNeverWiden
  <2>1. EntryDay \in Days /\ EnteredOn(account, EntryDay)
    BY EntryDayIs
  <2>2. EntryPrice = account.orders[<<EntryDay, "buy">>].price
    BY DEF EntryPrice
  <2> HIDE DEF EntryDay
  <2>. QED
    BY <2>1, <2>2 DEF Inv, LevelsOfEntry
<1>. QED
  BY <1>1, InductiveInvariant, PTL

\* No position carried into a bar keeps a level that the bar crossed, once a
\* proposal was made on it (mark_to_market).
THEOREM CrossedLevelsAreEnforced == Spec => []StopsAreEnforced
<1>1. Inv => StopsAreEnforced
  <2> SUFFICES ASSUME Inv, risk.day = day, Held > 0, EntryDay < day
               PROVE  /\ stop # None => stop < 100 * bar.low
                      /\ target # None => 100 * bar.high < target
    BY DEF StopsAreEnforced
  <2>1. EntryDay \in Days /\ EnteredOn(account, EntryDay)
    BY EntryDayIs
  <2>. QED
    BY <2>1 DEF Inv, LevelsOfBar
<1>. QED
  BY <1>1, InductiveInvariant, PTL
=============================================================================
