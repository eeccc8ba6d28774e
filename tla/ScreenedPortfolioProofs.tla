------------------------ MODULE ScreenedPortfolioProofs ------------------------
(***************************************************************************)
(* Theorems of ScreenedPortfolio.  A decision is made on one bar and waits  *)
(* while those before it are executed, so the invariant (Inv) says that     *)
(* what waits still fits: the instruments of the list are distinct, none of *)
(* them was traded since, a BUY passes the screen and is not held, a SELL    *)
(* does not pass.  Every id is dated, and those the list will use are new;  *)
(* without that a buy could repeat an id, count as submitted and replace the *)
(* plan of nothing bought.                                                   *)
(***************************************************************************)
EXTENDS ScreenedPortfolio, PaperTradingProofs

\* An id names a day that came.
DatedIds == \A d \in Days, i \in Instruments, k \in Kinds : Known(account, <<d, i, k>>) => d <= day

\* What decisions of the day, made or to be made, will be placed under.
FreshIds ==
  /\ phase = "decide" =>
       \A i \in Instruments, k \in {"buy", "sell"} : ~Known(account, <<day, i, k>>)
  /\ \A a \in ToSet(decisions), k \in {"buy", "sell"} : ~Known(account, <<day, a.instrument, k>>)
  /\ phase # "done" => \A d \in Days, i \in Instruments : ~Known(account, <<d, i, "final">>)

\* The bars a step reads are there.
DataIsThere ==
  /\ day # 0 => bars \in [Instruments -> Bars]
  /\ day = 0 => phase = "ready" /\ Held = {}
  /\ phase = "decide" => decisions = <<>>
  /\ phase = "done" => decisions = <<>>
  /\ phase = "decide" \/ decisions # <<>> => day # 0 /\ before \in [Instruments -> Bars]

\* What is decided fits the positions and the screen.
DecisionsStand ==
  /\ Distinct(decisions)
  /\ \A a \in ToSet(decisions) : a.action = "BUY" <=> a.instrument \notin Held
  /\ \A a \in ToSet(decisions) : a.action = "BUY" <=> before[a.instrument].passes

Inv == TypeOK /\ DatedIds /\ FreshIds /\ DataIsThere /\ DecisionsStand /\ PositionsAreWatched

-----------------------------------------------------------------------------
(* Prices *)

LEMMA BarTypes ==
  ASSUME NEW b \in Bars
  PROVE  /\ b.open \in Nat \ {0} /\ b.low \in Nat \ {0} /\ b.high \in Nat \ {0}
         /\ b.close \in Nat \ {0} /\ b.atr \in Nat \ {0} /\ b.passes \in BOOLEAN
         /\ b.low <= b.open /\ b.low <= b.close
         /\ b.passes => b.close > StopAtr * b.atr
BY DataAssumption

LEMMA BuyPriceType ==
  ASSUME NEW b \in Bars
  PROVE  BuyPrice(b) \in Nat \ {0}
<1>1. b.open \in Nat \ {0} /\ SlippagePct \in Nat
  BY BarTypes, RatesAssumption
<1>. QED
  BY <1>1, MarkedUp DEF BuyPrice

LEMMA SellPriceType ==
  ASSUME NEW b \in Bars, NEW trigger \in Nat, 100 * b.low <= trigger
  PROVE  SellPrice(trigger) \in Nat \ {0}
<1>1. 100 * b.low \in Nat /\ 100 - SlippagePct \in Nat
  BY BarTypes, RatesAssumption
<1>2. /\ SellPrice(100 * b.low) \in Nat /\ SellPrice(trigger) \in Nat
      /\ SellPrice(100 * b.low) <= SellPrice(trigger)
  <2>1. PICK p \in Nat, q \in Nat : /\ p = (100 * b.low) * (100 - SlippagePct)
                                    /\ q = trigger * (100 - SlippagePct)
    BY <1>1
  <2>2. p <= q
    BY <1>1, <2>1, Times
  <2>3. p \div 10000 <= q \div 10000 /\ p \div 10000 \in Nat /\ q \div 10000 \in Nat
    BY <2>2, DivMonotone
  <2>. QED
    BY <2>1, <2>3 DEF SellPrice
<1>. QED
  BY <1>2, WholePricesAssumption

LEMMA FillTypes ==
  ASSUME NEW b \in Bars
  PROVE  /\ SellPrice(100 * b.open) \in Nat \ {0}
         /\ SellPrice(100 * b.close) \in Nat \ {0}
         /\ \A level \in Nat : Crossed(b, level) => StopFill(b, level) \in Nat \ {0}
         /\ \A level \in Nat : TargetFill(b, level) \in Nat \ {0}
<1>1. /\ 100 * b.open \in Nat /\ 100 * b.low \in Nat /\ 100 * b.close \in Nat
      /\ 100 * b.low <= 100 * b.open /\ 100 * b.low <= 100 * b.close
  BY BarTypes
<1>2. ASSUME NEW level \in Nat, Crossed(b, level) PROVE StopFill(b, level) \in Nat \ {0}
  <2>1. Lower(100 * b.open, level) \in Nat /\ 100 * b.low <= Lower(100 * b.open, level)
    BY <1>1, <1>2 DEF Lower, Crossed
  <2>. QED
    BY <2>1, SellPriceType DEF StopFill
<1>3. ASSUME NEW level \in Nat PROVE TargetFill(b, level) \in Nat \ {0}
  <2>1. Higher(100 * b.open, level) \in Nat /\ 100 * b.low <= Higher(100 * b.open, level)
    BY <1>1 DEF Higher
  <2>. QED
    BY <2>1, SellPriceType DEF TargetFill
<1>4. SellPrice(100 * b.open) \in Nat \ {0} /\ SellPrice(100 * b.close) \in Nat \ {0}
  BY <1>1, SellPriceType
<1>. QED
  BY <1>2, <1>3, <1>4

\* The plan of a candidate that passes has levels on both sides of its close.
LEMMA PlanTypes ==
  ASSUME NEW b \in Bars, b.passes
  PROVE  PlanOf(b) \in Plan /\ PlanOf(b) # NoPlan
<1>1. PICK c \in Nat, k \in Nat : c = b.close /\ k = StopAtr * b.atr /\ c > k /\ c # 0
  BY BarTypes, ConfigAssumption
<1>2. RewardPct \in Nat
  BY RatesAssumption
<1>3. c - (c - k) \in Nat /\ RewardPct * (c - (c - k)) \in Nat
  BY <1>1, <1>2
<1>4. PlanOf(b) = [stop |-> 100 * (c - k), target |-> 100 * c + RewardPct * (c - (c - k))]
  BY <1>1 DEF PlanOf
<1>5. 100 * (c - k) \in Nat \ {0} /\ 100 * c + RewardPct * (c - (c - k)) \in Nat \ {0}
  BY <1>1, <1>3
<1>. QED
  BY <1>4, <1>5 DEF Plan, NoPlan, None

-----------------------------------------------------------------------------
(* The account *)

LEMMA IdTypes ==
  /\ \A d \in Days, i \in Instruments, k \in Kinds : <<d, i, k>> \in Ids
  /\ MaxDays \in Nat \ {0} /\ \A d \in Days : d \in Nat \ {0} /\ d \in 0 .. MaxDays
  /\ \A d \in 0 .. MaxDays : d # 0 => d \in Days
  /\ \A d \in 0 .. MaxDays : d < MaxDays => d + 1 \in Days
BY IdsAssumption, ConfigAssumption DEF Days

LEMMA HeldTypes ==
  ASSUME TypeOK
  PROVE  /\ Held \subseteq Instruments
         /\ \A i \in Instruments : i \in Held <=> account.held[i] \in Nat \ {0}
         /\ \A i \in Instruments : account.held[i] \in Nat
BY AccountTypes DEF TypeOK, Held

\* What is sold out: positions, at prices, under new ids of day d.
Sold(d, new, exits, kind) ==
  /\ new \in Account
  /\ \A i \in Instruments : new.held[i] = IF i \in exits THEN 0 ELSE account.held[i]
  /\ \A c \in Days, i \in Instruments, k \in Kinds :
       Known(new, <<c, i, k>>) <=> Known(account, <<c, i, k>>) \/ (c = d /\ i \in exits /\ k = kind[i])

LEMMA SoldOutcome ==
  ASSUME TypeOK, NEW d \in Days, NEW exits, NEW price, NEW kind, exits \subseteq Held,
         \A i \in exits : /\ price[i] \in Nat \ {0} /\ kind[i] \in Kinds
                          /\ ~Known(account, <<d, i, kind[i]>>),
         NEW new, new = SoldOut(d, exits, price, kind)
  PROVE  Sold(d, new, exits, kind)
<1> DEFINE id == [i \in exits |-> <<d, i, kind[i]>>]
<1>1. account \in Account /\ exits \in SUBSET Instruments
  BY HeldTypes DEF TypeOK
<1>2. \A i \in exits : /\ id[i] = <<d, i, kind[i]>> /\ id[i] \in Ids /\ ~Known(account, id[i])
                       /\ account.held[i] > 0 /\ price[i] \in Nat \ {0}
  BY <1>1, IdTypes DEF Held
<1>3. new = SellEach(account, risk, exits, id, price)
  BY DEF SoldOut
<1>4. Sellable(account, exits, id, price)
  BY <1>2 DEF Sellable
<1> HIDE DEF id
<1>5. SoldAll(account, new, exits, id, price)
  BY <1>1, <1>3, <1>4, SoldEach
<1>6. \A x \in Ids : Known(new, x) <=> Known(account, x) \/ \E i \in exits : x = id[i]
  <2>1. SoldIds(account, new, exits, id)
    BY <1>1, <1>4, <1>5, SoldPlaces
  <2>. QED
    BY <2>1 DEF SoldIds
<1>7. ASSUME NEW c \in Days, NEW i \in Instruments, NEW k \in Kinds
      PROVE  Known(new, <<c, i, k>>) <=> Known(account, <<c, i, k>>) \/ (c = d /\ i \in exits /\ k = kind[i])
  <2>1. <<c, i, k>> \in Ids
    BY IdTypes
  <2>2. (\E j \in exits : <<c, i, k>> = id[j]) <=> (c = d /\ i \in exits /\ k = kind[i])
    BY <1>2
  <2>. QED
    BY <1>6, <2>1, <2>2
<1>. QED
  BY <1>5, <1>7 DEF Sold, SoldAll

-----------------------------------------------------------------------------
(* Initially, and in the three phases *)

LEMMA InitKeeps == Init => Inv
<1> SUFFICES ASSUME Init PROVE Inv
  OBVIOUS
<1>1. NewAccount \in Account /\ \A i \in Instruments : NewAccount.held[i] = 0
  BY AccountAssumption DEF NewAccount, Account
<1>2. \A id \in Ids : ~Known(NewAccount, id)
  BY DEF NewAccount, Known
<1>3. NewRisk \in Risk
  BY DEF NewRisk, Risk
<1>4. TypeOK
  BY <1>1, <1>3, IdTypes DEF Init, TypeOK
<1>5. ToSet(decisions) = {} /\ DOMAIN decisions = {} /\ Held = {}
  BY <1>1 DEF Init, ToSet, Held
<1>6. DatedIds /\ FreshIds
  BY <1>2, <1>5, IdTypes DEF Init, DatedIds, FreshIds, Kinds
<1>7. DataIsThere
  BY <1>5 DEF Init, DataIsThere
<1>8. DecisionsStand
  BY <1>5 DEF DecisionsStand, Distinct
<1>9. PositionsAreWatched
  BY <1>5 DEF Init, PositionsAreWatched
<1>. QED
  BY <1>4, <1>6, <1>7, <1>8, <1>9 DEF Inv

\* A position is only closed as PassingIsKept says.
Kept ==
  \A i \in Instruments : account'.held[i] < account.held[i] =>
    /\ account'.held[i] = 0
    /\ (phase = "ready" /\ decisions = <<>>) \/ ~before[i].passes

LEMMA BarKeeps ==
  ASSUME Inv, NEW b \in [Instruments -> Bars], Bar(b)
  PROVE  Inv' /\ Kept
<1> DEFINE exits == Stopped(b) \cup Reaching(b)
           price == [i \in exits |-> IF i \in Stopped(b) THEN StopFill(b[i], plans[i].stop)
                                     ELSE TargetFill(b[i], plans[i].target)]
           kind == [i \in exits |-> IF i \in Stopped(b) THEN "stop" ELSE "target"]
<1>1. /\ TypeOK /\ phase = "ready" /\ decisions = <<>> /\ day < MaxDays /\ day' = day + 1
      /\ bars' = b /\ before' = bars /\ decisions' = decisions
      /\ risk' = Marked(risk, Equity(account, Opens(b)), day')
      /\ plans' = Cleared(exits) /\ phase' = (IF day = 0 THEN "ready" ELSE "decide")
  BY DEF Inv, Bar, Ending
<1>2. day \in 0 .. MaxDays /\ day' \in Days /\ day' # 0 /\ day' > day /\ day' \in Nat \ {0}
  BY <1>1, IdTypes DEF TypeOK
<1>3. account' = SoldOut(day', exits, price, kind)
  BY DEF Bar
<1>4. exits \subseteq Held /\ exits \subseteq Instruments
  BY <1>1, HeldTypes DEF Stopped, Reaching
<1>5. \A i \in exits : price[i] \in Nat \ {0} /\ kind[i] \in {"stop", "target"}
  <2>1. \A i \in exits : b[i] \in Bars /\ plans[i] \in Plan
    BY <1>1, <1>4 DEF TypeOK, Stopped, Reaching
  <2>2. ASSUME NEW i \in exits, i \in Stopped(b) PROVE price[i] \in Nat \ {0}
    <3>1. Crossed(b[i], plans[i].stop) /\ plans[i].stop \in Nat
      BY <2>1, <2>2 DEF Stopped, Plan
    <3>. QED
      BY <2>1, <2>2, <3>1, FillTypes
  <2>3. ASSUME NEW i \in exits, i \notin Stopped(b) PROVE price[i] \in Nat \ {0}
    <3>1. plans[i].target \in Nat
      BY <2>1 DEF Plan
    <3>. QED
      BY <2>1, <2>3, <3>1, FillTypes
  <2>. QED
    BY <2>2, <2>3
<1>6. \A i \in exits : kind[i] \in Kinds /\ ~Known(account, <<day', i, kind[i]>>)
  <2>1. ~(day' <= day)
    BY <1>2
  <2> HIDE DEF kind
  <2>. QED
    BY <1>2, <1>4, <1>5, <2>1 DEF Inv, DatedIds, Kinds
<1> HIDE DEF kind, price
<1>7. Sold(day', account', exits, kind)
  <2>1. PICK d, new : d = day' /\ new = account'
    OBVIOUS
  <2>2. new = SoldOut(d, exits, price, kind) /\ d \in Days
    BY <1>2, <1>3, <2>1
  <2>3. \A i \in exits : price[i] \in Nat \ {0} /\ kind[i] \in Kinds /\ ~Known(account, <<d, i, kind[i]>>)
    BY <1>5, <1>6, <2>1
  <2> HIDE DEF exits
  <2>4. Sold(d, new, exits, kind)
    BY <1>1, <1>4, <2>2, <2>3, SoldOutcome
  <2>. QED
    BY <2>1, <2>4
<1>8. Held' = Held \ exits
  BY <1>1, <1>7, HeldTypes DEF Sold, Held
<1>9. TypeOK'
  <2>1. risk' \in Risk
    <3>1. Opens(b) \in [Instruments -> Nat]
      BY BarTypes DEF Opens
    <3>2. PICK e \in Nat : e = Equity(account, Opens(b))
      BY <1>1, <3>1, EquityType DEF TypeOK
    <3>3. PICK d \in Nat \ {0} : d = day'
      BY <1>2
    <3>. QED
      BY <1>1, <3>2, <3>3, MarkedRecord DEF TypeOK
  <2>2. plans' \in [Instruments -> Plan \cup {NoPlan}]
    BY <1>1 DEF TypeOK, Cleared
  <2>3. {bars', before'} \subseteq [Instruments -> Bars \cup {NoBar}]
    BY <1>1 DEF TypeOK
  <2>. QED
    BY <1>1, <1>2, <1>7, <2>1, <2>2, <2>3, IdTypes DEF TypeOK, Sold
<1>10. ToSet(decisions') = {}
  BY <1>1 DEF ToSet
<1>11. DatedIds' /\ FreshIds'
  <2>1. \A d \in Days, i \in Instruments, k \in Kinds : Known(account', <<d, i, k>>) =>
          Known(account, <<d, i, k>>) \/ (d = day' /\ i \in exits /\ k = kind[i])
    BY <1>7 DEF Sold
  <2>2. \A d \in Days, i \in Instruments, k \in Kinds : Known(account, <<d, i, k>>) => d <= day
    BY DEF Inv, DatedIds
  <2>3. \A d \in Days : d <= day => d <= day' /\ d # day'
    BY <1>2, IdTypes
  <2>4. DatedIds'
    BY <1>2, <2>1, <2>2, <2>3 DEF DatedIds
  <2>5. \A d \in Days, i \in Instruments : ~Known(account, <<d, i, "final">>)
    BY <1>1 DEF Inv, FreshIds
  <2>6. \A i \in exits : kind[i] \notin {"buy", "sell", "final"}
    BY <1>5
  <2>7. {"buy", "sell", "final"} \subseteq Kinds
    BY DEF Kinds
  <2>8. \A i \in Instruments, k \in {"buy", "sell"} : ~Known(account', <<day', i, k>>)
    BY <1>2, <2>1, <2>2, <2>3, <2>6, <2>7
  <2>9. \A d \in Days, i \in Instruments : ~Known(account', <<d, i, "final">>)
    BY <2>1, <2>5, <2>6, <2>7
  <2>. QED
    BY <1>10, <2>4, <2>8, <2>9 DEF FreshIds
<1>12. DataIsThere'
  BY <1>1, <1>2 DEF Inv, DataIsThere
<1>13. DecisionsStand'
  BY <1>1, <1>10 DEF DecisionsStand, Distinct
<1>14. PositionsAreWatched'
  <2>1. \A i \in Instruments : i \in Held <=> plans[i] # NoPlan
    BY <1>1 DEF Inv, PositionsAreWatched
  <2>2. \A i \in Instruments : plans'[i] = IF i \in exits THEN NoPlan ELSE plans[i]
    BY <1>1 DEF Cleared
  <2>3. \A i \in Instruments : i \in Held' <=> plans'[i] # NoPlan
    BY <1>8, <2>1, <2>2
  <2>4. ASSUME NEW i \in Instruments, i \in Held'
        PROVE  plans'[i].stop < 100 * bars'[i].low /\ 100 * bars'[i].high < plans'[i].target
    <3>1. i \in Held /\ i \notin exits /\ plans[i] # NoPlan /\ plans'[i] = plans[i]
      BY <1>8, <2>1, <2>2, <2>4
    <3>2. ~Crossed(b[i], plans[i].stop) /\ ~Reached(b[i], plans[i].target)
      BY <3>1 DEF Stopped, Reaching
    <3>3. plans[i].stop \in Nat /\ plans[i].target \in Nat /\ b[i].low \in Nat /\ b[i].high \in Nat
      BY <1>1, <3>1, BarTypes DEF TypeOK, Plan
    <3>. QED
      BY <1>1, <3>1, <3>2, <3>3 DEF Crossed, Reached
  <2>. QED
    BY <2>3, <2>4 DEF PositionsAreWatched
<1>20. Kept
  <2>1. account.held \in [Instruments -> Nat]
    BY <1>1, AccountTypes DEF TypeOK
  <2>. QED
    BY <1>1, <1>7, <2>1 DEF Kept, Sold
<1>. QED
  BY <1>9, <1>11, <1>12, <1>13, <1>14, <1>20 DEF Inv

\* A list of decisions made from an order of a set.
LEMMA DecidedList ==
  ASSUME NEW instruments \in SUBSET Instruments, NEW action \in {"BUY", "SELL"},
         NEW p \in Decided(action, instruments)
  PROVE  /\ p \in Seq(Decision) /\ Distinct(p)
         /\ \A a \in ToSet(p) : a.action = action /\ a.instrument \in instruments
<1> DEFINE f == [i \in instruments |-> [instrument |-> i, action |-> action]]
<1>1. PICK order \in SetToSeqs(instruments) :
        p = [n \in DOMAIN order |-> [instrument |-> order[n], action |-> action]]
  BY DEF Decided
<1>2. \A n \in DOMAIN order : order[n] \in instruments
  <2>1. IsFiniteSet(instruments)
    BY HoldingsAssumption, FS_Subset
  <2>. QED
    BY <2>1, OrderOf
<1>3. p = [n \in DOMAIN order |-> f[order[n]]]
  BY <1>1, <1>2
<1>4. \A i \in instruments : f[i] \in Decision /\ f[i].instrument = i /\ f[i].action = action
  BY DEF Decision
<1> HIDE DEF f
<1>5. p \in Seq(Decision) /\ Distinct(p) /\ ToSet(p) = {f[i] : i \in instruments}
  <2>1. PICK g, S, q : g = f /\ S = instruments /\ q = p
    OBVIOUS
  <2>2. S \in SUBSET Instruments /\ order \in SetToSeqs(S)
    BY <2>1
  <2>3. \A i \in S : g[i] \in Decision /\ g[i].instrument = i
    BY <1>4, <2>1
  <2>4. q = [n \in DOMAIN order |-> g[order[n]]]
    BY <1>3, <2>1
  <2>5. q \in Seq(Decision) /\ Distinct(q) /\ ToSet(q) = {g[i] : i \in S}
    BY <2>2, <2>3, <2>4, DistinctListed
  <2>. QED
    BY <2>1, <2>5
<1>. QED
  BY <1>4, <1>5

LEMMA DecideKeeps ==
  ASSUME Inv, Decide
  PROVE  Inv' /\ Kept
<1>1. /\ TypeOK /\ phase = "decide" /\ phase' = "ready" /\ decisions = <<>>
      /\ day # 0 /\ before \in [Instruments -> Bars]
      /\ account' = account /\ risk' = risk /\ day' = day /\ bars' = bars /\ before' = before
      /\ plans' = plans
  BY DEF Inv, DataIsThere, Decide
<1>2. PICK selected, sells, buys :
        /\ selected \in kSubset(Lower(Slots, Cardinality(Passing)), Passing)
        /\ sells \in Decided("SELL", Held \ Passing) /\ buys \in Decided("BUY", Entering(selected))
        /\ decisions' = sells \o buys
  BY DEF Decide
<1>3. Held \subseteq Instruments /\ Held' = Held /\ selected \subseteq Passing
      /\ Entering(selected) \subseteq Passing \ Held /\ Passing \subseteq Instruments
  BY <1>1, <1>2, HeldTypes DEF kSubset, Entering, Passing, Held
<1>4. /\ sells \in Seq(Decision) /\ Distinct(sells)
      /\ \A a \in ToSet(sells) : a.action = "SELL" /\ a.instrument \in Held \ Passing
  BY <1>2, <1>3, DecidedList
<1>5. /\ buys \in Seq(Decision) /\ Distinct(buys)
      /\ \A a \in ToSet(buys) : a.action = "BUY" /\ a.instrument \in Passing \ Held
  BY <1>2, <1>3, DecidedList
<1>6. /\ decisions' \in Seq(Decision) /\ Distinct(decisions')
      /\ ToSet(decisions') = ToSet(sells) \cup ToSet(buys)
  BY <1>2, <1>4, <1>5, DistinctJoined
<1>7. TypeOK'
  BY <1>1, <1>6 DEF TypeOK
<1>8. DatedIds'
  BY <1>1 DEF Inv, DatedIds
<1>9. FreshIds'
  BY <1>1, <1>3, <1>4, <1>5, <1>6 DEF Inv, FreshIds
<1>10. DataIsThere'
  BY <1>1, <1>3 DEF Inv, DataIsThere
<1>11. DecisionsStand'
  BY <1>1, <1>3, <1>4, <1>5, <1>6 DEF DecisionsStand, Passing
<1>12. PositionsAreWatched'
  BY <1>1, <1>3 DEF Inv, PositionsAreWatched
<1>20. Kept
  BY <1>1, HeldTypes DEF Kept
<1>. QED
  BY <1>7, <1>8, <1>9, <1>10, <1>11, <1>12, <1>20 DEF Inv

\* What the first decision of the list is, and what is left of it.
LEMMA Taken ==
  ASSUME Inv, TakeDecision
  PROVE  /\ Current \in Decision /\ Current \in ToSet(decisions) /\ Current.instrument \in Instruments
         /\ decisions' \in Seq(Decision) /\ Distinct(decisions')
         /\ ToSet(decisions') \subseteq ToSet(decisions)
         /\ \A a \in ToSet(decisions') : a.instrument # Current.instrument /\ a.instrument \in Instruments
         /\ phase = "ready" /\ phase' = "ready" /\ day \in Days /\ day' = day /\ risk' = risk
         /\ bars \in [Instruments -> Bars] /\ before \in [Instruments -> Bars]
         /\ bars' = bars /\ before' = before
         /\ Current.action = "BUY" <=> before[Current.instrument].passes
<1>1. decisions \in Seq(Decision) /\ Distinct(decisions) /\ decisions # <<>> /\ decisions' = Tail(decisions)
  BY DEF Inv, TypeOK, DecisionsStand, TakeDecision
<1>2. /\ decisions' \in Seq(Decision) /\ Distinct(decisions') /\ Current \in ToSet(decisions)
      /\ ToSet(decisions') \subseteq ToSet(decisions)
      /\ \A a \in ToSet(decisions') : a.instrument # Current.instrument
  BY <1>1, DistinctTail DEF Current
<1>3. ToSet(decisions) \subseteq Decision
  BY <1>1, SeqDomain
<1>4. \A a \in ToSet(decisions) : a \in Decision /\ a.instrument \in Instruments
  BY <1>3 DEF Decision
<1>5. phase = "ready" /\ day # 0 /\ day \in Days /\ before \in [Instruments -> Bars] /\ bars \in [Instruments -> Bars]
  BY <1>1, IdTypes DEF Inv, TypeOK, DataIsThere
<1>6. Current.action = "BUY" <=> before[Current.instrument].passes
  BY <1>2 DEF Inv, DecisionsStand
<1>. QED
  BY <1>2, <1>4, <1>5, <1>6 DEF TakeDecision

LEMMA SellKeeps ==
  ASSUME Inv, ExecuteSell
  PROVE  Inv' /\ Kept
<1> DEFINE i == Current.instrument
           price == [j \in {i} |-> SellPrice(100 * bars[i].open)]
           kind == [j \in {i} |-> "sell"]
<1>1. /\ TypeOK /\ TakeDecision /\ i \in Held /\ account' = SoldOut(day, {i}, price, kind)
      /\ plans' = Cleared({i})
  BY DEF Inv, ExecuteSell
<1>14. Current.action = "SELL" /\ (Current.action = "BUY" <=> before[i].passes)
  BY Taken DEF ExecuteSell
<1>2. /\ i \in Instruments /\ Current \in ToSet(decisions)
      /\ decisions' \in Seq(Decision) /\ Distinct(decisions')
      /\ ToSet(decisions') \subseteq ToSet(decisions)
      /\ \A a \in ToSet(decisions') : a.instrument # i /\ a.instrument \in Instruments
      /\ phase = "ready" /\ phase' = "ready" /\ day \in Days /\ day' = day /\ risk' = risk
      /\ bars \in [Instruments -> Bars] /\ before \in [Instruments -> Bars]
      /\ bars' = bars /\ before' = before
  BY <1>1, Taken
<1>3. price[i] \in Nat \ {0}
  BY <1>2, FillTypes
<1>4. kind[i] = "sell" /\ ~Known(account, <<day, i, "sell">>)
  BY <1>2 DEF Inv, FreshIds
<1> HIDE DEF price, kind, i
<1>5. Sold(day, account', {i}, kind)
  <2>1. PICK exits, new : exits = {i} /\ new = account'
    OBVIOUS
  <2>2. \A j \in exits : price[j] \in Nat \ {0} /\ kind[j] \in Kinds /\ ~Known(account, <<day, j, kind[j]>>)
    BY <1>3, <1>4, <2>1 DEF Kinds
  <2>3. new = SoldOut(day, exits, price, kind) /\ exits \subseteq Held
    BY <1>1, <2>1
  <2>4. Sold(day, new, exits, kind)
    BY <1>1, <1>2, <2>2, <2>3, SoldOutcome
  <2>. QED
    BY <2>1, <2>4
<1>6. Held' = Held \ {i}
  BY <1>1, <1>5, HeldTypes DEF Sold, Held
<1>7. \A d \in Days, j \in Instruments, k \in Kinds :
        Known(account', <<d, j, k>>) <=> Known(account, <<d, j, k>>) \/ (d = day /\ j = i /\ k = "sell")
  <2>1. \A d \in Days, j \in Instruments, k \in Kinds :
          Known(account', <<d, j, k>>) <=>
            Known(account, <<d, j, k>>) \/ (d = day /\ j \in {i} /\ k = kind[j])
    BY <1>5 DEF Sold
  <2>. QED
    BY <1>4, <2>1
<1>8. TypeOK'
  <2>1. plans' \in [Instruments -> Plan \cup {NoPlan}]
    BY <1>1 DEF TypeOK, Cleared
  <2>. QED
    BY <1>1, <1>2, <1>5, <2>1 DEF TypeOK, Sold
<1>9. DatedIds'
  BY <1>2, <1>7, IdTypes DEF Inv, DatedIds
<1>10. FreshIds'
  <2>1. {"buy", "sell", "final"} \subseteq Kinds
    BY DEF Kinds
  <2>2. \A a \in ToSet(decisions'), k \in {"buy", "sell"} : ~Known(account', <<day, a.instrument, k>>)
    BY <1>2, <1>7, <2>1 DEF Inv, FreshIds
  <2>3. \A d \in Days, j \in Instruments : ~Known(account', <<d, j, "final">>)
    BY <1>2, <1>7, <2>1 DEF Inv, FreshIds
  <2>. QED
    BY <1>2, <2>2, <2>3 DEF FreshIds
<1>11. DataIsThere'
  BY <1>2, IdTypes DEF DataIsThere
<1>12. DecisionsStand'
  BY <1>2, <1>6 DEF Inv, DecisionsStand
<1>13. PositionsAreWatched'
  <2>1. \A j \in Instruments : j \in Held <=> plans[j] # NoPlan
    BY <1>2 DEF Inv, PositionsAreWatched
  <2>2. \A j \in Instruments : plans'[j] = IF j \in {i} THEN NoPlan ELSE plans[j]
    BY <1>1 DEF Cleared
  <2>. QED
    BY <1>2, <1>6, <2>1, <2>2 DEF PositionsAreWatched
<1>20. Kept
  <2>1. \A j \in Instruments : account.held[j] \in Nat
    BY <1>1, HeldTypes
  <2>2. ~before[i].passes
    BY <1>1, <1>14
  <2>. QED
    BY <1>5, <2>1, <2>2 DEF Kept, Sold
<1>. QED
  BY <1>8, <1>9, <1>10, <1>11, <1>12, <1>13, <1>20 DEF Inv

LEMMA BuyKeeps ==
  ASSUME Inv, ExecuteBuy
  PROVE  Inv' /\ Kept
<1> DEFINE i == Current.instrument
           id == <<day, i, "buy">>
           price == BuyPrice(bars[i])
           qty == Sized(account.cash, price, StopPct)
<1>1. /\ TypeOK /\ TakeDecision /\ Current.action = "BUY" /\ i \notin Held
      /\ account' = SubmitBuy(account, risk, id, i, ToldEquity, price, qty)
      /\ plans' = IF Submitted(account, account', id) THEN [plans EXCEPT ![i] = PlanOf(before[i])] ELSE plans
  BY DEF Inv, ExecuteBuy
<1>2. /\ i \in Instruments /\ Current \in ToSet(decisions)
      /\ decisions' \in Seq(Decision) /\ Distinct(decisions')
      /\ ToSet(decisions') \subseteq ToSet(decisions)
      /\ \A a \in ToSet(decisions') : a.instrument # i /\ a.instrument \in Instruments
      /\ phase = "ready" /\ phase' = "ready" /\ day \in Days /\ day' = day /\ risk' = risk
      /\ bars \in [Instruments -> Bars] /\ before \in [Instruments -> Bars]
      /\ bars' = bars /\ before' = before
      /\ before[i].passes
  BY <1>1, Taken
<1>3. id \in Ids /\ ~Known(account, id)
  BY <1>2, IdTypes DEF Inv, FreshIds, Kinds
<1>4. price \in Nat \ {0}
  BY <1>2, BuyPriceType
<1>5. account \in Account /\ account.cash \in Nat
  BY <1>1, AccountTypes DEF TypeOK
<1> HIDE DEF i, price, id
<1>6. qty \in Nat /\ Cost(qty, price) <= account.cash
  <2>1. StopPct \in Nat \ {0}
    BY DEF StopPct
  <2>2. PICK cash \in Nat : cash = account.cash
    BY <1>5
  <2>. QED
    BY <1>4, <2>1, <2>2, SizedFits
<1> HIDE DEF qty
<1>7. \/ BoughtOne(account, account', id, i, price, qty) /\ Submitted(account, account', id)
      \/ account' = account /\ ~Submitted(account, account', id)
  <2>1. PICK new, acc, e : new = account' /\ acc = account /\ e = ToldEquity
    OBVIOUS
  <2>2. new = SubmitBuy(acc, risk, id, i, e, price, qty) /\ acc \in Account /\ ~Known(acc, id) /\ Cost(qty, price) <= acc.cash
    BY <1>1, <1>3, <1>5, <1>6, <2>1
  <2>3. PICK r, x, j, p, q : r = risk /\ x = id /\ j = i /\ p = price /\ q = qty
    OBVIOUS
  <2>4. /\ x \in Ids /\ ~Known(acc, x) /\ new = SubmitBuy(acc, r, x, j, e, p, q)
        /\ j \in Instruments /\ p \in Nat \ {0} /\ q \in Nat /\ Cost(q, p) <= acc.cash
    BY <1>2, <1>3, <1>4, <1>6, <2>2, <2>3
  <2>5. \/ BoughtOne(acc, new, x, j, p, q) /\ Submitted(acc, new, x)
        \/ new = acc /\ ~Submitted(acc, new, x)
    BY <2>2, <2>4, BuyOutcome
  <2>. QED
    BY <2>1, <2>3, <2>5
<1>8. PlanOf(before[i]) \in Plan /\ PlanOf(before[i]) # NoPlan
  BY <1>2, PlanTypes
<1>9. account' \in Account
  BY <1>5, <1>7 DEF BoughtOne
<1>10. \/ Held' = Held \cup {i} /\ plans' = [plans EXCEPT ![i] = PlanOf(before[i])]
       \/ Held' = Held /\ plans' = plans
  <2>1. CASE BoughtOne(account, account', id, i, price, qty) /\ Submitted(account, account', id)
    <3>1. account'.held = [account.held EXCEPT ![i] = @ + qty] /\ qty \in Nat \ {0}
      BY <2>1 DEF BoughtOne
    <3>2. account.held \in [Instruments -> Nat]
      BY <1>5, AccountTypes
    <3>3. Held' = Held \cup {i}
      BY <1>2, <3>1, <3>2 DEF Held
    <3>. QED
      BY <1>1, <2>1, <3>3
  <2>2. CASE account' = account /\ ~Submitted(account, account', id)
    BY <1>1, <2>2 DEF Held
  <2>. QED
    BY <1>7, <2>1, <2>2
<1>11. \A d \in Days, j \in Instruments, k \in Kinds : Known(account', <<d, j, k>>) =>
         Known(account, <<d, j, k>>) \/ (d = day /\ j = i /\ k = "buy")
  BY <1>7, IdTypes DEF BoughtOne, OnlyPlaced, id
<1>12. TypeOK'
  <2>1. plans' \in [Instruments -> Plan \cup {NoPlan}]
    BY <1>1, <1>2, <1>8, <1>10 DEF TypeOK
  <2>. QED
    BY <1>1, <1>2, <1>9, <2>1 DEF TypeOK
<1>13. DatedIds'
  BY <1>2, <1>11, IdTypes DEF Inv, DatedIds
<1>14. FreshIds'
  <2>1. {"buy", "sell", "final"} \subseteq Kinds
    BY DEF Kinds
  <2>2. \A a \in ToSet(decisions'), k \in {"buy", "sell"} : ~Known(account', <<day, a.instrument, k>>)
    BY <1>2, <1>11, <2>1 DEF Inv, FreshIds
  <2>3. \A d \in Days, j \in Instruments : ~Known(account', <<d, j, "final">>)
    BY <1>2, <1>11, <2>1 DEF Inv, FreshIds
  <2>. QED
    BY <1>2, <2>2, <2>3 DEF FreshIds
<1>15. DataIsThere'
  BY <1>2, IdTypes DEF DataIsThere
<1>16. DecisionsStand'
  BY <1>2, <1>10 DEF Inv, DecisionsStand
<1>17. PositionsAreWatched'
  <2>1. \A j \in Instruments : j \in Held <=> plans[j] # NoPlan
    BY <1>2 DEF Inv, PositionsAreWatched
  <2>2. plans \in [Instruments -> Plan \cup {NoPlan}]
    BY <1>1 DEF TypeOK
  <2>3. \A j \in Instruments : j \in Held' <=> plans'[j] # NoPlan
    BY <1>2, <1>8, <1>10, <2>1, <2>2
  <2>. QED
    BY <1>2, <2>3 DEF PositionsAreWatched
<1>20. Kept
  <2>1. \A j \in Instruments : account.held[j] \in Nat
    BY <1>1, HeldTypes
  <2>2. \A j \in Instruments : account'.held[j] = account.held[j] \/ account'.held[j] = account.held[j] + qty
    BY <1>5, <1>7, AccountTypes DEF BoughtOne
  <2>. QED
    BY <1>6, <2>1, <2>2 DEF Kept
<1>. QED
  BY <1>12, <1>13, <1>14, <1>15, <1>16, <1>17, <1>20 DEF Inv

LEMMA FinishKeeps ==
  ASSUME Inv, Finish
  PROVE  Inv' /\ Kept
<1> DEFINE price == [i \in Held |-> SellPrice(100 * bars[i].close)]
           kind == [i \in Held |-> "final"]
<1>1. /\ TypeOK /\ phase = "ready" /\ decisions = <<>> /\ day = MaxDays /\ phase' = "done"
      /\ risk' = risk /\ day' = day /\ bars' = bars /\ before' = before
      /\ decisions' = decisions /\ plans' = plans
      /\ account' = SoldOut(day, Held, price, kind)
  BY DEF Inv, Finish
<1>2. day \in Days /\ day # 0 /\ bars \in [Instruments -> Bars] /\ Held \subseteq Instruments
  BY <1>1, IdTypes, HeldTypes DEF Inv, DataIsThere
<1>3. \A i \in Held : price[i] \in Nat \ {0} /\ kind[i] = "final" /\ ~Known(account, <<day, i, "final">>)
  BY <1>1, <1>2, FillTypes DEF Inv, FreshIds
<1> HIDE DEF price, kind
<1>4. Sold(day, account', Held, kind)
  <2>1. PICK exits, new : exits = Held /\ new = account'
    OBVIOUS
  <2>2. \A j \in exits : price[j] \in Nat \ {0} /\ kind[j] \in Kinds /\ ~Known(account, <<day, j, kind[j]>>)
    BY <1>3, <2>1 DEF Kinds
  <2>3. new = SoldOut(day, exits, price, kind) /\ exits \subseteq Held
    BY <1>1, <2>1
  <2>4. Sold(day, new, exits, kind)
    BY <1>1, <1>2, <2>2, <2>3, SoldOutcome
  <2>. QED
    BY <2>1, <2>4
<1>5. \A d \in Days, j \in Instruments, k \in Kinds : Known(account', <<d, j, k>>) =>
         Known(account, <<d, j, k>>) \/ d = day
  BY <1>4 DEF Sold
<1>6. ToSet(decisions') = {}
  BY <1>1 DEF ToSet
<1>7. TypeOK'
  BY <1>1, <1>4 DEF TypeOK, Sold
<1>8. DatedIds'
  BY <1>1, <1>2, <1>5, IdTypes DEF Inv, DatedIds
<1>9. FreshIds' /\ DataIsThere' /\ DecisionsStand' /\ PositionsAreWatched'
  BY <1>1, <1>2, <1>6 DEF FreshIds, DataIsThere, DecisionsStand, Distinct, PositionsAreWatched
<1>20. Kept
  <2>1. \A j \in Instruments : account.held[j] \in Nat
    BY <1>1, HeldTypes
  <2>. QED
    BY <1>1, <1>4, <2>1 DEF Kept, Sold
<1>. QED
  BY <1>7, <1>8, <1>9, <1>20 DEF Inv

LEMMA NextKeeps == Inv /\ [Next]_vars => Inv' /\ [Kept]_vars
<1> SUFFICES ASSUME Inv, [Next]_vars PROVE Inv' /\ [Kept]_vars
  OBVIOUS
<1>1. ASSUME NEW b \in [Instruments -> Bars], Bar(b) PROVE Inv' /\ Kept
  BY <1>1, BarKeeps
<1>2. CASE Decide
  BY <1>2, DecideKeeps
<1>3. CASE ExecuteSell
  BY <1>3, SellKeeps
<1>4. CASE ExecuteBuy
  BY <1>4, BuyKeeps
<1>5. CASE Finish
  BY <1>5, FinishKeeps
<1>6. CASE UNCHANGED vars
  BY <1>6 DEF vars, Inv, TypeOK, DatedIds, FreshIds, DataIsThere, DecisionsStand, PositionsAreWatched,
              Held, Distinct
<1>. QED
  BY <1>1, <1>2, <1>3, <1>4, <1>5, <1>6 DEF Next

LEMMA InductiveInvariant == Spec => []Inv
BY InitKeeps, NextKeeps, PTL DEF Spec

-----------------------------------------------------------------------------
(* Theorems *)

\* Every variable keeps its type: no sale or buy of run takes the cash or a
\* position below zero, and every plan has two positive levels.
THEOREM TypeCorrect == Spec => []TypeOK
<1>1. Inv => TypeOK
  BY DEF Inv
<1>. QED
  BY <1>1, InductiveInvariant, PTL

\* Between the bars the positions are those with plans, and no bar that was
\* processed had crossed a level of one that is left (run, _sell,
\* _execute_decisions).
THEOREM PositionsHavePlans == Spec => []PositionsAreWatched
<1>1. Inv => PositionsAreWatched
  BY DEF Inv
<1>. QED
  BY <1>1, InductiveInvariant, PTL

\* What build_portfolio_decisions decided fits when _execute_decisions comes
\* to it, however many decisions there were before.
THEOREM DecisionsStillFit == Spec => []DecisionsFit
<1>1. Inv => DecisionsFit
  <2> SUFFICES ASSUME Inv PROVE DecisionsFit
    OBVIOUS
  <2>1. \A n \in DOMAIN decisions : decisions[n] \in ToSet(decisions)
    BY SeqDomain DEF Inv, TypeOK
  <2>. QED
    BY <2>1 DEF Inv, DecisionsStand, DecisionsFit
<1>. QED
  BY <1>1, InductiveInvariant, PTL

\* No position of an instrument that passes is sold but by its levels or at
\* the end, and none is sold in part (run, build_portfolio_decisions).
THEOREM WhatPassesIsKept == Spec => PassingIsKept
<1>1. Inv /\ [Next]_vars => [Kept]_vars
  BY NextKeeps
<1>2. [][Kept]_vars => PassingIsKept
  BY DEF Kept, PassingIsKept
<1>. QED
  BY <1>1, <1>2, InductiveInvariant, PTL DEF Spec
=============================================================================
